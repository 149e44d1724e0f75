-------------------- MODULE PredictionSetLifecycleProofs --------------------
(***************************************************************************)
(* Theorems about the life of a prediction set, for any outcomes, requests *)
(* and create workers, and any bounds:                                     *)
(*                                                                         *)
(*   NeverAheadOfMarket   Spec => []MarketBehindStatus                     *)
(*   NeverAheadOfOracle   Spec => []OracleBehindStatus                     *)
(*                                                                         *)
(* Every writer saves a row it read earlier, so the invariant is about the *)
(* rows in memory as much as about the one in the table (Everywhere): all  *)
(* of them are backed by what the chain has done, up to a status stated by *)
(* a form, which every copy of the row carries along.  It is inductive     *)
(* because the chain never takes those facts back (ChainGrows), and        *)
(* because each process that is about to write a status has seen its fact  *)
(* (Seen).                                                                 *)
(***************************************************************************)
EXTENDS PredictionSetLifecycle, TLAPS

Decided == question.status = "FINALIZED"
PastActive == question.status \in {"VOTING", "FINALIZED"}

Backed(r) == BackedByMarket(r) /\ BackedByOracle(r)

\* The row in the table, and every row in memory.
Everywhere == Backed(row) /\ \A p \in Process : Backed(read[p])

\* What a process, or a stream of events, has seen of the chain.
Seen ==
  /\ pc["indexer"] # "down" => chainData = "deployed"
  /\ pc["finalizer"] = "toVoting" => PastActive
  /\ pc["finalizer"] = "toFinalized" => Decided
  /\ pc["voting"] = "commit" => PastActive
  /\ votes # << >> => PastActive

\* Types, as far as the argument needs them.
Typed ==
  /\ pc \in [Process -> Steps]
  /\ read \in [Process -> Row]
  /\ row \in Row
  /\ question \in Question
  /\ Decided => question.winner \in Outcome

IInv == Typed /\ Seen /\ Everywhere

\* No step takes back what the chain has done for the set, and a decided
\* question is never changed.
LEMMA ChainGrows ==
  ASSUME [Next]_vars
  PROVE  /\ chainData = "deployed" => chainData' = "deployed"
         /\ market = "funded" => market' = "funded"
         /\ PastActive => PastActive'
         /\ Decided => question' = question
<1>1. CASE \E r \in Request : Api(r)
  BY <1>1 DEF Api, LoadRequest, ProcessWrite, Send, UpdateWrite, HideWrite, DeleteWrite,
              chain, PastActive
<1>2. CASE \E c \in Creator : Create(c) \/ IgnoreMessage(c) \/ CreationFails(c) \/ SaveFails(c)
  BY <1>2 DEF Create, ReceiveMessage, InitializeQuestion, InitializeReverts, CreateMarket,
              RecordChainData, FailCreation, IgnoreMessage, CreationFails, SaveFails, chain,
              PastActive, Decided
<1>3. CASE Factory \/ Indexer \/ VotingParser \/ (\E p \in Process : Crash(p))
  BY <1>3 DEF Factory, FactoryRead, FactoryCommit, Indexer, StartIndexer, StopIndexer,
              IndexerRead, IndexerCommit, VotingParser, VotingRead, VotingCommit, VotingSkip,
              Crash, chain, PastActive
<1>4. CASE Finalizer
  BY <1>4 DEF Finalizer, SelectDue, EvidenceMissing, EvidenceRefused, FinalizeQuestion,
              FinalizeLate, QuestionRead, FinalizerWrite, chain, PastActive, Decided
<1>5. CASE Environment
  BY <1>5 DEF Environment, AddFunding, ForceVoting, SubmitVote, ResolutionTime, chain,
              PastActive, Decided
<1>6. CASE UNCHANGED vars
  BY <1>6 DEF vars, PastActive
<1> QED
  BY <1>1, <1>2, <1>3, <1>4, <1>5, <1>6 DEF Next

\* Backed(r) in the next state, of a row that does not change.
BackedNext(r) ==
  /\ ~r.stated =>
       /\ r.setStatus \in {"FUNDING", "ACTIVE"} => chainData' = "deployed"
       /\ r.setStatus = "ACTIVE" => market' = "funded"
       /\ r.setStatus = "VOTING" => PastActive'
       /\ r.setStatus = "FINALIZED" => r.winner # NoOutcome
  /\ r.winner # NoOutcome => Decided' /\ r.winner = question'.winner

\* A row that the chain backs stays backed.
LEMMA StaysBacked ==
  ASSUME [Next]_vars, NEW r, Backed(r)
  PROVE  BackedNext(r)
  BY ChainGrows
  DEF Backed, BackedNext, BackedByMarket, BackedByOracle, PastActive, Decided

\* So does a row saved with a status whose fact the chain shows.
LEMMA SaveBacked ==
  ASSUME [Next]_vars, NEW r \in Row, Backed(r), NEW status \in SetStatus,
         status # "FINALIZED",
         status \in {"FUNDING", "ACTIVE"} => chainData' = "deployed",
         status = "ACTIVE" => market' = "funded",
         status = "VOTING" => PastActive'
  PROVE  BackedNext([r EXCEPT !.setStatus = status, !.stated = FALSE])
  BY StaysBacked DEF BackedNext, Row

\* A form states a status, but never a winner.
LEMMA FormBacked ==
  ASSUME [Next]_vars, NEW r \in Row, Backed(r), NEW status \in SetStatus
  PROVE  FilledIn(r, status) \in Row /\ BackedNext(FilledIn(r, status))
  BY StaysBacked DEF BackedNext, FilledIn, Row

\* A result is saved only from a decided question.
LEMMA ResultBacked ==
  ASSUME [Next]_vars, Typed, Decided, NEW r \in Row
  PROVE  BackedNext(Finalized(r))
<1>1. question' = question /\ Decided'
  BY ChainGrows DEF Decided
<1>2. question.winner # NoOutcome
  BY LifecycleAssumption DEF Typed, LifecycleAssumption
<1> QED
  BY <1>1, <1>2 DEF BackedNext, Finalized, Row

LEMMA NewRowBacked == [Next]_vars => BackedNext(NewRow)
  BY DEF BackedNext, NewRow

\* A process keeps what it read, reads the row, or forgets.
LEMMA ReadStep ==
  ASSUME Typed, [Next]_vars
  PROVE  /\ read' \in [Process -> Row]
         /\ pc' \in [Process -> Steps]
         /\ \A p \in Process : read'[p] \in {read[p], row, NewRow}
<1> USE DEF Typed, Goto, Load, Finish
<1>1. NewRow \in Row
  BY DEF NewRow, Row, SetStatus
<1>2. /\ "idle" \in Steps /\ "down" \in Steps
      /\ {"factory", "indexer", "finalizer", "voting"} \cup Request \cup Creator = Process
  BY DEF Steps, Process
<1>3. CASE \E r \in Request : Api(r)
  BY <1>1, <1>2, <1>3, LifecycleAssumption
  DEF Api, LoadRequest, ProcessWrite, Send, UpdateWrite, HideWrite, DeleteWrite, Steps,
      LifecycleAssumption
<1>4. CASE \E c \in Creator : Create(c) \/ IgnoreMessage(c) \/ CreationFails(c) \/ SaveFails(c)
  BY <1>1, <1>2, <1>4
  DEF Create, ReceiveMessage, InitializeQuestion, InitializeReverts, CreateMarket,
      RecordChainData, FailCreation, IgnoreMessage, CreationFails, SaveFails, Steps
<1>5. CASE Factory \/ Indexer \/ VotingParser
  BY <1>1, <1>2, <1>5
  DEF Factory, FactoryRead, FactoryCommit, Indexer, StartIndexer, StopIndexer, IndexerRead,
      IndexerCommit, VotingParser, VotingRead, VotingCommit, VotingSkip, Steps
<1>6. CASE Finalizer
  BY <1>1, <1>2, <1>6
  DEF Finalizer, SelectDue, EvidenceMissing, EvidenceRefused, FinalizeQuestion,
      FinalizeLate, QuestionRead, FinalizerWrite, Steps
<1>7. CASE Environment \/ UNCHANGED vars
  BY <1>7 DEF Environment, AddFunding, ForceVoting, SubmitVote, ResolutionTime, vars
<1>8. CASE \E p \in Process : Crash(p)
  BY <1>1, <1>2, <1>8 DEF Crash
<1> QED
  BY <1>3, <1>4, <1>5, <1>6, <1>7, <1>8 DEF Next

\* What every writer saves is a row, and the chain backs it: an earlier status
\* of the set, or the status of an event or of a question the writer has seen.
LEMMA RowStep ==
  ASSUME IInv, [Next]_vars
  PROVE  row' \in Row /\ BackedNext(row')
<1> USE DEF IInv, Typed
<1>1. CASE UNCHANGED row
  BY <1>1, StaysBacked DEF Everywhere
<1>2. ASSUME NEW p \in Process, row' = read[p] PROVE row' \in Row /\ BackedNext(row')
  BY <1>2, StaysBacked DEF Everywhere
<1>3. ASSUME NEW p \in Process, NEW status \in SetStatus, Save(p, status),
             status # "FINALIZED",
             status \in {"FUNDING", "ACTIVE"} => chainData' = "deployed",
             status = "ACTIVE" => market' = "funded",
             status = "VOTING" => PastActive'
      PROVE  row' \in Row /\ BackedNext(row')
  <2>1. read[p] \in Row /\ Backed(read[p])
    BY DEF Everywhere
  <2>2. BackedNext([read[p] EXCEPT !.setStatus = status, !.stated = FALSE])
    BY <1>3, <2>1, SaveBacked
  <2> QED
    BY <1>3, <2>1, <2>2 DEF Save, Row
<1>4. ASSUME NEW p \in Process, Decided, row' = Finalized(read[p])
      PROVE  row' \in Row /\ BackedNext(row')
  <2>1. read[p] \in Row
    OBVIOUS
  <2>2. Finalized(read[p]) \in Row
    BY <1>4, <2>1 DEF Finalized, Row, SetStatus
  <2> QED
    BY <1>4, <2>1, <2>2, ResultBacked
<1>5. CASE \E r \in Request : Api(r)
  <2> PICK r \in Request : Api(r)
    BY <1>5
  <2>1. r \in Process
    BY DEF Process
  <2>2. CASE UNCHANGED row
    BY <2>2, <1>1
  <2>3. CASE ProcessWrite(r)
    BY <2>1, <2>3, <1>3 DEF ProcessWrite, SetStatus
  <2>4. CASE UpdateWrite(r)
    <3>1. read[r] \in Row /\ Backed(read[r])
      BY <2>1 DEF Everywhere
    <3>2. PICK status \in FormStatus \cup {"INITIALIZED"} : row' = FilledIn(read[r], status)
      BY <2>4 DEF UpdateWrite
    <3>3. status \in SetStatus
      BY LifecycleAssumption DEF LifecycleAssumption, SetStatus
    <3> QED
      BY <3>1, <3>2, <3>3, FormBacked
  <2>5. CASE HideWrite(r)
    BY <2>1, <2>5, <1>2 DEF HideWrite
  <2>6. CASE DeleteWrite(r)
    <3>1. read[r] \in Row /\ BackedNext(read[r])
      BY <2>1, StaysBacked DEF Everywhere
    <3>2. row' = [read[r] EXCEPT !.deleted = TRUE]
      BY <2>6 DEF DeleteWrite
    <3>3. row' \in Row
      BY <3>1, <3>2, Zenon DEF Row
    <3>4. /\ row'.setStatus = read[r].setStatus /\ row'.winner = read[r].winner
          /\ row'.stated = read[r].stated
      BY <3>1, <3>2 DEF Row
    <3> QED
      BY <3>1, <3>3, <3>4 DEF BackedNext
  <2> QED
    BY <2>2, <2>3, <2>4, <2>5, <2>6 DEF Api, LoadRequest, Send
<1>6. CASE \E c \in Creator : Create(c) \/ IgnoreMessage(c) \/ CreationFails(c) \/ SaveFails(c)
  <2> PICK c \in Creator : Create(c) \/ IgnoreMessage(c) \/ CreationFails(c) \/ SaveFails(c)
    BY <1>6
  <2>1. CASE UNCHANGED row
    BY <2>1, <1>1
  <2>2. CASE FailCreation(c)
    BY <2>2, <1>3 DEF FailCreation, SetStatus, Process
  <2> QED
    BY <2>1, <2>2
    DEF Create, ReceiveMessage, InitializeQuestion, InitializeReverts, CreateMarket,
        RecordChainData, IgnoreMessage, CreationFails, SaveFails
<1>7. CASE Factory
  <2>1. CASE FactoryRead
    BY <2>1, <1>1 DEF FactoryRead
  <2>2. CASE FactoryCommit
    BY <2>2, <1>3 DEF FactoryCommit, SetStatus, Process
  <2> QED
    BY <1>7, <2>1, <2>2 DEF Factory
<1>8. CASE Indexer
  <2>1. CASE UNCHANGED row
    BY <2>1, <1>1
  <2>2. ASSUME IndexerCommit, Activates(read["indexer"]), Save("indexer", "ACTIVE")
        PROVE  row' \in Row /\ BackedNext(row')
    <3>1. chainData' = "deployed" /\ market' = "funded"
      BY <2>2, ChainGrows DEF Seen, IndexerCommit, Finish, Activates
    <3> QED
      BY <2>2, <3>1, <1>3 DEF SetStatus, Process
  <2> QED
    BY <1>8, <2>1, <2>2 DEF Indexer, StartIndexer, StopIndexer, IndexerRead, IndexerCommit
<1>9. CASE Finalizer
  <2>1. CASE UNCHANGED row
    BY <2>1, <1>1
  <2>2. CASE EvidenceMissing
    BY <2>2, <1>3 DEF EvidenceMissing, SetStatus, Process
  <2>3. CASE Finish("finalizer", "toVoting") /\ Save("finalizer", "VOTING")
    <3>1. PastActive'
      BY <2>3, ChainGrows DEF Seen, Finish
    <3> QED
      BY <2>3, <3>1, <1>3 DEF SetStatus, Process
  <2>4. CASE Finish("finalizer", "toFinalized") /\ row' = Finalized(read["finalizer"])
    BY <2>4, <1>4 DEF Seen, Finish, Process
  <2> QED
    BY <1>9, <2>1, <2>2, <2>3, <2>4
    DEF Finalizer, SelectDue, EvidenceRefused, FinalizeQuestion, FinalizeLate, QuestionRead,
        FinalizerWrite
<1>10. CASE VotingParser
  <2>1. CASE UNCHANGED row
    BY <2>1, <1>1
  <2>2. CASE VotingCommit
    <3> DEFINE parsed == SubSeq(votes, 1, batch)
               voted == AfterVotes(read["voting"], parsed)
    <3>1. read["voting"] \in Row /\ Backed(read["voting"])
      BY DEF Everywhere, Process
    <3>2. PastActive'
      BY <2>2, ChainGrows DEF VotingCommit, Seen, Finish
    <3>3. voted \in Row /\ BackedNext(voted)
      <4>1. CASE voted = read["voting"]
        BY <3>1, <4>1, StaysBacked
      <4>2. CASE Decided /\ voted = Finalized(read["voting"])
        BY <3>1, <4>2, ResultBacked DEF Finalized, Row, SetStatus
      <4> QED
        BY <4>1, <4>2 DEF AfterVotes, Decided
    <3>4. AfterForced(voted, parsed) \in Row /\ BackedNext(AfterForced(voted, parsed))
      <4>1. CASE AfterForced(voted, parsed) = voted
        BY <3>3, <4>1
      <4>2. CASE AfterForced(voted, parsed)
                   = [voted EXCEPT !.setStatus = "VOTING", !.stated = FALSE]
        BY <3>2, <3>3, <4>2 DEF BackedNext, Row, SetStatus
      <4> QED
        BY <4>1, <4>2 DEF AfterForced
    <3> QED
      BY <2>1, <2>2, <3>4 DEF VotingCommit
  <2> QED
    BY <1>10, <2>1, <2>2 DEF VotingParser, VotingRead, VotingSkip
<1>11. CASE Environment \/ UNCHANGED vars \/ (\E p \in Process : Crash(p))
  BY <1>11, <1>1
  DEF Environment, AddFunding, ForceVoting, SubmitVote, ResolutionTime, vars, Crash
<1> QED
  BY <1>5, <1>6, <1>7, <1>8, <1>9, <1>10, <1>11 DEF Next

\* A question is decided together with its winner.
LEMMA QuestionStep ==
  ASSUME Typed, [Next]_vars
  PROVE  question' \in Question /\ (Decided' => question'.winner \in Outcome)
<1> USE DEF Typed, Decided
<1>1. CASE UNCHANGED question
  BY <1>1
<1>2. ASSUME question.status # "FINALIZED",
             NEW s \in {"ACTIVE", "VOTING"}, question' = [question EXCEPT !.status = s]
      PROVE  question' \in Question /\ question'.status # "FINALIZED"
  BY <1>2 DEF Question
<1>3. ASSUME NEW o \in Outcome, question' = [status |-> "FINALIZED", winner |-> o]
      PROVE  question' \in Question /\ question'.winner \in Outcome
  BY <1>3 DEF Question
<1>4. CASE \E c \in Creator : Create(c) \/ CreationFails(c) \/ SaveFails(c)
  BY <1>1, <1>2, <1>4
  DEF Create, ReceiveMessage, InitializeQuestion, InitializeReverts, CreateMarket,
      RecordChainData, FailCreation, CreationFails, SaveFails, chain
<1>5. CASE Finalizer
  BY <1>1, <1>2, <1>3, <1>5
  DEF Finalizer, SelectDue, EvidenceMissing, EvidenceRefused, FinalizeQuestion,
      FinalizeLate, QuestionRead, FinalizerWrite, chain
<1>6. CASE Environment
  BY <1>1, <1>2, <1>3, <1>6
  DEF Environment, AddFunding, ForceVoting, SubmitVote, ResolutionTime, chain
<1>7. CASE (\E r \in Request : Api(r)) \/ (\E c \in Creator : IgnoreMessage(c))
  BY <1>1, <1>7
  DEF Api, LoadRequest, ProcessWrite, Send, UpdateWrite, HideWrite, DeleteWrite,
      IgnoreMessage, chain
<1>8. CASE Factory \/ Indexer \/ VotingParser \/ (\E p \in Process : Crash(p))
           \/ UNCHANGED vars
  BY <1>1, <1>8
  DEF Factory, FactoryRead, FactoryCommit, Indexer, StartIndexer, StopIndexer,
      IndexerRead, IndexerCommit, VotingParser, VotingRead, VotingCommit, VotingSkip,
      Crash, vars, chain
<1> QED
  BY <1>4, <1>5, <1>6, <1>7, <1>8 DEF Next

\* A process writes a status only after it has seen its fact.
LEMMA SeenStep ==
  ASSUME Typed, Seen, [Next]_vars
  PROVE  Seen'
<1> USE DEF Typed, Seen, Goto, Load, Finish
<1>1. /\ chainData = "deployed" => chainData' = "deployed"
      /\ PastActive => PastActive'
      /\ Decided => Decided'
  BY ChainGrows DEF Decided
<1>2. {"factory", "indexer", "finalizer", "voting"} \subseteq Process
  BY DEF Process
<1>3. ASSUME NEW p \in Request \cup Creator \cup {"factory"}, UNCHANGED votes,
             NEW step \in Steps, pc' = [pc EXCEPT ![p] = step]
      PROVE  Seen'
  <2>1. p \notin {"indexer", "finalizer", "voting"}
    BY <1>3, LifecycleAssumption DEF LifecycleAssumption
  <2> QED
    BY <1>1, <1>2, <1>3, <2>1
<1>4. ASSUME UNCHANGED <<pc, votes>> PROVE Seen'
  BY <1>1, <1>4
<1>5. CASE \E r \in Request : Api(r)
  <2> PICK r \in Request : Api(r)
    BY <1>5
  <2>1. \E step \in Steps : pc' = [pc EXCEPT ![r] = step]
    BY LifecycleAssumption
    DEF Api, LoadRequest, ProcessWrite, Send, UpdateWrite, HideWrite, DeleteWrite, Steps,
        LifecycleAssumption
  <2>2. UNCHANGED votes
    BY DEF Api, LoadRequest, ProcessWrite, Send, UpdateWrite, HideWrite, DeleteWrite, events
  <2> QED
    BY <1>3, <2>1, <2>2
<1>6. CASE \E c \in Creator : Create(c) \/ IgnoreMessage(c) \/ CreationFails(c) \/ SaveFails(c)
  <2> PICK c \in Creator : Create(c) \/ IgnoreMessage(c) \/ CreationFails(c) \/ SaveFails(c)
    BY <1>6
  <2>1. UNCHANGED pc \/ \E step \in Steps : pc' = [pc EXCEPT ![c] = step]
    BY DEF Create, ReceiveMessage, InitializeQuestion, InitializeReverts, CreateMarket,
           RecordChainData, FailCreation, IgnoreMessage, CreationFails, SaveFails, Steps
  <2>2. UNCHANGED votes
    BY DEF Create, ReceiveMessage, InitializeQuestion, InitializeReverts, CreateMarket,
           RecordChainData, FailCreation, IgnoreMessage, CreationFails, SaveFails, events
  <2> QED
    BY <1>3, <1>4, <2>1, <2>2
<1>7. CASE Factory
  <2>1. \E step \in Steps : pc' = [pc EXCEPT !["factory"] = step]
    BY <1>7 DEF Factory, FactoryRead, FactoryCommit, Steps
  <2>2. UNCHANGED votes
    BY <1>7 DEF Factory, FactoryRead, FactoryCommit, events
  <2> QED
    BY <1>3, <2>1, <2>2
<1>8. CASE Indexer
  BY <1>1, <1>2, <1>8
  DEF Indexer, StartIndexer, StopIndexer, IndexerRead, IndexerCommit, Indexed, events
<1>9. CASE Finalizer
  BY <1>1, <1>2, <1>9
  DEF Finalizer, SelectDue, EvidenceMissing, EvidenceRefused, FinalizeQuestion, FinalizeLate,
      QuestionRead, FinalizerWrite, ToFinalized, ToVoting, PastActive, Decided, events, chain
<1>10. CASE VotingRead
  <2>1. votes # << >>
    BY <1>10 DEF VotingRead
  <2> QED
    BY <1>1, <1>2, <1>10, <2>1 DEF VotingRead, events
<1>11. CASE VotingCommit \/ VotingSkip
  BY <1>1, <1>2, <1>11 DEF VotingCommit, VotingSkip
<1>12. CASE Environment
  <2>1. CASE AddFunding \/ ResolutionTime
    BY <1>4, <2>1 DEF AddFunding, ResolutionTime, events
  <2>2. CASE ForceVoting
    <3>1. PastActive'
      BY <2>2 DEF ForceVoting, PastActive, Question
    <3> QED
      BY <1>1, <2>2, <3>1 DEF ForceVoting
  <2>3. CASE SubmitVote
    BY <1>1, <2>3 DEF SubmitVote, PastActive
  <2> QED
    BY <1>12, <2>1, <2>2, <2>3 DEF Environment
<1>13. CASE \E p \in Process : Crash(p)
  BY <1>1, <1>2, <1>13 DEF Crash, events
<1>14. CASE UNCHANGED vars
  BY <1>4, <1>14 DEF vars
<1> QED
  BY <1>5, <1>6, <1>7, <1>8, <1>9, <1>10, <1>11, <1>12, <1>13, <1>14
  DEF Next, VotingParser

\* The invariant holds initially and in every step.
LEMMA Inductive == Spec => []IInv
<1>1. Init => IInv
  <2> SUFFICES ASSUME Init PROVE IInv
    OBVIOUS
  <2>0. PICK status \in FormStatus \cup {"INITIALIZED"} : row = FilledIn(NewRow, status)
    BY DEF Init
  <2>1. Typed
    <3>1. status \in SetStatus
      BY LifecycleAssumption DEF LifecycleAssumption, SetStatus
    <3>2. NewRow \in Row
      BY DEF NewRow, Row, SetStatus
    <3>3. row \in Row
      BY <2>0, <3>1, <3>2 DEF FilledIn, Row
    <3> QED
      BY <3>2, <3>3 DEF Init, Typed, Steps, Question, Decided
  <2>2. Seen
    BY DEF Init, Seen, Process
  <2>3. Everywhere
    BY <2>0 DEF Init, Everywhere, Backed, BackedByMarket, BackedByOracle, NewRow, FilledIn
  <2> QED
    BY <2>1, <2>2, <2>3 DEF IInv
<1>2. IInv /\ [Next]_vars => IInv'
  <2> SUFFICES ASSUME IInv, [Next]_vars PROVE IInv'
    OBVIOUS
  <2>1. Typed'
    BY ReadStep, RowStep, QuestionStep DEF IInv, Typed
  <2>2. Seen'
    BY SeenStep DEF IInv
  <2>3. ASSUME NEW p \in Process PROVE BackedNext(read'[p])
    <3>1. read'[p] \in {read[p], row, NewRow}
      BY ReadStep DEF IInv
    <3> QED
      BY <3>1, StaysBacked, NewRowBacked DEF IInv, Everywhere
  <2>4. Everywhere'
    BY <2>3, RowStep
    DEF Everywhere, Backed, BackedByMarket, BackedByOracle, BackedNext, PastActive, Decided
  <2> QED
    BY <2>1, <2>2, <2>4 DEF IInv
<1> QED
  BY <1>1, <1>2, PTL DEF Spec

\* The status of a set, unless a form stated it, is never ahead of its market,
\* for any number of requests and create workers that write stale rows
\* (advanced-sql.model.ts:289-332).
THEOREM NeverAheadOfMarket == Spec => []MarketBehindStatus
<1>1. IInv => MarketBehindStatus
  BY DEF IInv, Everywhere, Backed, MarketBehindStatus
<1> QED
  BY <1>1, Inductive, PTL

\* Neither is it ahead of the oracle, and its winner, which no form can state,
\* is the oracle's (voting-parser.worker.ts:105-124).
THEOREM NeverAheadOfOracle == Spec => []OracleBehindStatus
<1>1. IInv => OracleBehindStatus
  BY DEF IInv, Everywhere, Backed, OracleBehindStatus
<1> QED
  BY <1>1, Inductive, PTL

=============================================================================
