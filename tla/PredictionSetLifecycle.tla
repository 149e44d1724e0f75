----------------------- MODULE PredictionSetLifecycle -----------------------
(***************************************************************************)
(* The life of one prediction set: its row in `prediction_set`, its chain  *)
(* data, its question in the oracle contract and its market contract, and  *)
(* everything that moves them.                                             *)
(*                                                                         *)
(*   API requests      process, update, hide and delete a set              *)
(*   create workers    consume the SQS message that creates it on chain    *)
(*   factory parser    turns the market's creation event into FUNDING      *)
(*   indexer           one child process per set, turns funding into       *)
(*                     ACTIVE; a planner starts and stops it               *)
(*   finalizer         resolves an ACTIVE set that is due                  *)
(*   voting parser     follows the votes of the oracle                     *)
(*                                                                         *)
(* No writer of `prediction_set` locks the row it read, and update() saves *)
(* every column of the model, so a handler is two actions at least: it     *)
(* reads the row and later writes that row back with its own change.       *)
(* What a handler does in one database transaction after its last read is  *)
(* one action.  The workers that hold the job lock are one process each.   *)
(***************************************************************************)
EXTENDS Integers, Sequences

CONSTANTS
  Outcome,      \* the outcomes of the set
  NoOutcome,    \* a NULL winner_outcome_id
  Request,      \* concurrent API requests of admins
  Creator,      \* concurrent executions of the create worker
  ApiOp,        \* the API operations admins use
  FormStatus,   \* bound: the statuses that the forms of admins state
  ForcedVoting, \* whether the oracle's admins force questions into voting
  Fragile,      \* what may fail: processes, and the "database" at an update
  MaxMessages,  \* bound: create messages in the queue
  MaxFundings,  \* bound: funding events the indexer has not parsed
  MaxVotes,     \* bound: oracle events the voting parser has not parsed
  MaxCrashes    \* bound: failures that no handler provokes

ASSUME LifecycleAssumption ==
  /\ NoOutcome \notin Outcome
  /\ ApiOp \subseteq {"process", "update", "hide", "delete"}
  /\ FormStatus \subseteq {"INITIALIZED", "PENDING", "FUNDING", "ACTIVE", "VOTING",
                           "FINALIZED", "ERROR"}
  /\ ForcedVoting \in BOOLEAN
  /\ {MaxMessages, MaxFundings, MaxVotes, MaxCrashes} \subseteq Nat
  /\ (Request \cup Creator)
       \cap {"factory", "indexer", "finalizer", "voting", "database"} = {}
  /\ Request \cap Creator = {}

VARIABLES
  row,        \* prediction_set: setStatus, whether deleted, winner; and
              \* (history) whether the status was stated by a form
  chainData,  \* prediction_set_chain_data: no row, without and with contractAddress
  automatic,  \* resolutionType = AUTOMATIC
  due,        \* resolutionTime <= NOW()
  messages,   \* create messages in the SQS queue
  question,   \* the oracle's question: status, winnerIdx
  market,     \* the market contract: none, created, funded
  creation,   \* its creation event: none, waiting for the factory parser, parsed
  fundings,   \* funding events after the indexer's cursor
  votes,      \* oracle events after the voting parser's cursor
  batch,      \* how many of them the voting parser is working on
  pc,         \* where each process stands
  read,       \* the row each process has read
  crashes

chain == <<question, market>>
events == <<creation, fundings, votes>>
vars == <<row, chainData, automatic, due, messages, question, market, creation,
          fundings, votes, batch, pc, read, crashes>>

SetStatus == {"INITIALIZED", "PENDING", "FUNDING", "ACTIVE", "VOTING", "FINALIZED", "ERROR"}
Row == [setStatus : SetStatus, stated : BOOLEAN, deleted : BOOLEAN,
        winner : Outcome \cup {NoOutcome}]
NewRow == [setStatus |-> "INITIALIZED", stated |-> FALSE, deleted |-> FALSE,
           winner |-> NoOutcome]

\* populate(form, USER): setStatus is a field of the form; INITIALIZED is its
\* default.  The winner is not, and stays as it was read.
FilledIn(r, status) ==
  [r EXCEPT !.setStatus = status, !.stated = (status # "INITIALIZED")]

\* PredictionSetBcStatus
Question == [status : {"INVALID", "ACTIVE", "VOTING", "FINALIZED"},
             winner : Outcome \cup {NoOutcome}]

Process == Request \cup Creator \cup {"factory", "indexer", "finalizer", "voting"}

Steps == {"idle", "down", "process", "send", "update", "hide", "delete",
          "initialize", "create", "record", "fail",
          "commit", "decide", "question", "toVoting", "toFinalized"}

TypeOK ==
  /\ row \in Row
  /\ chainData \in {"none", "created", "deployed"}
  /\ automatic \in BOOLEAN /\ due \in BOOLEAN
  /\ messages \in 0 .. MaxMessages
  /\ question \in Question
  /\ market \in {"none", "created", "funded"}
  /\ creation \in {"none", "waiting", "parsed"}
  /\ fundings \in 0 .. MaxFundings
  /\ votes \in Seq({"vote", "forced"}) /\ Len(votes) <= MaxVotes
  /\ batch \in 0 .. MaxVotes
  /\ pc \in [Process -> Steps]
  /\ read \in [Process -> Row]
  /\ crashes \in 0 .. MaxCrashes

\* The set was just created from a form.
Init ==
  /\ \E status \in FormStatus \cup {"INITIALIZED"} : row = FilledIn(NewRow, status)
  /\ chainData = "none"
  /\ automatic \in BOOLEAN
  /\ due = FALSE
  /\ messages = 0
  /\ question = [status |-> "INVALID", winner |-> NoOutcome]
  /\ market = "none"
  /\ creation = "none"
  /\ fundings = 0
  /\ votes = << >>
  /\ batch = 0
  /\ pc = [p \in Process |-> IF p = "indexer" THEN "down" ELSE "idle"]
  /\ read = [p \in Process |-> NewRow]
  /\ crashes = 0

\* A process goes on; what it has read stays with it.
Goto(p, from, to) ==
  /\ pc[p] = from
  /\ pc' = [pc EXCEPT ![p] = to]
  /\ UNCHANGED read

\* populateById: a process reads the row, unless the set is deleted.
Load(p, from, to) ==
  /\ ~row.deleted
  /\ pc[p] = from
  /\ pc' = [pc EXCEPT ![p] = to]
  /\ read' = [read EXCEPT ![p] = row]

\* A process ends and forgets what it read.
Finish(p, from) ==
  /\ pc[p] = from
  /\ pc' = [pc EXCEPT ![p] = "idle"]
  /\ read' = [read EXCEPT ![p] = NewRow]

\* predictionSet.setStatus = status; predictionSet.update(): all columns.
Save(p, status) == row' = [read[p] EXCEPT !.setStatus = status, !.stated = FALSE]

-----------------------------------------------------------------------------
(* API requests                                                              *)

Editable(r) == r.setStatus \in {"INITIALIZED", "ERROR"}

\* Every operation loads the set; all but hide refuse one that is on its way.
LoadRequest(r, op) ==
  /\ op # "hide" => Editable(row)
  /\ Load(r, "idle", op)
  /\ UNCHANGED <<row, chainData, automatic, due, messages, chain, events, batch, crashes>>

ProcessWrite(r) ==
  /\ Goto(r, "process", "send")
  /\ Save(r, "PENDING")
  /\ UNCHANGED <<chainData, automatic, due, messages, chain, events, batch, crashes>>

\* sendToWorkerQueue, after the row is committed.
Send(r) ==
  /\ messages < MaxMessages
  /\ Finish(r, "send")
  /\ messages' = messages + 1
  /\ UNCHANGED <<row, chainData, automatic, due, chain, events, batch, crashes>>

\* The set was editable when it was read; the form may state any status.
UpdateWrite(r) ==
  /\ Finish(r, "update")
  /\ \E status \in FormStatus \cup {"INITIALIZED"} : row' = FilledIn(read[r], status)
  /\ UNCHANGED <<chainData, automatic, due, messages, chain, events, batch, crashes>>

HideWrite(r) ==
  /\ Finish(r, "hide")
  /\ row' = read[r]
  /\ UNCHANGED <<chainData, automatic, due, messages, chain, events, batch, crashes>>

DeleteWrite(r) ==
  /\ Finish(r, "delete")
  /\ row' = [read[r] EXCEPT !.deleted = TRUE]
  /\ UNCHANGED <<chainData, automatic, due, messages, chain, events, batch, crashes>>

-----------------------------------------------------------------------------
(* The create worker.  A message is deleted after it was handled; it may be  *)
(* delivered to two executions, and again after it was handled.              *)

Creatable(r) == r.setStatus \in {"PENDING", "ERROR"}

Ack == messages' \in {messages, IF messages > 0 THEN messages - 1 ELSE 0}

ReceiveMessage(c) ==
  /\ messages > 0
  /\ Creatable(row)
  /\ Load(c, "idle", "initialize")
  /\ UNCHANGED <<row, chainData, automatic, due, messages, chain, events, batch, crashes>>

\* The set is gone, or neither PENDING nor in ERROR: only logged.
IgnoreMessage(c) ==
  /\ messages > 0
  /\ row.deleted \/ ~Creatable(row)
  /\ pc[c] = "idle"
  /\ Ack
  /\ UNCHANGED <<row, chainData, automatic, due, chain, events, batch, pc, read, crashes>>

\* addPredictionSet, first transaction: initializeQuestion, once per question.
InitializeQuestion(c) ==
  /\ question.status = "INVALID"
  /\ Goto(c, "initialize", "create")
  /\ question' = [question EXCEPT !.status = "ACTIVE"]
  /\ UNCHANGED <<row, chainData, automatic, due, messages, market, events, batch, crashes>>

InitializeReverts(c) ==
  /\ question.status # "INVALID"
  /\ Goto(c, "initialize", "fail")
  /\ UNCHANGED <<row, chainData, automatic, due, messages, chain, events, batch, crashes>>

\* Second transaction: createFixedProductMarketMaker.
CreateMarket(c) ==
  /\ market = "none"
  /\ Goto(c, "create", "record")
  /\ market' = "created"
  /\ creation' = "waiting"
  /\ UNCHANGED <<row, chainData, automatic, due, messages, question, fundings, votes,
                 batch, crashes>>

\* The chain data is stored only now.
RecordChainData(c) ==
  /\ chainData = "none"
  /\ Finish(c, "record")
  /\ chainData' = "created"
  /\ Ack
  /\ UNCHANGED <<row, automatic, due, chain, events, batch, crashes>>

\* A step fails by itself: the RPC node, the database, or a transaction whose
\* answer is lost although it is mined.
CreationFails(c) ==
  /\ c \in Fragile
  /\ crashes < MaxCrashes
  /\ crashes' = crashes + 1
  /\ \/ /\ \E step \in {"initialize", "create", "record"} : Goto(c, step, "fail")
        /\ UNCHANGED <<chain, creation>>
     \/ /\ question.status = "INVALID"
        /\ Goto(c, "initialize", "fail")
        /\ question' = [question EXCEPT !.status = "ACTIVE"]
        /\ UNCHANGED <<market, creation>>
     \/ /\ market = "none"
        /\ Goto(c, "create", "fail")
        /\ market' = "created"
        /\ creation' = "waiting"
        /\ UNCHANGED question
  /\ UNCHANGED <<row, chainData, automatic, due, messages, fundings, votes, batch>>

\* The catch of handleCreatePredictionSet.
FailCreation_statusKept(c) ==
  /\ Finish(c, "fail")
  /\ Ack
  /\ UNCHANGED <<row, chainData, automatic, due, chain, events, batch, crashes>>

FailCreation(c) ==
  /\ Finish(c, "fail")
  /\ Save(c, "ERROR")
  /\ Ack
  /\ UNCHANGED <<chainData, automatic, due, chain, events, batch, crashes>>

\* In that catch, the update fails too: only logged, and the message is gone.
SaveFails(c) ==
  /\ "database" \in Fragile
  /\ crashes < MaxCrashes
  /\ crashes' = crashes + 1
  /\ Finish(c, "fail")
  /\ Ack
  /\ UNCHANGED <<row, chainData, automatic, due, chain, events, batch>>

-----------------------------------------------------------------------------
(* The factory parser                                                        *)

\* parsePredictionSets throws for ever if the event has no chain data or its
\* set is deleted.
FactoryRead ==
  /\ creation = "waiting"
  /\ chainData # "none"
  /\ Load("factory", "idle", "commit")
  /\ UNCHANGED <<row, chainData, automatic, due, messages, chain, events, batch, crashes>>

FactoryCommit ==
  /\ Finish("factory", "commit")
  /\ Save("factory", "FUNDING")
  /\ chainData' = "deployed"
  /\ creation' = "parsed"
  /\ UNCHANGED <<automatic, due, messages, chain, fundings, votes, batch, crashes>>

-----------------------------------------------------------------------------
(* The indexer of the set, and its planner                                   *)

Indexed == row.setStatus \in {"FUNDING", "ACTIVE"} /\ ~row.deleted /\ chainData = "deployed"

StartIndexer ==
  /\ Indexed
  /\ Goto("indexer", "down", "idle")
  /\ UNCHANGED <<row, chainData, automatic, due, messages, chain, events, batch, crashes>>

\* The planner kills the child; so does a child that finds its set deleted.
StopIndexer ==
  /\ ~Indexed
  /\ pc["indexer"] # "down"
  /\ pc' = [pc EXCEPT !["indexer"] = "down"]
  /\ read' = [read EXCEPT !["indexer"] = NewRow]
  /\ UNCHANGED <<row, chainData, automatic, due, messages, chain, events, batch, crashes>>

IndexerRead ==
  /\ fundings > 0
  /\ Load("indexer", "idle", "commit")
  /\ UNCHANGED <<row, chainData, automatic, due, messages, chain, events, batch, crashes>>

\* "Activate trading when the contract is funded": from any other status.
Activates_unfunded(r) == r.setStatus # "ACTIVE"

Activates(r) == market = "funded" /\ r.setStatus # "ACTIVE"

Advance(n) == fundings' = fundings - n

IndexerCommit ==
  /\ Finish("indexer", "commit")
  /\ \E n \in 1 .. fundings : Advance(n)
  /\ IF Activates(read["indexer"]) THEN Save("indexer", "ACTIVE") ELSE UNCHANGED row
  /\ UNCHANGED <<chainData, automatic, due, messages, chain, creation, votes, batch, crashes>>

-----------------------------------------------------------------------------
(* The two finalizers: `automatic` says which of them has the set            *)

SelectDue ==
  /\ due
  /\ row.setStatus = "ACTIVE"
  /\ chainData # "none"
  /\ Load("finalizer", "idle", "decide")
  /\ UNCHANGED <<row, chainData, automatic, due, messages, chain, events, batch, crashes>>

\* Attestations or their proofs are missing.
EvidenceMissing ==
  /\ automatic
  /\ Finish("finalizer", "decide")
  /\ Save("finalizer", "ERROR")
  /\ UNCHANGED <<chainData, automatic, due, messages, chain, events, batch, crashes>>

\* A proof is not verified: left for the next run.
EvidenceRefused ==
  /\ automatic
  /\ Finish("finalizer", "decide")
  /\ UNCHANGED <<row, chainData, automatic, due, messages, chain, events, batch, crashes>>

\* finalizeQuestion of the oracle: with proofs it may reach a result, without
\* it opens the voting.
FinalizeQuestion ==
  /\ question.status = "ACTIVE"
  /\ Goto("finalizer", "decide", "question")
  /\ \/ question' = [question EXCEPT !.status = "VOTING"]
     \/ automatic /\ \E o \in Outcome : question' = [status |-> "FINALIZED", winner |-> o]
  /\ UNCHANGED <<row, chainData, automatic, due, messages, market, events, batch, crashes>>

\* The question is past that: finalizeQuestion reverts, or changes nothing.
FinalizeLate ==
  /\ question.status # "ACTIVE"
  /\ Goto("finalizer", "decide", "question") \/ Finish("finalizer", "decide")
  /\ UNCHANGED <<row, chainData, automatic, due, messages, chain, events, batch, crashes>>

\* The question is read back; MANUAL sets can only move to VOTING.
ToFinalized_anyResult == question.status \in {"VOTING", "FINALIZED"}

ToFinalized == automatic /\ question.status = "FINALIZED"
ToVoting == question.status = "VOTING"

QuestionRead ==
  /\ \/ ToFinalized /\ Goto("finalizer", "question", "toFinalized")
     \/ ToVoting /\ Goto("finalizer", "question", "toVoting")
     \/ ~ToFinalized /\ ~ToVoting /\ Finish("finalizer", "question")
  /\ UNCHANGED <<row, chainData, automatic, due, messages, chain, events, batch, crashes>>

\* The row as it is saved with a final result.
Finalized(r) ==
  [r EXCEPT !.setStatus = "FINALIZED", !.stated = FALSE, !.winner = question.winner]

FinalizerWrite ==
  /\ \/ Finish("finalizer", "toVoting") /\ Save("finalizer", "VOTING")
     \/ Finish("finalizer", "toFinalized") /\ row' = Finalized(read["finalizer"])
  /\ UNCHANGED <<chainData, automatic, due, messages, chain, events, batch, crashes>>

-----------------------------------------------------------------------------
(* The voting parser                                                         *)

Has(s, event) == \E i \in DOMAIN s : s[i] = event

VotingRead ==
  /\ Load("voting", "idle", "commit")
  /\ batch' \in 1 .. Len(votes)
  /\ UNCHANGED <<row, chainData, automatic, due, messages, chain, events, crashes>>

\* All VoteSubmitted events of the batch, with the question as it is now ...
AfterVotes_votingOnly(r, s) ==
  IF Has(s, "vote") /\ r.setStatus = "VOTING" /\ question.status = "FINALIZED"
  THEN Finalized(r) ELSE r

AfterVotes(r, s) ==
  IF Has(s, "vote") /\ question.status = "FINALIZED" THEN Finalized(r) ELSE r

\* ... and then all its VotingForced events.
AfterForced(r, s) ==
  IF Has(s, "forced") THEN [r EXCEPT !.setStatus = "VOTING", !.stated = FALSE] ELSE r

VotingCommit ==
  LET parsed == SubSeq(votes, 1, batch)
      writes == \/ Has(parsed, "forced")
                \/ Has(parsed, "vote") /\ question.status = "FINALIZED"
  IN /\ Finish("voting", "commit")
     /\ row' = IF chainData # "none" /\ writes
               THEN AfterForced(AfterVotes(read["voting"], parsed), parsed)
               ELSE row
     /\ votes' = SubSeq(votes, batch + 1, Len(votes))
     /\ batch' = 0
     /\ UNCHANGED <<chainData, automatic, due, messages, chain, creation, fundings, crashes>>

\* The set is deleted: its events are skipped.
VotingSkip ==
  /\ row.deleted
  /\ votes # << >>
  /\ pc["voting"] = "idle"
  /\ \E n \in 1 .. Len(votes) : votes' = SubSeq(votes, n + 1, Len(votes))
  /\ UNCHANGED <<row, chainData, automatic, due, messages, chain, creation, fundings, batch,
                 pc, read, crashes>>

-----------------------------------------------------------------------------
(* The chain, the clock, and failures                                        *)

\* Liquidity is added until the market ends, which is before its resolution.
AddFunding ==
  /\ ~due
  /\ market # "none"
  /\ fundings < MaxFundings
  /\ fundings' = fundings + 1
  /\ market' \in {market, "funded"}
  /\ UNCHANGED <<row, chainData, automatic, due, messages, question, creation, votes, batch,
                 pc, read, crashes>>

\* An admin of the oracle moves the question of a deployed set into voting.
ForceVoting ==
  /\ ForcedVoting
  /\ question.status = "ACTIVE"
  /\ chainData = "deployed"
  /\ Len(votes) < MaxVotes
  /\ question' = [question EXCEPT !.status = "VOTING"]
  /\ votes' = Append(votes, "forced")
  /\ UNCHANGED <<row, chainData, automatic, due, messages, market, creation, fundings, batch,
                 pc, read, crashes>>

\* A vote, which may be the one that decides the question.
SubmitVote ==
  /\ question.status = "VOTING"
  /\ Len(votes) < MaxVotes
  /\ votes' = Append(votes, "vote")
  /\ \/ UNCHANGED question
     \/ \E o \in Outcome : question' = [status |-> "FINALIZED", winner |-> o]
  /\ UNCHANGED <<row, chainData, automatic, due, messages, market, creation, fundings, batch,
                 pc, read, crashes>>

ResolutionTime ==
  /\ ~due
  /\ due' = TRUE
  /\ UNCHANGED <<row, chainData, automatic, messages, chain, events, batch, pc, read, crashes>>

\* A process dies or its handler throws: the transaction is rolled back and an
\* unacknowledged message stays in the queue.
Crash(p) ==
  /\ p \in Fragile
  /\ crashes < MaxCrashes
  /\ crashes' = crashes + 1
  /\ pc[p] \notin {"idle", "down"}
  /\ pc' = [pc EXCEPT ![p] = IF p = "indexer" THEN "down" ELSE "idle"]
  /\ read' = [read EXCEPT ![p] = NewRow]
  /\ batch' = IF p = "voting" THEN 0 ELSE batch
  /\ UNCHANGED <<row, chainData, automatic, due, messages, chain, events>>

-----------------------------------------------------------------------------
Api(r) ==
  \/ \E op \in ApiOp : LoadRequest(r, op)
  \/ ProcessWrite(r) \/ Send(r) \/ UpdateWrite(r) \/ HideWrite(r) \/ DeleteWrite(r)

Create(c) ==
  \/ ReceiveMessage(c) \/ InitializeQuestion(c) \/ InitializeReverts(c)
  \/ CreateMarket(c) \/ RecordChainData(c) \/ FailCreation(c)

Factory == FactoryRead \/ FactoryCommit
Indexer == StartIndexer \/ StopIndexer \/ IndexerRead \/ IndexerCommit
Finalizer ==
  \/ SelectDue \/ EvidenceMissing \/ EvidenceRefused \/ FinalizeQuestion \/ FinalizeLate
  \/ QuestionRead \/ FinalizerWrite
VotingParser == VotingRead \/ VotingCommit \/ VotingSkip
Environment == AddFunding \/ ForceVoting \/ SubmitVote \/ ResolutionTime

Next ==
  \/ \E r \in Request : Api(r)
  \/ \E c \in Creator : Create(c) \/ IgnoreMessage(c) \/ CreationFails(c) \/ SaveFails(c)
  \/ Factory \/ Indexer \/ Finalizer \/ VotingParser
  \/ Environment
  \/ \E p \in Process : Crash(p)

Spec == Init /\ [][Next]_vars

\* A message is handled, the scheduled workers and the indexer go on, and a
\* due set's evidence is not refused for ever.  Nobody has to call the API,
\* fund, vote or force anything.
Fairness ==
  /\ \A r \in Request : WF_vars(ProcessWrite(r) \/ Send(r) \/ UpdateWrite(r)
                                \/ HideWrite(r) \/ DeleteWrite(r))
  /\ \A c \in Creator : WF_vars(Create(c) \/ IgnoreMessage(c))
  /\ WF_vars(Factory) /\ WF_vars(Indexer) /\ WF_vars(Finalizer) /\ WF_vars(VotingParser)
  /\ SF_vars(EvidenceMissing \/ FinalizeQuestion \/ FinalizeLate)

FairSpec == Spec /\ Fairness

-----------------------------------------------------------------------------
(* Properties                                                                *)

\* What the chain must have done before a row may say what it says.  Only a
\* status that a form stated is exempt: create and update save it as it is
\* (prediction-set.model.ts:238-251; prediction-set.service.ts:323), and a stale
\* row may bring it back later.
\*
\* FUNDING and ACTIVE sets have a deployed market that the database knows, and
\* an ACTIVE one is funded: a stale row may take the status back to an earlier
\* one, but never to one the chain does not back.
BackedByMarket(r) ==
  ~r.stated =>
    /\ r.setStatus \in {"FUNDING", "ACTIVE"} => chainData = "deployed"
    /\ r.setStatus = "ACTIVE" => market = "funded"

\* A VOTING set's question is past ACTIVE and a FINALIZED set has its winner.
\* A winner in the database is the winner of the oracle, whatever a form says.
BackedByOracle(r) ==
  /\ ~r.stated =>
       /\ r.setStatus = "VOTING" => question.status \in {"VOTING", "FINALIZED"}
       /\ r.setStatus = "FINALIZED" => r.winner # NoOutcome
  /\ r.winner # NoOutcome => question.status = "FINALIZED" /\ r.winner = question.winner

\* A status in the database that no form stated is never ahead of the market,
\* although every writer saves a whole row it read some time ago
\* (advanced-sql.model.ts:289-332; prediction-sets-factory-parser.worker.ts:104-114;
\* prediction-set-parser.ts:195-203).
MarketBehindStatus == BackedByMarket(row)

\* The database never announces by itself a voting that the oracle has not
\* begun, and never a winner that the oracle has not decided
\* (voting-parser.worker.ts:105-124;
\* finalize-automatic-prediction-sets.worker.ts:135-169).
OracleBehindStatus == BackedByOracle(row)

\* A set that waits for its creation, with a message in the queue, is answered:
\* it is created and parsed, or it ends in ERROR, whatever execution dies and
\* whatever transaction fails, as long as the database takes the ERROR
\* (create-prediction-set.worker.ts:39-80).
PendingAnswered ==
  (row.setStatus = "PENDING" /\ ~row.deleted /\ messages > 0)
    ~> (row.setStatus # "PENDING" \/ row.deleted)

\* "Check if prediction set is finalized and finalize it."
\* (voting-parser.worker.ts:105): a vote that is still to be parsed when the
\* question is decided makes the set FINALIZED, however the votes are divided
\* into batches and whatever status the row is in: also an ACTIVE one, left
\* behind by a finalizer that died between the oracle and the database.  A
\* forced voting that shares a batch with the deciding vote is the exception:
\* all votes of a batch are handled before its VotingForced events
\* (voting-parser.worker.ts:60-175), and the set stays in VOTING.
DecidingVoteCounts ==
  (/\ question.status = "FINALIZED"
   /\ Has(votes, "vote") /\ ~Has(votes, "forced")
   /\ ~row.deleted)
    ~> (row.setStatus = "FINALIZED" \/ row.deleted)

=============================================================================
