--------------------------- MODULE ChainJobsProofs ---------------------------
(***************************************************************************)
(* Proofs about two parts that work between the chain and the tables: the  *)
(* parsers of a market's events (EventIndexer) and the jobs that attest a  *)
(* set's data sources (Attestations).                                      *)
(*                                                                         *)
(* Parsers, for any number of processes and executors, any block size and  *)
(* any bounds: types, that no event behind the cursor is lost, and that    *)
(* the parsers implement EventLedger.                                      *)
(*                                                                         *)
(* Attestations: as long as no two requesters have been at work at once,   *)
(* what the one has still to do is not attested.  So no source is paid for *)
(* that has its attestation, no source has two of them, and as many rows   *)
(* as sources are rows of all sources.                                     *)
(***************************************************************************)
EXTENDS EventIndexer, Attestations, FiniteSetTheorems, TLAPS

\* What an open cycle has read stays true: its range ends in the confirmed
\* blocks, and everything before it is covered.
CycleSound(p) ==
  /\ upto[p] <= Len(log)
  /\ from[p] <= Len(log) + 1
  /\ upto[p] # 0 => from[p] # 0 /\ from[p] <= upto[p]
  /\ from[p] # 0 => \A b \in 1 .. from[p] - 1 : Covered(b)

CyclesSound == \A p \in Parser : CycleSound(p)

\* Without a race there is one open cycle at most, it begins after the cursor,
\* and nothing has been entered there yet, or twice.
OneCycle ==
  ~raced =>
    /\ \A p, q \in Parser : from[p] # 0 /\ from[q] # 0 => p = q
    /\ \A p \in Parser : from[p] # 0 => from[p] = cursor + 1
    /\ \A b \in Block : records[b] <= 1
    /\ \A b \in Block : b > cursor => records[b] = 0

IInv == TypeOK /\ CyclesSound /\ AtLeastOnce

-----------------------------------------------------------------------------
(* The types.                                                              *)

\* ToBlock never leaves the confirmed blocks.
LEMMA ToBlockBound ==
  ASSUME TypeOK, NEW first \in Nat
  PROVE  /\ ToBlock(first) \in 0 .. Len(log)
         /\ ToBlock(first) \in 0 .. MaxBlocks
  BY IndexerAssumption DEF TypeOK, ToBlock

\* The initial state satisfies the invariant.
LEMMA InitInv == Init => IInv /\ OneCycle
<1> SUFFICES ASSUME Init PROVE IInv /\ OneCycle OBVIOUS
<1>1. TypeOK
  <2>1. log \in Seq({"none", "added", "removed"}) /\ Len(log) = 0 /\ cursor = 0
    BY DEF Init
  <2>2. /\ MaxBlocks \in Nat /\ MaxMessages \in Nat
        /\ MaxChanges \in Nat /\ MaxFailures \in Nat
    BY IndexerAssumption
  <2>3. /\ records \in [Block -> 0 .. 2]
        /\ from \in [Parser -> 0 .. MaxBlocks + 1]
        /\ upto \in [Parser -> 0 .. MaxBlocks]
    BY <2>2 DEF Init
  <2>4. messages \in 0 .. MaxMessages /\ changes \in 0 .. MaxChanges
        /\ failures \in 0 .. MaxFailures
    BY <2>2 DEF Init
  <2>5. /\ pc \in [Parser -> {"off", "spawned", "up", "closing", "ended", "failed"}]
        /\ resolved \in BOOLEAN /\ status \in Status /\ raced \in BOOLEAN
        /\ tracked \in Child \cup {None} /\ orphans \subseteq Child
        /\ plans \subseteq {"run", "stop"} /\ skipped \subseteq Block
    BY DEF Init, Status
  <2>6. Len(log) <= MaxBlocks /\ cursor \in 0 .. Len(log)
    BY <2>1, <2>2
  <2> QED BY <2>1, <2>3, <2>4, <2>5, <2>6 DEF TypeOK
<1>2. CyclesSound
  BY DEF Init, CyclesSound, CycleSound, Parser
<1>3. AtLeastOnce
  BY DEF Init, AtLeastOnce
<1>4. OneCycle
  BY DEF Init, OneCycle, Parser, Block
<1> QED BY <1>1, <1>2, <1>3, <1>4 DEF IInv

\* Every step keeps the types.
LEMMA TypeStep == ASSUME IInv, [Next]_vars PROVE TypeOK'
<1> USE IndexerAssumption DEF IInv, TypeOK, Parser, Status, ledgerVars, cycles,
                              planner, bounds
<1>1. ASSUME Mine PROVE TypeOK'
  <2> PICK event \in {"none", "added", "removed"} : log' = Append(log, event)
    BY <1>1 DEF Mine
  <2>1. log' \in Seq({"none", "added", "removed"}) /\ Len(log') = Len(log) + 1
    OBVIOUS
  <2>2. Len(log') <= MaxBlocks /\ cursor' \in 0 .. Len(log')
    BY <1>1, <2>1 DEF Mine
  <2> QED BY <1>1, <2>1, <2>2 DEF Mine
<1>2. ASSUME Resolve PROVE TypeOK' BY <1>2 DEF Resolve
<1>3. ASSUME ChangeStatus PROVE TypeOK' BY <1>3 DEF ChangeStatus
<1>4. ASSUME NEW p \in Parser, Fetch(p) PROVE TypeOK'
  <2>0. from[p] \in Nat OBVIOUS
  <2>1. ToBlock(from[p]) \in 0 .. MaxBlocks BY <2>0, ToBlockBound
  <2> QED BY <1>4, <2>1 DEF Fetch
<1>5. ASSUME NEW p \in Parser, NothingNew(p) PROVE TypeOK'
  BY <1>5 DEF NothingNew, CloseCycle
<1>6. ASSUME NEW p \in Parser, Commit(p) PROVE TypeOK'
  <2>1. upto[p] \in 0 .. Len(log) /\ from[p] \in Nat \ {0}
    BY <1>6 DEF CyclesSound, CycleSound, Commit
  <2>2. records' \in [Block -> 0 .. 2] BY <1>6 DEF Commit
  <2>3. skipped' \subseteq Block
    <3>1. from[p] .. upto[p] \subseteq Block BY <2>1 DEF Block
    <3> QED BY <1>6, <3>1, Zenon DEF Commit
  <2> QED BY <1>6, <2>1, <2>2, <2>3 DEF Commit, Processed, CloseCycle
<1>7. ASSUME NEW p \in Parser, Rollback(p) PROVE TypeOK'
  BY <1>7 DEF Rollback, CloseCycle, Fail
<1>8. ASSUME NEW c \in Child, OpenCycle(c) PROVE TypeOK'
  BY <1>8 DEF OpenCycle, ReadCursor
<1>9. ASSUME NEW c \in Child, Initialize(c) PROVE TypeOK'
  BY <1>9 DEF Initialize
<1>10. ASSUME NEW c \in Child, ShutDown(c) PROVE TypeOK'
  BY <1>10 DEF ShutDown, Leave
<1>11. ASSUME NEW c \in Child, UnknownOutcome(c) PROVE TypeOK'
  BY <1>11 DEF UnknownOutcome, Leave, Fail
<1>12. ASSUME NEW c \in Child, Exit(c) PROVE TypeOK'
  BY <1>12 DEF Exit, Leave
<1>13. ASSUME NEW c \in Child, Die(c) PROVE TypeOK'
  BY <1>13 DEF Die, Leave, Fail
<1>14. ASSUME NEW c \in Child, ExitEvent(c) PROVE TypeOK'
  BY <1>14 DEF ExitEvent, Spawn
<1>15. ASSUME NEW c \in Child, OrphanGone(c) PROVE TypeOK'
  BY <1>15 DEF OrphanGone
<1>16. ASSUME Query PROVE TypeOK' BY <1>16 DEF Query
<1>17. ASSUME Start PROVE TypeOK' BY <1>17 DEF Start, Spawn
<1>18. ASSUME Stop PROVE TypeOK' BY <1>18 DEF Stop
<1>19. ASSUME PlannerDies PROVE TypeOK' BY <1>19 DEF PlannerDies, Fail
<1>20. ASSUME PlanFinalized PROVE TypeOK' BY <1>20 DEF PlanFinalized
<1>21. ASSUME TriggerFinalized PROVE TypeOK' BY <1>21 DEF TriggerFinalized
<1>22. ASSUME NEW e \in Executor, Receive(e) PROVE TypeOK'
  <2>1. messages' \in 0 .. MaxMessages BY <1>22 DEF Receive
  <2>2. CASE status = "FINALIZED"
    <3>1. raced' \in BOOLEAN BY <1>22, <2>2 DEF Receive, ReadCursor
    <3>2. /\ pc' = [pc EXCEPT ![e] = "up"]
          /\ from' = [from EXCEPT ![e] = cursor + 1]
      BY <1>22, <2>2 DEF Receive, ReadCursor
    <3>3. UNCHANGED <<log, cursor, records, skipped, upto, resolved, status,
                      tracked, orphans, plans, changes, failures>>
      BY <1>22, <2>2 DEF Receive, ReadCursor
    <3> QED BY <2>1, <3>1, <3>2, <3>3, SMTT(60)
  <2>3. CASE status # "FINALIZED"
    BY <1>22, <2>1, <2>3 DEF Receive
  <2> QED BY <2>2, <2>3
<1>23. ASSUME UNCHANGED vars PROVE TypeOK' BY <1>23 DEF vars
<1> QED
  BY <1>1, <1>2, <1>3, <1>4, <1>5, <1>6, <1>7, <1>8, <1>9, <1>10, <1>11, <1>12,
     <1>13, <1>14, <1>15, <1>16, <1>17, <1>18, <1>19, <1>20, <1>21, <1>22, <1>23
     DEF Next, Cycle, Parser

-----------------------------------------------------------------------------
(* What a step can do to the cursor, the records and the cycles.           *)

Quiet == UNCHANGED <<ledgerVars, cycles>>

Mined ==
  /\ \E event \in {"none", "added", "removed"} : log' = Append(log, event)
  /\ UNCHANGED <<cursor, records, skipped, raced, cycles>>

Closed(p) ==
  /\ from' = [from EXCEPT ![p] = 0]
  /\ upto' = [upto EXCEPT ![p] = 0]
  /\ UNCHANGED ledgerVars

\* Every step is of one of six shapes.
LEMMA Shapes ==
  ASSUME [Next]_vars
  PROVE  \/ Quiet \/ Mined
         \/ \E p \in Parser : Closed(p) \/ ReadCursor(p) \/ Fetch(p) \/ Commit(p)
<1> USE DEF Quiet, Mined, Closed, cycles, ledgerVars, Parser
<1>1. ASSUME Mine PROVE Mined BY <1>1 DEF Mine
<1>2. ASSUME Resolve \/ ChangeStatus \/ Query \/ Start \/ Stop \/ PlannerDies
             \/ PlanFinalized \/ TriggerFinalized \/ UNCHANGED vars
      PROVE  Quiet
  BY <1>2 DEF Resolve, ChangeStatus, Query, Start, Stop, PlannerDies,
              PlanFinalized, TriggerFinalized, vars
<1>3. ASSUME NEW p \in Parser, NothingNew(p) \/ Rollback(p) PROVE Closed(p)
  BY <1>3 DEF NothingNew, Rollback, CloseCycle
<1>4. ASSUME NEW c \in Child, ShutDown(c) \/ UnknownOutcome(c) \/ Exit(c) \/ Die(c)
      PROVE  Closed(c)
  BY <1>4 DEF ShutDown, UnknownOutcome, Exit, Die, Leave
<1>5. ASSUME NEW c \in Child, Initialize(c) \/ ExitEvent(c) \/ OrphanGone(c)
      PROVE  Quiet
  BY <1>5 DEF Initialize, ExitEvent, OrphanGone
<1>6. ASSUME NEW c \in Child, OpenCycle(c) PROVE ReadCursor(c)
  BY <1>6 DEF OpenCycle
<1>7. ASSUME NEW e \in Executor, Receive(e) PROVE Quiet \/ ReadCursor(e)
  BY <1>7 DEF Receive
<1> QED
  BY <1>1, <1>2, <1>3, <1>4, <1>5, <1>6, <1>7 DEF Next, Cycle

\* A commit enters the events of its kind in its range, and takes none back.
LEMMA CommittedRecords ==
  ASSUME TypeOK, NEW p \in Parser, Commit(p), NEW b \in Block
  PROVE  /\ records'[b] \in 0 .. 2 /\ records'[b] >= records[b]
         /\ b \in from[p] .. upto[p] /\ log[b] = Kind(p) => records'[b] > 0
         /\ records[b] = 2 => records'[b] = 2
<1>1. records[b] \in 0 .. 2 BY DEF TypeOK
<1>2. records'[b] = IF b \in from[p] .. upto[p] /\ log[b] = Kind(p) /\ records[b] < 2
                    THEN records[b] + 1 ELSE records[b]
  BY DEF Commit
<1> QED BY <1>1, <1>2

\* Every open cycle stays sound and every event behind the cursor covered.
LEMMA CoverStep ==
  ASSUME IInv, [Next]_vars, TypeOK' PROVE CyclesSound' /\ AtLeastOnce'
<1> USE DEF IInv, TypeOK, CyclesSound, CycleSound, AtLeastOnce
<1>1. ASSUME Quiet PROVE CyclesSound' /\ AtLeastOnce'
  BY <1>1 DEF Quiet, ledgerVars, cycles, Covered
<1>2. ASSUME Mined PROVE CyclesSound' /\ AtLeastOnce'
  <2>1. Len(log') = Len(log) + 1 /\ \A b \in 1 .. Len(log) : log'[b] = log[b]
    BY <1>2 DEF Mined
  <2>2. \A b \in 1 .. Len(log) : Covered(b) => Covered(b)'
    BY <1>2, <2>1 DEF Mined, Covered
  <2> QED BY <1>2, <2>1, <2>2 DEF Mined, cycles
<1>3. ASSUME NEW p \in Parser, Closed(p) PROVE CyclesSound' /\ AtLeastOnce'
  BY <1>3 DEF Closed, ledgerVars, Covered
<1>4. ASSUME NEW p \in Parser, ReadCursor(p) PROVE CyclesSound' /\ AtLeastOnce'
  BY <1>4 DEF ReadCursor, Covered
<1>5. ASSUME NEW p \in Parser, Fetch(p) PROVE CyclesSound' /\ AtLeastOnce'
  <2>1. from[p] \in Nat /\ from[p] <= ToBlock(from[p])
    BY <1>5 DEF Fetch, InRange, ToBlock
  <2>2. ToBlock(from[p]) \in 0 .. Len(log)
    BY <2>1, ToBlockBound
  <2> QED BY <1>5, <2>1, <2>2 DEF Fetch, ledgerVars, Covered
<1>6. ASSUME NEW p \in Parser, Commit(p) PROVE CyclesSound' /\ AtLeastOnce'
  <2>0. log' = log /\ skipped \subseteq skipped'
    BY <1>6 DEF Commit
  <2>1. /\ from[p] \in 1 .. upto[p] /\ upto[p] \in 1 .. Len(log)
        /\ Len(log) <= MaxBlocks
    BY <1>6 DEF Commit
  <2>2. \A b \in 1 .. Len(log) : Covered(b) => Covered(b)'
    <3>1. \A b \in Block : records[b] > 0 => records'[b] > 0
      <4> TAKE b \in Block
      <4>1. records[b] \in 0 .. 2 OBVIOUS
      <4>2. records'[b] \in 0 .. 2 /\ records'[b] >= records[b]
        BY <1>6, CommittedRecords
      <4> QED BY <4>1, <4>2
    <3>2. 1 .. Len(log) \subseteq Block BY <2>1, IndexerAssumption DEF Block
    <3> QED BY <2>0, <3>1, <3>2 DEF Covered
  <2>3. \A b \in from[p] .. upto[p] : Covered(b)'
    <3> TAKE b \in from[p] .. upto[p]
    <3>1. from[p] .. upto[p] \subseteq Block
      <4>1. MaxBlocks \in Nat BY IndexerAssumption
      <4> HIDE DEF IInv, TypeOK, CyclesSound, CycleSound, AtLeastOnce
      <4> QED BY <2>1, <4>1 DEF Block
    <3>2. b \in Block BY <3>1
    <3>3. CASE log[b] = Kind(p)
      BY <1>6, <2>0, <3>2, <3>3, CommittedRecords DEF Covered
    <3>4. CASE log[b] \notin {"none", Kind(p)}
      <4>1. b \in skipped' BY <1>6, <3>4 DEF Commit
      <4> QED BY <4>1 DEF Covered
    <3>5. CASE log[b] = "none"
      BY <2>0, <3>5 DEF Covered
    <3> QED BY <3>3, <3>4, <3>5
  <2>4. \A b \in 1 .. from[p] - 1 : Covered(b)
    <3>1. CycleSound(p) /\ from[p] # 0 BY <2>1
    <3> QED BY <3>1, Zenon DEF CycleSound
  <2>5. AtLeastOnce'
    BY <1>6, <2>1, <2>2, <2>3, <2>4 DEF Commit, Processed
  <2>6. CyclesSound'
    BY <1>6, <2>1, <2>2 DEF Commit, Processed, CloseCycle
  <2> QED BY <2>5, <2>6
<1> QED BY Shapes, <1>1, <1>2, <1>3, <1>4, <1>5, <1>6

LEMMA InvStep == IInv /\ [Next]_vars => IInv'
BY TypeStep, CoverStep DEF IInv

\* The state of the parsers is well formed in every reachable state.
THEOREM TypeCorrect == Spec => []TypeOK
<1>1. Spec => []IInv BY InitInv, InvStep, PTL DEF Spec
<1>2. IInv => TypeOK BY DEF IInv
<1> QED BY <1>1, <1>2, PTL

\* No event behind the cursor is lost, whatever overlaps, dies or restarts:
\* what a cycle has found covered stays covered, and it commits its events and
\* the cursor together (prediction-set-parser.ts:293-294).
THEOREM NoEventLost == Spec => []AtLeastOnce
<1>1. Spec => []IInv BY InitInv, InvStep, PTL DEF Spec
<1>2. IInv => AtLeastOnce BY DEF IInv
<1> QED BY <1>1, <1>2, PTL

-----------------------------------------------------------------------------
(* The refinement of EventLedger.                                          *)

\* Cycles that do not overlap work on what the cursor has left.
LEMMA OneCycleStep ==
  ASSUME IInv, OneCycle, [Next]_vars PROVE OneCycle'
<1> SUFFICES ASSUME ~raced' PROVE OneCycle' BY DEF OneCycle
<1>0. ~raced
  BY Shapes DEF Quiet, Mined, Closed, ReadCursor, Fetch, Commit, ledgerVars
<1> USE <1>0 DEF IInv, TypeOK, OneCycle
<1>1. ASSUME Quiet PROVE OneCycle'
  BY <1>1 DEF Quiet, ledgerVars, cycles
<1>2. ASSUME Mined PROVE OneCycle'
  BY <1>2 DEF Mined, cycles
<1>3. ASSUME NEW p \in Parser, Closed(p) PROVE OneCycle'
  BY <1>3 DEF Closed, ledgerVars
<1>4. ASSUME NEW p \in Parser, ReadCursor(p) PROVE OneCycle'
  <2>1. \A q \in Parser : from[q] = 0 BY <1>4 DEF ReadCursor
  <2> QED BY <1>4, <2>1 DEF ReadCursor
<1>5. ASSUME NEW p \in Parser, Fetch(p) PROVE OneCycle'
  BY <1>5 DEF Fetch, ledgerVars
<1>6. ASSUME NEW p \in Parser, Commit(p) PROVE OneCycle'
  <2>1. from[p] = cursor + 1 /\ from[p] <= upto[p]
    BY <1>6 DEF Commit, CyclesSound, CycleSound
  <2>2. \A q \in Parser : from'[q] = 0
    BY <1>6, <2>1 DEF Commit, CloseCycle
  <2>3. \A b \in Block : records'[b] <= 1 /\ (b > upto[p] => records'[b] = 0)
    BY <1>6, <2>1 DEF Commit, Block
  <2> QED BY <1>6, <2>2, <2>3 DEF Commit, Processed
<1> QED BY Shapes, <1>1, <1>2, <1>3, <1>4, <1>5, <1>6

\* Every step of the parsers is a step of the ledger or leaves it alone.
LEMMA LedgerStep ==
  ASSUME IInv, OneCycle, [Next]_vars PROVE [Ledger!Next]_(Ledger!vars)
<1> DEFINE recorded == {b \in Block : records[b] > 0}
           duplicated == {b \in Block : records[b] = 2}
<1> USE DEF IInv, TypeOK, Ledger!vars, Ledger!Next
<1>1. ASSUME Quiet PROVE UNCHANGED Ledger!vars
  BY <1>1 DEF Quiet, ledgerVars
<1>2. ASSUME Mined PROVE Ledger!Post
  BY <1>2 DEF Mined, Ledger!Post
<1>3. ASSUME NEW p \in Parser, Closed(p) PROVE UNCHANGED Ledger!vars
  BY <1>3 DEF Closed, ledgerVars
<1>4. ASSUME NEW p \in Parser, ReadCursor(p)
      PROVE  Ledger!Race \/ UNCHANGED Ledger!vars
  <2>1. CASE raced' BY <1>4, <2>1 DEF ReadCursor, Ledger!Race
  <2>2. CASE ~raced' BY <1>4, <2>2 DEF ReadCursor
  <2> QED BY <2>1, <2>2
<1>5. ASSUME NEW p \in Parser, Fetch(p) PROVE UNCHANGED Ledger!vars
  BY <1>5 DEF Fetch, ledgerVars
<1>6. ASSUME NEW p \in Parser, Commit(p) PROVE Ledger!Record \/ Ledger!Race
  <2>1. /\ from[p] \in 1 .. upto[p] /\ upto[p] \in 1 .. Len(log)
        /\ Len(log) <= MaxBlocks
    BY <1>6 DEF Commit, CyclesSound, CycleSound
  <2>2. Kind(p) \in {"added", "removed"} BY DEF Kind
  <2>3. CASE raced
    <3>1. \A b \in Block : /\ records[b] > 0 => records'[b] > 0
                           /\ records[b] = 2 => records'[b] = 2
      BY <1>6, CommittedRecords
    <3>2. recorded \subseteq recorded' /\ duplicated \subseteq duplicated'
      BY <3>1
    <3> QED BY <1>6, <2>1, <2>3, <3>2 DEF Commit, Processed, Ledger!Race
  <2>4. CASE ~raced
    <3>1. from[p] = cursor + 1 BY <2>1, <2>4 DEF OneCycle
    <3>2. \A b \in Block : /\ records[b] \in {0, 1}
                           /\ b > cursor => records[b] = 0
      BY <2>4 DEF OneCycle
    <3>3. \A b \in Block : records'[b] =
            IF b \in cursor + 1 .. upto[p] /\ log[b] = Kind(p) THEN 1 ELSE records[b]
      BY <1>6, <2>1, <3>1, <3>2 DEF Commit, Block
    <3>4. recorded' = recorded \cup {b \in cursor + 1 .. upto[p] : log[b] = Kind(p)}
      <4>1. cursor + 1 .. upto[p] \subseteq Block
        BY <2>1, IndexerAssumption DEF Block
      <4>2. \A b \in Block : records'[b] > 0 <=>
              records[b] > 0 \/ (b \in cursor + 1 .. upto[p] /\ log[b] = Kind(p))
        BY <3>2, <3>3
      <4> QED BY <4>1, <4>2, Zenon
    <3>5. duplicated' = duplicated
      BY <3>2, <3>3
    <3>6. upto[p] \in cursor + 1 .. Len(log)
      BY <2>1, <3>1
    <3>7. cursor' = upto[p] /\ log' = log /\ raced' = raced
      BY <1>6 DEF Commit, Processed
    <3>8. cursor' \in cursor + 1 .. Len(log) /\ Kind(p) \in {"added", "removed"}
      BY <2>2, <3>6, <3>7
    <3>9. recorded' = recorded \cup {b \in cursor + 1 .. cursor' : log[b] = Kind(p)}
      BY <3>4, <3>7
    <3> HIDE DEF recorded, duplicated
    <3>10. Ledger!Record
      BY <2>4, <3>5, <3>7, <3>8, <3>9, Zenon DEF Ledger!Record, recorded, duplicated
    <3> QED BY <3>10
  <2> QED BY <2>3, <2>4
<1> QED BY Shapes, <1>1, <1>2, <1>3, <1>4, <1>5, <1>6

\* The parsers implement the ledger: no event is entered twice or out of order
\* unless two cycles of the set have overlapped.
THEOREM Refinement == Spec => ImplementsLedger
<1>1. Init => Ledger!Init
  BY DEF Init, Ledger!Init
<1>2. IInv /\ OneCycle /\ [Next]_vars => IInv' /\ OneCycle'
  BY InvStep, OneCycleStep
<1>3. IInv /\ OneCycle /\ [Next]_vars => [Ledger!Next]_(Ledger!vars)
  BY LedgerStep
<1> QED
  BY <1>1, <1>2, <1>3, InitInv, PTL DEF Spec, ImplementsLedger, Ledger!Spec

-----------------------------------------------------------------------------
(* Attestations *)

Submitting == [at: {"submit", "insert"}, todo: SUBSET Source, source: Source]

(* What a requester has still to do is not attested. *)
WorkSound(w) ==
  /\ w.at \in {"next", "submit", "insert"} =>
       w.todo \in SUBSET Source /\ w.todo \cap Attested = {}
  /\ w.at = "next" => w.todo # {}
  /\ w.at \in {"submit", "insert"} =>
       w \in Submitting /\ w.source \notin Attested /\ w.source \notin w.todo

Alone == \A q, r \in Requester : req[q] # Idle /\ req[r] # Idle => q = r

Requesters == /\ DOMAIN req = Requester
              /\ req = [r \in Requester |-> req[r]]
              /\ \A r \in Requester : WorkSound(req[r])

RowsApart ==
  /\ rows \in Seq(Attestation)
  /\ \A i, j \in DOMAIN rows : rows[i].source = rows[j].source => i = j

(* What the finalizer has found to be the evidence is that of all sources. *)
Evidence ==
  /\ fin.at \in {"verify", "submit"} =>
       fin.rows \in SUBSET (DOMAIN rows) /\ Sources(fin.rows) = Source
  /\ question # "ACTIVE" => sent = Source

AInv == ~ overlapped => Alone /\ Requesters /\ RowsApart /\ Evidence
-----------------------------------------------------------------------------
(* Initially there are neither rows nor work. *)
LEMMA AttestationsInitial == AttestationsInit => AInv
BY DEF AttestationsInit, AInv, Alone, Requesters, WorkSound, RowsApart, Evidence, Resting, Idle

(* The rows keep their number and their sources: nothing that is to be     *)
(* done or was found changes.                                              *)
SourcesKept ==
  /\ rows' \in Seq(Attestation) /\ DOMAIN rows' = DOMAIN rows
  /\ \A i \in DOMAIN rows : rows'[i].source = rows[i].source

LEMMA AttestedKept ==
  ASSUME SourcesKept
  PROVE  Attested' = Attested /\ \A S \in SUBSET (DOMAIN rows) : Sources(S)' = Sources(S)
BY DEF SourcesKept, Attested, Sources

LEMMA RowChanges ==
  ASSUME Alone, Requesters, RowsApart, Evidence, SourcesKept, UNCHANGED <<req, fin, question, sent>>
  PROVE  (Alone /\ Requesters /\ RowsApart /\ Evidence)'
<1>1. Alone' BY DEF Alone
<1>2. Requesters' BY AttestedKept DEF Requesters, WorkSound
<1>3. RowsApart' BY DEF SourcesKept, RowsApart
<1>4. Evidence' BY AttestedKept DEF Evidence, SourcesKept
<1> QED BY <1>1, <1>2, <1>3, <1>4

(* One field of a row other than its source. *)
LEMMA FieldChanges ==
  ASSUME rows \in Seq(Attestation), NEW i \in DOMAIN rows,
         \/ rows' = [rows EXCEPT ![i].proof = TRUE]
         \/ rows' = [rows EXCEPT ![i].ripe = TRUE]
         \/ \E round \in Rounds : rows' = [rows EXCEPT ![i].round = round]
  PROVE  SourcesKept
<1>1. rows[i] \in Attestation OBVIOUS
<1>2. PICK row \in Attestation : row.source = rows[i].source /\ rows' = [rows EXCEPT ![i] = row]
  <2>1. CASE rows' = [rows EXCEPT ![i].proof = TRUE]
    <3>1. PICK row : row = [rows[i] EXCEPT !.proof = TRUE] OBVIOUS
    <3>2. row \in Attestation /\ row.source = rows[i].source BY <1>1, <3>1 DEF Attestation
    <3> QED BY <2>1, <3>1, <3>2
  <2>2. CASE rows' = [rows EXCEPT ![i].ripe = TRUE]
    <3>1. PICK row : row = [rows[i] EXCEPT !.ripe = TRUE] OBVIOUS
    <3>2. row \in Attestation /\ row.source = rows[i].source BY <1>1, <3>1 DEF Attestation
    <3> QED BY <2>2, <3>1, <3>2
  <2>3. CASE \E round \in Rounds : rows' = [rows EXCEPT ![i].round = round]
    <3>1. PICK round \in Rounds : rows' = [rows EXCEPT ![i].round = round] BY <2>3
    <3>2. PICK row : row = [rows[i] EXCEPT !.round = round] OBVIOUS
    <3>3. row \in Attestation /\ row.source = rows[i].source BY <1>1, <3>2 DEF Attestation
    <3> QED BY <3>1, <3>2, <3>3
  <2> QED BY <2>1, <2>2, <2>3
<1> QED BY <1>2 DEF SourcesKept

(* As many rows as sources, and no source twice, are rows of all sources.  *)
LEMMA AllAttested ==
  ASSUME RowsApart, Len(rows) = Cardinality(Source), rows \in Seq(Attestation)
  PROVE  Sources(DOMAIN rows) = Source
<1> DEFINE f == [i \in DOMAIN rows |-> rows[i].source]
<1>1. ASSUME NEW i \in DOMAIN rows PROVE rows[i].source \in Source
  <2>1. rows[i] \in Attestation OBVIOUS
  <2> QED BY <2>1 DEF Attestation
<1>2. f \in [DOMAIN rows -> Source] BY <1>1
<1>3. f \in Injection(DOMAIN rows, Source)
  BY <1>2 DEF Injection, IsInjective, RowsApart
<1>4. IsFiniteSet(Source) BY AttestationsAssumption DEF AttestationsAssumption
<1>5. DOMAIN rows = 1 .. Len(rows) /\ Len(rows) \in Nat OBVIOUS
<1>6. Cardinality(DOMAIN rows) = Len(rows)
  <2> HIDE DEF f
  <2>1. PICK n \in Nat : n = Len(rows) BY <1>5
  <2>2. Cardinality(1 .. n) = IF 1 > n THEN 0 ELSE n - 1 + 1 BY FS_Interval
  <2>3. Cardinality(1 .. n) = n BY <2>2
  <2> QED BY <1>5, <2>1, <2>3
<1>7. f \in Surjection(DOMAIN rows, Source)
  <2> HIDE DEF f
  <2> QED BY <1>3, <1>4, <1>6, FS_Injection
<1> QED BY <1>1, <1>7 DEF Surjection, Sources

(* The only requester at work takes a step; the others rest. *)
LEMMA OneWorks ==
  ASSUME Requesters, NEW r \in Requester, \A q \in Requester \ {r} : req[q] = Idle,
         NEW w, req' = [req EXCEPT ![r] = w], WorkSound(w)'
  PROVE  (Alone /\ Requesters)'
<1>1. \A q \in Requester : req'[q] = IF q = r THEN w ELSE Idle BY DEF Requesters
<1>2. WorkSound(Idle)' BY DEF WorkSound, Idle
<1>3. Alone' BY <1>1 DEF Alone
<1>4. \A q \in Requester : WorkSound(req[q])' BY <1>1, <1>2
<1>5. DOMAIN req' = Requester /\ req' = [q \in Requester |-> req'[q]] BY DEF Requesters
<1> QED BY <1>3, <1>4, <1>5 DEF Requesters

LEMMA OthersIdle ==
  ASSUME Alone, NEW r \in Requester, req[r] # Idle
  PROVE  \A q \in Requester \ {r} : req[q] = Idle
BY DEF Alone

(* What is left when a source is done or passed over. *)
LEMMA RestSound ==
  ASSUME NEW todo \in SUBSET Source, (todo \cap Attested = {})'
  PROVE  WorkSound(Rest(todo))'
BY DEF WorkSound, Rest, Idle

(* Steps of a requester that leave the rows alone. *)
LEMMA RequesterMoves ==
  ASSUME Alone, Requesters, RowsApart, Evidence, UNCHANGED <<rows, fin, question, sent>>,
         NEW r \in Requester, \A q \in Requester \ {r} : req[q] = Idle,
         NEW w, Requests(r, w), WorkSound(w)
  PROVE  (Alone /\ Requesters /\ RowsApart /\ Evidence)'
<1>1. SourcesKept BY DEF SourcesKept, RowsApart
<1>2. WorkSound(w)' BY <1>1, AttestedKept DEF WorkSound
<1>3. (Alone /\ Requesters)' BY <1>2, OneWorks DEF Requests
<1>4. RowsApart' BY DEF RowsApart
<1>5. Evidence' BY <1>1, AttestedKept DEF Evidence
<1> QED BY <1>3, <1>4, <1>5

(* A row is added for the source its requester has paid for. *)
LEMMA InsertSound ==
  ASSUME Alone, Requesters, RowsApart, Evidence, NEW r \in Requester, InsertAttestation(r)
  PROVE  (Alone /\ Requesters /\ RowsApart /\ Evidence)'
<1> DEFINE s == req[r].source
           todo == req[r].todo
           row == [source |-> s, round |-> "open", ripe |-> FALSE, proof |-> FALSE]
<1>1. /\ s \in Source \ Attested /\ s \notin todo
      /\ todo \in SUBSET Source /\ todo \cap Attested = {}
  BY DEF InsertAttestation, Requesters, WorkSound, Submitting
<1>2. row \in Attestation /\ row.source = s
  <2>1. FALSE \in BOOLEAN /\ "open" \in Rounds BY DEF Rounds
  <2> HIDE DEF s
  <2> QED BY <1>1, <2>1 DEF Attestation, s
<1>3. rows' = Append(rows, row) BY DEF InsertAttestation
<1> HIDE DEF row
<1>4. /\ rows' \in Seq(Attestation) /\ DOMAIN rows' = DOMAIN rows \cup {Len(rows) + 1}
      /\ \A i \in DOMAIN rows : rows'[i] = rows[i]
      /\ rows'[Len(rows) + 1] = row /\ Len(rows) + 1 \notin DOMAIN rows
  BY <1>2, <1>3 DEF RowsApart
<1>5. Attested' = Attested \cup {s} BY <1>2, <1>4 DEF Attested, Sources
<1>6. \A S \in SUBSET (DOMAIN rows) : Sources(S)' = Sources(S) BY <1>4 DEF Sources
<1>7. UNCHANGED <<fin, question, sent>> BY DEF InsertAttestation, resolveVars
<1>8. Evidence' BY <1>4, <1>6, <1>7 DEF Evidence
<1>9. RowsApart'
  <2>1. \A i \in DOMAIN rows : rows[i].source # s BY <1>1 DEF Attested, Sources
  <2> QED BY <1>2, <1>4, <2>1 DEF RowsApart
<1>10. (Alone /\ Requesters)'
  <2>1. PICK left : left = todo OBVIOUS
  <2>2. left \in SUBSET Source /\ (left \cap Attested = {})' BY <1>1, <1>5, <2>1
  <2>3. PICK w : w = Rest(left) OBVIOUS
  <2>4. WorkSound(w)' BY <2>2, <2>3, RestSound
  <2>5. req' = [req EXCEPT ![r] = w] /\ req[r].at = "insert"
    BY <2>1, <2>3 DEF InsertAttestation, Requests
  <2>6. \A q \in Requester \ {r} : req[q] = Idle BY <2>5, OthersIdle DEF Idle
  <2> QED BY <2>4, <2>5, <2>6, OneWorks
<1> QED BY <1>8, <1>9, <1>10

(* A requester's steps, unless another one is at work. *)
LEMMA RequestSound ==
  ASSUME Alone, Requesters, RowsApart, Evidence, NEW r \in Requester, Request(r),
         ~ overlapped'
  PROVE  (Alone /\ Requesters /\ RowsApart /\ Evidence)'
<1>1. WorkSound(req[r]) BY DEF Requesters
<1>2. WorkSound(Idle) BY DEF WorkSound, Idle
<1>3. ASSUME NEW todo \in SUBSET Source, todo \cap Attested = {}
      PROVE  WorkSound(Rest(todo))
  BY <1>3 DEF WorkSound, Rest, Idle
<1>4. CASE SelectUnattested(r)
  <2>1. \A q \in Requester \ {r} : req[q] = Idle BY <1>4 DEF SelectUnattested
  <2>2. PICK w : w = [at |-> "selected"] OBVIOUS
  <2>3. WorkSound(w) BY <2>2 DEF WorkSound
  <2> QED BY <1>4, <2>1, <2>2, <2>3, RequesterMoves DEF SelectUnattested, resolveVars
<1>5. CASE req[r] # Idle
  <2>1. \A q \in Requester \ {r} : req[q] = Idle BY <1>5, OthersIdle
  <2>2. CASE ReadAttestations(r)
    <3>1. WorkSound(Rest(Source \ Attested)) BY <1>3
    <3> QED BY <2>1, <2>2, <3>1, RequesterMoves DEF ReadAttestations, resolveVars
  <2>3. CASE Prepare(r)
    <3> DEFINE s == First(req[r].todo)
               left == req[r].todo \ {s}
    <3>1. /\ req[r].todo \in SUBSET Source /\ req[r].todo \cap Attested = {}
          /\ s \in req[r].todo
      BY <1>1, <2>3 DEF Prepare, WorkSound, First
    <3>2. left \in SUBSET Source /\ left \cap Attested = {} /\ s \notin left
          /\ s \in Source /\ s \notin Attested
      BY <3>1
    <3>3. WorkSound(Rest(left)) BY <1>3, <3>2
    <3> HIDE DEF s, left
    <3>4. PICK w : w = [at |-> "submit", todo |-> left, source |-> s] OBVIOUS
    <3>5. WorkSound(w) BY <3>2, <3>4 DEF WorkSound, Submitting
    <3>6. UNCHANGED <<rows, fin, question, sent>>
          /\ (Requests(r, w) \/ Requests(r, Rest(left)))
      BY <2>3, <3>4 DEF Prepare, resolveVars, s, left
    <3> QED BY <2>1, <3>3, <3>5, <3>6, RequesterMoves
  <2>4. CASE Submit(r)
    <3>1. PICK w : w = [req[r] EXCEPT !.at = "insert"] OBVIOUS
    <3>2. /\ req[r] \in Submitting /\ req[r].todo \cap Attested = {}
          /\ req[r].source \notin Attested /\ req[r].source \notin req[r].todo
      BY <1>1, <2>4 DEF Submit, WorkSound
    <3>3. /\ w \in Submitting /\ w.at = "insert"
          /\ w.todo = req[r].todo /\ w.source = req[r].source
      BY <3>1, <3>2 DEF Submitting
    <3>4. WorkSound(w) BY <3>2, <3>3 DEF WorkSound, Submitting
    <3>5. WorkSound(Rest(req[r].todo)) BY <1>3, <3>2 DEF Submitting
    <3>6. UNCHANGED <<rows, fin, question, sent>>
          /\ (Requests(r, w) \/ Requests(r, Rest(req[r].todo)))
      BY <2>4, <3>1 DEF Submit, resolveVars
    <3> QED BY <2>1, <3>4, <3>5, <3>6, RequesterMoves
  <2>5. CASE InsertAttestation(r) BY <2>5, InsertSound
  <2>6. CASE PassOver(r)
    <3>1. WorkSound(Rest(req[r].todo)) BY <1>1, <1>3, <2>6 DEF PassOver, WorkSound
    <3> QED BY <2>1, <2>6, <3>1, RequesterMoves DEF PassOver, resolveVars
  <2>7. CASE RequesterDies(r) BY <1>2, <2>1, <2>7, RequesterMoves DEF RequesterDies, resolveVars
  <2> QED BY <1>4, <2>2, <2>3, <2>4, <2>5, <2>6, <2>7 DEF Request
<1>6. CASE req[r] = Idle
  BY <1>4, <1>6
  DEF Request, ReadAttestations, Prepare, Submit, InsertAttestation, PassOver, RequesterDies, Idle
<1> QED BY <1>5, <1>6

(* The finalizer's steps: what goes to the oracle is evidence of all       *)
(* sources.                                                                *)
LEMMA FinalizeSound ==
  ASSUME Alone, Requesters, RowsApart, Evidence, Finalize
  PROVE  (Alone /\ Requesters /\ RowsApart /\ Evidence)'
<1>1. UNCHANGED <<rows, req>>
  BY DEF Finalize, SelectResolved, ReadEvidence, Verify, FinalizeQuestion, SaveStatus,
         GiveUp, requestVars
<1>2. Attested' = Attested /\ \A S \in SUBSET (DOMAIN rows) : Sources(S)' = Sources(S)
  BY <1>1 DEF Attested, Sources
<1>3. (Alone /\ Requesters /\ RowsApart)'
  BY <1>1, <1>2 DEF Alone, Requesters, WorkSound, RowsApart
<1>4. Evidence'
  <2>1. CASE ReadEvidence
    <3>1. CASE Evident
      <4>1. Sources(DOMAIN rows) = Source BY <3>1, AllAttested DEF Evident, RowsApart
      <4>2. /\ fin' = [at |-> "verify", rows |-> DOMAIN rows]
            /\ UNCHANGED <<question, sent>>
        BY <2>1, <3>1 DEF ReadEvidence, Finalizes
      <4>3. fin'.rows = DOMAIN rows BY <4>2
      <4> QED BY <1>1, <1>2, <4>1, <4>2, <4>3 DEF Evidence
    <3>2. CASE ~ Evident
      BY <2>1, <3>2 DEF ReadEvidence, Resting, Evidence
    <3> QED BY <3>1, <3>2
  <2>2. CASE Verify
    <3>1. /\ fin.at = "verify" /\ fin' = [at |-> "submit", rows |-> fin.rows]
          /\ UNCHANGED <<question, sent>>
      BY <2>2 DEF Verify, Finalizes
    <3>2. fin'.rows = fin.rows BY <3>1
    <3> QED BY <1>1, <1>2, <3>1, <3>2 DEF Evidence
  <2>3. CASE FinalizeQuestion
    <3>1. fin.at = "submit" /\ sent' = Sources(fin.rows) /\ fin'.at = "save"
      BY <2>3 DEF FinalizeQuestion, Finalizes
    <3> QED BY <3>1 DEF Evidence
  <2>4. CASE SelectResolved
    <3>1. fin'.at = "selected" /\ UNCHANGED <<question, sent>>
      BY <2>4 DEF SelectResolved, Finalizes
    <3> QED BY <3>1 DEF Evidence
  <2>5. CASE SaveStatus \/ GiveUp
    <3>1. fin'.at = "idle" /\ UNCHANGED <<question, sent>>
      BY <2>5 DEF SaveStatus, GiveUp, Resting
    <3> QED BY <3>1 DEF Evidence
  <2> QED BY <2>1, <2>2, <2>3, <2>4, <2>5 DEF Finalize
<1> QED BY <1>3, <1>4

(* AInv is inductive. *)
LEMMA AttestationsStep == AInv /\ [AttestationsNext]_attestationVars => AInv'
<1> SUFFICES ASSUME AInv, [AttestationsNext]_attestationVars, ~ overlapped'
             PROVE  (Alone /\ Requesters /\ RowsApart /\ Evidence)'
  BY DEF AInv
<1>1. ~ overlapped
  BY DEF AttestationsNext, attestationVars, requestVars, Request, SelectUnattested, ReadAttestations, Prepare,
         Submit, InsertAttestation, PassOver, RequesterDies, SelectUnproved, Prove, Unproven,
         Finalize, SelectResolved, ReadEvidence, Verify, FinalizeQuestion, SaveStatus,
         GiveUp, TimePasses, Ripen, CloseRound
<1>2. Alone /\ Requesters /\ RowsApart /\ Evidence BY <1>1 DEF AInv
<1>3. CASE UNCHANGED <<rows, req, fin, question, sent>>
  <2>1. SourcesKept BY <1>2, <1>3 DEF SourcesKept, RowsApart
  <2> QED BY <1>2, <1>3, <2>1, RowChanges
<1>4. ASSUME NEW r \in Requester, Request(r)
      PROVE  (Alone /\ Requesters /\ RowsApart /\ Evidence)'
  BY <1>2, <1>4, RequestSound
<1>5. ASSUME NEW i \in DOMAIN rows, Prove(i) \/ Ripen(i) \/ CloseRound(i)
      PROVE  (Alone /\ Requesters /\ RowsApart /\ Evidence)'
  <2>1. SourcesKept
    BY <1>2, <1>5, FieldChanges DEF RowsApart, Prove, Ripen, CloseRound
  <2>2. UNCHANGED <<req, fin, question, sent>>
    BY <1>5 DEF Prove, Ripen, CloseRound, requestVars, resolveVars
  <2> QED BY <1>2, <2>1, <2>2, RowChanges
<1>6. CASE SelectUnproved \/ (\E i \in DOMAIN rows : Unproven(i)) \/ TimePasses
           \/ UNCHANGED attestationVars
  BY <1>3, <1>6 DEF SelectUnproved, Unproven, TimePasses, attestationVars, requestVars, resolveVars
<1>7. CASE Finalize BY <1>2, <1>7, FinalizeSound
<1> QED BY <1>4, <1>5, <1>6, <1>7 DEF AttestationsNext
-----------------------------------------------------------------------------
(* For any number of data sources and of executions, and whatever fails:   *)
(* unless two requesters have been at work at once, the oracle is given a  *)
(* proof of every source, by a comparison of two numbers                   *)
(* (finalize-automatic-prediction-sets.worker.ts:59).                      *)
THEOREM EvidenceIsComplete == AttestationsSpec => []EvidenceComplete
<1>1. AInv => EvidenceComplete BY DEF AInv, Evidence, EvidenceComplete
<1> QED BY <1>1, AttestationsInitial, AttestationsStep, PTL DEF AttestationsSpec

(* Payments are only ever added, by Submit. *)
PaidTyped == paid \in [Source -> Nat]

LEMMA OnlySubmitPays ==
  ASSUME [AttestationsNext]_attestationVars PROVE UNCHANGED paid \/ \E r \in Requester : Submit(r)
BY DEF AttestationsNext, attestationVars, requestVars, Request, SelectUnattested, ReadAttestations, Prepare,
       InsertAttestation, PassOver, RequesterDies, SelectUnproved, Prove, Unproven,
       Finalize, SelectResolved, ReadEvidence, Verify, FinalizeQuestion, SaveStatus,
       GiveUp, TimePasses, Ripen, CloseRound

LEMMA PaidStep == PaidTyped /\ [AttestationsNext]_attestationVars => PaidTyped'
<1> SUFFICES ASSUME PaidTyped, [AttestationsNext]_attestationVars PROVE PaidTyped' OBVIOUS
<1>1. ASSUME NEW r \in Requester, Submit(r) PROVE PaidTyped'
  <2>1. PICK s : s = req[r].source OBVIOUS
  <2>2. paid' = [paid EXCEPT ![s] = paid[s] + 1] BY <1>1, <2>1 DEF Submit
  <2>3. \A t \in Source : paid[t] \in Nat /\ paid[t] + 1 \in Nat BY DEF PaidTyped
  <2> QED BY <2>2, <2>3 DEF PaidTyped
<1> QED BY <1>1, OnlySubmitPays DEF PaidTyped

(* Nor is a source paid for that has its attestation                       *)
(* (request-attestation.worker.ts:65-85).                                  *)
THEOREM NothingPaidTwice == AttestationsSpec => PaidOnce
<1>1. AttestationsInit => PaidTyped BY DEF AttestationsInit, PaidTyped
<1>2. AInv /\ PaidTyped /\ [AttestationsNext]_attestationVars =>
        [\A s \in Source : paid'[s] > paid[s] => s \notin Attested \/ overlapped]_attestationVars
  <2> SUFFICES ASSUME AInv, PaidTyped, [AttestationsNext]_attestationVars, NEW s \in Source,
                      paid'[s] > paid[s], ~ overlapped
               PROVE  s \notin Attested
    OBVIOUS
  <2>1. paid[s] \in Nat BY DEF PaidTyped
  <2>2. CASE UNCHANGED paid BY <2>1, <2>2
  <2>3. ASSUME NEW r \in Requester, Submit(r) PROVE s \notin Attested
    <3>1. req[r].source \notin Attested
      BY <2>3 DEF AInv, Requesters, WorkSound, Submit
    <3>2. CASE s # req[r].source
      <4>1. paid'[s] = paid[s] BY <2>3, <3>2 DEF Submit, PaidTyped
      <4>2. ~ (paid[s] > paid[s]) BY <2>1
      <4> QED BY <4>1, <4>2
    <3> QED BY <3>1, <3>2
  <2> QED BY <2>2, <2>3, OnlySubmitPays
<1> QED BY <1>1, <1>2, PaidStep, AttestationsInitial, AttestationsStep, PTL DEF AttestationsSpec, PaidOnce
=============================================================================
