---------------------------- MODULE EventIndexer ----------------------------
(***************************************************************************)
(* How the events of one market get into the database.  While the set is   *)
(* in FUNDING or ACTIVE a child process of the indexer parses its added    *)
(* funding (and, on the same path, its trades); once it is FINALIZED an    *)
(* SQS worker parses its removed funding.  Both follow the same cursor,    *)
(* lastProcessedBlock, which they read without a lock and write absolutely *)
(* in the transaction that inserts the events.                             *)
(*                                                                         *)
(* A planner starts and stops the child: every interval it asks for the    *)
(* sets to be parsed and compares them with its map of running parsers,    *)
(* here the one entry of this set.  It does not wait for its last query,   *)
(* so an answer may be acted on late, and after another one.               *)
(***************************************************************************)
EXTENDS Integers, Sequences, FiniteSets

CONSTANTS
  Child,        \* parser processes that may be alive at once
  Executor,     \* concurrent executions of the finalized-set parser
  None,         \* no entry in RUNNING_PARSERS
  BlockSize,    \* parseBlockSize
  MaxBlocks,    \* bound: confirmed blocks
  MaxMessages,  \* bound: messages for the finalized-set parser
  MaxChanges,   \* bound: changes of the set's status
  MaxFailures   \* bound: errors and deaths

ASSUME IndexerAssumption ==
  /\ Child \cap Executor = {}
  /\ None \notin Child
  /\ {BlockSize, MaxBlocks, MaxMessages, MaxChanges, MaxFailures} \subseteq Nat

VARIABLES
  log,       \* the market's event in each confirmed block
  resolved,  \* the market is resolved: no more funding and trades
  status,    \* of the set, as far as the planners tell statuses apart
  cursor,    \* chain data: lastProcessedBlock
  records,   \* how often each block's event is in the database
  skipped,   \* history: blocks whose event a parser of the other kind passed
  pc,        \* where each parser stands
  from,      \* the first block of its open cycle, 0 if none
  upto,      \* the last one, 0 before the events are fetched
  tracked,   \* the child in RUNNING_PARSERS
  orphans,   \* children of a planner that died
  plans,     \* answers of the planner's queries not acted on yet
  messages,  \* the finalized-set parser's queue
  raced,     \* history: a cycle was opened while another one was open
  changes,
  failures

ledgerVars == <<log, cursor, records, skipped, raced>>
cycles == <<from, upto>>
planner == <<tracked, orphans, plans>>
bounds == <<changes, failures>>
vars == <<ledgerVars, resolved, status, pc, cycles, planner, messages, bounds>>

Parser == Child \cup Executor
Block == 1 .. MaxBlocks
\* FUNDING or ACTIVE with a contract; FINALIZED; any other; populateById fails.
Status == {"open", "FINALIZED", "closed", "deleted"}

TypeOK ==
  /\ log \in Seq({"none", "added", "removed"}) /\ Len(log) <= MaxBlocks
  /\ resolved \in BOOLEAN
  /\ status \in Status
  /\ cursor \in 0 .. Len(log)
  /\ records \in [Block -> 0 .. 2]
  /\ skipped \subseteq Block
  /\ pc \in [Parser -> {"off", "spawned", "up", "closing", "ended", "failed"}]
  /\ from \in [Parser -> 0 .. MaxBlocks + 1]
  /\ upto \in [Parser -> 0 .. MaxBlocks]
  /\ tracked \in Child \cup {None}
  /\ orphans \subseteq Child
  /\ plans \subseteq {"run", "stop"}
  /\ messages \in 0 .. MaxMessages
  /\ raced \in BOOLEAN
  /\ changes \in 0 .. MaxChanges
  /\ failures \in 0 .. MaxFailures

Init ==
  /\ log = << >>
  /\ resolved = FALSE
  /\ status = "open"
  /\ cursor = 0
  /\ records = [b \in Block |-> 0]
  /\ skipped = {}
  /\ pc = [p \in Parser |-> "off"]
  /\ from = [p \in Parser |-> 0]
  /\ upto = [p \in Parser |-> 0]
  /\ tracked = None
  /\ orphans = {}
  /\ plans = {}
  /\ messages = 0
  /\ raced = FALSE
  /\ changes = 0
  /\ failures = 0

Fail == failures < MaxFailures /\ failures' = failures + 1

-----------------------------------------------------------------------------
(* The chain and the other writers of the set.                             *)

Blocks(event) == {b \in 1 .. Len(log) : log[b] = event}

\* A block is confirmed.  Funding is added until the market is resolved, and
\* what was added may be removed afterwards.
Mine ==
  /\ Len(log) < MaxBlocks
  /\ \E event \in {"none", "added", "removed"} :
       /\ event = "added" => ~resolved
       /\ event = "removed" =>
            resolved /\ Cardinality(Blocks("removed")) < Cardinality(Blocks("added"))
       /\ log' = Append(log, event)
  /\ UNCHANGED <<resolved, status, cursor, records, skipped, raced, pc, cycles,
                 planner, messages, bounds>>

Resolve ==
  /\ ~resolved
  /\ resolved' = TRUE
  /\ UNCHANGED <<ledgerVars, status, pc, cycles, planner, messages, bounds>>

\* Finalizers, voting parser, admins; a stale write may restore any status.
ChangeStatus ==
  /\ changes < MaxChanges
  /\ changes' = changes + 1
  /\ status' \in Status \ {status}
  /\ status' = "FINALIZED" => resolved
  /\ UNCHANGED <<ledgerVars, resolved, pc, cycles, planner, messages, failures>>

-----------------------------------------------------------------------------
(* One cycle of a parser: read the cursor, fetch the events, commit.       *)

\* What a parser enters: a child FundingAdded, an executor FundingRemoved.
Kind(p) == IF p \in Child THEN "added" ELSE "removed"

\* The set and its chain data, read outside the transaction.
ReadCursor_inclusive(p) ==
  /\ from[p] = 0
  /\ from' = [from EXCEPT ![p] = IF cursor = 0 THEN 1 ELSE cursor]
  /\ raced' = (raced \/ \E q \in Parser : from[q] # 0)
  /\ UNCHANGED <<log, cursor, records, skipped, upto>>

ReadCursor(p) ==
  /\ from[p] = 0
  /\ from' = [from EXCEPT ![p] = cursor + 1]
  /\ raced' = (raced \/ \E q \in Parser : from[q] # 0)
  /\ UNCHANGED <<log, cursor, records, skipped, upto>>

OpenCycle(c) ==
  /\ pc[c] = "up"
  /\ status # "deleted"
  /\ ReadCursor(c)
  /\ UNCHANGED <<resolved, status, pc, planner, messages, bounds>>

ToBlock(first) ==
  IF first + BlockSize > Len(log) THEN Len(log) ELSE first + BlockSize

\* The children accept a range of one block, the executors do not.
InRange_twoBlocks(p, to) ==
  IF p \in Child THEN from[p] <= to ELSE from[p] + 1 < to

InRange(p, to) == IF p \in Child THEN from[p] <= to ELSE from[p] < to

Fetch(p) ==
  /\ pc[p] = "up"
  /\ from[p] # 0 /\ upto[p] = 0
  /\ InRange(p, ToBlock(from[p]))
  /\ upto' = [upto EXCEPT ![p] = ToBlock(from[p])]
  /\ UNCHANGED <<ledgerVars, resolved, status, pc, from, planner, messages, bounds>>

\* The cycle is over: a child goes on, an executor returns.
CloseCycle(p) ==
  /\ from' = [from EXCEPT ![p] = 0]
  /\ upto' = [upto EXCEPT ![p] = 0]
  /\ pc' = IF p \in Executor THEN [pc EXCEPT ![p] = "off"] ELSE pc

NothingNew(p) ==
  /\ pc[p] = "up"
  /\ from[p] # 0 /\ upto[p] = 0
  /\ ~InRange(p, ToBlock(from[p]))
  /\ CloseCycle(p)
  /\ UNCHANGED <<ledgerVars, resolved, status, planner, messages, bounds>>

Processed(p) == upto[p]

\* The events of the range and the cursor, in one transaction.  A child that
\* was told to stop may have sent its COMMIT before it closes the pool.
Commit(p) ==
  /\ upto[p] # 0
  /\ records' = [b \in Block |->
       IF b \in from[p] .. upto[p] /\ log[b] = Kind(p) /\ records[b] < 2
       THEN records[b] + 1 ELSE records[b]]
  /\ skipped' = skipped \cup
       {b \in from[p] .. upto[p] : log[b] \notin {"none", Kind(p)}}
  /\ cursor' = Processed(p)
  /\ CloseCycle(p)
  /\ UNCHANGED <<log, raced, resolved, status, planner, messages, bounds>>

\* Any error in the cycle: the transaction is rolled back.
Rollback_cursorKept(p) ==
  /\ from[p] # 0 /\ pc[p] = "up"
  /\ Fail
  /\ cursor' = IF upto[p] # 0 THEN upto[p] ELSE cursor
  /\ CloseCycle(p)
  /\ UNCHANGED <<log, records, skipped, raced, resolved, status, planner, messages, changes>>

Rollback(p) ==
  /\ from[p] # 0 /\ pc[p] = "up"
  /\ Fail
  /\ CloseCycle(p)
  /\ UNCHANGED <<ledgerVars, resolved, status, planner, messages, changes>>

-----------------------------------------------------------------------------
(* The child processes.                                                    *)

Leave(c, exit) ==
  /\ pc' = [pc EXCEPT ![c] = exit]
  /\ from' = [from EXCEPT ![c] = 0]
  /\ upto' = [upto EXCEPT ![c] = 0]
  /\ UNCHANGED <<ledgerVars, resolved, status, planner, messages, changes>>

\* The context is created and the signal handlers are registered.
Initialize(c) ==
  /\ pc[c] = "spawned"
  /\ pc' = [pc EXCEPT ![c] = "up"]
  /\ UNCHANGED <<ledgerVars, resolved, status, cycles, planner, messages, bounds>>

\* main returns because the set is deleted ...
ShutDown(c) ==
  /\ pc[c] = "up" /\ from[c] = 0
  /\ status = "deleted"
  /\ Leave(c, "ended")
  /\ UNCHANGED failures

\* ... or because an event names an outcome that is not in the database.
UnknownOutcome(c) ==
  /\ pc[c] = "up" /\ upto[c] # 0
  /\ Fail
  /\ Leave(c, "ended")

\* The graceful exit on SIGINT: the pool is closed, then exit(0).
Exit(c) ==
  /\ pc[c] = "closing"
  /\ Leave(c, "ended")
  /\ UNCHANGED failures

\* A fatal error, exit(1), or a kill from outside.
Die(c) ==
  /\ pc[c] \in {"spawned", "up", "closing"}
  /\ Fail
  /\ Leave(c, "failed")

-----------------------------------------------------------------------------
(* The planner.                                                            *)

\* spawn: the bound Child says how many may be alive.
Spawn(alive) ==
  \E d \in Child :
    /\ alive[d] = "off"
    /\ pc' = [alive EXCEPT ![d] = "spawned"]
    /\ tracked' = d

\* The exit handler: whatever entry the set has is deleted.
ExitEvent_untrackFailed(c) ==
  /\ c \notin orphans
  /\ \/ /\ pc[c] = "ended"
        /\ pc' = [pc EXCEPT ![c] = "off"]
        /\ UNCHANGED tracked
     \/ /\ pc[c] = "failed"
        /\ Spawn([pc EXCEPT ![c] = "off"])
  /\ UNCHANGED <<ledgerVars, resolved, status, cycles, orphans, plans, messages, bounds>>

ExitEvent(c) ==
  /\ c \notin orphans
  /\ \/ /\ pc[c] = "ended"
        /\ pc' = [pc EXCEPT ![c] = "off"]
        /\ tracked' = None
     \/ /\ pc[c] = "failed"
        /\ Spawn([pc EXCEPT ![c] = "off"])
  /\ UNCHANGED <<ledgerVars, resolved, status, cycles, orphans, plans, messages, bounds>>

\* Nobody hears of the exit of an orphan.
OrphanGone(c) ==
  /\ c \in orphans
  /\ pc[c] \in {"ended", "failed"}
  /\ pc' = [pc EXCEPT ![c] = "off"]
  /\ orphans' = orphans \ {c}
  /\ UNCHANGED <<ledgerVars, resolved, status, cycles, tracked, plans, messages, bounds>>

Query ==
  /\ plans' = plans \cup {IF status = "open" THEN "run" ELSE "stop"}
  /\ UNCHANGED <<ledgerVars, resolved, status, pc, cycles, tracked, orphans,
                 messages, bounds>>

\* executePlanner after its query: startParser if the set was found ...
Start ==
  /\ "run" \in plans
  /\ plans' = plans \ {"run"}
  /\ IF tracked = None THEN Spawn(pc) ELSE UNCHANGED <<pc, tracked>>
  /\ UNCHANGED <<ledgerVars, resolved, status, cycles, orphans, messages, bounds>>

\* ... and stopParser if it was not.  A child that has not registered its
\* handlers dies of the signal; one that is gone already does not notice.
Stop ==
  /\ "stop" \in plans
  /\ plans' = plans \ {"stop"}
  /\ pc' = [c \in Parser |->
       CASE c # tracked \/ pc[c] \notin {"spawned", "up"} -> pc[c]
         [] c = tracked /\ pc[c] = "up" -> "closing"
         [] c = tracked /\ pc[c] = "spawned" -> "failed"]
  /\ tracked' = None
  /\ UNCHANGED <<ledgerVars, resolved, status, cycles, orphans, messages, bounds>>

\* PM2 starts the planner again with an empty map; its children live on.
PlannerDies ==
  /\ Fail
  /\ tracked' = None
  /\ plans' = {}
  /\ orphans' = {c \in Child : pc[c] # "off"}
  /\ UNCHANGED <<ledgerVars, resolved, status, pc, cycles, messages, changes>>

-----------------------------------------------------------------------------
(* The finalized-set parser.                                               *)

Recorded(event) == {b \in Blocks(event) : records[b] > 0}

\* Blocks that count twice because their event was entered twice.
Doubled(event) == {b \in Blocks(event) : records[b] = 2}

\* The planner's sum over the set's funding transactions is positive.
FundingLeft ==
  Cardinality(Recorded("added")) + Cardinality(Doubled("added")) >
    Cardinality(Recorded("removed")) + Cardinality(Doubled("removed"))

PlanFinalized ==
  /\ messages < MaxMessages
  /\ status = "FINALIZED" /\ FundingLeft
  /\ messages' = messages + 1
  /\ UNCHANGED <<ledgerVars, resolved, status, pc, cycles, planner, bounds>>

\* A user has taken funding out, and the client says so.
TriggerFinalized ==
  /\ messages < MaxMessages
  /\ status = "FINALIZED"
  /\ messages' = messages + 1
  /\ UNCHANGED <<ledgerVars, resolved, status, pc, cycles, planner, bounds>>

\* A message is handled; it may be delivered again.
Receive(e) ==
  /\ pc[e] = "off"
  /\ messages > 0
  /\ messages' \in {messages, messages - 1}
  /\ IF status = "FINALIZED"
     THEN /\ pc' = [pc EXCEPT ![e] = "up"]
          /\ ReadCursor(e)
     ELSE UNCHANGED <<ledgerVars, pc, cycles>>
  /\ UNCHANGED <<resolved, status, planner, bounds>>

-----------------------------------------------------------------------------
Cycle(p) == Fetch(p) \/ NothingNew(p) \/ Commit(p)

Next ==
  \/ Mine \/ Resolve \/ ChangeStatus
  \/ \E p \in Parser : Cycle(p) \/ Rollback(p)
  \/ \E c \in Child :
       \/ OpenCycle(c) \/ Initialize(c) \/ ShutDown(c) \/ UnknownOutcome(c)
       \/ Exit(c) \/ Die(c) \/ ExitEvent(c) \/ OrphanGone(c)
  \/ Query \/ Start \/ Stop \/ PlannerDies
  \/ PlanFinalized \/ TriggerFinalized
  \/ \E e \in Executor : Receive(e)

Spec == Init /\ [][Next]_vars

\* A living process goes on with its loop; exits are noticed; the planner's
\* timer fires, its queries are answered, and messages are handled.
Fairness ==
  /\ \A p \in Parser : WF_vars(Cycle(p))
  /\ \A c \in Child :
       WF_vars(OpenCycle(c) \/ Initialize(c) \/ ShutDown(c) \/ Exit(c)
                 \/ ExitEvent(c) \/ OrphanGone(c))
  /\ WF_vars(Query) /\ WF_vars(Start) /\ WF_vars(Stop)
  /\ WF_vars(PlanFinalized)
  /\ \A e \in Executor : WF_vars(Receive(e))

FairSpec == Spec /\ Fairness

-----------------------------------------------------------------------------
(* Properties                                                                *)

Covered(b) == log[b] = "none" \/ records[b] > 0 \/ b \in skipped

\* However many parsers work on the set, and however they are stopped, killed
\* and restarted: an event behind the cursor is in the database, unless only
\* a parser of the other kind has passed its block
\* (prediction-set-parser.ts:76-293, prediction-set-finalized-parser.worker.ts:82-139).
AtLeastOnce == \A b \in 1 .. cursor : Covered(b)

\* No event is entered twice, nor entered before the cursor says so, as long
\* as no two cycles of this set overlap: not by a rollback, nor by a restart,
\* nor when the set changes hands between indexer and finalized-set parser
\* (the cursor is moved in the events' transaction, prediction-set-parser.ts:293-294).
Ledger == INSTANCE EventLedger WITH
  recorded   <- {b \in Block : records[b] > 0},
  duplicated <- {b \in Block : records[b] = 2}

ImplementsLedger == Ledger!Spec

\* An event of a set that stays open gets into the database, whichever child
\* ends, is killed or loses its planner (prediction-set-parser-planner.ts:34-40,
\* 85-90).
OpenSetIndexed ==
  \A b \in Block :
    (b \in Blocks("added") /\ status = "open")
      ~> (records[b] > 0 \/ b \in skipped \/ status # "open")

\* Removed funding of a set that stays FINALIZED gets into the database once
\* another block is confirmed after it, while funding is left to be removed
\* (prediction-set-finalized-parser.worker.ts:22-48, 87-96).
FinalizedSetParsed ==
  \A b \in Block :
    (b \in Blocks("removed") /\ b < Len(log) /\ status = "FINALIZED")
      ~> (records[b] > 0 \/ b \in skipped \/ status # "FINALIZED" \/ ~FundingLeft)
=============================================================================
