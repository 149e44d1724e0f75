------------------------ MODULE InfrastructureProofs ------------------------
(***************************************************************************)
(* Theorems about what every part of the backend stands on: the job lock   *)
(* (JobLock) and the database layer (Migrations, ConnectionPool, Database). *)
(*                                                                         *)
(* Job lock, for any number of executions and any timeouts that            *)
(* JobLockAssumption allows:                                               *)
(*                                                                         *)
(*   TypeCorrect            Spec => []TypeOK                               *)
(*   LockFieldsNeverDisagree  Spec => []LockFieldsAgree                    *)
(*   SingleThreaded         Spec => []SingleThreadUnlessOverlap            *)
(*                                                                         *)
(* The second needs that the rows held in memory agree as well, the third  *)
(* that an execution is never older than LambdaTimeout and that, as long   *)
(* as no overlap happened, the row says at each step of the one holder     *)
(* what that holder last wrote.                                            *)
(*                                                                         *)
(* Database layer, for any requests, connections and limits:               *)
(*                                                                         *)
(*   DatabaseTypeCorrect    DatabaseSpec => []DatabaseTypeOK               *)
(*   SeedsInsertedOnce      DatabaseSpec => []SeededOnce                   *)
(*   ConnectionsLentOnce    DatabaseSpec => []LentOnce                     *)
(*                                                                         *)
(* The second needs that the records, together with what of a seed under   *)
(* way is done, bound the rows there are; the third that a request has as  *)
(* many connections as its step says, and that who waits is about to get   *)
(* one and waits once.                                                     *)
(***************************************************************************)
EXTENDS JobLock, Database, SequenceTheorems, TLAPS

\* The next tick of a cron schedule is a moment of the clock.
LEMMA CronNextType == ASSUME NEW t \in Nat PROVE CronNext(t) \in Nat
  BY JobLockAssumption DEF CronNext, JobLockAssumption

\* An empty model is a row.
LEMMA NewJobType == NewJob \in Job
  BY DEF Job, NewJob, Status, Never

\* The lock, the unlock and the two updates of the worker definition make a
\* row of a row.
LEMMA RowTypes ==
  ASSUME NEW j \in Job, NEW t \in Nat, NEW n \in Nat
  PROVE /\ Lock(j) \in Job
        /\ Unlock(j) \in Job
        /\ [j EXCEPT !.lastRun = t, !.nextRun = n] \in Job
<1>1. [j EXCEPT !.lastRun = t, !.nextRun = n] \in Job
  BY DEF Job
<1>2. Lock(j) \in Job
  <2>1. (IF PastTimeout(j) THEN 1 ELSE j.executorCount + 1) \in Nat
    BY DEF Job
  <2> QED
    BY <2>1 DEF Job, Lock, Status
<1>3. Unlock(j) \in Job
  <2>1. /\ (IF j.status = "LOCKED" THEN "ACTIVE" ELSE j.status) \in Status
        /\ (IF j.executorCount # 0 THEN j.executorCount - 1 ELSE 0) \in Nat
    BY DEF Job, Status
  <2> QED
    BY <2>1 DEF Job, Unlock
<1> QED
  BY <1>1, <1>2, <1>3

\* The type invariant: the executions only ever write well-formed rows, and
\* the executor count never becomes negative (base-single-thread-worker.ts:170).
THEOREM TypeCorrect == Spec => []TypeOK
<1>1. Init => TypeOK
  <2> SUFFICES ASSUME Init PROVE TypeOK
    OBVIOUS
  <2>1. scanned \in BOOLEAN /\ overlap \in BOOLEAN
    BY Zenon DEF Init
  <2>2. 0 \in 0 .. MaxTime /\ 0 \in 0 .. MaxPending
    BY JobLockAssumption DEF JobLockAssumption
  <2> QED
    BY <2>1, <2>2, NewJobType DEF Init, TypeOK, Steps
<1>2. TypeOK /\ [Next]_vars => TypeOK'
  <2> SUFFICES ASSUME TypeOK, [Next]_vars PROVE TypeOK'
    OBVIOUS
  <2>1. CASE Schedule
    BY <2>1, JobLockAssumption DEF TypeOK, Schedule, JobLockAssumption
  <2>2. CASE Tick
    <3>1. now' \in 0 .. MaxTime
      BY <2>2, JobLockAssumption DEF TypeOK, Tick, JobLockAssumption
    <3>2. scanned' \in BOOLEAN
      BY <2>2, Zenon DEF Tick
    <3> QED
      BY <2>2, <3>1, <3>2 DEF TypeOK, Tick
  <2>3. ASSUME NEW w \in Worker, Deliver(w) PROVE TypeOK'
    BY <2>3, JobLockAssumption DEF TypeOK, Deliver, Goto, Steps, JobLockAssumption
  <2>4. ASSUME NEW w \in Worker, End(w), job' \in Job,
               UNCHANGED <<now, pending, scanned, overlap>>
        PROVE TypeOK'
    BY <2>4, NewJobType, JobLockAssumption DEF TypeOK, End, Steps, JobLockAssumption
  <2>5. ASSUME NEW w \in Worker, Kill(w) \/ Discard(w) \/ OnError(w) PROVE TypeOK'
    BY <2>4, <2>5 DEF TypeOK, Kill, Discard, OnError
  <2>6. ASSUME NEW w \in Worker, Before(w) PROVE TypeOK'
    <3>1. Lock(job) \in Job
      BY RowTypes DEF TypeOK
    <3> QED
      BY <2>6, <3>1 DEF TypeOK, Before, Goto, Steps
  <2>7. ASSUME NEW w \in Worker, StartRead(w) PROVE TypeOK'
    BY <2>7 DEF TypeOK, StartRead, Goto, Steps
  <2>8. ASSUME NEW w \in Worker, StartWrite(w) PROVE TypeOK'
    <3>1. [read[w] EXCEPT !.lastRun = started[w], !.nextRun = started[w] + Timeout] \in Job
      <4>1. read[w] \in Job /\ started[w] \in Nat /\ started[w] + Timeout \in Nat
        BY JobLockAssumption DEF TypeOK, JobLockAssumption
      <4> QED
        BY <4>1, RowTypes
    <3> QED
      BY <2>8, <3>1, NewJobType DEF TypeOK, StartWrite, Goto, Steps
  <2>9. ASSUME NEW w \in Worker, Execute(w) PROVE TypeOK'
    BY <2>9 DEF TypeOK, Execute, Goto, Steps
  <2>10. ASSUME NEW w \in Worker, StateWrite(w) PROVE TypeOK'
    <3>1. Unlock(read[w]) \in Job
      BY RowTypes DEF TypeOK
    <3> QED
      BY <2>10, <3>1, NewJobType DEF TypeOK, StateWrite, Goto, Steps
  <2>11. ASSUME NEW w \in Worker, DoneRead(w) PROVE TypeOK'
    BY <2>11 DEF TypeOK, DoneRead, Goto, Steps
  <2>12. ASSUME NEW w \in Worker, DoneWrite(w) PROVE TypeOK'
    <3>1. read[w] \in Job /\ started[w] \in Nat /\ CronNext(started[w]) \in Nat
      BY CronNextType DEF TypeOK
    <3>2. [read[w] EXCEPT !.lastRun = started[w], !.nextRun = CronNext(started[w])] \in Job
      BY <3>1, RowTypes
    <3> QED
      BY <2>4, <2>12, <3>2 DEF DoneWrite
  <2>13. CASE UNCHANGED vars
    BY <2>13 DEF TypeOK, vars
  <2> QED
    BY <2>1, <2>2, <2>3, <2>5, <2>6, <2>7, <2>8, <2>9, <2>10, <2>11, <2>12, <2>13
    DEF Next, Run
<1> QED
  BY <1>1, <1>2, PTL DEF Spec

-----------------------------------------------------------------------------
(* The lock fields                                                           *)

\* The row and every copy of it in an execution's memory agree.
AllAgree == Agrees(job) /\ \A w \in Worker : Agrees(read[w])

\* `before`, onSuccess and a fresh model never produce a row whose status and
\* executor count disagree (base-single-thread-worker.ts:54-70, 164-174).
LEMMA LockKeepsAgreement ==
  ASSUME NEW j \in Job, Agrees(j)
  PROVE /\ Agrees(NewJob)
        /\ ~HeldByOther(j) => Agrees(Lock(j))
        /\ Agrees(Unlock(j))
  BY DEF Job, Agrees, NewJob, Lock, Unlock, HeldByOther, PastTimeout, Status

\* The row's status and its executor count never disagree, so checkLockedStatus
\* never meets an ACTIVE row that it refuses (base-single-thread-worker.ts:140-149).
THEOREM LockFieldsNeverDisagree == Spec => []LockFieldsAgree
<1>1. Init => AllAgree
  BY DEF Init, AllAgree, Agrees, NewJob
<1>2. TypeOK /\ AllAgree /\ [Next]_vars => AllAgree'
  <2> SUFFICES ASSUME TypeOK, AllAgree, [Next]_vars PROVE AllAgree'
    OBVIOUS
  <2>1. Agrees(NewJob) /\ (~HeldByOther(job) => Agrees(Lock(job)))
    BY LockKeepsAgreement DEF TypeOK, AllAgree
  <2>2. CASE Schedule
    BY <2>2 DEF AllAgree, Agrees, Schedule
  <2>3. CASE Tick
    BY <2>3 DEF AllAgree, Agrees, Tick
  <2>4. ASSUME NEW w \in Worker, Deliver(w) PROVE AllAgree'
    BY <2>4 DEF AllAgree, Agrees, Deliver
  <2>5. ASSUME NEW w \in Worker, End(w), Agrees(job') PROVE AllAgree'
    BY <2>1, <2>5 DEF TypeOK, AllAgree, Agrees, End
  <2>6. ASSUME NEW w \in Worker, Kill(w) \/ Discard(w) \/ OnError(w) PROVE AllAgree'
    BY <2>5, <2>6 DEF AllAgree, Agrees, Kill, Discard, OnError
  <2>7. ASSUME NEW w \in Worker, Before(w) PROVE AllAgree'
    BY <2>1, <2>7 DEF AllAgree, Agrees, Before
  <2>8. ASSUME NEW w \in Worker, StartRead(w) \/ Execute(w) \/ DoneRead(w) PROVE AllAgree'
    BY <2>8 DEF TypeOK, AllAgree, Agrees, StartRead, Execute, DoneRead
  <2>9. ASSUME NEW w \in Worker, StartWrite(w) PROVE AllAgree'
    BY <2>1, <2>9 DEF TypeOK, Job, AllAgree, Agrees, StartWrite
  <2>10. ASSUME NEW w \in Worker, StateWrite(w) PROVE AllAgree'
    <3>1. Agrees(Unlock(read[w]))
      BY LockKeepsAgreement DEF TypeOK, AllAgree
    <3> QED
      BY <2>1, <2>10, <3>1 DEF TypeOK, AllAgree, Agrees, StateWrite
  <2>11. ASSUME NEW w \in Worker, DoneWrite(w) PROVE AllAgree'
    <3>1. Agrees(job')
      BY <2>11 DEF TypeOK, Job, AllAgree, Agrees, DoneWrite
    <3> QED
      BY <2>5, <2>11, <3>1 DEF DoneWrite
  <2>12. CASE UNCHANGED vars
    BY <2>12 DEF AllAgree, Agrees, vars
  <2> QED
    BY <2>2, <2>3, <2>4, <2>6, <2>7, <2>8, <2>9, <2>10, <2>11, <2>12 DEF Next, Run
<1>3. AllAgree => LockFieldsAgree
  BY DEF AllAgree, LockFieldsAgree
<1> QED
  BY <1>1, <1>2, <1>3, TypeCorrect, PTL DEF Spec

-----------------------------------------------------------------------------
(* Single-threadedness                                                       *)

\* No execution outlives LambdaTimeout, and none has started after now.
InTime ==
  \A w \in Worker :
    /\ pc[w] # "idle" => born[w] <= now /\ now < born[w] + LambdaTimeout
    /\ pc[w] \in {"startWrite", "execute", "stateWrite"} =>
         born[w] <= started[w] /\ started[w] <= now

AtMostOne == \A v, w \in Worker : Holding(v) /\ Holding(w) => v = w

\* What the row says at each step of the execution that holds the lock.
RowOfHolder(w) ==
  /\ pc[w] = "startRead" => job.status = "LOCKED"
  /\ pc[w] = "startWrite" => job.status = "LOCKED" /\ read[w] = job
  /\ pc[w] = "execute" => job.status = "LOCKED" /\ job.lastRun = started[w]
  /\ pc[w] = "stateWrite" =>
       job.status = "LOCKED" /\ job.lastRun = started[w] /\ read[w] = job

Alone == ~overlap => AtMostOne /\ \A w \in Worker : RowOfHolder(w)

\* An execution's age is bounded in every step, because the clock waits for
\* the platform to end what is out of time.
LEMMA InTimeStep ==
  ASSUME TypeOK, InTime, [Next]_vars
  PROVE  InTime'
<1>1. CASE Schedule
  BY <1>1 DEF InTime, Schedule
<1>2. CASE Tick
  BY <1>2, JobLockAssumption DEF TypeOK, InTime, Tick, OutOfTime, JobLockAssumption
<1>3. ASSUME NEW w \in Worker, Deliver(w) PROVE InTime'
  BY <1>3, JobLockAssumption DEF TypeOK, InTime, Deliver, Goto, JobLockAssumption
<1>4. ASSUME NEW w \in Worker, End(w), now' = now PROVE InTime'
  BY <1>4 DEF TypeOK, InTime, End
<1>5. ASSUME NEW w \in Worker, Kill(w) \/ Discard(w) \/ OnError(w) \/ DoneWrite(w)
      PROVE InTime'
  BY <1>4, <1>5 DEF Kill, Discard, OnError, DoneWrite
<1>6. ASSUME NEW w \in Worker,
             Before(w) \/ StartWrite(w) \/ Execute(w) \/ StateWrite(w) \/ DoneRead(w)
      PROVE InTime'
  BY <1>6 DEF TypeOK, InTime, Before, StartWrite, Execute, StateWrite, DoneRead, Goto
<1>7. ASSUME NEW w \in Worker, StartRead(w) PROVE InTime'
  BY <1>7 DEF TypeOK, InTime, StartRead, Goto
<1>8. CASE UNCHANGED vars
  BY <1>8 DEF InTime, vars
<1> QED
  BY <1>1, <1>2, <1>3, <1>5, <1>6, <1>7, <1>8 DEF Next, Run

\* A lock whose holder is alive and has stamped the row is not past its
\* timeout: a second execution is refused (base-single-thread-worker.ts:125-149).
LEMMA StampedLockHolds ==
  ASSUME TypeOK, InTime, NEW v \in Worker, RowOfHolder(v),
         pc[v] \in {"execute", "stateWrite"}
  PROVE  HeldByOther(job)
  BY JobLockAssumption
  DEF TypeOK, InTime, RowOfHolder, HeldByOther, PastTimeout, JobLockAssumption, Job

\* The lock is single-threaded as long as it is not taken inside the
\* bookkeeping of an execution (base-single-thread-worker.ts:34, 46-85).
THEOREM SingleThreaded == Spec => []SingleThreadUnlessOverlap
<1>1. Init => InTime /\ Alone
  BY DEF Init, InTime, Alone, AtMostOne, RowOfHolder, Holding
<1>2. TypeOK /\ InTime /\ Alone /\ [Next]_vars => Alone'
  <2> SUFFICES ASSUME TypeOK, InTime, Alone, [Next]_vars, ~overlap' PROVE
        AtMostOne' /\ \A w \in Worker : RowOfHolder(w)'
    BY DEF Alone
  <2> USE DEF Holding
  <2>0. ~overlap /\ AtMostOne /\ \A w \in Worker : RowOfHolder(w)
    <3>1. overlap => overlap'
      BY DEF Next, Run, vars, Schedule, Tick, Deliver, Kill, Before, Discard,
             StartRead, StartWrite, Execute, OnError, StateWrite, DoneRead, DoneWrite
    <3> QED
      BY <3>1 DEF Alone
  <2>1. CASE Schedule \/ Tick
    BY <2>0, <2>1 DEF Schedule, Tick, AtMostOne, RowOfHolder
  <2>2. ASSUME NEW w \in Worker, Deliver(w)
        PROVE AtMostOne' /\ \A v \in Worker : RowOfHolder(v)'
    BY <2>0, <2>2 DEF TypeOK, Deliver, Goto, AtMostOne, RowOfHolder
  <2>3. ASSUME NEW w \in Worker, Kill(w) \/ Discard(w) \/ OnError(w)
        PROVE AtMostOne' /\ \A v \in Worker : RowOfHolder(v)'
    BY <2>0, <2>3 DEF TypeOK, Kill, Discard, OnError, End, AtMostOne, RowOfHolder
  <2>4. ASSUME NEW w \in Worker, Before(w)
        PROVE AtMostOne' /\ \A v \in Worker : RowOfHolder(v)'
    <3>1. \A v \in Worker \ {w} : ~Bookkeeping(v)
      BY <2>4 DEF Before
    <3>2. \A v \in Worker : pc[v] \notin {"execute", "stateWrite"}
      BY <2>0, <2>4, StampedLockHolds DEF Before
    <3>3. \A v \in Worker \ {w} : pc[v] \in {"idle", "before"}
      BY <3>1, <3>2 DEF TypeOK, Steps, Bookkeeping
    <3>4. /\ pc' = [pc EXCEPT ![w] = "startRead"]
          /\ job'.status = "LOCKED"
      BY <2>4 DEF Before, Goto, Lock, TypeOK, Job
    <3> QED
      BY <3>3, <3>4 DEF TypeOK, AtMostOne, RowOfHolder
  <2>5. ASSUME NEW w \in Worker,
               StartRead(w) \/ StartWrite(w) \/ Execute(w) \/ StateWrite(w)
               \/ DoneRead(w) \/ DoneWrite(w)
        PROVE AtMostOne' /\ \A v \in Worker : RowOfHolder(v)'
    <3>1. \A v \in Worker \ {w} : pc[v] \in {"idle", "before"} /\ pc'[v] = pc[v]
      BY <2>0, <2>5
      DEF TypeOK, AtMostOne, StartRead, StartWrite, Execute, StateWrite, DoneRead,
          DoneWrite, Goto, End
    <3>2. AtMostOne'
      BY <3>1 DEF AtMostOne
    <3>3. RowOfHolder(w)'
      BY <2>0, <2>5
      DEF TypeOK, Job, RowOfHolder, StartRead, StartWrite, Execute, StateWrite, DoneRead,
          DoneWrite, Goto, End
    <3>4. \A v \in Worker \ {w} : RowOfHolder(v)'
      BY <3>1 DEF RowOfHolder
    <3> QED
      BY <3>2, <3>3, <3>4
  <2>6. CASE UNCHANGED vars
    BY <2>0, <2>6 DEF vars, AtMostOne, RowOfHolder
  <2> QED
    BY <2>1, <2>2, <2>3, <2>4, <2>5, <2>6 DEF Next, Run
<1>3. Alone => SingleThreadUnlessOverlap
  BY DEF Alone, AtMostOne, SingleThreadUnlessOverlap
<1> QED
  BY <1>1, <1>2, <1>3, InTimeStep, TypeCorrect, PTL DEF Spec
-----------------------------------------------------------------------------
(* Migrations and seeds.                                                   *)
(* The seed that inserts a row. *)
SeedOf == [role |-> 1, jobs |-> 2, rounds |-> 2, reward1 |-> 3, reward2 |-> 3]

(* The records, and what of a seed under way has been done, say that s has *)
(* been inserted.                                                          *)
Inserted(s) ==
  IF todo # <<>> /\ Now.list = "seeds" /\ SeedOf[s] = Version
    THEN IF Now.up THEN at = "record" \/ \E i \in 1..sub : s \in Insertion(Version)[i]
                   ELSE at = "script"
    ELSE SeedOf[s] <= recorded["seeds"]

(* A script waits for its record, or a seed for its next INSERT, only      *)
(* while the command that runs it goes on.                                 *)
Placed ==
  /\ at = "record" => todo # <<>> /\ ~ Over /\ sub = 0
  /\ sub > 0 => /\ todo # <<>> /\ ~ Over
                /\ Now.list = "seeds" /\ Now.up
                /\ sub < Len(Insertion(Version))

InsertedOnce ==
  "seeds" \notin broken => \A s \in SeedRow : rows[s] <= 1 /\ (rows[s] = 1 => Inserted(s))

MInv == MigrationsTypeOK /\ Placed /\ InsertedOnce
-----------------------------------------------------------------------------
(* What the seeds insert and delete, row by row. *)
LEMMA SeedTables ==
  /\ SeedRow = {"role", "jobs", "rounds", "reward1", "reward2"}
  /\ \A s \in SeedRow : SeedOf[s] \in 1..3
  /\ \A n \in (1..3) \ Refused : Deleted(n) = {s \in SeedRow : SeedOf[s] = n}
<1>1. SeedRow = {"role", "jobs", "rounds", "reward1", "reward2"}
  BY DEF SeedRow, TableOf
<1>2. \A s \in SeedRow : SeedOf[s] \in 1..3
  BY <1>1 DEF SeedOf
<1>3. ASSUME NEW n \in (1..3) \ Refused PROVE Deleted(n) = {s \in SeedRow : SeedOf[s] = n}
  <2>1. CASE n = 1 BY <2>1, <1>1 DEF Deleted, ToSet, Seed, SeedOf
  <2>2. CASE n = 3 BY <2>2, <1>1 DEF Deleted, ToSet, Seed, SeedOf
  <2> QED BY <2>1, <2>2 DEF Refused
<1> QED BY <1>1, <1>2, <1>3

LEMMA InsertionTables ==
  ASSUME NEW n \in 1..3
  PROVE  /\ Len(Insertion(n)) \in Nat \ {0}
         /\ \A i \in 1..Len(Insertion(n)) :
              /\ Insertion(n)[i] \subseteq {s \in SeedRow : SeedOf[s] = n}
              /\ \A j \in 1..Len(Insertion(n)), s \in Insertion(n)[i] :
                   s \in Insertion(n)[j] => i = j
<1>1. CASE n = 1
  <2>1. Insertion(1) = << {"role"} >> BY DEF Insertion, Seed
  <2> QED BY <1>1, <2>1, SeedTables DEF SeedOf
<1>2. CASE n = 2
  <2>1. Insertion(2) = << {"jobs", "rounds"} >> BY DEF Insertion, Seed
  <2> QED BY <1>2, <2>1, SeedTables DEF SeedOf
<1>3. CASE n = 3
  <2>1. Insertion(3) = << {"reward1"}, {"reward2"} >> BY DEF Insertion, Seed
  <2> QED BY <1>3, <2>1, SeedTables DEF SeedOf
<1> QED BY <1>1, <1>2, <1>3

LEMMA Counts == Count("migrations") = 4 /\ Count("seeds") = 3
BY DEF Count, Migration, Seed

LEMMA PhaseTyped ==
  ASSUME NEW l \in List, NEW up \in BOOLEAN, NEW n \in Nat
  PROVE  Phase(l, up, n) \in [list : List, up : BOOLEAN, left : Nat]
BY Counts DEF Phase, List

LEMMA ThreeInSeq ==
  ASSUME NEW S, NEW a \in S, NEW b \in S, NEW c \in S
  PROVE  <<a, b, c>> \in Seq(S)
OBVIOUS

LEMMA HeadReplaced ==
  ASSUME NEW S, NEW q \in Seq(S), q # <<>>, NEW e \in S
  PROVE  [q EXCEPT ![1] = e] \in Seq(S)
OBVIOUS

LEMMA HeadIn ==
  ASSUME NEW S, NEW q \in Seq(S), q # <<>>
  PROVE  Head(q) \in S
OBVIOUS

LEMMA NoneTyped == <<>> \in Seq([list : List, up : BOOLEAN, left : Nat])
OBVIOUS

LEMMA NowTyped ==
  ASSUME MigrationsTypeOK, todo # <<>>
  PROVE  /\ Now \in [list : List, up : BOOLEAN, left : Nat]
         /\ recorded[Now.list] \in 0..Count(Now.list)
<1>1. Now \in [list : List, up : BOOLEAN, left : Nat]
  BY HeadIn DEF MigrationsTypeOK, Now
<1> QED BY <1>1, Counts DEF MigrationsTypeOK, List

(* Nothing of a seed is under way: the records alone say what is inserted. *)
AtRest == at = "script" /\ sub = 0

LEMMA RestingInserted ==
  MigrationsTypeOK /\ AtRest =>
    \A s \in SeedRow : Inserted(s) <=> SeedOf[s] <= recorded["seeds"]
<1> SUFFICES ASSUME MigrationsTypeOK, AtRest, NEW s \in SeedRow
             PROVE  Inserted(s) <=> SeedOf[s] <= recorded["seeds"]
  OBVIOUS
<1> USE DEF Inserted, MigrationsTypeOK, List, AtRest
<1>1. CASE todo # <<>> /\ Now.list = "seeds" /\ SeedOf[s] = Version
  <2>1. Now.up \in BOOLEAN BY <1>1, NowTyped
  <2>2. CASE Now.up BY <1>1, <2>2 DEF Version
  <2>3. CASE ~ Now.up BY <1>1, <2>3, SeedTables DEF Version
  <2> QED BY <2>1, <2>2, <2>3
<1>2. CASE ~ (todo # <<>> /\ Now.list = "seeds" /\ SeedOf[s] = Version)
  BY <1>2
<1> QED BY <1>1, <1>2

LEMMA RestingInsertedNext ==
  (MigrationsTypeOK /\ AtRest =>
    \A s \in SeedRow : Inserted(s) <=> SeedOf[s] <= recorded["seeds"])'
BY RestingInserted, PTL

LEMMA MigrationsInitial == MigrationsInit => MInv
<1> SUFFICES ASSUME MigrationsInit PROVE MInv OBVIOUS
<1> USE DEF MigrationsInit
<1>1. MigrationsTypeOK
  BY Counts, MigrationsAssumption DEF MigrationsAssumption, MigrationsTypeOK, List
<1>2. Placed BY DEF Placed
<1>3. InsertedOnce BY DEF InsertedOnce
<1> QED BY <1>1, <1>2, <1>3 DEF MInv

(* Between two scripts nothing is inserted. *)
LEMMA RestKept ==
  ASSUME MInv, MigrationsTypeOK', AtRest, AtRest', UNCHANGED <<rows, recorded>>,
         broken \subseteq broken'
  PROVE  InsertedOnce'
<1> SUFFICES ASSUME "seeds" \notin broken', NEW s \in SeedRow
             PROVE  rows'[s] <= 1 /\ (rows'[s] = 1 => Inserted(s)')
  BY DEF InsertedOnce
<1>1. Inserted(s) <=> SeedOf[s] <= recorded["seeds"]
  BY RestingInserted DEF MInv
<1>2. Inserted(s)' <=> SeedOf[s] <= recorded'["seeds"]
  BY RestingInsertedNext
<1> QED BY <1>1, <1>2 DEF MInv, InsertedOnce

(* A command may start while no other is under way. *)
LEMMA BeginKept ==
  ASSUME MInv, NEW phases \in Seq([list : List, up : BOOLEAN, left : Nat]), Begin(phases)
  PROVE  MInv'
<1> USE DEF Begin, MInv
<1>1. MigrationsTypeOK' BY DEF MigrationsTypeOK
<1>2. Placed' BY DEF Placed
<1>3. InsertedOnce' BY <1>1, RestKept DEF Placed, MigrationsTypeOK, AtRest
<1> QED BY <1>1, <1>2, <1>3

LEMMA NextPhaseKept == MInv /\ NextPhase => MInv'
<1> SUFFICES ASSUME MInv, NextPhase PROVE MInv' OBVIOUS
<1> USE DEF NextPhase, MInv
<1>1. MigrationsTypeOK' BY DEF MigrationsTypeOK
<1>2. AtRest BY DEF AtRest, Placed, MigrationsTypeOK
<1>3. Placed' BY <1>2 DEF Placed, AtRest
<1>4. InsertedOnce' BY <1>1, <1>2, RestKept DEF AtRest
<1> QED BY <1>1, <1>3, <1>4

(* A script that fails leaves a seed in the middle, or has done nothing.   *)
LEMMA AbortKept == MInv /\ Abort /\ at = "script" => MInv'
<1> SUFFICES ASSUME MInv, Abort, at = "script" PROVE MInv' OBVIOUS
<1> USE DEF Abort, MInv
<1>1. MigrationsTypeOK'
  <2>1. todo' \in Seq([list : List, up : BOOLEAN, left : Nat]) BY Zenon, NoneTyped
  <2>2. broken' \subseteq List BY DEF MigrationsTypeOK, List
  <2> QED BY <2>1, <2>2 DEF MigrationsTypeOK
<1>2. Placed' BY DEF Placed
<1>3. InsertedOnce'
  <2>1. CASE sub > 0 BY <2>1 DEF InsertedOnce
  <2>2. CASE sub = 0 BY <1>1, <2>2, RestKept DEF AtRest
  <2> QED BY <2>1, <2>2 DEF MigrationsTypeOK
<1> QED BY <1>1, <1>2, <1>3

LEMMA DieKept == MInv /\ Die => MInv'
<1> SUFFICES ASSUME MInv, Die PROVE MInv' OBVIOUS
<1> USE DEF Die, MInv
<1>1. MigrationsTypeOK'
  <2>1. todo' \in Seq([list : List, up : BOOLEAN, left : Nat]) BY Zenon, NoneTyped
  <2>2. broken' \subseteq List BY NowTyped DEF MigrationsTypeOK
  <2> QED BY <2>1, <2>2 DEF MigrationsTypeOK
<1>2. Placed' BY DEF Placed
<1>3. InsertedOnce'
  <2>1. CASE AtRest BY <1>1, <2>1, RestKept DEF AtRest
  <2>2. CASE ~ AtRest
    <3>1. sub > 0 \/ at = "record" BY <2>2 DEF AtRest, MigrationsTypeOK
    <3>2. CASE Now.list = "seeds" BY <3>1, <3>2 DEF InsertedOnce
    <3>3. CASE Now.list # "seeds"
      <4>1. at = "record" /\ sub = 0 BY <3>1, <3>3 DEF Placed, MigrationsTypeOK
      <4> SUFFICES ASSUME "seeds" \notin broken', NEW s \in SeedRow
                   PROVE  rows[s] <= 1 /\ (rows[s] = 1 => Inserted(s)')
        BY DEF InsertedOnce
      <4>2. Inserted(s) <=> SeedOf[s] <= recorded["seeds"]
        BY <3>3 DEF Inserted
      <4>3. Inserted(s)' <=> SeedOf[s] <= recorded["seeds"]
        BY DEF Inserted
      <4> QED BY <4>2, <4>3 DEF InsertedOnce
    <3> QED BY <3>2, <3>3
  <2> QED BY <2>1, <2>2
<1> QED BY <1>1, <1>2, <1>3

(* The migrations' scripts touch no row but by dropping its table. *)
LEMMA MigrateKept ==
  ASSUME MInv, NEW up \in BOOLEAN, Running("migrations", up),
         schema' \in SUBSET ToSet(Migration),
         rows' \in [SeedRow -> 0..MaxCopies],
         \A s \in SeedRow : rows'[s] = 0 \/ rows'[s] = rows[s],
         at' = "record", UNCHANGED <<recorded, todo, sub, broken>>
  PROVE  MInv'
<1> USE DEF MInv, Running
<1>1. MigrationsTypeOK' BY DEF MigrationsTypeOK
<1>2. sub = 0 BY DEF Placed, MigrationsTypeOK
<1>3. Placed' BY <1>2 DEF Placed, Over, Version, Now
<1>4. InsertedOnce'
  <2> SUFFICES ASSUME "seeds" \notin broken, NEW s \in SeedRow
               PROVE  rows'[s] <= 1 /\ (rows'[s] = 1 => Inserted(s)')
    BY DEF InsertedOnce
  <2>1. Inserted(s) <=> SeedOf[s] <= recorded["seeds"] BY DEF Inserted
  <2>2. Inserted(s)' <=> SeedOf[s] <= recorded["seeds"] BY DEF Inserted, Now
  <2>3. rows[s] <= 1 /\ (rows[s] = 1 => Inserted(s)) BY DEF InsertedOnce
  <2>4. rows'[s] = 0 \/ rows'[s] = rows[s] OBVIOUS
  <2> QED BY <2>1, <2>2, <2>3, <2>4
<1> QED BY <1>1, <1>3, <1>4

LEMMA MigrateUpKept == MInv /\ MigrateUp => MInv'
<1> SUFFICES ASSUME MInv, MigrateUp PROVE MInv' OBVIOUS
<1>1. CASE Abort BY <1>1, AbortKept DEF MigrateUp, Running
<1>2. CASE ~ Abort
  <2>1. Version \in 1..4 BY Counts DEF MigrateUp, Running, Over
  <2>2. Migration[Version] \in ToSet(Migration) BY <2>1 DEF ToSet, Migration
  <2>3. /\ schema' = schema \cup {Migration[Version]}
        /\ at' = "record"
        /\ UNCHANGED <<rows, recorded, todo, sub, broken>>
    BY <1>2 DEF MigrateUp
  <2>4. rows' \in [SeedRow -> 0..MaxCopies]
    BY <2>3 DEF MInv, MigrationsTypeOK
  <2>5. schema' \in SUBSET ToSet(Migration)
    BY <2>2, <2>3 DEF MInv, MigrationsTypeOK
  <2> QED BY <2>3, <2>4, <2>5, MigrateKept DEF MigrateUp
<1> QED BY <1>1, <1>2

LEMMA MigrateDownKept == MInv /\ MigrateDown => MInv'
<1> SUFFICES ASSUME MInv, MigrateDown PROVE MInv' OBVIOUS
<1>1. CASE Abort BY <1>1, AbortKept DEF MigrateDown, Running
<1>2. CASE ~ Abort
  <2> DEFINE t == Migration[Version]
  <2>1. /\ schema' = schema \ {t}
        /\ rows' = [s \in SeedRow |-> IF TableOf[s] = t THEN 0 ELSE rows[s]]
        /\ at' = "record"
        /\ UNCHANGED <<recorded, todo, sub, broken>>
    BY <1>2 DEF MigrateDown
  <2> HIDE DEF t
  <2>2. \A s \in SeedRow : rows'[s] = 0 \/ rows'[s] = rows[s] BY <2>1
  <2>5. rows' \in [SeedRow -> 0..MaxCopies]
    BY <2>1, MigrationsAssumption DEF MInv, MigrationsTypeOK, MigrationsAssumption
  <2>3. schema' \in SUBSET ToSet(Migration)
    BY <2>1 DEF MInv, MigrationsTypeOK
  <2>4. Running("migrations", FALSE) BY DEF MigrateDown
  <2> QED BY <2>1, <2>2, <2>3, <2>4, <2>5, MigrateKept
<1> QED BY <1>1, <1>2

LEMMA SeedUpKept == MInv /\ SeedUp => MInv'
<1> SUFFICES ASSUME MInv, SeedUp PROVE MInv' OBVIOUS
<1> DEFINE ins == Insertion(Version)[sub + 1]
           n == Len(Insertion(Version))
<1>1. CASE Abort BY <1>1, AbortKept DEF SeedUp, Running
<1>2. CASE ~ Abort
  <2>1. /\ \A s \in ins : rows[s] < MaxCopies
        /\ rows' = [s \in SeedRow |-> rows[s] + (IF s \in ins THEN 1 ELSE 0)]
        /\ IF sub + 1 < n
             THEN sub' = sub + 1 /\ UNCHANGED at
             ELSE sub' = 0 /\ at' = "record"
        /\ UNCHANGED <<schema, recorded, todo, broken>>
    BY <1>2 DEF SeedUp
  <2>2. /\ todo # <<>> /\ at = "script" /\ ~ Over
        /\ Now.list = "seeds" /\ Now.up
        /\ Version \in 1..3
        /\ Version = recorded["seeds"] + 1
    BY Counts DEF SeedUp, Running, Over, Version
  <2>3. n \in Nat \ {0} /\ sub \in Nat /\ sub < n
    BY <2>2, InsertionTables DEF MInv, Placed, MigrationsTypeOK
  <2>4. sub + 1 \in 1..n BY <2>3
  <2>5. ins \subseteq {s \in SeedRow : SeedOf[s] = Version}
    BY <2>2, <2>4, InsertionTables
  <2>6. /\ Version' = Version
        /\ Over' = Over
        /\ Now' = Now
    BY <2>1 DEF Version, Now, Over
  <2> HIDE DEF n, ins
  <2>7. MigrationsTypeOK'
    <3>1. rows' \in [SeedRow -> 0..MaxCopies]
      <4> SUFFICES ASSUME NEW s \in SeedRow PROVE rows'[s] \in 0..MaxCopies
        BY <2>1
      <4>1. rows[s] \in 0..MaxCopies BY DEF MInv, MigrationsTypeOK
      <4>2. rows'[s] = rows[s] + (IF s \in ins THEN 1 ELSE 0) BY <2>1
      <4> QED BY <2>1, <4>1, <4>2, MigrationsAssumption DEF MigrationsAssumption
    <3>2. at' \in {"script", "record"} /\ sub' \in Nat
      BY <2>1, <2>3 DEF MInv, MigrationsTypeOK
    <3> QED BY <2>1, <3>1, <3>2 DEF MInv, MigrationsTypeOK
  <2>8. Placed' BY <2>1, <2>2, <2>3, <2>6 DEF Placed, n
  <2>9. InsertedOnce'
    <3> SUFFICES ASSUME "seeds" \notin broken, NEW s \in SeedRow
                 PROVE  rows'[s] <= 1 /\ (rows'[s] = 1 => Inserted(s)')
      BY <2>1 DEF InsertedOnce
    <3>1. rows[s] \in Nat /\ rows[s] <= 1 /\ (rows[s] = 1 => Inserted(s))
      BY DEF InsertedOnce, MInv, MigrationsTypeOK
    <3>2. rows'[s] = rows[s] + (IF s \in ins THEN 1 ELSE 0) BY <2>1
    <3>3. CASE SeedOf[s] # Version
      <4>1. s \notin ins BY <3>3, <2>5
      <4>2. Inserted(s)' <=> Inserted(s) BY <2>1, <2>6, <3>3 DEF Inserted
      <4> QED BY <3>1, <3>2, <4>1, <4>2
    <3>4. CASE SeedOf[s] = Version
      <4>1. Inserted(s) <=> \E i \in 1..sub : s \in Insertion(Version)[i]
        BY <2>2, <3>4 DEF Inserted
      <4>2. Inserted(s)' <=> at' = "record" \/ \E i \in 1..sub' : s \in Insertion(Version)[i]
        BY <2>1, <2>2, <2>6, <3>4 DEF Inserted
      <4>3. Inserted(s) => Inserted(s)' /\ s \notin ins
        <5> SUFFICES ASSUME NEW i \in 1..sub, s \in Insertion(Version)[i]
                     PROVE  Inserted(s)' /\ s \notin ins
          BY <4>1
        <5>1. i \in 1..n /\ i # sub + 1 BY <2>3
        <5>2. s \notin ins BY <2>2, <2>4, <5>1, InsertionTables DEF ins, n
        <5>3. at' = "record" \/ i \in 1..sub' BY <2>1, <2>3
        <5> QED BY <4>2, <5>2, <5>3
      <4>4. s \in ins => Inserted(s)'
        <5> SUFFICES ASSUME s \in ins PROVE Inserted(s)' OBVIOUS
        <5>1. at' = "record" \/ sub + 1 \in 1..sub' BY <2>1, <2>3
        <5> QED BY <4>2, <5>1 DEF ins
      <4> QED BY <3>1, <3>2, <4>3, <4>4
    <3> QED BY <3>3, <3>4
  <2> QED BY <2>7, <2>8, <2>9 DEF MInv
<1> QED BY <1>1, <1>2

LEMMA SeedDownKept == MInv /\ SeedDown => MInv'
<1> SUFFICES ASSUME MInv, SeedDown PROVE MInv' OBVIOUS
<1>1. CASE Abort BY <1>1, AbortKept DEF SeedDown, Running
<1>2. CASE ~ Abort
  <2>1. /\ rows' = [s \in SeedRow |-> IF s \in Deleted(Version) THEN 0 ELSE rows[s]]
        /\ at' = "record"
        /\ UNCHANGED <<schema, recorded, todo, sub, broken>>
        /\ Version \notin Refused
    BY <1>2 DEF SeedDown
  <2>2. /\ todo # <<>> /\ at = "script" /\ ~ Over
        /\ Now.list = "seeds" /\ Now.up = FALSE
        /\ Version \in 1..3
        /\ Version = recorded["seeds"]
    BY Counts DEF SeedDown, Running, Over, Version
  <2>3. sub = 0 BY <2>2 DEF MInv, Placed, MigrationsTypeOK
  <2>4. Version' = Version /\ Over' = Over /\ Now' = Now
    BY <2>1 DEF Version, Now, Over
  <2>5. MigrationsTypeOK'
    <3>1. rows' \in [SeedRow -> 0..MaxCopies]
      BY <2>1, MigrationsAssumption DEF MInv, MigrationsTypeOK, MigrationsAssumption
    <3> QED BY <2>1, <3>1 DEF MInv, MigrationsTypeOK
  <2>6. Placed' BY <2>1, <2>2, <2>3, <2>4 DEF Placed
  <2>7. InsertedOnce'
    <3> SUFFICES ASSUME "seeds" \notin broken, NEW s \in SeedRow
                 PROVE  rows'[s] <= 1 /\ (rows'[s] = 1 => Inserted(s)')
      BY <2>1 DEF InsertedOnce
    <3>1. CASE SeedOf[s] = Version
      <4>1. rows'[s] = 0 BY <2>1, <2>2, <3>1, SeedTables
      <4> QED BY <4>1
    <3>2. CASE SeedOf[s] # Version
      <4>1. rows'[s] = rows[s] BY <2>1, <2>2, <3>2, SeedTables
      <4>2. Inserted(s)' <=> Inserted(s) BY <2>1, <2>4, <3>2 DEF Inserted
      <4> QED BY <4>1, <4>2 DEF MInv, InsertedOnce
    <3> QED BY <3>1, <3>2
  <2> QED BY <2>5, <2>6, <2>7 DEF MInv
<1> QED BY <1>1, <1>2

LEMMA RecordKept == MInv /\ Record => MInv'
<1> SUFFICES ASSUME MInv, Record PROVE MInv' OBVIOUS
<1> DEFINE l == Now.list
<1>1. /\ Now \in [list : List, up : BOOLEAN, left : Nat]
      /\ recorded[l] \in 0..Count(l)
  BY NowTyped DEF MInv, Record
<1>2. /\ todo # <<>> /\ at = "record" /\ sub = 0
      /\ Now.left > 0
      /\ Version \in 1..Count(l)
  BY <1>1 DEF MInv, Record, Placed, Over
<1>3. /\ recorded' = [recorded EXCEPT ![l] = IF Now.up THEN @ + 1 ELSE @ - 1]
      /\ todo' = [todo EXCEPT ![1].left = @ - 1]
      /\ at' = "script"
      /\ UNCHANGED <<schema, rows, sub, broken>>
  BY DEF Record
<1>4. MigrationsTypeOK'
  <2>1. todo' \in Seq([list : List, up : BOOLEAN, left : Nat])
    <3> DEFINE Phases == [list : List, up : BOOLEAN, left : Nat]
               rest == [Now EXCEPT !.left = @ - 1]
    <3>1. rest \in Phases BY <1>1, <1>2
    <3>2. todo \in Seq(Phases) BY DEF MInv, MigrationsTypeOK
    <3>3. todo' = [todo EXCEPT ![1] = rest]
      <4>1. Now = todo[1] BY <1>2, <3>2 DEF Now
      <4>2. todo' = [todo EXCEPT ![1] = [todo[1] EXCEPT !.left = @ - 1]] BY <1>3
      <4> QED BY <4>1, <4>2, Zenon
    <3> HIDE DEF Phases, rest
    <3>4. todo' \in Seq(Phases) BY <1>2, <3>1, <3>2, <3>3, HeadReplaced
    <3> QED BY <3>4 DEF Phases
  <2>2. recorded'[l] \in 0..Count(l)
    BY <1>1, <1>2, <1>3, Counts DEF MInv, MigrationsTypeOK, Version, List
  <2>3. recorded' \in [List -> Nat] /\ \A m \in List : recorded'[m] <= Count(m)
    BY <1>1, <1>3, <2>2, Counts DEF MInv, MigrationsTypeOK, List
  <2> QED BY <1>3, <2>1, <2>3 DEF MInv, MigrationsTypeOK
<1>5. AtRest' BY <1>2, <1>3 DEF AtRest
<1>6. Placed' BY <1>5 DEF Placed, AtRest
<1>7. InsertedOnce'
  <2> SUFFICES ASSUME "seeds" \notin broken, NEW s \in SeedRow
               PROVE  rows[s] <= 1 /\ (rows[s] = 1 => Inserted(s)')
    BY <1>3 DEF InsertedOnce
  <2>1. rows[s] <= 1 /\ (rows[s] = 1 => Inserted(s)) BY DEF MInv, InsertedOnce
  <2>2. Inserted(s)' <=> SeedOf[s] <= recorded'["seeds"]
    BY <1>4, <1>5, RestingInsertedNext
  <2>3. Inserted(s) <=> SeedOf[s] <= recorded'["seeds"]
    <3>1. CASE l # "seeds"
      <4>1. recorded'["seeds"] = recorded["seeds"]
        BY <1>3, <3>1 DEF MInv, MigrationsTypeOK, List
      <4> QED BY <3>1, <4>1 DEF Inserted
    <3>2. CASE l = "seeds" /\ Now.up
      <4>1. /\ recorded'["seeds"] = recorded["seeds"] + 1
            /\ Version = recorded["seeds"] + 1
        BY <1>3, <3>2 DEF MInv, MigrationsTypeOK, List, Version
      <4>2. recorded["seeds"] \in Nat BY DEF MInv, MigrationsTypeOK, List
      <4> QED BY <1>2, <3>2, <4>1, <4>2, SeedTables DEF Inserted
    <3>3. CASE l = "seeds" /\ ~ Now.up
      <4>1. /\ recorded'["seeds"] = recorded["seeds"] - 1
            /\ Version = recorded["seeds"]
        BY <1>3, <3>3 DEF MInv, MigrationsTypeOK, List, Version
      <4>2. recorded["seeds"] \in Nat BY DEF MInv, MigrationsTypeOK, List
      <4> QED BY <1>2, <3>3, <4>1, <4>2, SeedTables DEF Inserted
    <3> QED BY <3>1, <3>2, <3>3
  <2> QED BY <2>1, <2>2, <2>3
<1> QED BY <1>4, <1>6, <1>7 DEF MInv

LEMMA CommandKept ==
  MInv /\ (Upgrade \/ Downgrade \/ SeedDatabase \/ Unseed \/ Rebuild) => MInv'
<1> SUFFICES ASSUME MInv, Upgrade \/ Downgrade \/ SeedDatabase \/ Unseed \/ Rebuild
             PROVE  MInv'
  OBVIOUS
<1>1. \A l \in List, up \in BOOLEAN, n \in 0..1 :
        <<Phase(l, up, n)>> \in Seq([list : List, up : BOOLEAN, left : Nat])
  BY PhaseTyped
<1>2. "migrations" \in List /\ "seeds" \in List /\ TRUE \in BOOLEAN /\ FALSE \in BOOLEAN
  BY DEF List
<1>3. CASE Upgrade BY <1>1, <1>2, <1>3, BeginKept DEF Upgrade
<1>4. CASE Downgrade BY <1>1, <1>2, <1>4, BeginKept DEF Downgrade
<1>5. CASE SeedDatabase BY <1>1, <1>2, <1>5, BeginKept DEF SeedDatabase
<1>6. CASE Unseed BY <1>1, <1>2, <1>6, BeginKept DEF Unseed
<1>7. CASE Rebuild
  <2>1. <<Phase("migrations", FALSE, 0), Phase("migrations", TRUE, 0),
          Phase("seeds", TRUE, 0)>> \in Seq([list : List, up : BOOLEAN, left : Nat])
    <3>1. /\ Phase("migrations", FALSE, 0) \in [list : List, up : BOOLEAN, left : Nat]
          /\ Phase("migrations", TRUE, 0) \in [list : List, up : BOOLEAN, left : Nat]
          /\ Phase("seeds", TRUE, 0) \in [list : List, up : BOOLEAN, left : Nat]
      BY <1>2, PhaseTyped
    <3> QED BY <3>1, ThreeInSeq, Zenon
  <2> QED BY <1>7, <2>1, BeginKept DEF Rebuild
<1> QED BY <1>3, <1>4, <1>5, <1>6, <1>7

LEMMA MigrationsStep == MInv /\ [MigrationsNext]_migrationVars => MInv'
<1> SUFFICES ASSUME MInv, [MigrationsNext]_migrationVars PROVE MInv' OBVIOUS
<1>1. CASE UNCHANGED migrationVars
  BY <1>1 DEF migrationVars, MInv, MigrationsTypeOK, Placed, InsertedOnce, Inserted, Now,
              Version, Over
<1> QED BY <1>1, CommandKept, NextPhaseKept, MigrateUpKept, MigrateDownKept, SeedUpKept,
           SeedDownKept, RecordKept, DieKept DEF MigrationsNext
-----------------------------------------------------------------------------
(* The pool of connections.                                                *)
(* Carried[k][n]: how many connections a request of kind k has at step n.  *)
Carried == [query |-> <<0, 1>>, row |-> <<0, 1, 1>>,
            create |-> <<0, 1, 2, 1, 1, 1, 1>>, edit |-> <<0, 1, 1, 1>>]

(* A request has the connections that its step says. *)
Stepping ==
  \A r \in Request :
    IF kind[r] = "none"
      THEN step[r] = 1 /\ held[r] = <<>>
      ELSE /\ step[r] \in 1..Len(Script[kind[r]])
           /\ Len(held[r]) = Carried[kind[r]][step[r]]

(* Who waits is about to get a connection, and waits once. *)
Queued ==
  \A p \in Pool : \A i \in 1..Len(queue[p]) :
    /\ Op(queue[p][i]) = "get"
    /\ \A q \in Pool : \A j \in 1..Len(queue[q]) :
         queue[p][i] = queue[q][j] => p = q /\ i = j

(* A connection is in one hand, once. *)
Distinct ==
  \A r, s \in Request : \A i \in 1..Len(held[r]), j \in 1..Len(held[s]) :
    held[r][i] = held[s][j] => r = s /\ i = j

(* It is in somebody's hands, or free, or lost. *)
Exclusive ==
  \A k \in Link : /\ \A r \in Request : Holds(r, k) => ~ Idle(k) /\ lost[k] = "none"
                  /\ Idle(k) => lost[k] = "none"

PoolInv == PoolTypeOK /\ Stepping /\ Queued /\ Distinct /\ Exclusive
-----------------------------------------------------------------------------
(* Step n of script s does to the number of connections what c says. *)
Fits(s, c, n) ==
  /\ c[n] \in Nat
  /\ s[n] \in {"get", "execute", "guarded", "open", "commit"}
  /\ s[n] = "get" => n < Len(s) /\ c[n + 1] = c[n] + 1
  /\ s[n] = "execute" => /\ c[n] > 0
                         /\ n < Len(s) => c[n + 1] = c[n] - 1
                         /\ n = Len(s) => c[n] = 1
  /\ s[n] \in {"guarded", "open"} => n < Len(s) /\ c[n + 1] = c[n]
  /\ s[n] \in {"guarded", "open", "commit"} => c[n] = 1

LEMMA QueryFits == \A n \in 1..2 : Fits(Query, <<0, 1>>, n)
<1>1. ASSUME NEW n \in 1..2 PROVE n = 1 \/ n = 2 OBVIOUS
<1>2. Fits(Query, <<0, 1>>, 1) BY DEF Fits, Query
<1>3. Fits(Query, <<0, 1>>, 2) BY DEF Fits, Query
<1> QED BY <1>1, <1>2, <1>3

LEMMA RowFits == \A n \in 1..3 : Fits(Row, <<0, 1, 1>>, n)
<1>1. ASSUME NEW n \in 1..3 PROVE n = 1 \/ n = 2 \/ n = 3 OBVIOUS
<1>2. Fits(Row, <<0, 1, 1>>, 1) BY DEF Fits, Row
<1>3. Fits(Row, <<0, 1, 1>>, 2) BY DEF Fits, Row
<1>4. Fits(Row, <<0, 1, 1>>, 3) BY DEF Fits, Row
<1> QED BY <1>1, <1>2, <1>3, <1>4

LEMMA EditFits == \A n \in 1..4 : Fits(Edit, <<0, 1, 1, 1>>, n)
<1>1. ASSUME NEW n \in 1..4 PROVE n = 1 \/ n = 2 \/ n = 3 \/ n = 4 OBVIOUS
<1>2. Fits(Edit, <<0, 1, 1, 1>>, 1) BY DEF Fits, Edit
<1>3. Fits(Edit, <<0, 1, 1, 1>>, 2) BY DEF Fits, Edit
<1>4. Fits(Edit, <<0, 1, 1, 1>>, 3) BY DEF Fits, Edit
<1>5. Fits(Edit, <<0, 1, 1, 1>>, 4) BY DEF Fits, Edit
<1> QED BY <1>1, <1>2, <1>3, <1>4, <1>5

LEMMA CreateFits == \A n \in 1..7 : Fits(Create, <<0, 1, 2, 1, 1, 1, 1>>, n)
<1> DEFINE c == <<0, 1, 2, 1, 1, 1, 1>>
<1>1. ASSUME NEW n \in 1..7
      PROVE  n = 1 \/ n = 2 \/ n = 3 \/ n = 4 \/ n = 5 \/ n = 6 \/ n = 7
  OBVIOUS
<1>2. Fits(Create, c, 1) BY DEF Fits, Create
<1>3. Fits(Create, c, 2) BY DEF Fits, Create
<1>4. Fits(Create, c, 3) BY DEF Fits, Create
<1>5. Fits(Create, c, 4) BY DEF Fits, Create
<1>6. Fits(Create, c, 5) BY DEF Fits, Create
<1>7. Fits(Create, c, 6) BY DEF Fits, Create
<1>8. Fits(Create, c, 7) BY DEF Fits, Create
<1> HIDE DEF c
<1>9. \A n \in 1..7 : Fits(Create, c, n)
  BY <1>1, <1>2, <1>3, <1>4, <1>5, <1>6, <1>7, <1>8
<1> QED BY <1>9 DEF c

(* What the scripts do with connections, step by step. *)
LEMMA Scripts ==
  /\ DOMAIN Script = {"query", "row", "create", "edit"}
  /\ \A k \in DOMAIN Script :
       /\ Len(Script[k]) \in Nat \ {0}
       /\ Carried[k][1] = 0
       /\ \A n \in 1..Len(Script[k]) : Fits(Script[k], Carried[k], n)
<1>1. DOMAIN Script = {"query", "row", "create", "edit"} BY DEF Script
<1> SUFFICES ASSUME NEW k \in DOMAIN Script
             PROVE  /\ Len(Script[k]) \in Nat \ {0}
                    /\ Carried[k][1] = 0
                    /\ \A n \in 1..Len(Script[k]) : Fits(Script[k], Carried[k], n)
  BY <1>1
<1>2. CASE k = "query"
  <2>1. Script[k] = Query /\ Carried[k] = <<0, 1>> BY <1>2 DEF Script, Carried
  <2>2. Len(Query) = 2 BY DEF Query
  <2> QED BY <2>1, <2>2, QueryFits
<1>3. CASE k = "row"
  <2>1. Script[k] = Row /\ Carried[k] = <<0, 1, 1>> BY <1>3 DEF Script, Carried
  <2>2. Len(Row) = 3 BY DEF Row
  <2> QED BY <2>1, <2>2, RowFits
<1>4. CASE k = "create"
  <2>1. Script[k] = Create /\ Carried[k] = <<0, 1, 2, 1, 1, 1, 1>>
    BY <1>4 DEF Script, Carried
  <2>2. Len(Create) = 7 BY DEF Create
  <2> QED BY <2>1, <2>2, CreateFits
<1>5. CASE k = "edit"
  <2>1. Script[k] = Edit /\ Carried[k] = <<0, 1, 1, 1>> BY <1>5 DEF Script, Carried
  <2>2. Len(Edit) = 4 BY DEF Edit
  <2> QED BY <2>1, <2>2, EditFits
<1> QED BY <1>1, <1>2, <1>3, <1>4, <1>5

(* Where a request is in its script, and what it has there. *)
LEMMA AtStep ==
  ASSUME PoolInv, NEW r \in Request, kind[r] # "none"
  PROVE  /\ kind[r] \in DOMAIN Script
         /\ step[r] \in 1..Len(Script[kind[r]])
         /\ Len(Script[kind[r]]) \in Nat
         /\ Op(r) = Script[kind[r]][step[r]]
         /\ Len(held[r]) = Carried[kind[r]][step[r]]
         /\ Fits(Script[kind[r]], Carried[kind[r]], step[r])
<1>1. kind[r] \in DOMAIN Script BY DEF PoolInv, PoolTypeOK
<1> QED BY <1>1, Scripts DEF PoolInv, Stepping, Op

(* The connection a statement uses is one the request has. *)
LEMMA HasTop ==
  ASSUME PoolInv, NEW r \in Request, Op(r) \notin {"none", "get"}
  PROVE  /\ kind[r] # "none"
         /\ Len(held[r]) \in Nat \ {0}
         /\ Top(r) = held[r][Len(held[r])]
         /\ Top(r) \in Link
         /\ \A p \in Pool : \A i \in 1..Len(queue[p]) : queue[p][i] # r
<1>1. kind[r] # "none" BY DEF Op
<1>2. held[r] \in Seq(Link) BY DEF PoolInv, PoolTypeOK
<1>3. Len(held[r]) > 0
  BY <1>1, AtStep DEF Fits
<1>4. Top(r) = held[r][Len(held[r])] BY DEF Top, Last
<1>5. Len(held[r]) \in Nat BY <1>2
<1> QED BY <1>1, <1>2, <1>3, <1>4, <1>5 DEF PoolInv, Queued

(* The one whose step changes does not wait: the queues stay in order. *)
LEMMA QueuesKept ==
  ASSUME PoolInv, NEW r \in Request, Op(r) # "get", UNCHANGED queue,
         \A s \in Request : s # r => Op(s)' = Op(s)
  PROVE  Queued'
<1>1. \A p \in Pool : \A i \in 1..Len(queue[p]) : queue[p][i] \in Request
  <2> SUFFICES ASSUME NEW p \in Pool, NEW i \in 1..Len(queue[p])
               PROVE  queue[p][i] \in Request
    OBVIOUS
  <2>1. queue[p] \in Seq(Request) BY DEF PoolInv, PoolTypeOK
  <2> QED BY <2>1
<1>2. \A p \in Pool : \A i \in 1..Len(queue[p]) : Op(queue[p][i]) = "get"
  BY DEF PoolInv, Queued
<1>3. \A p \in Pool : \A i \in 1..Len(queue[p]) : Op(queue[p][i])' = "get"
  BY <1>1, <1>2
<1> QED BY <1>3 DEF PoolInv, Queued

(* A pool that replaces a dead one is a pool. *)
LEMMA AliveTyped ==
  ASSUME PoolTypeOK, NEW k, EnsureAlive(k)
  PROVE  pool' \in Pool
<1>1. pool \in 1..MaxPools BY DEF PoolTypeOK, Pool
<1>2. pool' = pool \/ (pool < MaxPools /\ pool' = pool + 1) BY DEF EnsureAlive
<1> QED BY <1>1, <1>2, PoolAssumption DEF PoolAssumption, Pool

LEMMA PoolInitial == PoolInit => PoolInv
<1> SUFFICES ASSUME PoolInit PROVE PoolInv OBVIOUS
<1> USE PoolAssumption DEF PoolInit, PoolAssumption
<1>1. PoolTypeOK BY DEF PoolTypeOK, Pool
<1>2. Stepping BY DEF Stepping
<1>3. Queued BY DEF Queued
<1>4. Distinct /\ Exclusive BY DEF Distinct, Exclusive, Holds
<1> QED BY <1>1, <1>2, <1>3, <1>4 DEF PoolInv

LEMMA ArriveKept ==
  ASSUME PoolInv, NEW r \in Request, Arrive(r)
  PROVE  PoolInv'
<1> USE DEF PoolInv
<1>1. PICK k \in Does[r] : kind' = [kind EXCEPT ![r] = k] BY DEF Arrive
<1>2. k \in DOMAIN Script BY PoolAssumption DEF PoolAssumption
<1>3. kind[r] = "none" /\ UNCHANGED <<pool, free, queue, step, held, dead, lost>>
  BY DEF Arrive
<1>4. PoolTypeOK' BY <1>1, <1>2, <1>3 DEF PoolTypeOK
<1>5. Stepping'
  <2> SUFFICES ASSUME NEW s \in Request
               PROVE  IF kind'[s] = "none"
                        THEN step'[s] = 1 /\ held'[s] = <<>>
                        ELSE /\ step'[s] \in 1..Len(Script[kind'[s]])
                             /\ Len(held'[s]) = Carried[kind'[s]][step'[s]]
    BY DEF Stepping
  <2>1. CASE s = r
    <3>1. kind'[s] = k /\ k # "none" BY <1>1, <1>2, <2>1, Scripts DEF PoolTypeOK
    <3>2. step[r] = 1 /\ held[r] = <<>> BY <1>3 DEF Stepping
    <3> QED BY <1>2, <1>3, <2>1, <3>1, <3>2, Scripts
  <2>2. CASE s # r
    <3>1. kind'[s] = kind[s] BY <1>1, <2>2 DEF PoolTypeOK
    <3> QED BY <1>3, <3>1 DEF Stepping
  <2> QED BY <2>1, <2>2
<1>6. Queued'
  <2>1. \A s \in Request : s # r => Op(s)' = Op(s)
    BY <1>1, <1>3 DEF Op, PoolTypeOK
  <2>2. Op(r) # "get" BY <1>3 DEF Op
  <2> QED BY <1>3, <2>1, <2>2, QueuesKept
<1>7. Distinct' /\ Exclusive' BY <1>3 DEF Distinct, Exclusive, Holds, Idle
<1> QED BY <1>4, <1>5, <1>6, <1>7

LEMMA ProceedKept ==
  ASSUME PoolInv, NEW r \in Request, NEW op \in {"guarded", "open"}, Proceed(r, op)
  PROVE  PoolInv'
<1> USE DEF PoolInv
<1>1. /\ Op(r) = op
      /\ step' = [step EXCEPT ![r] = @ + 1]
      /\ UNCHANGED <<pool, free, queue, kind, held, dead, lost>>
  BY DEF Proceed
<1>2. kind[r] # "none" BY <1>1 DEF Op
<1>3. PoolTypeOK' BY <1>1 DEF PoolTypeOK
<1>4. Stepping'
  <2>1. /\ step[r] + 1 \in 1..Len(Script[kind[r]])
        /\ Len(held[r]) = Carried[kind[r]][step[r] + 1]
    BY <1>1, <1>2, AtStep DEF Fits
  <2> QED BY <1>1, <1>2, <2>1 DEF Stepping, PoolTypeOK
<1>5. Queued'
  <2>1. \A s \in Request : s # r => Op(s)' = Op(s)
    BY <1>1 DEF Op, PoolTypeOK
  <2> QED BY <1>1, <2>1, QueuesKept
<1>6. Distinct' /\ Exclusive' BY <1>1 DEF Distinct, Exclusive, Holds, Idle
<1> QED BY <1>3, <1>4, <1>5, <1>6

LEMMA BreakKept == PoolInv /\ Break => PoolInv'
<1> SUFFICES ASSUME PoolInv, Break PROVE PoolInv' OBVIOUS
<1> USE DEF PoolInv
<1>1. UNCHANGED <<pool, free, queue, kind, step, held, lost>> /\ dead' \subseteq Link
  BY DEF Break, PoolTypeOK, Link
<1>2. PoolTypeOK' BY <1>1 DEF PoolTypeOK
<1>3. Stepping' BY <1>1 DEF Stepping
<1>4. Queued' BY <1>1 DEF Queued, Op
<1>5. Distinct' /\ Exclusive' BY <1>1 DEF Distinct, Exclusive, Holds, Idle
<1> QED BY <1>2, <1>3, <1>4, <1>5

LEMMA WaitKept ==
  ASSUME PoolInv, NEW r \in Request, Wait(r)
  PROVE  PoolInv'
<1> USE DEF PoolInv
<1>1. /\ Op(r) = "get" /\ ~ Waiting(r)
      /\ Len(queue[pool]) < QueueLimit
      /\ queue' = [queue EXCEPT ![pool] = Append(@, r)]
      /\ UNCHANGED <<pool, free, kind, step, held, dead, lost>>
  BY DEF Wait
<1>2. /\ pool \in Pool /\ queue[pool] \in Seq(Request)
      /\ queue \in [Pool -> Seq(Request)]
  BY DEF PoolTypeOK
<1>3. /\ queue'[pool] = Append(queue[pool], r)
      /\ Len(queue'[pool]) = Len(queue[pool]) + 1
      /\ \A p \in Pool : p # pool => queue'[p] = queue[p]
      /\ queue' \in [Pool -> Seq(Request)]
  BY <1>1, <1>2
<1>4. PoolTypeOK'
  <2>1. \A p \in Pool : Len(queue'[p]) <= QueueLimit
    BY <1>1, <1>2, <1>3, PoolAssumption DEF PoolTypeOK, PoolAssumption
  <2> QED BY <1>1, <1>3, <2>1 DEF PoolTypeOK
<1>5. Stepping' BY <1>1 DEF Stepping
<1>6. Queued'
  <2> SUFFICES ASSUME NEW p \in Pool, NEW i \in 1..Len(queue'[p])
               PROVE  /\ Op(queue'[p][i]) = "get"
                      /\ \A q \in Pool : \A j \in 1..Len(queue'[q]) :
                           queue'[p][i] = queue'[q][j] => p = q /\ i = j
    BY <1>1 DEF Queued, Op
  <2>1. \A q \in Pool : \A j \in 1..Len(queue'[q]) :
          \/ j \in 1..Len(queue[q]) /\ queue'[q][j] = queue[q][j] /\ queue[q][j] # r
          \/ q = pool /\ j = Len(queue[pool]) + 1 /\ queue'[q][j] = r
    BY <1>1, <1>2, <1>3 DEF Waiting
  <2>2. Op(queue'[p][i]) = "get" BY <1>1, <2>1 DEF Queued
  <2>3. ASSUME NEW q \in Pool, NEW j \in 1..Len(queue'[q]), queue'[p][i] = queue'[q][j]
        PROVE  p = q /\ i = j
    <3>1. \/ i \in 1..Len(queue[p]) /\ queue'[p][i] = queue[p][i] /\ queue[p][i] # r
          \/ p = pool /\ i = Len(queue[pool]) + 1 /\ queue'[p][i] = r
      BY <2>1
    <3>2. \/ j \in 1..Len(queue[q]) /\ queue'[q][j] = queue[q][j] /\ queue[q][j] # r
          \/ q = pool /\ j = Len(queue[pool]) + 1 /\ queue'[q][j] = r
      BY <2>1
    <3>3. i \in 1..Len(queue[p]) /\ j \in 1..Len(queue[q]) /\ queue[p][i] = queue[q][j]
            => p = q /\ i = j
      BY Zenon DEF Queued
    <3> QED BY <2>3, <3>1, <3>2, <3>3, Zenon
  <2> QED BY <2>2, <2>3
<1>7. Distinct' /\ Exclusive' BY <1>1 DEF Distinct, Exclusive, Holds, Idle
<1> QED BY <1>4, <1>5, <1>6, <1>7

(* A request ends with what it has in its hands: that is lost. *)
LEMMA ThrowKept ==
  ASSUME PoolInv, NEW r \in Request, kind[r] # "none", ~ Waiting(r), Throw(r)
  PROVE  PoolInv'
<1> USE DEF PoolInv
<1>1. /\ kind' = [kind EXCEPT ![r] = "none"]
      /\ step' = [step EXCEPT ![r] = 1]
      /\ held' = [held EXCEPT ![r] = <<>>]
      /\ UNCHANGED <<pool, free, queue, dead>>
  BY DEF Throw
<1>2. /\ lost' \in [Link -> DOMAIN Script \cup {"none"}]
      /\ \A k \in Link : \/ lost'[k] = lost[k]
                         \/ \E i \in 1..Len(held[r]) : held[r][i] = k
  BY DEF Throw, PoolTypeOK
<1>3. PoolTypeOK'
  <2>1. <<>> \in Seq(Link) OBVIOUS
  <2> QED BY <1>1, <1>2, <2>1 DEF PoolTypeOK
<1>4. Stepping' BY <1>1 DEF Stepping, PoolTypeOK
<1>5. Queued'
  <2>1. \A s \in Request : s # r => Op(s)' = Op(s)
    BY <1>1 DEF Op, PoolTypeOK
  <2>2. \A p \in Pool : \A i \in 1..Len(queue[p]) :
          queue[p][i] # r /\ queue[p][i] \in Request
    <3> SUFFICES ASSUME NEW p \in Pool, NEW i \in 1..Len(queue[p])
                 PROVE  queue[p][i] # r /\ queue[p][i] \in Request
      OBVIOUS
    <3>1. queue[p] \in Seq(Request) BY DEF PoolTypeOK
    <3> QED BY <3>1 DEF Waiting
  <2>3. \A p \in Pool : \A i \in 1..Len(queue[p]) : Op(queue[p][i])' = "get"
    BY <1>1, <2>1, <2>2 DEF Queued
  <2> QED BY <1>1, <2>3 DEF Queued
<1>6. Distinct'
  <2>1. \A s \in Request : \A i \in 1..Len(held'[s]) :
          s # r /\ i \in 1..Len(held[s]) /\ held'[s][i] = held[s][i]
    BY <1>1 DEF PoolTypeOK
  <2> QED BY <2>1 DEF Distinct
<1>7. Exclusive'
  <2> SUFFICES ASSUME NEW k \in Link
               PROVE  /\ \A s \in Request : Holds(s, k)' => ~ Idle(k) /\ lost'[k] = "none"
                      /\ Idle(k) => lost'[k] = "none"
    BY <1>1 DEF Exclusive, Idle
  <2>1. \A s \in Request : Holds(s, k)' => s # r /\ Holds(s, k)
    BY <1>1 DEF Holds, PoolTypeOK
  <2>2. \A s \in Request : Holds(s, k) /\ s # r => ~ Holds(r, k)
    BY DEF Distinct, Holds
  <2>3. lost'[k] = lost[k] \/ Holds(r, k) BY <1>2 DEF Holds
  <2> QED BY <2>1, <2>2, <2>3 DEF Exclusive
<1> QED BY <1>3, <1>4, <1>5, <1>6, <1>7

LEMMA OverflowKept ==
  ASSUME PoolInv, NEW r \in Request, Overflow(r)
  PROVE  PoolInv'
BY ThrowKept DEF Overflow, Op

(* A free connection goes into a request's hands. *)
LEMMA GetKept ==
  ASSUME PoolInv, NEW r \in Request, Get(r)
  PROVE  PoolInv'
<1> USE DEF PoolInv
<1>1. PICK c \in free[pool] :
        /\ free' = [free EXCEPT ![pool] = @ \ {c}]
        /\ held' = [held EXCEPT ![r] = Append(@, <<pool, c>>)]
        /\ EnsureAlive(<<pool, c>>)
  BY DEF Get
<1>2. /\ Op(r) = "get" /\ ~ Waiting(r)
      /\ step' = [step EXCEPT ![r] = @ + 1]
      /\ UNCHANGED <<queue, kind, dead, lost>>
  BY DEF Get
<1> DEFINE k == <<pool, c>>
<1>3. /\ k \in Link /\ Idle(k) /\ k[1] = pool /\ k[2] = c
      /\ pool \in Pool /\ c \in Conn
  BY DEF PoolTypeOK, Link, Idle
<1>4. pool' \in Pool BY <1>1, AliveTyped
<1>5. kind[r] # "none" BY <1>2 DEF Op
<1> HIDE DEF k
<1>6. held[r] \in Seq(Link) /\ held \in [Request -> Seq(Link)] BY DEF PoolTypeOK
<1>7. held' = [held EXCEPT ![r] = Append(@, k)] BY <1>1 DEF k
<1>8. /\ held' \in [Request -> Seq(Link)]
      /\ Len(held'[r]) = Len(held[r]) + 1
      /\ \A s \in Request : s # r => held'[s] = held[s]
      /\ \A i \in 1..Len(held[r]) : held'[r][i] = held[r][i]
      /\ held'[r][Len(held[r]) + 1] = k
  BY <1>3, <1>6, <1>7
<1>9. PoolTypeOK'
  BY <1>1, <1>2, <1>4, <1>8 DEF PoolTypeOK
<1>10. Stepping'
  <2>1. /\ step[r] + 1 \in 1..Len(Script[kind[r]])
        /\ Len(held[r]) + 1 = Carried[kind[r]][step[r] + 1]
    BY <1>2, <1>5, AtStep DEF Fits
  <2> QED BY <1>2, <1>5, <1>8, <2>1 DEF Stepping, PoolTypeOK
<1>11. Queued'
  <2>1. \A s \in Request : s # r => Op(s)' = Op(s)
    BY <1>2 DEF Op, PoolTypeOK
  <2>2. \A p \in Pool : \A i \in 1..Len(queue[p]) :
          queue[p][i] # r /\ queue[p][i] \in Request
    <3> SUFFICES ASSUME NEW p \in Pool, NEW i \in 1..Len(queue[p])
                 PROVE  queue[p][i] # r /\ queue[p][i] \in Request
      OBVIOUS
    <3>1. queue[p] \in Seq(Request) BY DEF PoolTypeOK
    <3> QED BY <1>2, <3>1 DEF Waiting
  <2>3. \A p \in Pool : \A i \in 1..Len(queue[p]) : Op(queue[p][i])' = "get"
    BY <1>2, <2>1, <2>2 DEF Queued
  <2> QED BY <1>2, <2>3 DEF Queued
<1>12. Distinct'
  <2>1. ASSUME NEW s \in Request, NEW i \in 1..Len(held'[s])
        PROVE  \/ i \in 1..Len(held[s]) /\ held'[s][i] = held[s][i] /\ held[s][i] # k
               \/ s = r /\ i = Len(held[r]) + 1 /\ held'[s][i] = k
    <3>1. \A t \in Request : ~ Holds(t, k) BY <1>3 DEF Exclusive
    <3>2. CASE s = r
      <4>1. i \in 1..Len(held[r]) \/ i = Len(held[r]) + 1 BY <1>6, <1>8, <3>2
      <4> QED BY <1>8, <3>1, <3>2, <4>1 DEF Holds
    <3>3. CASE s # r BY <1>8, <3>1, <3>3 DEF Holds
    <3> QED BY <3>2, <3>3
  <2>2. ASSUME NEW s \in Request, NEW t \in Request,
               NEW i \in 1..Len(held'[s]), NEW j \in 1..Len(held'[t]),
               held'[s][i] = held'[t][j]
        PROVE  s = t /\ i = j
    <3>1. CASE held'[s][i] = k
      <4>1. s = r /\ i = Len(held[r]) + 1 BY <2>1, <3>1
      <4>2. t = r /\ j = Len(held[r]) + 1 BY <2>1, <2>2, <3>1
      <4> QED BY <4>1, <4>2
    <3>2. CASE held'[s][i] # k
      <4>1. i \in 1..Len(held[s]) /\ held'[s][i] = held[s][i] BY <2>1, <3>2
      <4>2. j \in 1..Len(held[t]) /\ held'[t][j] = held[t][j] BY <2>1, <2>2, <3>2
      <4>3. held[s][i] = held[t][j] BY <2>2, <4>1, <4>2
      <4> QED BY <4>1, <4>2, <4>3 DEF Distinct
    <3> QED BY <3>1, <3>2
  <2> QED
    <3> HIDE DEF PoolInv
    <3> SUFFICES ASSUME NEW s \in Request, NEW t \in Request,
                        NEW i \in 1..Len(held'[s]), NEW j \in 1..Len(held'[t]),
                        held'[s][i] = held'[t][j]
                 PROVE  s = t /\ i = j
      BY Zenon DEF Distinct
    <3> QED BY <2>2
<1>13. Exclusive'
  <2> SUFFICES ASSUME NEW l \in Link
               PROVE  /\ \A s \in Request : Holds(s, l)' => ~ Idle(l)' /\ lost[l] = "none"
                      /\ Idle(l)' => lost[l] = "none"
    BY <1>2 DEF Exclusive
  <2>1. Idle(l)' <=> Idle(l) /\ l # k
    BY <1>1, <1>3 DEF Idle, Link, PoolTypeOK, k
  <2>2. \A s \in Request : Holds(s, l)' => Holds(s, l) \/ l = k
    <3> SUFFICES ASSUME NEW s \in Request, NEW i \in 1..Len(held'[s]), held'[s][i] = l, l # k
                 PROVE  Holds(s, l)
      BY DEF Holds
    <3>1. i \in 1..Len(held[s]) /\ held'[s][i] = held[s][i]
      <4>1. CASE s = r
        <5>1. i \in 1..Len(held[r]) \/ i = Len(held[r]) + 1 BY <1>6, <1>8, <4>1
        <5> QED BY <1>8, <4>1, <5>1
      <4>2. CASE s # r BY <1>8, <4>2
      <4> QED BY <4>1, <4>2
    <3> QED BY <3>1 DEF Holds
  <2> QED BY <1>3, <2>1, <2>2 DEF Exclusive
<1> QED BY <1>9, <1>10, <1>11, <1>12, <1>13

LEMMA FrontOf ==
  ASSUME NEW S, NEW q \in Seq(S), Len(q) > 0
  PROVE  /\ Front(q) \in Seq(S)
         /\ Len(Front(q)) = Len(q) - 1
         /\ \A i \in 1..Len(q) - 1 : Front(q)[i] = q[i]
<1>1. Front(q) = SubSeq(q, 1, Len(q) - 1) BY DEF Front
<1>2. Len(q) \in Nat BY LenProperties
<1>3. ASSUME NEW i \in 1..Len(q) - 1 PROVE q[i] \in S
  BY <1>2, ElementOfSeq
<1> DEFINE n == Len(q) - 1
<1>4. 1 \in Int /\ n \in Nat /\ n - 1 + 1 = n BY <1>2
<1>5. \A i \in 1..n : 1 + i - 1 = i OBVIOUS
<1> HIDE DEF n
<1>6. (IF 1 <= n THEN n - 1 + 1 ELSE 0) = n BY <1>4
<1>7. /\ SubSeq(q, 1, n) \in Seq(S)
      /\ Len(SubSeq(q, 1, n)) = IF 1 <= n THEN n - 1 + 1 ELSE 0
      /\ \A i \in 1..n - 1 + 1 : SubSeq(q, 1, n)[i] = q[1 + i - 1]
  BY <1>3, <1>4, SubSeqProperties DEF n
<1> QED BY <1>1, <1>4, <1>5, <1>6, <1>7 DEF n

(* What a request gives back, and where it goes on. *)
Returned(r, n, kd) ==
  /\ GiveBack(r, n)
  /\ kind' = [kind EXCEPT ![r] = kd]
  /\ UNCHANGED <<dead, lost>>
  /\ n \in Nat
  /\ kd \in DOMAIN Script \cup {"none"}
  /\ IF kd = "none"
       THEN n = 1 /\ Len(held[r]) = 1
       ELSE n \in 1..Len(Script[kd]) /\ Len(held[r]) - 1 = Carried[kd][n]

(* The connection that is put aside is free, and was r's only.             *)
LEMMA PutAsideKept ==
  ASSUME PoolInv, NEW r \in Request, Op(r) \notin {"none", "get"},
         NEW n, NEW kd, Returned(r, n, kd), queue[Top(r)[1]] = <<>>
  PROVE  PoolInv'
<1> USE DEF PoolInv
<1> DEFINE k == Top(r)
<1>1. /\ k \in Link /\ k[1] \in Pool /\ k[2] \in Conn /\ k = <<k[1], k[2]>>
      /\ k = held[r][Len(held[r])]
      /\ Len(held[r]) \in Nat \ {0}
      /\ held[r] \in Seq(Link)
      /\ held \in [Request -> Seq(Link)]
  BY HasTop DEF Link, PoolTypeOK
<1>2. /\ free' = [free EXCEPT ![k[1]] = @ \cup {k[2]}]
      /\ held' = [held EXCEPT ![r] = Front(@)]
      /\ step' = [step EXCEPT ![r] = n]
      /\ kind' = [kind EXCEPT ![r] = kd]
      /\ UNCHANGED <<queue, pool, dead, lost>>
  BY DEF Returned, GiveBack
<1>3. /\ n \in Nat
      /\ kd \in DOMAIN Script \cup {"none"}
      /\ IF kd = "none"
           THEN n = 1 /\ Len(held[r]) = 1
           ELSE n \in 1..Len(Script[kd]) /\ Len(held[r]) - 1 = Carried[kd][n]
  BY DEF Returned
<1> HIDE DEF k
<1>4. /\ held' \in [Request -> Seq(Link)]
      /\ Len(held'[r]) = Len(held[r]) - 1
      /\ \A s \in Request : s # r => held'[s] = held[s]
      /\ \A i \in 1..Len(held[r]) - 1 : held'[r][i] = held[r][i]
  <2>1. /\ Front(held[r]) \in Seq(Link)
        /\ Len(Front(held[r])) = Len(held[r]) - 1
        /\ \A i \in 1..Len(held[r]) - 1 : Front(held[r])[i] = held[r][i]
    BY <1>1, FrontOf
  <2> QED BY <1>1, <1>2, <2>1
<1>5. PoolTypeOK'
  <2>1. free' \in [Pool -> SUBSET Conn] BY <1>1, <1>2 DEF PoolTypeOK
  <2> QED BY <1>2, <1>3, <1>4, <2>1 DEF PoolTypeOK
<1>6. Stepping'
  <2> SUFFICES ASSUME NEW s \in Request
               PROVE  IF kind'[s] = "none"
                        THEN step'[s] = 1 /\ held'[s] = <<>>
                        ELSE /\ step'[s] \in 1..Len(Script[kind'[s]])
                             /\ Len(held'[s]) = Carried[kind'[s]][step'[s]]
    BY DEF Stepping
  <2>1. CASE s = r
    <3>1. kind'[r] = kd /\ step'[r] = n BY <1>2 DEF PoolTypeOK
    <3>2. Len(held'[r]) = 0 => held'[r] = <<>> BY <1>4
    <3> QED BY <1>3, <1>4, <2>1, <3>1, <3>2
  <2>2. CASE s # r BY <1>2, <1>4, <2>2 DEF Stepping, PoolTypeOK
  <2> QED BY <2>1, <2>2
<1>7. Queued'
  <2>1. \A s \in Request : s # r => Op(s)' = Op(s)
    BY <1>2 DEF Op, PoolTypeOK
  <2> QED BY <1>2, <2>1, QueuesKept
<1>8. ASSUME NEW s \in Request, NEW i \in 1..Len(held'[s])
      PROVE  i \in 1..Len(held[s]) /\ held'[s][i] = held[s][i] /\ held[s][i] # k
  <2>1. CASE s = r
    <3>1. i \in 1..Len(held[r]) - 1 /\ i \in 1..Len(held[r]) BY <1>1, <1>4, <2>1
    <3>2. i # Len(held[r]) /\ Len(held[r]) \in 1..Len(held[r]) BY <1>1, <3>1
    <3>3. held[r][i] # held[r][Len(held[r])] BY <3>1, <3>2 DEF Distinct
    <3> QED BY <1>1, <1>4, <2>1, <3>1, <3>3
  <2>2. CASE s # r
    <3>1. held'[s] = held[s] BY <1>4, <2>2
    <3>2. Len(held[r]) \in 1..Len(held[r]) BY <1>1
    <3>3. held[s][i] # held[r][Len(held[r])] BY <2>2, <3>1, <3>2 DEF Distinct
    <3> QED BY <1>1, <3>1, <3>3
  <2> QED BY <2>1, <2>2
<1>9. Distinct' BY <1>8 DEF Distinct
<1>10. Exclusive'
  <2> SUFFICES ASSUME NEW l \in Link
               PROVE  /\ \A s \in Request : Holds(s, l)' => ~ Idle(l)' /\ lost[l] = "none"
                      /\ Idle(l)' => lost[l] = "none"
    BY <1>2 DEF Exclusive
  <2>1. Idle(l)' <=> Idle(l) \/ l = k
    <3>1. l[1] \in Pool /\ l = <<l[1], l[2]>> BY DEF Link
    <3>2. free'[l[1]] = IF l[1] = k[1] THEN free[l[1]] \cup {k[2]} ELSE free[l[1]]
      BY <1>2, <3>1 DEF PoolTypeOK
    <3>3. l = k <=> l[1] = k[1] /\ l[2] = k[2] BY <1>1, <3>1
    <3> QED BY <3>2, <3>3 DEF Idle
  <2>2. \A s \in Request : Holds(s, l)' => Holds(s, l) /\ l # k
    BY <1>8 DEF Holds
  <2>3. Holds(r, k) BY <1>1 DEF Holds
  <2> QED BY <1>1, <2>1, <2>2, <2>3 DEF Exclusive
<1> QED BY <1>5, <1>6, <1>7, <1>9, <1>10

(* The connection that is handed on was r's only, and is then w's only.    *)
LEMMA HandedOnKept ==
  ASSUME PoolInv, NEW r \in Request, Op(r) \notin {"none", "get"},
         NEW n, NEW kd, Returned(r, n, kd), queue[Top(r)[1]] # <<>>
  PROVE  PoolInv'
<1> USE DEF PoolInv
<1> DEFINE k == Top(r)
           p == k[1]
           w == Head(queue[p])
<1>1. /\ k \in Link /\ p \in Pool
      /\ k = held[r][Len(held[r])]
      /\ Len(held[r]) \in Nat \ {0}
      /\ held[r] \in Seq(Link)
      /\ held \in [Request -> Seq(Link)]
  BY HasTop DEF Link, PoolTypeOK
<1>2. /\ queue' = [queue EXCEPT ![p] = Tail(@)]
      /\ held' = [held EXCEPT ![r] = Front(@), ![w] = Append(@, k)]
      /\ step' = [step EXCEPT ![r] = n, ![w] = @ + 1]
      /\ kind' = [kind EXCEPT ![r] = kd]
      /\ EnsureAlive(k)
      /\ UNCHANGED <<free, dead, lost>>
  BY DEF Returned, GiveBack
<1>3. /\ n \in Nat
      /\ kd \in DOMAIN Script \cup {"none"}
      /\ IF kd = "none"
           THEN n = 1 /\ Len(held[r]) = 1
           ELSE n \in 1..Len(Script[kd]) /\ Len(held[r]) - 1 = Carried[kd][n]
  BY DEF Returned
<1>4. /\ queue[p] \in Seq(Request) /\ Len(queue[p]) \in Nat \ {0}
      /\ w = queue[p][1] /\ 1 \in 1..Len(queue[p])
      /\ w \in Request
      /\ Len(Tail(queue[p])) = Len(queue[p]) - 1
      /\ Tail(queue[p]) \in Seq(Request)
      /\ \A i \in 1..Len(queue[p]) - 1 : Tail(queue[p])[i] = queue[p][i + 1]
  <2>1. queue[p] \in Seq(Request) /\ queue[p] # <<>> BY <1>1 DEF PoolTypeOK
  <2> QED BY <2>1
<1> HIDE DEF k, p, w
<1>5. w # r /\ Op(w) = "get" /\ kind[w] # "none"
  <2>1. queue[p][1] # r BY <1>1, <1>4, HasTop
  <2>2. Op(queue[p][1]) = "get" BY <1>1, <1>4 DEF Queued
  <2> QED BY <1>4, <2>1, <2>2 DEF Op
<1>6. /\ held' \in [Request -> Seq(Link)]
      /\ Len(held'[r]) = Len(held[r]) - 1
      /\ \A i \in 1..Len(held[r]) - 1 : held'[r][i] = held[r][i]
      /\ held'[w] = Append(held[w], k)
      /\ \A s \in Request : s \notin {r, w} => held'[s] = held[s]
  <2>1. /\ Front(held[r]) \in Seq(Link)
        /\ Len(Front(held[r])) = Len(held[r]) - 1
        /\ \A i \in 1..Len(held[r]) - 1 : Front(held[r])[i] = held[r][i]
    BY <1>1, FrontOf
  <2>2. held[w] \in Seq(Link) BY <1>1, <1>4
  <2>3. Append(held[w], k) \in Seq(Link) BY <1>1, <2>2
  <2> QED BY <1>1, <1>2, <1>4, <1>5, <2>1, <2>3
<1>7. /\ held[w] \in Seq(Link)
      /\ Len(held[w]) \in Nat
      /\ Len(held'[w]) = Len(held[w]) + 1
      /\ \A i \in 1..Len(held[w]) : held'[w][i] = held[w][i]
      /\ held'[w][Len(held[w]) + 1] = k
  BY <1>1, <1>4, <1>6
<1>8. /\ step' \in [Request -> Nat]
      /\ step'[r] = n /\ step'[w] = step[w] + 1
      /\ kind' \in [Request -> DOMAIN Script \cup {"none"}]
      /\ kind'[r] = kd
      /\ \A s \in Request : s # r => kind'[s] = kind[s]
      /\ \A s \in Request : s \notin {r, w} => step'[s] = step[s]
  BY <1>2, <1>3, <1>4, <1>5, SMTT(60) DEF PoolTypeOK
<1>9. /\ queue' \in [Pool -> Seq(Request)]
      /\ queue'[p] = Tail(queue[p])
      /\ \A q \in Pool : q # p => queue'[q] = queue[q]
  BY <1>1, <1>2, <1>4 DEF PoolTypeOK
<1>10. PoolTypeOK'
  <2>1. pool' \in Pool BY <1>2, AliveTyped
  <2>2. \A q \in Pool : Len(queue'[q]) <= QueueLimit
    <3> SUFFICES ASSUME NEW q \in Pool PROVE Len(queue'[q]) <= QueueLimit OBVIOUS
    <3>1. Len(queue[q]) <= QueueLimit BY DEF PoolTypeOK
    <3>2. QueueLimit \in Nat BY PoolAssumption DEF PoolAssumption
    <3>3. CASE q = p BY <1>4, <1>9, <3>1, <3>2, <3>3
    <3>4. CASE q # p BY <1>9, <3>1, <3>4
    <3> QED BY <3>3, <3>4
  <2> QED BY <1>2, <1>6, <1>8, <1>9, <2>1, <2>2 DEF PoolTypeOK
<1>11. Stepping'
  <2> SUFFICES ASSUME NEW s \in Request
               PROVE  IF kind'[s] = "none"
                        THEN step'[s] = 1 /\ held'[s] = <<>>
                        ELSE /\ step'[s] \in 1..Len(Script[kind'[s]])
                             /\ Len(held'[s]) = Carried[kind'[s]][step'[s]]
    BY DEF Stepping
  <2>1. CASE s = r
    <3>1. Len(held'[r]) = 0 => held'[r] = <<>> BY <1>6
    <3> QED BY <1>3, <1>6, <1>8, <2>1, <3>1
  <2>2. CASE s = w
    <3>1. /\ step[w] + 1 \in 1..Len(Script[kind[w]])
          /\ Len(held[w]) + 1 = Carried[kind[w]][step[w] + 1]
      <4>1. /\ Fits(Script[kind[w]], Carried[kind[w]], step[w])
            /\ Script[kind[w]][step[w]] = "get"
            /\ Len(held[w]) = Carried[kind[w]][step[w]]
            /\ step[w] \in 1..Len(Script[kind[w]])
            /\ Len(Script[kind[w]]) \in Nat
        BY <1>4, <1>5, AtStep
      <4> QED BY <4>1 DEF Fits
    <3> QED BY <1>4, <1>5, <1>7, <1>8, <2>2, <3>1
  <2>3. CASE s \notin {r, w} BY <1>6, <1>8, <2>3 DEF Stepping
  <2> QED BY <2>1, <2>2, <2>3
<1>12. Queued'
  <2>1. ASSUME NEW q \in Pool, NEW i \in 1..Len(queue'[q])
        PROVE  LET j == IF q = p THEN i + 1 ELSE i
               IN  /\ j \in 1..Len(queue[q])
                   /\ queue'[q][i] = queue[q][j]
                   /\ queue[q][j] \in Request \ {r, w}
                   /\ Op(queue[q][j]) = "get"
    <3> DEFINE j == IF q = p THEN i + 1 ELSE i
    <3>1. j \in 1..Len(queue[q]) /\ queue'[q][i] = queue[q][j] /\ (q = p => j # 1)
      <4>1. CASE q = p
        <5>1. i \in 1..Len(queue[p]) - 1 /\ queue'[q][i] = queue[p][i + 1]
          BY <1>4, <1>9, <4>1
        <5> QED BY <1>4, <4>1, <5>1
      <4>2. CASE q # p BY <1>9, <4>2
      <4> QED BY <4>1, <4>2
    <3> HIDE DEF j
    <3>2. queue[q][j] # w
      <4>1. queue[q][j] = queue[p][1] => q = p /\ j = 1
        <5>1. /\ p \in Pool /\ 1 \in 1..Len(queue[p])
              /\ q \in Pool /\ j \in 1..Len(queue[q])
          BY <1>1, <1>4, <3>1
        <5> QED BY <5>1, Zenon DEF Queued
      <4> QED BY <1>4, <3>1, <4>1
    <3>3. queue[q][j] # r BY <3>1, HasTop
    <3>4. queue[q] \in Seq(Request) BY DEF PoolTypeOK
    <3>5. queue[q][j] \in Request BY <3>1, <3>4
    <3>6. Op(queue[q][j]) = "get" BY <3>1, Zenon DEF Queued
    <3> QED BY <3>1, <3>2, <3>3, <3>5, <3>6 DEF j
  <2>4. \A q \in Pool : \A i \in 1..Len(queue'[q]) :
          queue'[q][i] \in Request \ {r, w} /\ Op(queue'[q][i]) = "get"
    BY <2>1
  <2>5. ASSUME NEW q \in Pool, NEW i \in 1..Len(queue'[q]),
               NEW t \in Pool, NEW j \in 1..Len(queue'[t]), queue'[q][i] = queue'[t][j]
        PROVE  q = t /\ i = j
    <3> DEFINE a == IF q = p THEN i + 1 ELSE i
               b == IF t = p THEN j + 1 ELSE j
    <3>1. /\ a \in 1..Len(queue[q]) /\ b \in 1..Len(queue[t])
          /\ queue[q][a] = queue[t][b]
      BY <2>1, <2>5
    <3>2. q = t => (a = b => i = j) OBVIOUS
    <3> HIDE DEF a, b
    <3>3. q = t /\ a = b BY <3>1, Zenon DEF Queued
    <3> QED BY <3>2, <3>3
  <2>6. (\A q \in Pool : \A i \in 1..Len(queue[q]) : Op(queue[q][i]) = "get")'
    <3>1. \A s \in Request \ {r, w} : kind'[s] = kind[s] /\ step'[s] = step[s] BY <1>8
    <3> QED BY <2>4, <3>1 DEF Op
  <2> QED BY <2>5, <2>6 DEF Queued
<1>13. ASSUME NEW s \in Request, NEW i \in 1..Len(held'[s])
       PROVE  \/ i \in 1..Len(held[s]) /\ held'[s][i] = held[s][i] /\ held[s][i] # k
              \/ s = w /\ i = Len(held[w]) + 1 /\ held'[s][i] = k
  <2>1. \A t \in Request : \A j \in 1..Len(held[t]) :
          held[t][j] = k => t = r /\ j = Len(held[r])
    <3>1. Len(held[r]) \in 1..Len(held[r]) BY <1>1
    <3> QED BY <1>1, <3>1, Zenon DEF Distinct
  <2>2. CASE s = r
    <3>1. i \in 1..Len(held[r]) - 1 /\ i \in 1..Len(held[r]) /\ i # Len(held[r])
      BY <1>1, <1>6, <2>2
    <3> QED BY <1>6, <2>1, <2>2, <3>1
  <2>3. CASE s = w
    <3>1. i \in 1..Len(held[w]) \/ i = Len(held[w]) + 1 BY <1>7, <2>3
    <3> QED BY <1>5, <1>7, <2>1, <2>3, <3>1
  <2>4. CASE s \notin {r, w} BY <1>6, <2>1, <2>4
  <2> QED BY <2>2, <2>3, <2>4
<1>14. Distinct' BY <1>13 DEF Distinct
<1>15. Exclusive'
  <2> SUFFICES ASSUME NEW l \in Link
               PROVE  /\ \A s \in Request : Holds(s, l)' => ~ Idle(l) /\ lost[l] = "none"
                      /\ Idle(l) => lost[l] = "none"
    BY <1>2 DEF Exclusive, Idle
  <2>1. \A s \in Request : Holds(s, l)' => Holds(s, l) \/ l = k
    BY <1>13 DEF Holds
  <2>2. Holds(r, k) BY <1>1 DEF Holds
  <2> QED BY <1>1, <2>1, <2>2 DEF Exclusive
<1> QED BY <1>10, <1>11, <1>12, <1>14, <1>15

LEMMA ReturnKept ==
  ASSUME PoolInv, NEW r \in Request, Op(r) \notin {"none", "get"},
         NEW n, NEW kd, Returned(r, n, kd)
  PROVE  PoolInv'
BY PutAsideKept, HandedOnKept

(* The end of a request that has one connection. *)
LEMMA FinishKept ==
  ASSUME PoolInv, NEW r \in Request, Op(r) \in {"execute", "guarded", "open", "commit"},
         Len(held[r]) = 1, Finish(r)
  PROVE  PoolInv'
<1>1. Returned(r, 1, "none") BY DEF Finish, Returned
<1> QED BY <1>1, ReturnKept

LEMMA ParamExecuteKept ==
  ASSUME PoolInv, NEW r \in Request, ParamExecute(r)
  PROVE  PoolInv'
<1>1. Op(r) = "execute" /\ kind[r] # "none" BY DEF ParamExecute, Op
<1>2. /\ kind[r] \in DOMAIN Script
      /\ step[r] \in 1..Len(Script[kind[r]])
      /\ Len(Script[kind[r]]) \in Nat
      /\ Fits(Script[kind[r]], Carried[kind[r]], step[r])
      /\ Script[kind[r]][step[r]] = "execute"
      /\ Len(held[r]) = Carried[kind[r]][step[r]]
  BY <1>1, AtStep
<1>3. CASE Len(Script[kind[r]]) = step[r]
  <2>1. Len(held[r]) = 1 BY <1>2, <1>3 DEF Fits
  <2> QED BY <1>1, <1>3, <2>1, FinishKept DEF ParamExecute
<1>4. CASE Len(Script[kind[r]]) # step[r]
  <2>1. /\ step[r] + 1 \in 1..Len(Script[kind[r]])
        /\ Len(held[r]) - 1 = Carried[kind[r]][step[r] + 1]
    BY <1>2, <1>4 DEF Fits
  <2>2. kind' = [kind EXCEPT ![r] = kind[r]]
    BY <1>4 DEF ParamExecute, PoolInv, PoolTypeOK
  <2>3. kind[r] # "none" /\ step[r] + 1 \in Nat BY <1>1, <1>2
  <2>4. Returned(r, step[r] + 1, kind[r])
    BY <1>2, <1>4, <2>1, <2>2, <2>3 DEF ParamExecute, Returned
  <2> QED BY <1>1, <2>4, ReturnKept
<1> QED BY <1>3, <1>4

(* In a transaction of which one connection is left. *)
LEMMA OneLeft ==
  ASSUME PoolInv, NEW r \in Request, Op(r) \in {"guarded", "open", "commit"}
  PROVE  Len(held[r]) = 1
<1>1. kind[r] # "none" BY DEF Op
<1>2. /\ Fits(Script[kind[r]], Carried[kind[r]], step[r])
      /\ Script[kind[r]][step[r]] \in {"guarded", "open", "commit"}
      /\ Len(held[r]) = Carried[kind[r]][step[r]]
  BY <1>1, AtStep
<1> QED BY <1>2 DEF Fits

LEMMA CommitKept ==
  ASSUME PoolInv, NEW r \in Request, Commit(r)
  PROVE  PoolInv'
BY OneLeft, FinishKept DEF Commit

(* Who is at a statement does not wait, and may throw. *)
LEMMA BusyThrowKept ==
  ASSUME PoolInv, NEW r \in Request, Op(r) \in {"execute", "guarded", "open", "commit"},
         Throw(r)
  PROVE  PoolInv'
<1>1. kind[r] # "none" /\ ~ Waiting(r) BY HasTop DEF Waiting
<1> QED BY <1>1, ThrowKept

LEMMA RollbackKept ==
  ASSUME PoolInv, NEW r \in Request, Rollback(r)
  PROVE  PoolInv'
<1>1. Op(r) \in {"guarded", "commit"} BY DEF Rollback
<1>2. CASE Throw(r) BY <1>1, <1>2, BusyThrowKept
<1>3. CASE Finish(r) BY <1>1, <1>3, OneLeft, FinishKept
<1> QED BY <1>2, <1>3 DEF Rollback

LEMMA UnguardedKept ==
  ASSUME PoolInv, NEW r \in Request, Unguarded(r)
  PROVE  PoolInv'
BY BusyThrowKept DEF Unguarded

LEMMA PoolStepKept == PoolInv /\ [PoolNext]_poolVars => PoolInv'
<1> SUFFICES ASSUME PoolInv, [PoolNext]_poolVars PROVE PoolInv' OBVIOUS
<1>1. CASE UNCHANGED poolVars
  BY <1>1 DEF poolVars, PoolInv, PoolTypeOK, Stepping, Queued, Distinct, Exclusive, Op,
              Holds, Idle
<1>2. ASSUME NEW r \in Request, Guarded(r) \/ Open(r) PROVE PoolInv'
  BY <1>2, ProceedKept DEF Guarded, Open
<1>3. ASSUME NEW r \in Request, PoolStep(r) PROVE PoolInv'
  BY <1>2, <1>3, GetKept, WaitKept, OverflowKept, ParamExecuteKept, CommitKept,
     RollbackKept, UnguardedKept DEF PoolStep
<1> QED BY <1>1, <1>3, ArriveKept, BreakKept DEF PoolNext
-----------------------------------------------------------------------------
DInv == MInv /\ PoolInv /\ serving \in BOOLEAN

LEMMA DatabaseInitial == DatabaseInit => DInv
BY MigrationsInitial, PoolInitial, Zenon DEF DatabaseInit, DInv

(* The scripts do not touch the pool, nor the requests the schema.         *)
LEMMA DatabaseStep == DInv /\ [DatabaseNext]_databaseVars => DInv'
<1> SUFFICES ASSUME DInv, [DatabaseNext]_databaseVars PROVE DInv' OBVIOUS
<1> USE MigrationsStep, PoolStepKept DEF DInv
<1>1. CASE UNCHANGED databaseVars
  <2>1. UNCHANGED migrationVars /\ UNCHANGED poolVars /\ serving' = serving
    BY <1>1 DEF databaseVars
  <2> QED BY <2>1
<1>2. CASE ~ serving /\ MigrationsNext /\ UNCHANGED <<poolVars, serving>>
  BY <1>2
<1>3. CASE Start
  <2>1. UNCHANGED migrationVars /\ UNCHANGED poolVars /\ serving' = TRUE
    BY <1>3 DEF Start
  <2> QED BY <2>1
<1>4. CASE serving /\ PoolNext /\ UNCHANGED <<migrationVars, serving>>
  BY <1>4
<1> QED BY <1>1, <1>2, <1>3, <1>4 DEF DatabaseNext

(* The schema, the pool and the requests keep their types; in particular   *)
(* no queue grows longer than its limit (lib/database/mysql.ts:83-106).    *)
THEOREM DatabaseTypeCorrect == DatabaseSpec => []DatabaseTypeOK
<1>1. DInv => DatabaseTypeOK
  BY DEF DInv, MInv, PoolInv, DatabaseTypeOK
<1> QED BY <1>1, DatabaseInitial, DatabaseStep, PTL DEF DatabaseSpec

(* In whatever order an operator seeds, unseeds, migrates and rebuilds,    *)
(* and wherever the process is stopped or MySQL refuses: as long as no     *)
(* seeding was left in the middle, no seeded row is in its table twice     *)
(* (migration-scripts, lib/database/sql-migrator.ts).                      *)
THEOREM SeedsInsertedOnce == DatabaseSpec => []SeededOnce
<1>1. DInv => SeededOnce
  BY DEF DInv, MInv, InsertedOnce, SeededOnce
<1> QED BY <1>1, DatabaseInitial, DatabaseStep, PTL DEF DatabaseSpec

(* For any number of requests, connections and pools, and whichever        *)
(* statements fail and connections die: a connection is never in two       *)
(* requests' hands, nor free or lost while it is in one's                  *)
(* (lib/database/mysql.ts:123-237).                                        *)
THEOREM ConnectionsLentOnce == DatabaseSpec => []LentOnce
<1>1. DInv => LentOnce
  <2> SUFFICES ASSUME DInv, NEW k \in Link
               PROVE  /\ Idle(k) => \A r \in Request : ~ Holds(r, k)
                      /\ \A r, s \in Request : Holds(r, k) /\ Holds(s, k) => r = s
                      /\ lost[k] # "none" => ~ Idle(k) /\ \A r \in Request : ~ Holds(r, k)
    BY Zenon DEF LentOnce
  <2>1. Distinct /\ Exclusive BY DEF DInv, PoolInv
  <2>2. \A r, s \in Request : Holds(r, k) /\ Holds(s, k) => r = s
    <3> SUFFICES ASSUME NEW r \in Request, NEW s \in Request,
                        NEW i \in 1..Len(held[r]), held[r][i] = k,
                        NEW j \in 1..Len(held[s]), held[s][j] = k
                 PROVE  r = s
      BY Zenon DEF Holds
    <3> QED BY <2>1, Zenon DEF Distinct
  <2> QED BY <2>1, <2>2, Zenon DEF Exclusive
<1> QED BY <1>1, DatabaseInitial, DatabaseStep, PTL DEF DatabaseSpec
=============================================================================
