------------------------------ MODULE JobLock ------------------------------
(***************************************************************************)
(* The lock that keeps a scheduled worker single-threaded.                 *)
(*                                                                         *)
(* Every scheduled worker of the backend (factory, voting and claims       *)
(* parsers, the two finalizers, the attestation requesters, the proposal   *)
(* rounds, ...) is a BaseSingleThreadWorker.  A scheduler that runs once a *)
(* minute invokes the worker's Lambda asynchronously when its row of the   *)
(* `job` table is due; the Lambda locks that row before it runs its body   *)
(* and unlocks it afterwards.  All executions of ONE job are modelled, so  *)
(* the row is a variable and the processes are the Lambda executions.      *)
(*                                                                         *)
(* Only the lock itself (before) is one transaction with a row lock.  The  *)
(* three later updates of the row are a plain SELECT, some in-memory       *)
(* changes and an UPDATE of the whole row, so each is two actions with a   *)
(* snapshot in between.                                                    *)
(***************************************************************************)
EXTENDS Integers

CONSTANTS
  Worker,         \* Lambda execution slots that may serve the job at one time
  Timeout,        \* job.timeout: how long a started job keeps its lock
  LambdaTimeout,  \* how long the platform lets one execution live
  Period,         \* distance between two ticks of the job's cron interval
  MaxPending,     \* bound: asynchronous invocations waiting at one time
  MaxTime         \* bound: the clock stops here

\* The default job timeout and the Lambda timeout are both 900 seconds.
ASSUME JobLockAssumption ==
  /\ Timeout \in Nat \ {0} /\ LambdaTimeout \in Nat \ {0} /\ Period \in Nat \ {0}
  /\ LambdaTimeout <= Timeout
  /\ MaxPending \in Nat \ {0} /\ MaxTime \in Nat

VARIABLES
  now,      \* the clock, one unit per scheduler run
  job,      \* the job's row: status, executorCount, lastRun, nextRun
  pending,  \* asynchronous invocations the platform has accepted
  scanned,  \* the scheduler has launched the job in this unit of time
  pc,       \* where each execution stands in ServerlessWorker.run
  born,     \* when each execution started
  started,  \* workerDefinition.lastRun of each execution, set by setStarted
  read,     \* the row each execution has read and not yet written back
  overlap   \* history: an execution took the lock inside another's bookkeeping

vars == <<now, job, pending, scanned, pc, born, started, read, overlap>>

Never == -1                       \* a NULL lastRun
Status == {"ACTIVE", "LOCKED"}    \* the statuses the code itself writes
Job == [status: Status, executorCount: Nat, lastRun: Nat \cup {Never}, nextRun: Nat]

\* The row of an enabled job that has never run, and an empty Job model.
NewJob == [status |-> "ACTIVE", executorCount |-> 0, lastRun |-> Never, nextRun |-> 0]

Steps == {"idle", "before", "startRead", "startWrite", "execute",
          "stateWrite", "doneRead", "doneWrite"}

\* An execution that passed `before` and has not finished `run`.
Holding(w) == pc[w] \notin {"idle", "before"}

\* The holder's steps at which the row does not yet, or no longer, carry its
\* lock together with its own lastRun.
Bookkeeping(w) == pc[w] \in {"startRead", "startWrite", "doneRead", "doneWrite"}

Goto(w, from, to) == pc[w] = from /\ pc' = [pc EXCEPT ![w] = to]

\* An execution ends and its memory goes with it.
End(w) ==
  /\ pc' = [pc EXCEPT ![w] = "idle"]
  /\ born' = [born EXCEPT ![w] = 0]
  /\ started' = [started EXCEPT ![w] = 0]
  /\ read' = [read EXCEPT ![w] = NewJob]

\* cronParser.parseExpression(interval, {currentDate: lastRun}).next()
CronNext(t) == ((t \div Period) + 1) * Period

TypeOK ==
  /\ now \in 0 .. MaxTime
  /\ job \in Job
  /\ pending \in 0 .. MaxPending
  /\ scanned \in BOOLEAN
  /\ pc \in [Worker -> Steps]
  /\ born \in [Worker -> 0 .. MaxTime]
  /\ started \in [Worker -> 0 .. MaxTime]
  /\ read \in [Worker -> Job]
  /\ overlap \in BOOLEAN

Init ==
  /\ now = 0
  /\ job = NewJob
  /\ pending = 0
  /\ scanned = FALSE
  /\ pc = [w \in Worker |-> "idle"]
  /\ born = [w \in Worker |-> 0]
  /\ started = [w \in Worker |-> 0]
  /\ read = [w \in Worker |-> NewJob]
  /\ overlap = FALSE

-----------------------------------------------------------------------------
(* The scheduler and the platform                                            *)

\* Job.getPendingJobs, for this job.
PendingJob_lockedSkipped(j) == j.status = "ACTIVE" /\ j.nextRun <= now

PendingJob(j) ==
  /\ j.status \in {"ACTIVE", "LOCKED"}
  /\ j.nextRun <= now
  /\ \/ j.lastRun = Never
     \/ j.lastRun <= j.nextRun
     \/ j.lastRun + Timeout < now

\* The scheduler's Lambda: getWorkerDefinitions, then launchWorkers.
Schedule ==
  /\ ~scanned
  /\ scanned' = TRUE
  /\ PendingJob(job)
  /\ pending < MaxPending
  /\ pending' = pending + 1
  /\ UNCHANGED <<now, job, pc, born, started, read, overlap>>

\* An asynchronous invocation reaches a Lambda execution at least once: the
\* platform redelivers it after an error, and may deliver it twice.
Deliver(w) ==
  /\ pending > 0
  /\ Goto(w, "idle", "before")
  /\ born' = [born EXCEPT ![w] = now]
  /\ pending' \in {pending, pending - 1}
  /\ UNCHANGED <<now, job, scanned, started, read, overlap>>

\* The platform ends an execution, at the latest when its time is up.
Kill(w) ==
  /\ pc[w] # "idle"
  /\ End(w)
  /\ UNCHANGED <<now, job, pending, scanned, overlap>>

OutOfTime(w) == pc[w] # "idle" /\ now + 1 >= born[w] + LambdaTimeout

\* At its bound the clock stands still, but the scheduler goes on.
Tick ==
  /\ \A w \in Worker : ~OutOfTime(w)
  /\ now' = IF now < MaxTime THEN now + 1 ELSE now
  /\ scanned' = FALSE
  /\ UNCHANGED <<job, pending, pc, born, started, read, overlap>>

-----------------------------------------------------------------------------
(* One execution: before, updateOnStarted, execute, onSuccess,               *)
(* updateOnCompleted                                                         *)

\* checkLockedStatus, its first exit: past the timeout, the lock is ignored.
PastTimeout_early(j) ==
  /\ j.lastRun # Never
  /\ j.status = "LOCKED"
  /\ now - j.lastRun >= Timeout - 1

PastTimeout(j) ==
  /\ j.lastRun # Never
  /\ j.status = "LOCKED"
  /\ now - j.lastRun >= Timeout

\* checkLockedStatus, its second exit: somebody else runs the job.
HeldByOther(j) == ~PastTimeout(j) /\ (j.executorCount >= 1 \/ j.status = "LOCKED")

\* `before`, the row locked from the SELECT to the COMMIT: the lock is taken.
Lock_keepCount(j) ==
  [j EXCEPT !.executorCount = j.executorCount + 1, !.status = "LOCKED"]

Lock(j) ==
  [j EXCEPT !.executorCount = IF PastTimeout(j) THEN 1 ELSE j.executorCount + 1,
            !.status = "LOCKED"]

Before(w) ==
  /\ ~HeldByOther(job)
  /\ Goto(w, "before", "startRead")
  /\ job' = Lock(job)
  /\ overlap' = (overlap \/ \E v \in Worker \ {w} : Bookkeeping(v))
  /\ UNCHANGED <<now, pending, scanned, born, started, read>>

\* `before`, the lock is refused: the message is discarded, the run is a no-op.
Discard(w) ==
  /\ HeldByOther(job)
  /\ pc[w] = "before"
  /\ End(w)
  /\ UNCHANGED <<now, job, pending, scanned, overlap>>

\* updateOnStarted: setStarted, then Job.updateWorkerDefinition's SELECT ...
StartRead(w) ==
  /\ Goto(w, "startRead", "startWrite")
  /\ started' = [started EXCEPT ![w] = now]
  /\ read' = [read EXCEPT ![w] = job]
  /\ UNCHANGED <<now, job, pending, scanned, born, overlap>>

\* ... and its UPDATE of the whole row.
StartWrite(w) ==
  /\ Goto(w, "startWrite", "execute")
  /\ job' = [read[w] EXCEPT !.lastRun = started[w], !.nextRun = started[w] + Timeout]
  /\ read' = [read EXCEPT ![w] = NewJob]
  /\ UNCHANGED <<now, pending, scanned, born, started, overlap>>

\* A step after `before` throws.  run's catch calls onError, which logs and
\* throws again: updateOnError is not reached and the row stays as it is.
OnError(w) ==
  /\ Holding(w)
  /\ End(w)
  /\ UNCHANGED <<now, job, pending, scanned, overlap>>

\* execute: the worker's own body returns.  onSuccess: updateJobState reloads
\* the row ...
Execute(w) ==
  /\ Goto(w, "execute", "stateWrite")
  /\ read' = [read EXCEPT ![w] = job]
  /\ UNCHANGED <<now, job, pending, scanned, born, started, overlap>>

Unlock(j) ==
  [j EXCEPT !.status = IF j.status = "LOCKED" THEN "ACTIVE" ELSE j.status,
            !.executorCount = IF j.executorCount # 0 THEN j.executorCount - 1 ELSE 0]

StateWrite(w) ==
  /\ Goto(w, "stateWrite", "doneRead")
  /\ job' = Unlock(read[w])
  /\ read' = [read EXCEPT ![w] = NewJob]
  /\ UNCHANGED <<now, pending, scanned, born, started, overlap>>

\* updateOnCompleted: setCompleted, then updateWorkerDefinition again.
DoneRead(w) ==
  /\ Goto(w, "doneRead", "doneWrite")
  /\ read' = [read EXCEPT ![w] = job]
  /\ UNCHANGED <<now, job, pending, scanned, born, started, overlap>>

DoneWrite(w) ==
  /\ pc[w] = "doneWrite"
  /\ job' = [read[w] EXCEPT !.lastRun = started[w], !.nextRun = CronNext(started[w])]
  /\ End(w)
  /\ UNCHANGED <<now, pending, scanned, overlap>>

-----------------------------------------------------------------------------
Run(w) ==
  \/ Before(w) \/ Discard(w) \/ StartRead(w) \/ StartWrite(w) \/ Execute(w)
  \/ OnError(w) \/ StateWrite(w) \/ DoneRead(w) \/ DoneWrite(w)

Next ==
  \/ Schedule
  \/ Tick
  \/ \E w \in Worker : Deliver(w) \/ Kill(w) \/ Run(w)

Spec == Init /\ [][Next]_vars

\* Time passes, the once-a-minute scheduler runs, an accepted invocation is
\* delivered, and the platform ends what outlives its time.  Not every
\* execution dies before `before` has decided (strong fairness).  Nothing
\* makes a worker's body return, and nothing makes it fail.
Fairness ==
  /\ WF_vars(Tick)
  /\ WF_vars(Schedule)
  /\ WF_vars(\E w \in Worker : Deliver(w))
  /\ \A w \in Worker : SF_vars(Before(w) \/ Discard(w))
  /\ \A w \in Worker : WF_vars(OutOfTime(w) /\ Kill(w))

FairSpec == Spec /\ Fairness

-----------------------------------------------------------------------------
(* Properties                                                                *)

Agrees(j) == j.executorCount = IF j.status = "LOCKED" THEN 1 ELSE 0

\* The two lock fields of the row never disagree, whatever stale row an
\* execution writes back (base-single-thread-worker.ts:164-174,
\* job.model.ts:228-232).  An ACTIVE row with an executorCount of 1 would be
\* refused by checkLockedStatus for ever: its timeout exit needs LOCKED.
LockFieldsAgree == Agrees(job)

\* As long as no execution has taken the lock inside another one's
\* bookkeeping, the worker is single-threaded: a timeout never unseats a
\* living execution (base-single-thread-worker.ts:34, 125-138).
SingleThreadUnlessOverlap ==
  ~overlap => \A v, w \in Worker : Holding(v) /\ Holding(w) => v = w

\* "Worker that is forced to run as in single thread. All parallel instances
\* will fail to run." (base-single-thread-worker.ts:34), with no condition.
SingleThread == \A v, w \in Worker : pc[v] = "execute" /\ pc[w] = "execute" => v = w

NobodyRuns == \A w \in Worker : pc[w] = "idle"
Taken == \E w \in Worker : pc[w] = "startRead"

\* The clock of the model reaches the moments the row refers to.
WithinTime == job.nextRun <= MaxTime /\ job.lastRun + Timeout <= MaxTime

\* A job that nobody runs is run again, also when the last execution died and
\* left the row LOCKED (base-single-thread-worker.ts:125-138): unless the row
\* is LOCKED and was never started before.
JobRunsAgain ==
  (NobodyRuns /\ WithinTime /\ (job.status = "LOCKED" => job.lastRun # Never)) ~> Taken

=============================================================================
