--------------------------- MODULE ConnectionPool ---------------------------
(***************************************************************************)
(* The connections of one process (lib/database/mysql.ts): every request   *)
(* of the API shares one MySql client, which lends the connections of a    *)
(* pool of mysql2, makes those without one wait in a queue, and makes a    *)
(* new pool when it is given a connection that has gone dead.  A request   *)
(* is a short program over connections: what it does when a step fails -   *)
(* roll back, or throw with the connection still in its hands - differs    *)
(* from one service to another.                                            *)
(***************************************************************************)
EXTENDS Naturals, Sequences, SequencesExt

CONSTANTS Request,    \* requests that run at the same time
          Does,       \* Does[r]: what r may be asked to do
          Conn,       \* connections of one pool (connectionLimit)
          QueueLimit, \* waiting calls of one pool (queueLimit)
          MaxPools    \* bound: pools made by one process

VARIABLES pool,  \* this.db: the pool new calls go to
          free,  \* free[p]: connections of pool p in nobody's hands
          queue, \* queue[p]: the requests that wait for a connection of p
          kind,  \* kind[r]: what r is doing, or "none"
          step,  \* step[r]: its next step
          held,  \* held[r]: its connections, the transaction's first
          dead,  \* connections whose socket is no longer open
          lost   \* lost[k]: the kind of request that never gave k back

poolVars == <<pool, free, queue, kind, step, held, dead, lost>>

Pool == 1..MaxPools
Link == Pool \X Conn

(* What the requests do, in the order of the code.  "get" takes a          *)
(* connection of the pool.  "execute" is a statement without a             *)
(* transaction: it returns its own connection, unless it throws.  The      *)
(* others use the transaction: "guarded" rolls back when it fails, "open"  *)
(* is a check or a statement outside any try, whose error leaves the       *)
(* function.                                                               *)

\* paramExecute without a connection
Query == <<"get", "execute">>

\* insert, update, upsert and delete of a row, in a transaction of its own
Row == <<"get", "guarded", "commit">>

\* createPredictionSet: the collateral token is looked up outside of the
\* transaction that is already open; the categories come last
Create == <<"get", "get", "execute", "open", "guarded", "open", "commit">>

\* updatePredictionSet: whether the set may still be changed is seen first
Edit == <<"get", "open", "guarded", "commit">>

Script == [query |-> Query, row |-> Row, create |-> Create, edit |-> Edit]

ASSUME PoolAssumption == /\ Does \in [Request -> SUBSET DOMAIN Script]
                         /\ QueueLimit \in Nat
                         /\ MaxPools \in Nat \ {0}

Op(r) == IF kind[r] = "none" THEN "none" ELSE Script[kind[r]][step[r]]
Waiting(r) == \E p \in Pool : \E i \in 1..Len(queue[p]) : queue[p][i] = r
Top(r) == Last(held[r])

PoolInit == /\ pool = 1
            /\ free = [p \in Pool |-> Conn]
            /\ queue = [p \in Pool |-> <<>>]
            /\ kind = [r \in Request |-> "none"]
            /\ step = [r \in Request |-> 1]
            /\ held = [r \in Request |-> <<>>]
            /\ dead = {}
            /\ lost = [k \in Link |-> "none"]

(* A request comes in with the shared client in its context. *)
Arrive(r) == /\ kind[r] = "none"
             /\ \E k \in Does[r] : kind' = [kind EXCEPT ![r] = k]
             /\ UNCHANGED <<pool, free, queue, step, held, dead, lost>>

(* ensureAlive: whoever is given a connection whose socket is closed makes *)
(* a new pool for the calls to come - and goes on with the dead one.       *)
EnsureAlive(k) ==
  pool' = IF k \in dead /\ pool < MaxPools THEN pool + 1 ELSE pool

Get(r) == /\ Op(r) = "get"
          /\ ~ Waiting(r)
          /\ free[pool] # {}
          /\ \E c \in free[pool] :
               /\ free' = [free EXCEPT ![pool] = @ \ {c}]
               /\ held' = [held EXCEPT ![r] = Append(@, <<pool, c>>)]
               /\ EnsureAlive(<<pool, c>>)
          /\ step' = [step EXCEPT ![r] = @ + 1]
          /\ UNCHANGED <<queue, kind, dead, lost>>

Wait(r) == /\ Op(r) = "get"
           /\ ~ Waiting(r)
           /\ free[pool] = {}
           /\ Len(queue[pool]) < QueueLimit
           /\ queue' = [queue EXCEPT ![pool] = Append(@, r)]
           /\ UNCHANGED <<pool, free, kind, step, held, dead, lost>>

(* The end of a request's function: what it still holds is never given     *)
(* back.                                                                   *)
Throw(r) ==
  /\ kind' = [kind EXCEPT ![r] = "none"]
  /\ step' = [step EXCEPT ![r] = 1]
  /\ held' = [held EXCEPT ![r] = <<>>]
  /\ lost' = [k \in Link |->
                IF \E i \in 1..Len(held[r]) : held[r][i] = k THEN kind[r] ELSE lost[k]]
  /\ UNCHANGED <<pool, free, queue, dead>>

(* The queue is full: getConnection throws. *)
Overflow(r) == /\ Op(r) = "get"
               /\ ~ Waiting(r)
               /\ free[pool] = {}
               /\ Len(queue[pool]) >= QueueLimit
               /\ Throw(r)

(* Mutant: a released connection is put aside, and nobody is woken. *)
GiveBackAside(r, n) ==
  /\ free' = [free EXCEPT ![Top(r)[1]] = @ \cup {Top(r)[2]}]
  /\ held' = [held EXCEPT ![r] = Front(@)]
  /\ step' = [step EXCEPT ![r] = n]
  /\ UNCHANGED <<queue, pool>>

(* Mutant: a connection is released again by the caller's own catch. *)
GiveBackTwice(r, n) ==
  LET k == Top(r)
      p == k[1]
      w == Head(queue[p])
  IN  /\ free' = [free EXCEPT ![p] = @ \cup {k[2]}]
      /\ UNCHANGED pool
      /\ IF queue[p] = <<>>
           THEN /\ held' = [held EXCEPT ![r] = Front(@)]
                /\ step' = [step EXCEPT ![r] = n]
                /\ UNCHANGED queue
           ELSE /\ queue' = [queue EXCEPT ![p] = Tail(@)]
                /\ held' = [held EXCEPT ![r] = Front(@), ![w] = Append(@, k)]
                /\ step' = [step EXCEPT ![r] = n, ![w] = @ + 1]

(* release(): a connection goes to the one that waits longest - whose      *)
(* "get" is done, and who may find it dead - or to the free ones.  r goes  *)
(* on at step n.                                                           *)
GiveBack(r, n) ==
  LET k == Top(r)
      p == k[1]
      w == Head(queue[p])
  IN  IF queue[p] = <<>>
        THEN /\ free' = [free EXCEPT ![p] = @ \cup {k[2]}]
             /\ held' = [held EXCEPT ![r] = Front(@)]
             /\ step' = [step EXCEPT ![r] = n]
             /\ UNCHANGED <<queue, pool>>
        ELSE /\ queue' = [queue EXCEPT ![p] = Tail(@)]
             /\ held' = [held EXCEPT ![r] = Front(@), ![w] = Append(@, k)]
             /\ step' = [step EXCEPT ![r] = n, ![w] = @ + 1]
             /\ EnsureAlive(k)
             /\ UNCHANGED free

(* The end of a request that gives its connection back. *)
Finish(r) == /\ GiveBack(r, 1)
             /\ kind' = [kind EXCEPT ![r] = "none"]
             /\ UNCHANGED <<dead, lost>>

(* paramExecute without a connection. *)
ParamExecute(r) == /\ Op(r) = "execute"
                   /\ Top(r) \notin dead
                   /\ IF Len(Script[kind[r]]) = step[r]
                        THEN Finish(r)
                        ELSE /\ GiveBack(r, step[r] + 1)
                             /\ UNCHANGED <<kind, dead, lost>>

Proceed(r, op) == /\ Op(r) = op
                  /\ Top(r) \notin dead
                  /\ step' = [step EXCEPT ![r] = @ + 1]
                  /\ UNCHANGED <<pool, free, queue, kind, held, dead, lost>>

(* A statement of a model on the transaction it is handed. *)
Guarded(r) == Proceed(r, "guarded")

(* A read and a check, or a statement of the service itself, outside a try.*)
Open(r) == Proceed(r, "open")

Commit(r) == /\ Op(r) = "commit"
             /\ Top(r) \notin dead
             /\ Finish(r)

(* A failed guarded step, or a failed commit: rollback(), which throws     *)
(* before its release when the connection is dead.                         *)
Rollback(r) == /\ Op(r) \in {"guarded", "commit"}
               /\ IF Top(r) \in dead THEN Throw(r) ELSE Finish(r)

(* A failed step outside a try, of a statement or of a check. *)
Unguarded(r) == /\ Op(r) \in {"execute", "open"}
                /\ Throw(r)

(* The database server, or the network, closes a connection. *)
Break == /\ pool < MaxPools
         /\ \A k \in dead : k[1] # pool
         /\ \E c \in Conn : dead' = dead \cup {<<pool, c>>}
         /\ UNCHANGED <<pool, free, queue, kind, step, held, lost>>

PoolStep(r) == \/ Get(r) \/ Wait(r) \/ Overflow(r)
               \/ ParamExecute(r) \/ Guarded(r) \/ Open(r) \/ Commit(r)
               \/ Rollback(r) \/ Unguarded(r)

PoolNext == \/ \E r \in Request : Arrive(r) \/ PoolStep(r)
            \/ Break

-----------------------------------------------------------------------------
Holds(r, k) == \E i \in 1..Len(held[r]) : held[r][i] = k
Idle(k) == k[2] \in free[k[1]]

PoolTypeOK == /\ pool \in Pool
              /\ free \in [Pool -> SUBSET Conn]
              /\ queue \in [Pool -> Seq(Request)]
              /\ \A p \in Pool : Len(queue[p]) <= QueueLimit
              /\ kind \in [Request -> DOMAIN Script \cup {"none"}]
              /\ step \in [Request -> Nat]
              /\ held \in [Request -> Seq(Link)]
              /\ dead \subseteq Link
              /\ lost \in [Link -> DOMAIN Script \cup {"none"}]

(* A connection is in one place: among the free ones, with one request,    *)
(* or lost.  A connection released twice would be lent to two     *)
(* requests, whose transactions would become one.                          *)
LentOnce ==
  \A k \in Link :
    /\ Idle(k) => \A r \in Request : ~ Holds(r, k)
    /\ \A r, s \in Request : Holds(r, k) /\ Holds(s, k) => r = s
    /\ lost[k] # "none" => ~ Idle(k) /\ \A r \in Request : ~ Holds(r, k)

(* Nobody can be served any more: every connection of the pool is lost, or *)
(* with a request that itself waits for one of the same pool.              *)
Starved(p) == \A c \in Conn :
  \/ lost[<<p, c>>] # "none"
  \/ \E r \in Request : Holds(r, <<p, c>>) /\ \E i \in 1..Len(queue[p]) : queue[p][i] = r

(* Whoever waits for a connection gets one, unless the pool is starved:    *)
(* no free connection is forgotten while somebody waits, not even of a     *)
(* pool that has been replaced.                                            *)
ServedUnlessStarved ==
  \A r \in Request : \A p \in Pool :
    (\E i \in 1..Len(queue[p]) : queue[p][i] = r)
      ~> (~ Waiting(r) \/ Starved(p))
=============================================================================
