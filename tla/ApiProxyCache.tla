--------------------------- MODULE ApiProxyCache ---------------------------
(***************************************************************************)
(* The API proxy: Lambda instances that answer GET requests from a memory  *)
(* cache, a shared MySQL cache, or the external API, and keep each other   *)
(* from calling the API twice by a lock on the shared row.                 *)
(*                                                                         *)
(* An instance serves one request at a time.  Requests are killed after    *)
(* LambdaTimeout, and their instance with them; between two requests an    *)
(* instance is frozen.  A shared answer is found by a SELECT and stored in *)
(* memory when it has reached the instance, which is another step.  Time   *)
(* is kept as what is left of every period, so that the model needs no     *)
(* clock.                                                                  *)
(***************************************************************************)
EXTENDS LocalCache

CONSTANTS
  Instance,      \* Lambda instances
  Serves,        \* the keys each instance is asked for
  Token,         \* lock tokens; UUIDs, here numbers that are used again
  NoToken,       \* a lock that was not asked for or not obtained
  LockTimeout,   \* how long a lock is kept
  LambdaTimeout, \* how long the platform lets a request live
  MaxLate,       \* bound: polls under way on each instance that outlived their wait
  MaxAge         \* bound: the age up to which what such a poll found is followed

ASSUME ApiProxyAssumption ==
  /\ Key # {} /\ Serves \in [Instance -> SUBSET Key]
  /\ Token \subseteq Nat /\ NoToken \notin Token
  /\ LockTimeout \in Nat \ {0} /\ LambdaTimeout \in Nat \ {0}
  /\ LambdaTimeout < LockTimeout /\ TTL <= LockTimeout
  /\ MaxLate \in [Instance -> Nat] /\ MaxAge \in Nat

VARIABLES
  shared, \* the rows of api_proxy_cache, one or none for each key
  local,  \* the memory cache of each instance
  late,   \* the polls that lost their race against the 6 s timer
  req     \* the request each instance is serving

vars == <<shared, local, late, req>>

Steps == {"idle", "shared", "copy", "insert", "verify", "wait", "polled", "call", "direct"}

Row == [status: {"NONE", "IN_FLIGHT", "COMPLETED"}, token: Token \cup {NoToken},
        left: -1 .. LockTimeout]
NoRow == [status |-> "NONE", token |-> NoToken, left |-> -1]

\* The age of a shared answer that was found and is on its way, or none is.
Nothing == -1
Found == Nat \cup {Nothing}

Request == [at: Steps, key: Key, token: Token \cup {NoToken}, age: 0 .. LambdaTimeout,
            retried: BOOLEAN, found: Found]

NoRequest == [at |-> "idle", key |-> CHOOSE k \in Key : TRUE, token |-> NoToken,
              age |-> 0, retried |-> FALSE, found |-> Nothing]

Poll == [key: Key, found: Found]

Copy == [age: Nat, left: -1 .. TTL, behind: BOOLEAN]

TypeOK ==
  /\ shared \in [Key -> Row]
  /\ req \in [Instance -> Request]
  /\ late \in [Instance -> SUBSET Poll]
  /\ DOMAIN local = Instance
  /\ \A i \in Instance :
       /\ DOMAIN local[i].entry \subseteq Key
       /\ \A k \in DOMAIN local[i].entry : local[i].entry[k] \in Copy
       /\ local[i].order \in Seq(Key)
       /\ local[i].total \in Nat

Busy(i) == req[i].at # "idle"

\* Readable with `expires_at >= NOW()`.
ReadableAtExpiry(k) == shared[k].status = "COMPLETED" /\ shared[k].left >= 0

\* The answer in a row: it may be read while time is left, its age is what has
\* passed of its TTL.
Readable(k) == shared[k].status = "COMPLETED" /\ shared[k].left > 0
Age(k) == TTL - shared[k].left

\* A new lock token.  Unused tokens are alike, so the least one stands for all.
InUse == {shared[k].token : k \in Key} \cup {req[i].token : i \in Instance}
NewToken(t) == t \in Token \ InUse /\ \A u \in Token \ InUse : t <= u

Goto(i, step) == req' = [req EXCEPT ![i].at = step]

\* A request ends: its answer is returned and its lock token forgotten.
Answer(i) ==
  req' = [req EXCEPT ![i] = NoRequest]

\* A request goes on to the API, with the lock or without it.
CallWith(i, t) ==
  req' = [req EXCEPT ![i].at = "call", ![i].token = t, ![i].retried = FALSE,
                     ![i].found = Nothing]

\* The SELECT of getResultFromMysql finds a shared answer for a request.
Find(i, step) ==
  /\ Readable(req[i].key)
  /\ req' = [req EXCEPT ![i].at = step, ![i].found = Age(req[i].key)]

Keep(i, c) == local' = [local EXCEPT ![i] = c]
StoreLocally(i, age) == Keep(i, Stored(local[i], req[i].key, age, FALSE))

\* Every tenth look into the memory cache sweeps it first.
SweptOrNot(i) == {local[i], Swept(local[i])}

Init ==
  /\ shared = [k \in Key |-> NoRow]
  /\ local = [i \in Instance |-> EmptyCache]
  /\ late = [i \in Instance |-> {}]
  /\ req = [i \in Instance |-> NoRequest]

-----------------------------------------------------------------------------
(* The handler, up to the lock *)

\* A GET request looks into the memory cache.
Arrive(i, k) ==
  /\ ~Busy(i) /\ k \in Serves[i]
  /\ \E c \in SweptOrNot(i) :
       /\ Keep(i, LookedUp(c, k))
       /\ IF Servable(c, k) THEN UNCHANGED req
          ELSE req' = [req EXCEPT ![i].at = "shared", ![i].key = k]
  /\ UNCHANGED <<shared, late>>

\* It looks for a shared answer, and finds one.
SharedHit(i) ==
  /\ req[i].at = "shared"
  /\ Find(i, "copy")
  /\ UNCHANGED <<shared, local, late>>

\* What a request or its poll has found reaches it: the answer is stored with
\* a whole new TTL, and returned.
Receive(i) ==
  /\ req[i].at \in {"copy", "polled"}
  /\ StoreLocally(i, req[i].found)
  /\ Answer(i)
  /\ UNCHANGED <<shared, late>>

\* It finds none, or the query fails.
SharedMiss(i) ==
  /\ req[i].at = "shared"
  /\ Goto(i, "insert")
  /\ UNCHANGED <<shared, local, late>>

\* Insert that takes over only rows with an old answer.
InsertAfterAnswers(i) ==
  /\ req[i].at = "insert"
  /\ \E t \in Token :
       /\ NewToken(t)
       /\ req' = [req EXCEPT ![i].at = "verify", ![i].token = t]
       /\ shared' = IF shared[req[i].key].left >= 0 \/ shared[req[i].key].status = "IN_FLIGHT"
                    THEN shared
                    ELSE [shared EXCEPT ![req[i].key] =
                            [status |-> "IN_FLIGHT", token |-> t, left |-> LockTimeout]]
  /\ UNCHANGED <<local, late>>

\* acquireCacheLock: a new row, or an expired one taken over, under a new token.
Insert(i) ==
  /\ req[i].at = "insert"
  /\ \E t \in Token :
       /\ NewToken(t)
       /\ req' = [req EXCEPT ![i].at = "verify", ![i].token = t]
       /\ shared' = IF shared[req[i].key].left >= 0 THEN shared
                    ELSE [shared EXCEPT ![req[i].key] =
                            [status |-> "IN_FLIGHT", token |-> t, left |-> LockTimeout]]
  /\ UNCHANGED <<local, late>>

\* Verify that takes an INSERT without an error for a lock.
VerifyUnchecked(i) ==
  /\ req[i].at = "verify"
  /\ CallWith(i, req[i].token)
  /\ UNCHANGED <<shared, local, late>>

\* The SELECT that tells whose token the row holds.
Verify(i) ==
  /\ req[i].at = "verify"
  /\ IF shared[req[i].key].token = req[i].token
     THEN CallWith(i, req[i].token)
     ELSE req' = [req EXCEPT ![i].at = "wait", ![i].token = NoToken, ![i].retried = FALSE]
  /\ UNCHANGED <<shared, local, late>>

\* One of the two queries fails.  A lost connection is tried once more under a
\* new token; otherwise the request calls the API without a lock.  A row that
\* was inserted stays.
LockFails(i) ==
  /\ req[i].at \in {"insert", "verify"}
  /\ \/ /\ ~req[i].retried
        /\ req' = [req EXCEPT ![i].at = "insert", ![i].token = NoToken, ![i].retried = TRUE]
     \/ CallWith(i, NoToken)
  /\ UNCHANGED <<shared, local, late>>

-----------------------------------------------------------------------------
(* Waiting for the holder of the lock *)

\* A poll finds the shared answer.
PollHit(i) ==
  /\ req[i].at = "wait"
  /\ Find(i, "polled")
  /\ UNCHANGED <<shared, local, late>>

\* A poll does not, and looks whether the memory cache has an answer by now.
PollLocal(i) ==
  /\ req[i].at = "wait"
  /\ \E c \in SweptOrNot(i) :
       /\ Keep(i, LookedUp(c, req[i].key))
       /\ IF Servable(c, req[i].key) THEN Answer(i) ELSE UNCHANGED req
  /\ UNCHANGED <<shared, late>>

\* The poll gives up after 5 s, or the 6 s timer ends the wait while a poll is
\* still under way, with or without an answer on its way.  The request calls
\* the API without the lock.
GiveUp(i) ==
  /\ req[i].at \in {"wait", "polled"}
  /\ CallWith(i, NoToken)
  /\ \/ req[i].at = "wait" /\ UNCHANGED late
     \/ /\ Cardinality(late[i]) < MaxLate[i]
        /\ late' = [late EXCEPT ![i] =
                      @ \cup {[key |-> req[i].key, found |-> req[i].found]}]
  /\ UNCHANGED <<shared, local>>

\* The SELECT of a poll that was left behind finds an answer.  The database
\* does not wait for the instance, which may be frozen.
LateHit(i, p) ==
  /\ p \in late[i] /\ p.found = Nothing /\ Readable(p.key)
  /\ late' = [late EXCEPT ![i] = (@ \ {p}) \cup {[p EXCEPT !.found = Age(p.key)]}]
  /\ UNCHANGED <<shared, local, req>>

\* The poll ends while this or a later request keeps the instance awake: it
\* stores what it found with a whole new TTL, or looks into the memory cache.
LatePoll(i, p) ==
  /\ Busy(i) /\ p \in late[i]
  /\ \/ p.found # Nothing /\ Keep(i, Stored(local[i], p.key, p.found, TRUE))
     \/ p.found = Nothing /\ \E c \in SweptOrNot(i) : Keep(i, LookedUp(c, p.key))
  /\ late' = [late EXCEPT ![i] = @ \ {p}]
  /\ UNCHANGED <<shared, req>>

-----------------------------------------------------------------------------
(* The call *)

Holds(i) == req[i].at = "call" /\ req[i].token # NoToken

\* The rows a holder's UPDATE or DELETE reaches: that of its key, if it still
\* carries its token.
Own(i) == {k \in {req[i].key} : Holds(i) /\ shared[k].token = req[i].token}

\* The API answers with 2xx.  The answer is kept in memory and, by the holder
\* of the lock, in the shared row; that update may fail.
CallSucceeds(i) ==
  /\ req[i].at = "call"
  /\ StoreLocally(i, 0)
  /\ shared' = [k \in Key |-> IF k \in Own(i)
                              THEN [shared[k] EXCEPT !.status = "COMPLETED", !.left = TTL]
                              ELSE shared[k]]
  /\ Answer(i)
  /\ UNCHANGED late

StoreFails(i) ==
  /\ Holds(i)
  /\ StoreLocally(i, 0)
  /\ Answer(i)
  /\ UNCHANGED <<shared, late>>

\* The API answers otherwise, or the request to it fails or times out.  The
\* holder deletes its row; that may fail too.
CallFails(i) ==
  /\ req[i].at = "call"
  /\ \/ shared' = [k \in Key |-> IF k \in Own(i) THEN NoRow ELSE shared[k]]
     \/ UNCHANGED shared
  /\ Answer(i)
  /\ UNCHANGED <<local, late>>

\* A request that is not a GET goes straight to the API.
BeginDirect(i) ==
  /\ ~Busy(i)
  /\ Goto(i, "direct")
  /\ UNCHANGED <<shared, local, late>>

EndDirect(i) ==
  /\ req[i].at = "direct"
  /\ Answer(i)
  /\ UNCHANGED <<shared, local, late>>

-----------------------------------------------------------------------------
(* The platform *)

\* An instance is killed with its request, or reclaimed while it is idle.
Die(i) ==
  /\ Keep(i, EmptyCache)
  /\ late' = [late EXCEPT ![i] = {}]
  /\ Answer(i)
  /\ UNCHANGED shared

Passed(left) == IF left < 0 THEN left ELSE left - 1
Older(age) == IF age = Nothing THEN age ELSE age + 1
OlderPoll(p) == IF p.found >= MaxAge THEN p ELSE [p EXCEPT !.found = Older(@)]

\* Time passes, as long as no request would outlive its time.
Tick ==
  /\ \A i \in Instance : Busy(i) => req[i].age < LambdaTimeout
  /\ req' = [i \in Instance |->
               IF Busy(i) THEN [req[i] EXCEPT !.age = @ + 1, !.found = Older(@)] ELSE req[i]]
  /\ shared' = [k \in Key |-> [shared[k] EXCEPT !.left = Passed(@)]]
  /\ local' = [i \in Instance |-> Aged(local[i])]
  /\ late' = [i \in Instance |-> {OlderPoll(p) : p \in late[i]}]

Serve(i) ==
  \/ SharedHit(i) \/ SharedMiss(i) \/ Receive(i) \/ Insert(i) \/ Verify(i) \/ LockFails(i)
  \/ PollHit(i) \/ PollLocal(i) \/ GiveUp(i)
  \/ CallSucceeds(i) \/ StoreFails(i) \/ CallFails(i) \/ EndDirect(i)

Next ==
  \/ \E i \in Instance :
       \/ \E k \in Key : Arrive(i, k)
       \/ \E p \in late[i] : LateHit(i, p) \/ LatePoll(i, p)
       \/ BeginDirect(i) \/ Serve(i) \/ Die(i)
  \/ Tick

Spec == Init /\ [][Next]_vars

-----------------------------------------------------------------------------
(* Properties *)

\* At most one living request calls the API with the lock of a key, although
\* locks expire, owners die, inserts fail half-way and tokens change on a retry
\* (mysql-cache.mjs:95-154): nothing but the two time limits ensures it.
OneHolder ==
  \A i, j \in Instance : Holds(i) /\ Holds(j) /\ req[i].key = req[j].key => i = j

\* An answer that the memory cache still serves is younger than twice the TTL and
\* a request's life: a copy of a shared answer gets a whole new TTL when it is
\* stored (local-cache.mjs:147), which is after the SELECT and some way to the
\* instance (mysql-cache.mjs:242-247), but no copy is ever copied again.
\* Exempt is what a poll stores whose request went on without it: its instance
\* may have been frozen in between, for any time (local-cache.mjs:173).
LocalAnswersYoung ==
  \A i \in Instance : \A k \in Key :
    Servable(local[i], k) /\ ~local[i].entry[k].behind =>
      local[i].entry[k].age < 2 * TTL + LambdaTimeout

\* The memory cache stays within its two limits although a poll that lost its
\* race may store a key twice (local-cache.mjs:114-153): the total may count too
\* much and never too little, and every entry can be found by the eviction.
MemoryWithinLimits ==
  \A i \in Instance :
    /\ Cardinality(DOMAIN local[i].entry) <= MaxEntries
    /\ RealTotal(local[i]) <= local[i].total /\ local[i].total <= MaxMemory
    /\ DOMAIN local[i].entry \subseteq ToSet(local[i].order)

\* No lock stays: one whose time is over is taken over, that of an owner that died
\* as well as a row whose token nobody knows because the connection broke after
\* the INSERT (mysql-cache.mjs:118-149).
LockPassesOn ==
  \A k \in Key : []<>~(shared[k].status = "IN_FLIGHT" /\ shared[k].left <= 0)
=============================================================================
