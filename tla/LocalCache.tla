----------------------------- MODULE LocalCache -----------------------------
(***************************************************************************)
(* The memory cache of one instance of the API proxy (local-cache.mjs), as *)
(* operators on its three module variables: the entries, the order of      *)
(* access that the eviction follows, and the running total of their sizes. *)
(*                                                                         *)
(* An entry keeps the age of its answer, the time that is left to it and   *)
(* (history) whether it was stored by a poll whose request had gone on     *)
(* without it.  Sizes are given per key.                                   *)
(***************************************************************************)
EXTENDS Integers, SequencesExt

CONSTANTS
  Key,         \* cache keys: method, URL and query, hashed
  SizeOf,      \* the estimated size of the answer under each key
  MaxResponse, \* MAX_CACHE_RESPONSE_SIZE
  MaxEntries,  \* MAX_CACHE_ENTRIES
  MaxMemory,   \* MAX_TOTAL_CACHE_MEMORY
  TTL          \* CACHE_TTL, of this cache and of the shared one

ASSUME LocalCacheAssumption ==
  /\ SizeOf \in [Key -> Nat]
  /\ MaxResponse \in Nat /\ MaxEntries \in Nat \ {0} /\ MaxMemory \in Nat
  /\ TTL \in Nat \ {0}

EmptyCache == [entry |-> <<>>, order |-> <<>>, total |-> 0]

Cached(c, k) == k \in DOMAIN c.entry

\* Date.now() > expiresAt
Expired(c, k) == c.entry[k].left < 0

Without(f, S) == Restrict(f, DOMAIN f \ S)

\* An entry leaves the map, the total and the first place it has in the order.
Drop(c, k) ==
  [entry |-> Without(c.entry, {k}),
   order |-> RemoveFirst(c.order, k),
   total |-> c.total - SizeOf[k]]

\* cleanupExpiredEntries, which every tenth operation calls.
Swept(c) ==
  FoldSet(LAMBDA k, d : Drop(d, k), c, {k \in DOMAIN c.entry : Expired(c, k)})

\* getCachedResponse: an expired entry is dropped, another one is moved to the
\* end of the order.  The caller takes c.entry[k] when it is Servable.
Servable(c, k) == Cached(c, k) /\ ~Expired(c, k)

LookedUp(c, k) ==
  CASE Servable(c, k) -> [c EXCEPT !.order = Append(RemoveFirst(@, k), k)]
    [] Cached(c, k) /\ Expired(c, k) -> Drop(c, k)
    [] OTHER -> c

\* The n keys accessed longest ago are shifted out, those without an entry too.
Evicted(c, n) ==
  LET out == ToSet(SubSeq(c.order, 1, n)) \cap DOMAIN c.entry
  IN  [entry |-> Without(c.entry, out),
       order |-> SubSeq(c.order, n + 1, Len(c.order)),
       total |-> c.total - MapThenSumSet(LAMBDA k : SizeOf[k], out)]

Room(c, size) ==
  /\ Cardinality(DOMAIN c.entry) < MaxEntries
  /\ c.total + size <= MaxMemory \/ DOMAIN c.entry = {}

\* The loop of setCachedResponse: evict until there is room or nothing is left.
MadeRoom(c, size) ==
  LET enough == {n \in 0 .. Len(c.order) : Room(Evicted(c, n), size)}
  IN  Evicted(c, IF enough = {} THEN Len(c.order) ELSE Min(enough))

\* cache.set(key, ...): a key that is stored again gets a new entry.
Put(entry, k, age, behind) ==
  [j \in DOMAIN entry \cup {k} |->
     IF j = k THEN [age |-> age, left |-> TTL, behind |-> behind] ELSE entry[j]]

\* Stored without the last line, which makes the key known to the eviction.
StoredUnordered(c, k, age, behind) ==
  LET d == MadeRoom(c, SizeOf[k])
  IN  IF SizeOf[k] > MaxResponse THEN c
      ELSE IF d.total + SizeOf[k] > MaxMemory THEN d
      ELSE [d EXCEPT !.entry = Put(@, k, age, behind), !.total = @ + SizeOf[k]]

\* setCachedResponse
Stored(c, k, age, behind) ==
  LET d == MadeRoom(c, SizeOf[k])
  IN  IF SizeOf[k] > MaxResponse THEN c
      ELSE IF d.total + SizeOf[k] > MaxMemory THEN d
      ELSE [entry |-> Put(d.entry, k, age, behind),
            order |-> Append(d.order, k),
            total |-> d.total + SizeOf[k]]

\* One unit of time passes.  An expired entry is not served again, and its age
\* is not followed.
Gone == [age |-> 0, left |-> -1, behind |-> FALSE]

Later(copy) == IF copy.left <= 0 THEN Gone
               ELSE [copy EXCEPT !.age = @ + 1, !.left = @ - 1]

Aged(c) == [c EXCEPT !.entry = [k \in DOMAIN @ |-> Later(@[k])]]

\* What the entries really take.
RealTotal(c) == MapThenSumSet(LAMBDA k : SizeOf[k], DOMAIN c.entry)
=============================================================================
