--------------------------- MODULE OutcomeChances ---------------------------
(***************************************************************************)
(* The chances of a set's outcomes: the market maker's pool on the chain,  *)
(* the messages of the indexer and of the planner, and the executors of    *)
(* RefreshOutcomeChances, which read the pool's balances and insert a row  *)
(* per outcome one by one, outside of any transaction.                     *)
(*                                                                         *)
(* The lists read the newest row of an outcome only (getOutcomes), so that *)
(* row is all that is kept of outcome_chance.                              *)
(***************************************************************************)
EXTENDS Outcomes

CONSTANTS
  Refresher,   \* concurrent executors
  Scale,       \* units of the column chance in one: its four decimals
  Reserves,    \* bound: the balances that the pool takes
  Endowment,   \* bound: what the pool is funded with
  MaxMoves,    \* bound: changes of the pool
  MaxMessages, \* bound: messages in the queue
  MaxDeaths    \* bound: executors that die or whose insert fails

ASSUME ChancesAssumption ==
  /\ Scale \in Nat \ {0}
  /\ Reserves \subseteq [Outcome -> Nat]
  /\ Endowment \in Nat \ {0} /\ [o \in Outcome |-> Endowment] \in Reserves
  /\ MaxMoves \in Nat /\ MaxMessages \in Nat /\ MaxDeaths \in Nat

VARIABLES
  pool,      \* the pool's balance of each outcome's tokens
  moves,     \* changes of the pool so far
  untold,    \* the indexer has not seen the last change yet
  open,      \* the set is ACTIVE and its end time lies ahead
  queue,     \* messages of RefreshOutcomeChances
  refresh,   \* what each executor is doing
  latest,    \* the newest chance row of each outcome
  torn,      \* history: the newest rows may come from refreshes that overlapped or failed
  deaths     \* executors that have died

chanceVars == <<pool, moves, untold, open, queue, refresh, latest, torn, deaths>>

Idle == [at |-> "idle"]
Row == [chance: Nat, supply: Nat, totalSupply: Nat]
NoRow == [chance |-> 0, supply |-> 0, totalSupply |-> 0]

Inserting == [at: {"insert"}, of: Reserves, next: Nat, alone: BOOLEAN]

ChancesTypeOK ==
  /\ pool \in Reserves /\ moves \in 0 .. MaxMoves
  /\ untold \in BOOLEAN /\ open \in BOOLEAN /\ torn \in BOOLEAN
  /\ queue \in 0 .. MaxMessages
  /\ refresh \in [Refresher -> {Idle} \cup Inserting]
  /\ latest \in [Outcome -> Row]
  /\ deaths \in 0 .. MaxDeaths

Funded == {balances \in Reserves : \A o \in Outcome : balances[o] > 0}

\* A set that was just funded, with as many tokens of each outcome, whose chances were
\* never read
ChancesInit ==
  /\ pool = [o \in Outcome |-> Endowment]
  /\ moves = 0 /\ untold = TRUE
  /\ open = TRUE
  /\ queue = 0
  /\ refresh = [r \in Refresher |-> Idle]
  /\ latest = [o \in Outcome |-> NoRow]
  /\ torn = TRUE
  /\ deaths = 0

Busy == {r \in Refresher : refresh[r] # Idle}

\* A fraction as the column keeps it: rounded to a unit, a half upwards.  (The division
\* of two doubles adds an error of 2^-51 of the fraction, which is left out: it can tell
\* only within that distance of a half.)
Rounded(n, d) == (2 * Scale * n + d) \div (2 * d)

\* The fixed-product probabilities: the product of the other balances over their sum
Chances(balances) ==
  LET denom == SumFunction([p \in Outcome |-> ProductOfOthers(p, balances)])
  IN  [o \in Outcome |-> Rounded(ProductOfOthers(o, balances), denom)]

-----------------------------------------------------------------------------
(* Chain, indexer and planner *)

Trade ==
  /\ moves < MaxMoves
  /\ pool' \in Reserves \ {pool}
  /\ moves' = moves + 1
  /\ untold' = TRUE
  /\ UNCHANGED <<open, queue, refresh, latest, torn, deaths>>

\* The end time passes.
Close ==
  /\ open' = FALSE
  /\ UNCHANGED <<pool, moves, untold, queue, refresh, latest, torn, deaths>>

Queued(n) == IF queue + n < MaxMessages THEN queue + n ELSE MaxMessages

\* The parser of the events sends one message; a failure to send is swallowed.
Indexed ==
  /\ untold
  /\ untold' = FALSE
  /\ queue' \in {queue, Queued(1)}
  /\ UNCHANGED <<pool, moves, open, refresh, latest, torn, deaths>>

\* A planner that only knows sets without chances
PlanUnread ==
  /\ open /\ \E o \in Outcome : latest[o] = NoRow
  /\ queue' = Queued(Cardinality(Outcome))
  /\ UNCHANGED <<pool, moves, untold, open, refresh, latest, torn, deaths>>

\* Every five minutes; the join with the outcomes names the set once for each of them.
Plan ==
  /\ open
  /\ queue' = Queued(Cardinality(Outcome))
  /\ UNCHANGED <<pool, moves, untold, open, refresh, latest, torn, deaths>>

-----------------------------------------------------------------------------
(* Executors *)

\* A message is taken and the balances are read: a refresh is not alone if another runs.
Started(r) ==
  [p \in Refresher |->
     IF p = r THEN [at |-> "insert", of |-> pool, next |-> 0, alone |-> Busy = {}]
     ELSE IF p \in Busy THEN [refresh[p] EXCEPT !.alone = FALSE]
     ELSE Idle]

\* A balance of zero makes the division throw: the error is logged and no row is inserted.
Read(r) ==
  /\ refresh[r] = Idle /\ queue > 0
  /\ queue' = queue - 1
  /\ refresh' = IF pool \in Funded THEN Started(r) ELSE refresh
  /\ UNCHANGED <<pool, moves, untold, open, latest, torn, deaths>>

ChanceRow(o, balances) ==
  [chance |-> Chances(balances)[o], supply |-> balances[o],
   totalSupply |-> SumFunction(balances)]

\* The balances read again for each row
InsertedFresh(r) == [latest EXCEPT ![refresh[r].next] = ChanceRow(refresh[r].next, pool)]

\* One row of the loop over the outcomes
Inserted(r) == [latest EXCEPT ![refresh[r].next] = ChanceRow(refresh[r].next, refresh[r].of)]

Insert(r) ==
  /\ refresh[r] # Idle
  /\ latest' = Inserted(r)
  /\ IF refresh[r].next + 1 \in Outcome
     THEN /\ refresh' = [refresh EXCEPT ![r].next = @ + 1]
          /\ torn' = TRUE
     ELSE /\ refresh' = [refresh EXCEPT ![r] = Idle]
          /\ torn' = ~refresh[r].alone
  /\ UNCHANGED <<pool, moves, untold, open, queue, deaths>>

\* An executor that dies leaves its message in the queue; one whose insert fails logs
\* the error and the message is acknowledged.
Fail(r) ==
  /\ refresh[r] # Idle
  /\ deaths < MaxDeaths /\ deaths' = deaths + 1
  /\ refresh' = [refresh EXCEPT ![r] = Idle]
  /\ queue' \in {queue, Queued(1)}
  /\ UNCHANGED <<pool, moves, untold, open, latest, torn>>

ChancesNext ==
  \/ Trade \/ Close \/ Indexed \/ Plan
  \/ \E r \in Refresher : Read(r) \/ Insert(r) \/ Fail(r)

\* The scheduler sends the planner again and again, and the queue is served.
ChancesFairness ==
  /\ WF_chanceVars(Plan)
  /\ \A r \in Refresher : WF_chanceVars(Insert(r)) /\ SF_chanceVars(Read(r))

-----------------------------------------------------------------------------
(* Properties *)

\* When no refresh runs the newest rows of the outcomes, each inserted by itself, are of
\* one reading: a larger reserve has no larger chance, the reserves sum to the total, and
\* the chances sum to one but for the half unit that the rounding of each may add or take
\* (refresh-outcome-chances.worker.ts:54-89, 20-outcome-chance.ts:9).  Not so when the
\* last refreshes overlapped or failed halfway.
ChancesConsistent ==
  Busy = {} /\ ~torn =>
    /\ \A o, p \in Outcome :
         /\ latest[o].totalSupply = latest[p].totalSupply
         /\ latest[o].supply <= latest[p].supply => latest[o].chance >= latest[p].chance
    /\ SumFunction([o \in Outcome |-> latest[o].supply]) = latest[0].totalSupply
    /\ LET sum == SumFunction([o \in Outcome |-> latest[o].chance])
       IN  /\ 2 * sum <= 2 * Scale + Cardinality(Outcome)
           /\ 2 * sum >= 2 * Scale - Cardinality(Outcome)

\* The chances that are shown become and stay those of the pool.
CatchUp ==
  <>[]open => <>[](pool \in Funded => \A o \in Outcome : latest[o].chance = Chances(pool)[o])
=============================================================================
