----------------------------- MODULE Portfolio ------------------------------
(***************************************************************************)
(* What the API computes from the transactions of one prediction set: open *)
(* positions with their average price, volumes, activity, holders, a       *)
(* user's predictions and the rankings (prediction-set.model.ts,           *)
(* stats.service.ts).  The rows come from the two parsers and the claims   *)
(* parser, in the order of their ids; createTime has a second's precision. *)
(*                                                                         *)
(* left and oversold are history: a first-in first-out account of the      *)
(* shares each user has bought, kept as the rows come in.                  *)
(***************************************************************************)
EXTENDS SqlLists, Outcomes, SequencesExt

CONSTANTS
  User,      \* users with an account
  NoUser,    \* NULL: the wallet has no account
  Unit,      \* a price is counted in units of 1 / Unit
  Market     \* bound: the amounts, rows and operations of each explored market

Owner == User \cup {NoUser}

ASSUME PortfolioAssumption ==
  /\ IsFiniteSet(User) /\ NoUser \notin User
  /\ Unit \in Nat \ {0}
  /\ \A m \in Market :
       /\ m.users \subseteq Owner /\ m.outcomes \subseteq Outcome
       /\ m.amounts \subseteq Nat /\ m.tokens \subseteq Nat \ {0}
       /\ m.fee \in Nat /\ m.tick \in Nat

VARIABLES
  share,    \* rows of outcome_share_transaction
  funding,  \* rows of prediction_set_funding_transaction
  claim,    \* rows of claim_transaction
  market,   \* the explored market
  left,     \* history: the tokens that are left of each purchase
  oversold  \* history: users and outcomes with more sold than was bought before

portfolioVars == <<share, funding, claim, market, left, oversold>>

Share == [type: {"BUY", "SELL", "FUND"}, user: Owner, outcome: Outcome,
          amount: Nat, fee: Nat, tokens: Nat \ {0}, time: Nat]
Funding == [type: {"ADDED", "REMOVED"}, user: Owner, collateral: Nat, shares: Nat]
Claim == [user: User, outcome: Outcome, amount: Nat]

PortfolioTypeOK ==
  /\ share \in Seq(Share) /\ funding \in Seq(Funding) /\ claim \in Seq(Claim)
  /\ market \in Market
  /\ left \in Seq(Nat) /\ Len(left) = Len(share)
  /\ oversold \subseteq Owner \X Outcome

PortfolioInit ==
  /\ share = <<>> /\ funding = <<>> /\ claim = <<>>
  /\ market \in Market
  /\ left = <<>>
  /\ oversold = {}

-----------------------------------------------------------------------------
(* Rows *)

Now == IF share = <<>> THEN 0 ELSE Last(share).time

\* What tokens of a purchase have cost, in units
Worth(tokens, row) == (tokens * row.amount * Unit) \div row.tokens

Ids(u, o, types) ==
  {i \in DOMAIN share : share[i].user = u /\ share[i].outcome = o /\ share[i].type \in types}

Purchases(u, o) == Ids(u, o, {"BUY", "FUND"})

LeftOf(ids) == SumFunction([i \in ids |-> left[i]])

\* The first-in first-out account: a sale takes the oldest tokens.
LeftAfter(u, o, tokens) ==
  [i \in DOMAIN left |->
     LET older == LeftOf({j \in Purchases(u, o) : j < i})
     IN  IF i \in Purchases(u, o) /\ older < tokens THEN Max({left[i] - (tokens - older), 0})
         ELSE left[i]]

Bounded(n) == Len(share) + Len(funding) + Len(claim) + n <= market.rows

\* Buy and sell rows of the event indexer; the user is the wallet's, if it has one.
Buy(u, o, amount, tokens, time) ==
  LET row == [type |-> "BUY", user |-> u, outcome |-> o, amount |-> amount,
              fee |-> market.fee, tokens |-> tokens, time |-> time]
  IN  /\ Bounded(1) /\ "BUY" \in market.does
      /\ share' = Append(share, row)
      /\ left' = Append(left, tokens)
      /\ UNCHANGED <<funding, claim, market, oversold>>

Sell(u, o, amount, tokens, time) ==
  LET row == [type |-> "SELL", user |-> u, outcome |-> o, amount |-> amount,
              fee |-> market.fee, tokens |-> tokens, time |-> time]
  IN  /\ Bounded(1) /\ "SELL" \in market.does
      /\ share' = Append(share, row)
      /\ left' = Append(LeftAfter(u, o, tokens), 0)
      /\ oversold' = oversold \cup (IF LeftOf(Purchases(u, o)) < tokens THEN {<<u, o>>} ELSE {})
      /\ UNCHANGED <<funding, claim, market>>

\* The shares a funder of a running market gets back, at the market maker's price.
FundRow(u, o, amounts, collateral, time) ==
  LET tokens == collateral - amounts[o]
      sum == SumFunction([p \in Outcome |-> ProductOfOthers(p, amounts)])
  IN  [type |-> "FUND", user |-> u, outcome |-> o, fee |-> 0, tokens |-> tokens, time |-> time,
       amount |-> IF sum = 0 THEN 0 ELSE (tokens * ProductOfOthers(o, amounts)) \div sum]

\* The parser goes through the outcomes by their index.
ByIndex(outcomes) == Ordered(outcomes, <)

\* Funding added: a row, and a FUND row for each outcome that got less than the rest.
AddFunding(u, amounts, time) ==
  LET collateral == Max({amounts[o] : o \in Outcome})
      short == ByIndex({o \in Outcome : amounts[o] # collateral})
      rows == [i \in DOMAIN short |-> FundRow(u, short[i], amounts, collateral, time)]
  IN  /\ Bounded(1 + Len(rows)) /\ "FUND" \in market.does
      /\ funding' = Append(funding, [type |-> "ADDED", user |-> u, collateral |-> collateral,
                                     shares |-> collateral])
      /\ share' = share \o rows
      /\ left' = left \o [i \in DOMAIN rows |-> rows[i].tokens]
      /\ UNCHANGED <<claim, market, oversold>>

\* Funding removed, which the parser of finalized sets inserts without a collateral.
RemoveFunding(u, shares) ==
  /\ Bounded(1) /\ "FUND" \in market.does
  /\ funding' = Append(funding, [type |-> "REMOVED", user |-> u, collateral |-> 0, shares |-> shares])
  /\ UNCHANGED <<share, claim, market, left, oversold>>

ClaimWinnings(u, o, amount) ==
  /\ Bounded(1) /\ "CLAIM" \in market.does
  /\ claim' = Append(claim, [user |-> u, outcome |-> o, amount |-> amount])
  /\ UNCHANGED <<share, funding, market, left, oversold>>

PortfolioNext ==
  \/ \E u \in market.users, o \in market.outcomes, tokens \in market.tokens, time \in Now .. Now + market.tick :
       \/ \E amount \in market.amounts : Buy(u, o, amount, tokens, time)
       \/ Sell(u, o, 1, tokens, time)
  \/ \E u \in market.users, amounts \in [Outcome -> market.amounts], time \in Now .. Now + market.tick :
       AddFunding(u, amounts, time)
  \/ \E u \in market.users : RemoveFunding(u, 1)
  \/ \E u \in market.users \cap User, o \in market.outcomes : ClaimWinnings(u, o, 2)

-----------------------------------------------------------------------------
(* Reads *)

SumOf(ids, value(_)) == SumFunction([i \in ids |-> value(share[i])])
AmountOf(row) == row.amount
TokensOf(row) == row.tokens
NetOf(row) == row.amount - row.fee
FeeOf(row) == row.fee

Fundings(u, types) ==
  {i \in DOMAIN funding : funding[i].user = u /\ funding[i].type \in types}

CollateralOf(ids) == SumFunction([i \in ids |-> funding[i].collateral])
SharesOf(ids) == SumFunction([i \in ids |-> funding[i].shares])

\* Oldest first: ORDER BY createTime leaves rows of one second in any order; this
\* is the order of their ids.
ByTime(ids) ==
  Ordered(ids, LAMBDA i, j : share[i].time < share[j].time \/ (share[i].time = share[j].time /\ i < j))

Untied(ids) == \A i, j \in ids : i # j => share[i].time # share[j].time

\* One purchase of the second pass of getOpenPositions
Accounted(acc, i) ==
  LET taken == Min({share[i].tokens, acc.left})
  IN  IF acc.left <= 0 THEN acc
      ELSE [left |-> acc.left - taken, cost |-> acc.cost + Worth(taken, share[i])]

\* The second pass when it starts with the oldest purchase
OldestCost(buys, remaining) ==
  FoldLeft(Accounted, [left |-> remaining, cost |-> 0], buys).cost

\* The second pass of getOpenPositions: the newest purchases first, until the shares
\* that are left are accounted for.
RemainingCost(buys, remaining) ==
  FoldLeft(Accounted, [left |-> remaining, cost |-> 0], Reverse(buys)).cost

\* A user's position in an outcome: the average price is cost / shares.
Position(u, o) ==
  LET bought == Purchases(u, o)
      sold == Ids(u, o, {"SELL"})
      remaining == SumOf(bought, TokensOf) - SumOf(sold, TokensOf)
  IN  [shares |-> remaining,
       collateral |-> SumOf(bought, AmountOf) - SumOf(sold, AmountOf),
       cost |-> RemainingCost(ByTime(bought), remaining)]

OpenPositions(u) == {o \in Outcome : Position(u, o).shares > 0}

\* Fees counted as volume
GrossBought(ids) == SumOf({i \in ids : share[i].type = "BUY"}, AmountOf)

\* Buys net of fees, and what was paid out for shares
NetBought(ids) == SumOf({i \in ids : share[i].type = "BUY"}, NetOf)
PaidOut(ids) == SumOf({i \in ids : share[i].type = "SELL"}, AmountOf)

OfOutcome(o) == {i \in DOMAIN share : share[i].outcome = o}

TransactionsVolume == NetBought(DOMAIN share) - PaidOut(DOMAIN share)
FundingVolume == CollateralOf(DOMAIN funding)
OutcomeVolume(o) == Max({NetBought(OfOutcome(o)) - PaidOut(OfOutcome(o)), 0})

\* The volume of the list of sets
ListVolume == TransactionsVolume + FundingVolume

\* getUserPredictions, per outcome: a claim multiplies the rows it is joined to.
ClaimsOf(u, o) == {i \in DOMAIN claim : claim[i].user = u /\ claim[i].outcome = o}
Joined(u, o) == Max({Cardinality(ClaimsOf(u, o)), 1})

\* Only the shares that were bought
BoughtPrediction(u, o) ==
  LET bought == Ids(u, o, {"BUY"})
      sold == Ids(u, o, {"SELL"})
  IN  [bought |-> Joined(u, o) * SumOf(bought, NetOf),
       sold |-> Joined(u, o) * SumOf(sold, AmountOf),
       tokens |-> Joined(u, o) * (SumOf(bought, TokensOf) - SumOf(sold, TokensOf)),
       claimed |-> {claim[i].amount : i \in ClaimsOf(u, o)}]

Prediction(u, o) ==
  LET bought == Ids(u, o, {"BUY", "FUND"})
      sold == Ids(u, o, {"SELL"})
  IN  [bought |-> Joined(u, o) * SumOf(bought, NetOf),
       sold |-> Joined(u, o) * SumOf(sold, AmountOf),
       tokens |-> Joined(u, o) * (SumOf(bought, TokensOf) - SumOf(sold, TokensOf)),
       claimed |-> {claim[i].amount : i \in ClaimsOf(u, o)}]

Predictions(u) == {o \in Outcome : \E i \in OfOutcome(o) : share[i].user = u}

\* getHoldersList: the tokens bought and sold, those of a funder left out
Holding(u, o) == SumOf(Ids(u, o, {"BUY"}), TokensOf) - SumOf(Ids(u, o, {"SELL"}), TokensOf)
Holders(o) == {u \in Owner : Holding(u, o) > 0}

\* getUserFundingPositions
FundingPosition(u) ==
  [funded |-> CollateralOf(Fundings(u, {"ADDED"})),
   shares |-> SharesOf(Fundings(u, {"ADDED"})) - SharesOf(Fundings(u, {"REMOVED"}))]

\* getOpenFundingPositions does not look at the type.
OpenFunding(u) == CollateralOf(Fundings(u, {"ADDED", "REMOVED"}))

\* getActivityList: the three selects, each with its own type filter
ShareType == [BUY |-> 1, SELL |-> 2, FUND |-> 3]
FundingType == [ADDED |-> 1, REMOVED |-> 2]
AnyType == 0

ActivityShares(type) ==
  {i \in DOMAIN share : share[i].user \in User /\ type \in {AnyType, ShareType[share[i].type]}}
ActivityFundings(type) ==
  {i \in DOMAIN funding : funding[i].user \in User /\ type \in {AnyType, FundingType[funding[i].type] + 2}}
ActivityClaims(type) == {i \in DOMAIN claim : type \in {AnyType, 5}}

Shown(row) == IF row.type = "FUND" THEN 6 ELSE ShareType[row.type]

Activity(type) ==
  {<<Shown(share[i]), i>> : i \in ActivityShares(type)}
    \cup {<<FundingType[funding[i].type] + 2, i>> : i \in ActivityFundings(type)}
    \cup {<<5, i>> : i \in ActivityClaims(type)}

ActivityTotal(type) ==
  UnionTotal({ActivityShares(type), ActivityFundings(type), ActivityClaims(type)})

\* The rankings: buys and added funding, and claims
TopVolume(u) ==
  SumOf({i \in DOMAIN share : share[i].user = u /\ share[i].type = "BUY"}, AmountOf)
    + CollateralOf(Fundings(u, {"ADDED"}))
TopProfit(u) ==
  LET won == {i \in DOMAIN claim : claim[i].user = u}
  IN  SumFunction([i \in won |-> claim[i].amount])

-----------------------------------------------------------------------------
(* Properties *)

WorthLeft(ids) == SumFunction([i \in ids |-> Worth(left[i], share[i])])

\* The price of a position is found from the newest purchases alone
\* (prediction-set.model.ts:527-542), whenever the sales were made.  It is the price of
\* the shares a first-in first-out account has left, unless shares that came from
\* elsewhere were sold or two purchases fall in one second.
CostIsFifo ==
  \A u \in User, o \in Outcome :
    <<u, o>> \notin oversold /\ Untied(Purchases(u, o)) =>
      /\ Position(u, o).shares = LeftOf(Purchases(u, o))
      /\ Position(u, o).cost = WorthLeft(Purchases(u, o))

\* Three queries tell a user of the same shares: the positions of a set, the list of
\* predictions and the holders of an outcome (lines 456, 980 and 917).  They agree, up to
\* fees and a funder's shares, unless the user has claimed an outcome twice.
PositionsAgree ==
  \A u \in User : OpenPositions(u) \subseteq Predictions(u) /\ \A o \in Predictions(u) :
    Cardinality(ClaimsOf(u, o)) <= 1 =>
      /\ Prediction(u, o).tokens = Position(u, o).shares
      /\ Prediction(u, o).tokens = Holding(u, o) + SumOf(Ids(u, o, {"FUND"}), TokensOf)
      /\ Prediction(u, o).bought - Prediction(u, o).sold + SumOf(Ids(u, o, {"BUY", "FUND"}), FeeOf)
           = Position(u, o).collateral

\* What the users' ranking counts is the set's volume with the fees and the sales put
\* back, the outcomes' volumes cover the set's, and each funding is some user's or
\* nobody's (prediction-set.model.ts:593-671, 1155-1175, stats.service.ts:88-185).
VolumesReconcile ==
  /\ SumFunction([u \in Owner |-> TopVolume(u)])
       = ListVolume + SumOf({i \in DOMAIN share : share[i].type = "BUY"}, FeeOf) + PaidOut(DOMAIN share)
  /\ SumFunction([o \in Outcome |-> OutcomeVolume(o)]) >= TransactionsVolume
  /\ \A u \in Owner : OpenFunding(u) = FundingPosition(u).funded
  /\ SumFunction([u \in Owner |-> OpenFunding(u)]) = FundingVolume

\* No two tables give the same id to rows of the activity.
IdsDistinct(type) ==
  /\ ActivityShares(type) \cap ActivityFundings(type) = {}
  /\ (ActivityShares(type) \cup ActivityFundings(type)) \cap ActivityClaims(type) = {}

Everything(S, total) == \A limit \in 0 .. 2 : Reached(SetToSeq(S), total, limit) = S

\* The pages that the total announces hold every item: of the activity, whose ids are
\* counted across three tables, unless two of them collide, and of the holders, whose
\* total counts those who have sold everything too (sql-utils.ts:182-189, 229-247).
PagesReachEverything ==
  /\ \A type \in 0 .. 6 : IdsDistinct(type) => Everything(Activity(type), ActivityTotal(type))
  /\ \A o \in Outcome : Everything(Holders(o), GroupTotal(OfOutcome(o), [i \in OfOutcome(o) |-> share[i].user]))
=============================================================================
