---------------------------- MODULE RewardPoints ----------------------------
(***************************************************************************)
(* Reward points: transactions that are only ever added, and the daily     *)
(* reward, which a request first asks for and then inserts.                *)
(*                                                                         *)
(* A transaction is counted under its user and its type; what a type is    *)
(* worth is left out.                                                      *)
(***************************************************************************)
EXTENDS Integers, FiniteSets

CONSTANTS
  UserId,  \* ids that rows of user can get
  Request, \* requests the API serves at the same time
  NoUser   \* the id of no user

ASSUME RewardPointsAssumption == NoUser \notin UserId

VARIABLES
  reward,   \* reward[u][t]: transactions of type t of user u; DAILY_LOGIN: of today
  claiming, \* the user for whom a request has found no daily reward yet
  raced     \* history: users with two such requests at once today

rewardVars == <<reward, claiming, raced>>

RewardType == {"MARKET_WINNER", "USER_REFERRAL", "DAILY_LOGIN"}

RewardTypeOK ==
  /\ reward \in [UserId -> [RewardType -> Nat]]
  /\ claiming \in [Request -> UserId \cup {NoUser}]
  /\ raced \subseteq UserId

RewardInit ==
  /\ reward = [u \in UserId |-> [t \in RewardType |-> 0]]
  /\ claiming = [r \in Request |-> NoUser]
  /\ raced = {}

\* RewardPointsService.awardPoints, on a table of transactions.
Awarded(table, u, t) == [table EXCEPT ![u][t] = @ + 1]

\* Two claims of one user are under way.
Racing(c) == {u \in UserId : \E r, s \in Request : r # s /\ c[r] = u /\ c[s] = u}

\* CheckDaily that asks for any transaction of today.
CheckDailyOfYesterday(r, u) ==
  /\ claiming[r] = NoUser
  /\ claiming' = [claiming EXCEPT ![r] = u]
  /\ raced' = raced \cup Racing(claiming')
  /\ UNCHANGED reward

\* claimUserDailyReward finds no DAILY_LOGIN transaction of today, on no
\* connection that would lock anything.
CheckDaily(r, u) ==
  /\ claiming[r] = NoUser /\ reward[u]["DAILY_LOGIN"] = 0
  /\ claiming' = [claiming EXCEPT ![r] = u]
  /\ raced' = raced \cup Racing(claiming')
  /\ UNCHANGED reward

\* It then awards the reward; no unique key stands in the way.
ClaimDaily(r) ==
  /\ claiming[r] # NoUser
  /\ reward' = Awarded(reward, claiming[r], "DAILY_LOGIN")
  /\ claiming' = [claiming EXCEPT ![r] = NoUser]
  /\ UNCHANGED raced

\* The request ends without a reward: the type is disabled or the insert fails.
DropClaim(r) ==
  /\ claiming[r] # NoUser
  /\ claiming' = [claiming EXCEPT ![r] = NoUser]
  /\ UNCHANGED <<reward, raced>>

\* CURDATE() moves on: nothing has been claimed on the new day.
NewDay ==
  /\ reward' = [u \in UserId |-> [reward[u] EXCEPT !["DAILY_LOGIN"] = 0]]
  /\ raced' = Racing(claiming)
  /\ UNCHANGED claiming

-----------------------------------------------------------------------------

\* A user gets the daily reward once a day (reward-points.service.ts:27-41), but
\* for claims whose checks and inserts overlap; a claim that was checked before
\* midnight counts for the day it is inserted on.
DailyOnceUnlessOverlap ==
  \A u \in UserId : reward[u]["DAILY_LOGIN"] > 1 => u \in raced
=============================================================================
