---------------------------- MODULE MarketReads -----------------------------
(***************************************************************************)
(* The markets as their readers see them: the transactions of one, its     *)
(* chances, its comments and watchlists, and the list of sets.  They share *)
(* no row; an explored market bounds which of them move.                   *)
(***************************************************************************)
EXTENDS Portfolio, OutcomeChances, Community, SetLists

vars == <<portfolioVars, chanceVars, communityVars, listVars>>

TypeOK == PortfolioTypeOK /\ ChancesTypeOK /\ CommunityTypeOK /\ ListTypeOK

Init == PortfolioInit /\ ChancesInit /\ CommunityInit /\ ListInit

Next ==
  \/ PortfolioNext /\ UNCHANGED <<chanceVars, communityVars, listVars>>
  \/ "MOVE" \in market.does /\ ChancesNext /\ UNCHANGED <<portfolioVars, communityVars, listVars>>
  \/ "TALK" \in market.does /\ CommentsNext /\ UNCHANGED <<portfolioVars, chanceVars, listVars>>
  \/ "WATCH" \in market.does /\ WatchlistNext /\ UNCHANGED <<portfolioVars, chanceVars, listVars>>
  \/ "LIST" \in market.does /\ ListNext /\ UNCHANGED <<portfolioVars, chanceVars, communityVars>>

Spec == Init /\ [][Next]_vars

\* Where the chances move, they are refreshed.
FairSpec == Spec /\ ("MOVE" \in market.does => ChancesFairness)

\* While the set is open the chances shown catch up with the pool, whatever messages
\* were lost, refreshes overlapped or executors died, because the planner runs again
\* (refresh-outcome-chances.worker.ts:17-35), unless the pool has run dry.
ChancesCatchUp == "MOVE" \in market.does => CatchUp

\* What the lists promise: the pages that a total announces hold every item, also for a
\* reader who goes through them while the sets change, and what is listed can be opened
\* (sql-utils.ts:77-126, 174-247, prediction-set.model.ts:1198-1236).
ListsComplete == PagesReachEverything /\ ReaderMissesNothing /\ ListedIsOpened
=============================================================================
