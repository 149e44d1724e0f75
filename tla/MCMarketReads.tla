--------------------------- MODULE MCMarketReads ----------------------------
(***************************************************************************)
(* MarketReads with three outcomes: a ledger of one user and one outcome   *)
(* with four rows, a market of two users and a wallet without an account,  *)
(* a market whose chances move, markets with comments and watchlists,      *)
(* where an author and an administrator meet, and a list of four sets      *)
(* which a user or an administrator reads.                                 *)
(***************************************************************************)
EXTENDS MarketReads

CONSTANTS u1, u2, r1, r2, m1, m2, v1, v2, s1, s2

Ledger == [rows |-> 4, users |-> {u1}, outcomes |-> {0}, amounts |-> {1, 2}, tokens |-> {1, 2},
           tick |-> 1, fee |-> 0, does |-> {"BUY", "SELL"}]
Mixed == [rows |-> 3, users |-> {u1, u2, NoUser}, outcomes |-> {0, 1}, amounts |-> {2, 4}, tokens |-> {2},
          tick |-> 0, fee |-> 1, does |-> {"BUY", "SELL", "FUND", "CLAIM"}]
Moving == [rows |-> 0, users |-> {}, outcomes |-> {}, amounts |-> {}, tokens |-> {},
           tick |-> 0, fee |-> 0, does |-> {"MOVE"}]
Talking == [Moving EXCEPT !.does = {"TALK"}]
Watched == [Moving EXCEPT !.does = {"WATCH"}]
Browsed == [Moving EXCEPT !.does = {"LIST"}]
Markets == {Ledger, Mixed, Moving, Talking, Watched, Browsed}

Pools == {[o \in Outcome |-> 2], [o \in Outcome |-> o + 2], [o \in Outcome |-> o]}

Callers == v1 :> {m1} @@ v2 :> {m1, m2}
Asked == v1 :> {"comment", "change"} @@ v2 :> {"delete"}

Open == [setStatus |-> "ACTIVE", ended |-> FALSE, hide |-> FALSE, funded |-> TRUE, deleted |-> FALSE]
Sets == <<[Open EXCEPT !.setStatus = "PENDING", !.funded = FALSE], Open,
          [Open EXCEPT !.setStatus = "FUNDING"],
          [Open EXCEPT !.setStatus = "VOTING", !.ended = TRUE]>>

ByUser == [admin |-> FALSE, isAdmin |-> FALSE, status |-> {}, match |-> 1 .. 4, limit |-> 1]
Requests ==
  {ByUser, [ByUser EXCEPT !.limit = 2], [ByUser EXCEPT !.status = {"ERROR", "ACTIVE"}],
   [ByUser EXCEPT !.match = {2, 3}], [ByUser EXCEPT !.isAdmin = TRUE],
   [ByUser EXCEPT !.admin = TRUE, !.isAdmin = TRUE, !.limit = 2]}
=============================================================================
