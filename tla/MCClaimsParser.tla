--------------------------- MODULE MCClaimsParser ---------------------------
(***************************************************************************)
(* ClaimsParser with two wallets, two requests of different use, and       *)
(* claims in two of three blocks, one of them of a set nobody knows.       *)
(***************************************************************************)
EXTENDS ClaimsParser, TLC

CONSTANTS w1, w2, n1, n2, n3, e1, e2, r1, r2

Abbreviated == w1 :> n1 @@ w2 :> n2
Redemption(w, k, o) == [wallet |-> w, known |-> k, outcome |-> o]
Claims == 1 :> Redemption(w2, TRUE, TRUE) @@ 2 :> Redemption(w1, FALSE, TRUE)
  @@ 4 :> Redemption(w1, TRUE, FALSE)

Emails == [does |-> r1 :> {"profile"} @@ r2 :> {"login", "email", "verify"},
           names |-> {n1, n2}, claim |-> <<>>, blocks |-> 0]
Claiming == [does |-> r1 :> {"login", "profile"} @@ r2 :> {"login"},
             names |-> {n2, n3}, claim |-> Claims, blocks |-> Blocks]
Points == [does |-> r1 :> {"login", "daily"} @@ r2 :> {"login", "daily"},
           names |-> {}, claim |-> <<>>, blocks |-> 0]
Scenes == {Emails, Claiming, Points}
=============================================================================
