---------------------------- MODULE MCProposals ----------------------------
(***************************************************************************)
(* Proposals with small constants: two users and two proposals, so that a  *)
(* round has a contested winner, and two concurrent requests.              *)
(***************************************************************************)
EXTENDS Proposals, TLC

CONSTANTS u1, u2, p1, p2

OneEach == p1 :> u1 @@ p2 :> u2

=============================================================================
