----------------------------- MODULE MCApiProxy -----------------------------
(***************************************************************************)
(* ApiProxy with two instances that are asked for one key.  A unit of      *)
(* time is 30 s: the TTL and a request's life are one unit, a lock is two. *)
(* Polls of the first instance may be left behind, one at a time.          *)
(* Three signers may be listed, one of them with a malformed public key.   *)
(***************************************************************************)
EXTENDS ApiProxy

CONSTANTS i1, i2, k1, s1, s2, m1

Sizes == k1 :> 1
Asked == i1 :> {k1} @@ i2 :> {k1}
LatePolls == i1 :> 1 @@ i2 :> 0
=============================================================================
