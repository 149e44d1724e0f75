--------------------------- MODULE MCAttestations ---------------------------
(***************************************************************************)
(* Attestations of a set with two data sources and two executions of the   *)
(* job that pays, so that a source can be attested twice.                  *)
(***************************************************************************)
EXTENDS Attestations

CONSTANTS s1, s2, r1, r2
=============================================================================
