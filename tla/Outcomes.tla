------------------------------ MODULE Outcomes ------------------------------
(***************************************************************************)
(* The outcomes of one prediction set, known by their index on the chain,  *)
(* and products over them.                                                 *)
(***************************************************************************)
EXTENDS Integers, FiniteSets, FiniteSetsExt, Functions

CONSTANT Outcome  \* outcome indexes

ASSUME OutcomeAssumption ==
  IsFiniteSet(Outcome) /\ Outcome # {} /\ Outcome = 0 .. Cardinality(Outcome) - 1

\* Π of the values of all outcomes but one
ProductOfOthers(o, values) == FoldSet(LAMBDA p, product : values[p] * product, 1, Outcome \ {o})
=============================================================================
