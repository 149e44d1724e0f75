---------------------- MODULE MCPredictionSetLifecycle ----------------------
(***************************************************************************)
(* PredictionSetLifecycle with small constants: one or two outcomes (a     *)
(* wrong winner can be told from the right one), one request, one create   *)
(* worker, and one or two unparsed events in each event stream.            *)
(***************************************************************************)
EXTENDS PredictionSetLifecycle, TLC

Interchangeable ==
  Permutations(Outcome) \cup Permutations(Request) \cup Permutations(Creator)

=============================================================================
