--------------------------- MODULE MCEventIndexer ---------------------------
(***************************************************************************)
(* EventIndexer with small constants: two children, so that one can be     *)
(* stopped while its successor runs, and ranges of up to BlockSize + 1     *)
(* blocks, so that a backlog takes more than one cycle.                    *)
(***************************************************************************)
EXTENDS EventIndexer, TLC

Interchangeable == Permutations(Child) \cup Permutations(Executor)

=============================================================================
