----------------------------- MODULE MCDatabase -----------------------------
(* Three requests over a pool of two connections with a queue of one: two  *)
(* may create prediction sets at once and hold both connections, one of    *)
(* them may change a set instead; the third reads or saves a row.          *)
EXTENDS Database

CONSTANTS creator, editor

Assigned == [r \in Request |-> CASE r = creator -> {"create"}
                                 [] r = editor -> {"create", "edit"}
                                 [] OTHER -> {"query", "row"}]
=============================================================================
