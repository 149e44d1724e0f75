----------------------------- MODULE MCJobLock -----------------------------
(***************************************************************************)
(* JobLock with small constants, which the .cfg files give: one unit of    *)
(* time is one scheduler run; a job keeps its lock for two units, which is *)
(* also how long the platform lets an execution live.                      *)
(***************************************************************************)
EXTENDS JobLock, TLC

=============================================================================
