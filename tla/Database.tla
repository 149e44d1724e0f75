------------------------------ MODULE Database ------------------------------
(***************************************************************************)
(* The database layer: an operator runs the migration scripts, and then    *)
(* the API is started on the schema they made and lends connections to its *)
(* requests (lib/database).                                                *)
(***************************************************************************)
EXTENDS Migrations, ConnectionPool

VARIABLE serving  \* whether the API has been started

databaseVars == <<migrationVars, poolVars, serving>>

DatabaseInit == /\ MigrationsInit
                /\ PoolInit
                /\ serving = FALSE

(* Bound: requests are followed on a complete database only, and the       *)
(* scripts are not run under a running API.                                *)
Complete == /\ todo = <<>>
            /\ broken = {}
            /\ \A l \in List : recorded[l] = Count(l)
            /\ \A s \in SeedRow : rows[s] = 1

Start == /\ ~ serving
         /\ Complete
         /\ serving' = TRUE
         /\ UNCHANGED <<migrationVars, poolVars>>

DatabaseNext == \/ ~ serving /\ MigrationsNext /\ UNCHANGED <<poolVars, serving>>
                \/ Start
                \/ serving /\ PoolNext /\ UNCHANGED <<migrationVars, serving>>

DatabaseFairness ==
  \A r \in Request :
    WF_databaseVars(serving /\ PoolStep(r) /\ UNCHANGED <<migrationVars, serving>>)

DatabaseSpec == DatabaseInit /\ [][DatabaseNext]_databaseVars /\ DatabaseFairness

DatabaseTypeOK == /\ MigrationsTypeOK
                  /\ PoolTypeOK
                  /\ serving \in BOOLEAN
=============================================================================
