----------------------------- MODULE Migrations -----------------------------
(***************************************************************************)
(* The schema's scripts (migration-scripts, lib/database/migrations.ts and *)
(* sql-migrator.ts).  Two lists of numbered scripts, migrations and seeds, *)
(* are run by two migrators, each with a table of the scripts it has run.  *)
(* A script and its record are not one transaction, MySQL commits every    *)
(* change of the schema at once, and the process may be stopped anywhere.  *)
(***************************************************************************)
EXTENDS Naturals, Sequences, SequencesExt

CONSTANT MaxCopies  \* bound: copies of a seeded row

ASSUME MigrationsAssumption == MaxCopies \in Nat

VARIABLES schema,   \* tables, and columns added later, that exist
          rows,     \* rows[s]: copies of what one INSERT of a seed inserts
          recorded, \* recorded[l]: scripts of list l recorded as run
          todo,     \* what is left of the command: [list, up, left] records
          at,       \* where the first of them is: "script" or "record"
          sub,      \* INSERTs of the current seed that are done
          broken    \* lists of which a script was ever left in the middle

migrationVars == <<schema, rows, recorded, todo, at, sub, broken>>

List == {"migrations", "seeds"}

(* One script of each sort: CREATE TABLE IF NOT EXISTS, and ALTER TABLE,   *)
(* which fails when its column is there (or, going down, is not).          *)
Migration == <<"role", "job", "reward", "hide">>
Altered == {"hide"}

(* The INSERTs of a seed: rows with explicit ids, jobs (whose name is no   *)
(* key), and rewards one INSERT at a time.                                 *)
Seed == << <<"role">>, <<"jobs", "rounds">>, <<"reward1", "reward2">> >>
TableOf == [role |-> "role", jobs |-> "job", rounds |-> "job",
            reward1 |-> "reward", reward2 |-> "reward"]
SeedRow == DOMAIN TableOf
Keyed == {"role"}

(* The jobs of one seed are a single INSERT. *)
Insertion(s) == IF s = 2 THEN << {"jobs", "rounds"} >>
                ELSE [i \in 1..Len(Seed[s]) |-> {Seed[s][i]}]

(* Mutant: the downgrade forgets the second of the rewards. *)
DeletedFirst(s) == {Seed[s][1]}

(* A seed's downgrade deletes what it inserted, but for the job of the     *)
(* proposal rounds, which the one of the jobs forgets.  That one is never  *)
(* run to its end: it is several statements in one query, which MySQL      *)
(* refuses on a connection opened without multipleStatements.              *)
Deleted(s) == ToSet(Seed[s]) \ {"rounds"}
Refused == {2}

Count(l) == IF l = "migrations" THEN Len(Migration) ELSE Len(Seed)
Phase(l, up, n) == [list |-> l, up |-> up, left |-> IF n = 0 THEN Count(l) ELSE n]

MigrationsInit == /\ schema = {}
                  /\ rows = [s \in SeedRow |-> 0]
                  /\ recorded = [l \in List |-> 0]
                  /\ todo = <<>>
                  /\ at = "script"
                  /\ sub = 0
                  /\ broken = {}

Begin(phases) == /\ todo = <<>>
                 /\ todo' = phases
                 /\ at' = "script"
                 /\ sub' = 0
                 /\ UNCHANGED <<schema, rows, recorded, broken>>

(* n = 0 stands for all of them, as in the dialogs. *)
Upgrade == \E n \in 0..1 : Begin(<<Phase("migrations", TRUE, n)>>)
Downgrade == \E n \in 0..1 : Begin(<<Phase("migrations", FALSE, n)>>)
SeedDatabase == \E n \in 0..1 : Begin(<<Phase("seeds", TRUE, n)>>)
Unseed == \E n \in 0..1 : Begin(<<Phase("seeds", FALSE, n)>>)

(* reset() goes down and up again; the seeds' own records are not reset.   *)
Rebuild == Begin(<<Phase("migrations", FALSE, 0), Phase("migrations", TRUE, 0),
                   Phase("seeds", TRUE, 0)>>)

Now == Head(todo)
Version == IF Now.up THEN recorded[Now.list] + 1 ELSE recorded[Now.list]
Over == Now.left = 0 \/ Version \notin 1..Count(Now.list)

NextPhase == /\ todo # <<>>
             /\ at = "script"
             /\ Over
             /\ todo' = Tail(todo)
             /\ UNCHANGED <<schema, rows, recorded, at, sub, broken>>

(* A statement that MySQL refuses rejects the command; the process exits.  *)
Abort == /\ todo' = <<>>
         /\ at' = "script"
         /\ sub' = 0
         /\ broken' = broken \cup {l \in {"seeds"} : sub > 0}
         /\ UNCHANGED <<schema, rows, recorded>>

Running(l, up) == /\ todo # <<>>
                  /\ Now.list = l
                  /\ Now.up = up
                  /\ at = "script"
                  /\ ~ Over

MigrateUp ==
  /\ Running("migrations", TRUE)
  /\ LET t == Migration[Version] IN
       IF t \in Altered /\ t \in schema
         THEN Abort
         ELSE /\ schema' = schema \cup {t}
              /\ at' = "record"
              /\ UNCHANGED <<rows, recorded, todo, sub, broken>>

MigrateDown ==
  /\ Running("migrations", FALSE)
  /\ LET t == Migration[Version] IN
       IF t \in Altered /\ t \notin schema
         THEN Abort
         ELSE /\ schema' = schema \ {t}
              /\ rows' = [s \in SeedRow |-> IF TableOf[s] = t THEN 0 ELSE rows[s]]
              /\ at' = "record"
              /\ UNCHANGED <<recorded, todo, sub, broken>>

SeedUp ==
  /\ Running("seeds", TRUE)
  /\ LET ins == Insertion(Version)[sub + 1] IN
       IF \E s \in ins : TableOf[s] \notin schema \/ (s \in Keyed /\ rows[s] > 0)
         THEN Abort
         ELSE /\ \A s \in ins : rows[s] < MaxCopies
              /\ rows' = [s \in SeedRow |-> rows[s] + (IF s \in ins THEN 1 ELSE 0)]
              /\ IF sub + 1 < Len(Insertion(Version))
                   THEN sub' = sub + 1 /\ UNCHANGED at
                   ELSE sub' = 0 /\ at' = "record"
              /\ UNCHANGED <<schema, recorded, todo, broken>>

SeedDown ==
  /\ Running("seeds", FALSE)
  /\ IF Version \in Refused \/ \E s \in Deleted(Version) : TableOf[s] \notin schema
       THEN Abort
       ELSE /\ rows' = [s \in SeedRow |-> IF s \in Deleted(Version) THEN 0 ELSE rows[s]]
            /\ at' = "record"
            /\ UNCHANGED <<schema, recorded, todo, sub, broken>>

(* The migrator writes, or deletes, the record of the script it has run.   *)
Record == /\ todo # <<>>
          /\ at = "record"
          /\ recorded' = [recorded EXCEPT ![Now.list] = IF Now.up THEN @ + 1 ELSE @ - 1]
          /\ todo' = [todo EXCEPT ![1].left = @ - 1]
          /\ at' = "script"
          /\ UNCHANGED <<schema, rows, sub, broken>>

(* The process is stopped, between a script and its record too. *)
Die == /\ todo # <<>>
       /\ todo' = <<>>
       /\ at' = "script"
       /\ sub' = 0
       /\ broken' = broken \cup {l \in {Now.list} : at = "record" \/ sub > 0}
       /\ UNCHANGED <<schema, rows, recorded>>

MigrationsNext == \/ Upgrade \/ Downgrade \/ SeedDatabase \/ Unseed \/ Rebuild
                  \/ NextPhase \/ MigrateUp \/ MigrateDown \/ SeedUp \/ SeedDown
                  \/ Record \/ Die
-----------------------------------------------------------------------------
MigrationsTypeOK ==
  /\ schema \subseteq ToSet(Migration)
  /\ rows \in [SeedRow -> 0..MaxCopies]
  /\ recorded \in [List -> Nat]
  /\ \A l \in List : recorded[l] <= Count(l)
  /\ todo \in Seq([list : List, up : BOOLEAN, left : Nat])
  /\ at \in {"script", "record"}
  /\ sub \in Nat
  /\ broken \subseteq List

(* A seeded row is in its table once at most, as long as no seeding was    *)
(* left in the middle: no order of seeding, unseeding and rebuilding runs  *)
(* a worker under two jobs or pays a reward out of two rows.               *)
SeededOnce == "seeds" \notin broken => \A s \in SeedRow : rows[s] <= 1
=============================================================================
