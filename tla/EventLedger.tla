----------------------------- MODULE EventLedger -----------------------------
(***************************************************************************)
(* What the event parsers of one market promise together: every event of   *)
(* the chain is entered into the database at most once, in the order of    *)
(* the blocks, and never behind the cursor.  A parser enters the events of *)
(* its own kind.  The promise is given up for good when two parsers work   *)
(* on the same blocks (raced); even then an entry is never taken back.     *)
(***************************************************************************)
EXTENDS Integers, Sequences

VARIABLES
  log,         \* the events of the confirmed blocks, one for each block
  cursor,      \* the last block the parsers have finished
  recorded,    \* the blocks whose event is in the database
  duplicated,  \* the blocks whose event is there more than once
  raced        \* two parsers have worked at the same time

vars == <<log, cursor, recorded, duplicated, raced>>

Init ==
  /\ log = << >>
  /\ cursor = 0
  /\ recorded = {}
  /\ duplicated = {}
  /\ raced = FALSE

\* The chain confirms another block.
Post ==
  /\ \E event \in {"none", "added", "removed"} : log' = Append(log, event)
  /\ UNCHANGED <<cursor, recorded, duplicated, raced>>

\* A parser finishes the blocks after the cursor up to another one.
Record ==
  /\ ~raced
  /\ \E to \in cursor + 1 .. Len(log), kind \in {"added", "removed"} :
       /\ cursor' = to
       /\ recorded' = recorded \cup {b \in cursor + 1 .. to : log[b] = kind}
  /\ UNCHANGED <<log, duplicated, raced>>

\* Two parsers at once: entries may be doubled, and the cursor may go back.
Race ==
  /\ raced'
  /\ cursor' \in 0 .. Len(log)
  /\ recorded \subseteq recorded' /\ duplicated \subseteq duplicated'
  /\ UNCHANGED log

Next == Post \/ Record \/ Race

Spec == Init /\ [][Next]_vars
==============================================================================
