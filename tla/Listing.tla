------------------------------- MODULE Listing -------------------------------
(***************************************************************************)
(* What a run of main_func() shows its user: the entries of a directory, one *)
(* after the other, until all are there or the listing is given up.  After    *)
(* that nothing is shown.  Threads, libssh2 and the connection do not appear. *)
(***************************************************************************)
EXTENDS Integers, Sequences

CONSTANT Entries

VARIABLES
  shown,      \* the entries on the screen
  outcome     \* "going", "complete" or "failed"

vars == <<shown, outcome>>

Init == shown = << >> /\ outcome = "going"

\* The next entry.
Show ==
  /\ outcome = "going" /\ Len(shown) < Entries
  /\ shown' = Append(shown, Len(shown) + 1)
  /\ UNCHANGED outcome

Complete ==
  /\ outcome = "going" /\ Len(shown) = Entries
  /\ outcome' = "complete"
  /\ UNCHANGED shown

Fail ==
  /\ outcome = "going" /\ outcome' = "failed"
  /\ UNCHANGED shown

Next == Show \/ Complete \/ Fail

Spec == Init /\ [][Next]_vars
=============================================================================
