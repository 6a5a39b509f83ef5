---------------------------- MODULE Disturbances ----------------------------
(***************************************************************************)
(* What befalls a component from outside: crashes, lost answers, refusals, *)
(* a person's change of mind.  Which of them happen is an instance's       *)
(* choice; MaxFaults bounds how many there are of all kinds together.      *)
(***************************************************************************)
EXTENDS Naturals

CONSTANTS
  Kinds,     \* the disturbances that happen
  MaxFaults

VARIABLE faults \* those left, and the kinds there were

Disturb(k) ==
  /\ k \in Kinds /\ faults.left > 0
  /\ faults' = [left |-> faults.left - 1, seen |-> faults.seen \cup {k}]
Calm       == UNCHANGED faults
=============================================================================
