---------------------------- MODULE MCDelegation ----------------------------
(***************************************************************************)
(* Instances of Delegation for TLC: one sweeping process or two, a system  *)
(* that keeps jobs and pauses them (a NAS), one that forgets what it       *)
(* handed over (BITS).                                                     *)
(***************************************************************************)
EXTENDS DelegationInvariant, TLC

CONSTANTS s1, s2, nas, bits, e1, e2

OneKnows == s1 :> Systems @@ s2 :> {bits}
AllKnown == [s \in Supervisors |-> Systems]

Symmetry == Permutations(Handles)
=============================================================================
