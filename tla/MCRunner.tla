------------------------------ MODULE MCRunner ------------------------------
(***************************************************************************)
(* Instances of Runner for TLC.  The wanted version has two or three       *)
(* chunks; the other one is a chunk longer.                                *)
(***************************************************************************)
EXTENDS RunnerInvariant, TLC

CONSTANTS o1, o2, v1, v2

LengthShort == v1 :> 2 @@ v2 :> 3
LengthFour  == v1 :> 4 @@ v2 :> 3
LengthLong  == v1 :> 3 @@ v2 :> 2

FromNothing == {{}}
FromGaps    == {{}, {2}, {1, 3}, {3}}
FromLast    == {{4}}

Symmetry == Permutations(Owners)
=============================================================================
