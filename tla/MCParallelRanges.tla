-------------------------- MODULE MCParallelRanges --------------------------
(***************************************************************************)
(* Instances of ParallelRanges for TLC.                                    *)
(***************************************************************************)
EXTENDS ParallelInvariant, TLC

Symmetry == Permutations(Workers)
=============================================================================
