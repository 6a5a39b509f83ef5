--------------------------- MODULE MCBitsDelegate ---------------------------
(***************************************************************************)
(* Instances of BitsDelegate for TLC.                                      *)
(***************************************************************************)
EXTENDS BitsInvariant

CONSTANTS a1, a2, j1, j2, j3
=============================================================================
