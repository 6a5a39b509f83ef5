---------------------------- MODULE MCDropFolder ----------------------------
(***************************************************************************)
(* Instances of DropFolder for TLC: one text of work, one that is not a    *)
(* request and one too big to read.                                        *)
(***************************************************************************)
EXTENDS FolderInvariant

CONSTANTS t1, t3, t4

What == [t \in Texts |-> IF t = t3 THEN "nonsense" ELSE IF t = t4 THEN "big" ELSE "work"]
Size == [t \in Texts |-> IF t = t1 THEN 2 ELSE 1]
=============================================================================
