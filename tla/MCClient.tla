------------------------------ MODULE MCClient ------------------------------
(***************************************************************************)
(* An instance of Client for TLC: two callers that resume, in two          *)
(* processes, and one that submits.                                        *)
(***************************************************************************)
EXTENDS ClientInvariant, TLC

CONSTANTS c1, c2, c3, p1, p2, a1

TwoAndOne == c1 :> p1 @@ c2 :> p1 @@ c3 :> p2
OneAsk    == [c \in Callers |-> a1]
=============================================================================
