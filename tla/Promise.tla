------------------------------ MODULE Promise ------------------------------
(***************************************************************************)
(* What a download promises whoever submitted it, with no owner, lease or  *)
(* partial file in sight.  The work is owed until the artifact is at its   *)
(* destination; from then on the destination keeps the artifact and all    *)
(* that is left is for the requester to accept it.  Only owed work can     *)
(* fail or be cancelled.                                                   *)
(***************************************************************************)
VARIABLES
  status,   \* "owed", "delivered", "accepted", "failed" or "cancelled"
  arrived   \* the artifact, byte for byte, is at the destination

promise == <<status, arrived>>

TypeOK ==
  /\ status \in {"owed", "delivered", "accepted", "failed", "cancelled"}
  /\ arrived \in BOOLEAN

Init == status = "owed" /\ arrived = FALSE

\* An attempt puts a file at the destination; it may be the artifact.
Place == status = "owed" /\ arrived' \in BOOLEAN /\ UNCHANGED status

Deliver == status = "owed" /\ arrived /\ status' = "delivered" /\ UNCHANGED arrived

Accept == status = "delivered" /\ status' = "accepted" /\ UNCHANGED arrived

GiveUp == status = "owed" /\ status' \in {"failed", "cancelled"} /\ UNCHANGED arrived

Next == Place \/ Deliver \/ Accept \/ GiveUp

Spec == Init /\ [][Next]_promise
=============================================================================
