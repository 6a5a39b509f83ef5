------------------------------ MODULE Custody ------------------------------
(***************************************************************************)
(* Whose work a download is, with no lease, sweep or lost answer in sight. *)
(* At any time one side has it in custody, and only that side moves bytes. *)
(* Handing it over passes through a question: while it is asked, nobody at *)
(* home starts, and it comes home only when nothing was started outside.   *)
(***************************************************************************)
VARIABLES
  where,   \* "here", "asked", "there", "delivered" or "over"
  moving   \* the sides moving bytes right now

custody == <<where, moving>>

TypeOK ==
  /\ where \in {"here", "asked", "there", "delivered", "over"}
  /\ moving \in SUBSET {"here", "there"}

Init == where = "here" /\ moving = {}

HandOver == where = "here" /\ moving = {} /\ where' = "asked" /\ UNCHANGED moving
Accept   == where = "asked" /\ moving = {} /\ moving' = {"there"} /\ UNCHANGED where
Learn    == where = "asked" /\ where' = "there" /\ UNCHANGED moving
Decline  == where = "asked" /\ moving = {} /\ where' = "here" /\ UNCHANGED moving
\* It comes back once nothing moves there, or is stopped in the same step.
TakeBack == where = "there" /\ where' = "here" /\ moving' = {}

\* Outside a transfer stops and goes on; at home it is one attempt at a time.
Outside == where \in {"asked", "there"} /\ moving' \in {{}, {"there"}} /\ moving # moving' /\ UNCHANGED where
Here    == where = "here" /\ moving' \in {{}, {"here"}} /\ moving # moving' /\ UNCHANGED where

Deliver == /\ where = "there" \/ where = "here"
           /\ moving = {} /\ where' = "delivered" /\ UNCHANGED moving

\* Finished, failed or cancelled.
Finish == /\ where # "over" /\ moving = {}
          /\ where' = "over" /\ UNCHANGED moving

Next == HandOver \/ Accept \/ Learn \/ Decline \/ TakeBack \/ Outside \/ Here \/ Deliver \/ Finish

Spec == Init /\ [][Next]_custody

\* Never two transfers: what the detailed specification inherits.
Once == moving \in {{}, {"here"}, {"there"}}
=============================================================================
