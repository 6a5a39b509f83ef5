--------------------------- MODULE MCNasDelegate ---------------------------
(***************************************************************************)
(* Three scenes of NasDelegate for TLC: a job alone, that two supervisors  *)
(* hand over and fetch; two jobs of one artifact, both on the share        *)
(* already; and two jobs of two artifacts that share a name.               *)
(***************************************************************************)
EXTENDS NasInvariant

CONSTANTS a1, a2, q1, q2, q3

Holds == [q \in Jobs |-> IF q = q3 THEN "y" ELSE "x"]
All   == {"ask", "fail", "refusal", "lost", "crash", "stall", "farcrash", "copy", "unmount"}

Open1 == [ext |-> None, state |-> "open", want |-> "run", holder |-> None]
Over  == [Open1 EXCEPT !.state = "cancelled"]

\* Alone; a second supervisor or a second disturbance.
Alone ==
  /\ loc = [q \in Jobs |-> IF q = q1 THEN Open1 ELSE Over]
  /\ far = [i \in Ids |-> Absent]
  /\ \E two \in BOOLEAN :
       /\ agent = [a \in Agents |-> IF a = a1 \/ two THEN Idle ELSE [Idle EXCEPT !.pc = "gone"]]
       /\ faults = [left |-> IF two THEN MaxFaults - 1 ELSE MaxFaults, seen |-> {}]

\* Handed over before anything else happened, and fewer of them.
With(q, n) ==
  /\ loc = [j \in Jobs |-> CASE j = q1 -> [Open1 EXCEPT !.ext = 1]
                              [] j = q  -> [Open1 EXCEPT !.ext = 2]
                              [] OTHER  -> Over]
  /\ far = [i \in Ids |-> CASE i = 1  -> [Absent EXCEPT !.req = q1]
                             [] i = 2  -> [Absent EXCEPT !.req = q]
                             [] OTHER -> Absent]
  /\ agent = [a \in Agents |-> Idle]
  /\ faults = [left |-> n, seen |-> {}]

Scenes ==
  /\ Alone \/ With(q2, 1) \/ With(q3, 0)
  /\ work = [i \in Ids |-> "off"] /\ part = {} /\ share = None
  /\ data = [f \in Inodes |-> Empty]
  /\ dest = [q \in Jobs |-> None] /\ tmp = [q \in Jobs |-> None]
  /\ up = TRUE

MCSpec == Scenes /\ [][Next]_vars /\ Fairness
=============================================================================
