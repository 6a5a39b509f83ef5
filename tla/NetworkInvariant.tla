-------------------------- MODULE NetworkInvariant --------------------------
(***************************************************************************)
(* Why an open cost source speaks the truth and why a record's word goes   *)
(* when its transfer moves: the invariants NetworkProofs shows to be       *)
(* inductive, in a module of their own so that TLC can check them.         *)
(***************************************************************************)
EXTENDS NetworkGate

Message == [kind : {"notice", "reply"}, path : Paths]

\* Only Windows reads the cost twice and advises in between.
Stages == {"off", "subscribed", "asked", "open"}

\* The wire ends with the path as it is, and what was read last is the path.
InOrder ==
  /\ wire \in Seq(Message) /\ Len(wire) <= MaxWire
  /\ ~src.alive => wire = << >>
  /\ src.at \in {"off", "first"} => ~src.alive
  /\ src.on # "windows" => src.at \in Stages
  /\ src.at = "second" => src.read \in Paths
  /\ wire # << >> => wire[Len(wire)].path = path
  /\ Truthful

CostInv == CostTypeOK /\ InOrder

\* Where the record stands while a run is under way, and how much is left of it.
UnderWay ==
  /\ run.pc \notin {"off", "release"} => rec.state = "running"
  /\ run.pc \in {"off", "gate", "mark", "check", "open", "move"} => run.left > 0

\* Nobody asked, so nobody stops the run but the path.
Unasked == "ask" \notin faults.seen => rec.want = "run" /\ run.asked = "run"

GateInv == TypeOK /\ UnderWay /\ Unasked /\ WordWhileWaiting

Inductive == CostInv /\ GateInv
=============================================================================
