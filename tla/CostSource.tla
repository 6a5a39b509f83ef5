----------------------------- MODULE CostSource -----------------------------
(***************************************************************************)
(* What the network path costs and who is told (go/netcost, and            *)
(* go/serve/network_late.go).  A platform source is opened, keeps the cost *)
(* of the last notice in a hub and wakes its watchers when it changes.  A  *)
(* source that cannot be opened when the service starts is stood for by a  *)
(* late one, which asks again and then relays.                             *)
(*                                                                         *)
(* The wire is what the platform has sent and nobody has read: on Linux    *)
(* the replies and signals of one D-Bus stream, elsewhere the callbacks in *)
(* the order they were made.                                               *)
(***************************************************************************)
EXTENDS Disturbances, Sequences

CONSTANTS
  Platforms,   \* of "linux", "windows" and "mac"
  MaxWire,     \* messages on the way at once
  MaxChanges,  \* changes of the path
  None

ASSUME CostAssumption ==
  /\ Platforms \subseteq {"linux", "windows", "mac"}
  /\ MaxWire \in Nat \ {0} /\ MaxChanges \in Nat /\ MaxFaults \in Nat

VARIABLES
  path,     \* the platform's word for the path now
  changes,  \* changes left
  wire,
  src,      \* the platform's source: how far it is open, its hub's cost
  serve,    \* how the service uses it: "start", "direct" or "late"
  late      \* the source that stands for it: lateNetwork

costVars == <<path, changes, wire, src, serve, late, faults>>

Paths == {"costed", "free", "none"}
Costs == {"metered", "unmetered", "unknown"}

\* classifyNM, classify, classifyPath.
Classify(p) == CASE p = "costed" -> "metered"
                 [] p = "free"   -> "unmetered"
                 [] p = "none"   -> "unknown"

\* The present cost, as networkHolds and networkAllows read it.
Cost == IF serve = "direct" \/ late.opened THEN src.hub ELSE "unavailable"

\* The cost a watcher of the service's source is told.
Notice == IF serve = "direct" THEN src.hub ELSE late.hub

Source(os) == [on |-> os, at |-> "off", hub |-> "unknown", read |-> None, alive |-> FALSE]
Closed     == Source(src.on)

-----------------------------------------------------------------------------
(* The platform.                                                            *)

\* From here on a change of the path is announced.
Subscribed == src.alive /\ src.at \in {"subscribed", "asked", "advised", "second", "open"}

PathChanges ==
  /\ changes > 0 /\ changes' = changes - 1
  /\ \E p \in Paths \ {path} :
       /\ path' = p
       /\ IF Subscribed
          THEN Len(wire) < MaxWire /\ wire' = Append(wire, [kind |-> "notice", path |-> p])
          ELSE UNCHANGED wire
  /\ UNCHANGED <<src, serve, late, faults>>

\* NetworkManager answers Get.
Answer ==
  /\ src.at = "asked" /\ src.alive /\ Len(wire) < MaxWire
  /\ ~ \E n \in DOMAIN wire : wire[n].kind = "reply"
  /\ wire' = Append(wire, [kind |-> "reply", path |-> path])
  /\ UNCHANGED <<path, changes, src, serve, late, faults>>

\* The connection to the bus ends under an open source: its reader leaves.
BusDies ==
  /\ src.on = "linux" /\ src.at = "open" /\ src.alive /\ Disturb("bus")
  /\ src' = [src EXCEPT !.alive = FALSE] /\ wire' = << >>
  /\ UNCHANGED <<path, changes, serve, late>>

-----------------------------------------------------------------------------
(* Opening and reading.                                                     *)

\* The reader takes a notice to the hub.
ReadNotice ==
  /\ wire # << >> /\ Head(wire).kind = "notice"
  /\ wire' = Tail(wire)
  /\ src' = [src EXCEPT !.hub = Classify(Head(wire).path),
                        !.at = IF src.on = "mac" THEN "open" ELSE @]
  /\ UNCHANGED <<path, changes, serve, late, faults>>

\* Mutant: the answer is applied by the caller, once it has it.
ReadReplyLater ==
  /\ wire # << >> /\ Head(wire).kind = "reply"
  /\ wire' = Tail(wire)
  /\ src' = [src EXCEPT !.at = "second", !.read = Head(wire).path]
  /\ UNCHANGED <<path, changes, serve, late, faults>>

\* The answer to Get is applied by the reader too, before the next message.
ReadReply ==
  /\ wire # << >> /\ Head(wire).kind = "reply"
  /\ wire' = Tail(wire)
  /\ src' = [src EXCEPT !.hub = Classify(Head(wire).path), !.at = "open"]
  /\ UNCHANGED <<path, changes, serve, late, faults>>

Opens ==
  /\ src' = CASE src.on = "linux" /\ src.at = "off" -> [src EXCEPT !.at = "subscribed", !.alive = TRUE]
              [] src.on = "linux" /\ src.at = "subscribed" -> [src EXCEPT !.at = "asked"]
              [] src.on = "windows" /\ src.at = "off" -> [src EXCEPT !.at = "first", !.hub = Classify(path)]
              [] src.on = "windows" /\ src.at = "first" -> [src EXCEPT !.at = "advised", !.alive = TRUE]
              [] src.on = "windows" /\ src.at = "advised" -> [src EXCEPT !.at = "second", !.read = path]
              [] src.at = "second" -> [src EXCEPT !.at = "open", !.hub = Classify(src.read), !.read = None]
              [] src.on = "mac" /\ src.at = "off" -> [src EXCEPT !.at = "subscribed", !.alive = TRUE]
              [] OTHER -> src
  /\ wire' = IF src.on = "mac" /\ src.at = "off"
             THEN <<[kind |-> "notice", path |-> path]>> ELSE wire

\* open, one call of the platform at a time.
Open ==
  /\ serve = "start" \/ (serve = "late" /\ ~late.opened)
  /\ Opens /\ src' # src
  /\ UNCHANGED <<path, changes, serve, late, faults>>

\* A call fails, or does not answer in time: the source is not available now.
OpenFails ==
  /\ src.at # "open" /\ (serve = "start" \/ (serve = "late" /\ ~late.opened))
  /\ Disturb("absent")
  /\ src' = Closed /\ wire' = << >>
  /\ serve' = "late"
  /\ UNCHANGED <<path, changes, late>>

\* servedNetwork: a source that opens at once is used as it is.
Serve ==
  /\ serve = "start" /\ src.at = "open"
  /\ serve' = "direct"
  /\ UNCHANGED <<path, changes, wire, src, late, faults>>

-----------------------------------------------------------------------------
(* lateNetwork.                                                             *)

LateOpened ==
  /\ serve = "late" /\ src.at = "open" /\ ~late.opened
  /\ late' = [late EXCEPT !.opened = TRUE]
  /\ UNCHANGED <<path, changes, wire, src, serve, faults>>

LateNext ==
  /\ late.opened /\ late.got # src.hub /\ late.got \in {None, late.hub}
  /\ late' = [late EXCEPT !.got = src.hub]
  /\ UNCHANGED <<path, changes, wire, src, serve, faults>>

LateSet ==
  /\ late.opened /\ late.got # None /\ late.hub # late.got
  /\ late' = [late EXCEPT !.hub = late.got]
  /\ UNCHANGED <<path, changes, wire, src, serve, faults>>

-----------------------------------------------------------------------------
Unopened == [opened |-> FALSE, got |-> None, hub |-> "unavailable"]

CostInit ==
  /\ path \in Paths
  /\ changes = MaxChanges /\ faults = [left |-> MaxFaults, seen |-> {}]
  /\ \E os \in Platforms : src = Source(os)
  /\ wire = << >> /\ serve = "start" /\ late = Unopened

Reading ==
  \/ Answer \/ ReadNotice \/ ReadReply \/ Open \/ Serve
  \/ LateOpened \/ LateNext \/ LateSet

CostNext == Reading \/ PathChanges \/ BusDies \/ OpenFails

\* The platform still talks to the source and has nothing under way.
Settled == src.at = "open" /\ src.alive /\ wire = << >>

CostTypeOK ==
  /\ path \in Paths /\ changes \in 0..MaxChanges
  /\ faults \in [left : 0..MaxFaults, seen : SUBSET Kinds]
  /\ wire \in UNION {[1..n -> [kind : {"notice", "reply"}, path : Paths]] : n \in 0..MaxWire}
  /\ src \in [on : Platforms,
              at : {"off", "subscribed", "asked", "first", "advised", "second", "open"},
              hub : Costs, read : Paths \cup {None}, alive : BOOLEAN]
  /\ serve \in {"start", "direct", "late"}
  /\ late \in [opened : BOOLEAN, got : Costs \cup {None}, hub : Costs \cup {"unavailable"}]

\* An open source reports the path as it is once every notice has been read: no
\* notice that came while it was being opened is lost or undone.  On Windows one
\* that comes between the two reads of the cost is.
Truthful == Settled /\ src.on # "windows" => src.hub = Classify(path)
=============================================================================
