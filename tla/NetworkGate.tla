---------------------------- MODULE NetworkGate ----------------------------
(***************************************************************************)
(* Work that asks for an unmetered path (go/network.go and its uses in     *)
(* go/runner.go and go/serve/execution.go): one record, the sweep that     *)
(* runs it, the gate its requests ask and the gate's watcher, over the     *)
(* cost source of module CostSource.                                       *)
(*                                                                         *)
(* The run is split where the cost is read, where a request goes out and   *)
(* at each write of the record; the observer of what is wanted and the     *)
(* gate's watcher cancel it at any of them.  A transfer is a number of     *)
(* requests; what they bring is module Runner's subject.                   *)
(***************************************************************************)
EXTENDS CostSource, JobStore

CONSTANT Requests

ASSUME RequestsAssumption == Requests \in Nat \ {0}

VARIABLES
  rec,   \* the record: its state, lease, intent, waiting word and failure
  run,   \* where the run is, what the observer saw, requests left
  gate   \* networkGate

gateVars == <<rec, run, gate>>
vars == <<costVars, gateVars>>

Words == {"", "metered", "unavailable"}
NoGate == [on |-> FALSE, tripped |-> FALSE, seen |-> "unknown"]
Idle   == [pc |-> "off", asked |-> "run", left |-> Requests, word |-> ""]

At(pc)   == run.pc = pc
Goes(pc) == run' = [run EXCEPT !.pc = pc]

\* The run's context: ended by the observer or by the gate.
Stopped == run.asked # "run" \/ gate.tripped

-----------------------------------------------------------------------------
(* The sweep.                                                               *)

\* Mutants: a word holds until it is taken away; what is wanted is not looked at.
HoldsForGood == rec.want = "run" /\ rec.word # ""
HoldsUnasked == \/ Cost = "metered" /\ rec.word = "metered"
                \/ Cost = "unavailable" /\ rec.word = "unavailable"

\* networkHolds: the record already says why it waits now.
Holds ==
  rec.want = "run" /\ \/ Cost = "metered" /\ rec.word = "metered"
                      \/ Cost = "unavailable" /\ rec.word = "unavailable"

\* Adopt and Run: claimed, and what is wanted is looked at once.
Adopt ==
  /\ serve \in {"direct", "late"}
  /\ At("off") /\ Orphan(rec) /\ ~Holds
  /\ rec' = [rec EXCEPT !.state = "running", !.live = TRUE]
  /\ run' = [run EXCEPT !.pc = IF rec.want = "run" THEN "gate" ELSE "honour", !.asked = rec.want]
  /\ UNCHANGED <<gate, costVars>>

\* watchRunIntent: it stops the run's context as soon as it has seen a wish.
Observe ==
  /\ run.pc \in {"gate", "mark", "check", "open", "move"}
  /\ run.asked = "run" /\ rec.want # "run"
  /\ run' = [run EXCEPT !.asked = rec.want]
  /\ UNCHANGED <<rec, gate, costVars>>

-----------------------------------------------------------------------------
(* The gate.                                                                *)

\* gateNetwork: the first answer of a new watcher is the present cost.
Gate ==
  /\ At("gate")
  /\ IF Notice \in {"metered", "unavailable"}
     THEN /\ run' = [run EXCEPT !.pc = "word", !.word = Notice]
          /\ UNCHANGED gate
     ELSE /\ gate' = [on |-> TRUE, tripped |-> FALSE, seen |-> Notice]
          /\ Goes(IF rec.word # "" \/ rec.failed THEN "mark" ELSE "check")
  /\ UNCHANGED <<rec, costVars>>

\* It asks with the run's context, which may have ended by then.
GateCancelled ==
  /\ At("gate") /\ run.asked # "run"
  /\ Goes("fail")
  /\ UNCHANGED <<rec, gate, costVars>>

\* Mutant: only a failure is cleared when the transfer moves again.
MarkFailure ==
  /\ At("mark")
  /\ rec' = [rec EXCEPT !.failed = FALSE]
  /\ Goes("check")
  /\ UNCHANGED <<gate, costVars>>

\* The transfer moves again: word and failure no longer describe it.
Mark ==
  /\ At("mark")
  /\ rec' = [rec EXCEPT !.word = "", !.failed = FALSE]
  /\ Goes("check")
  /\ UNCHANGED <<gate, costVars>>

\* Mutant: the watcher is left out; the next request will ask.
GateNoticesNothing ==
  /\ gate.on /\ gate.seen # Notice
  /\ gate' = [gate EXCEPT !.seen = Notice]
  /\ UNCHANGED <<rec, run, costVars>>

\* The gate's watcher.
GateNotices ==
  /\ gate.on /\ ~gate.tripped /\ gate.seen # Notice
  /\ gate' = [gate EXCEPT !.seen = Notice, !.tripped = Notice = "metered"]
  /\ UNCHANGED <<rec, run, costVars>>

\* networkAllows, before every source open and range request: it reads the
\* present cost.
Check ==
  /\ At("check")
  /\ IF gate.tripped \/ Cost = "metered"
     THEN gate' = [gate EXCEPT !.tripped = TRUE] /\ Goes("stop")
     ELSE UNCHANGED gate /\ Goes("open")
  /\ UNCHANGED <<rec, costVars>>

OpenRequest ==
  /\ At("open")
  /\ Goes(IF Stopped THEN "stop" ELSE "move")
  /\ UNCHANGED <<rec, gate, costVars>>

\* A request is answered in full; after the last the file is whole.
Move ==
  /\ At("move")
  /\ run' = [run EXCEPT !.left = @ - 1,
                        !.pc = IF run.left > 1 THEN "check"
                               ELSE IF run.asked # "run" THEN "honour" ELSE "put"]
  /\ UNCHANGED <<rec, gate, costVars>>

\* A stopped context ends the request in flight.
Cut ==
  /\ At("move") /\ Stopped
  /\ Goes("stop")
  /\ UNCHANGED <<rec, gate, costVars>>

SourceFails ==
  /\ At("move") /\ Disturb("fail")
  /\ Goes("stop")
  /\ UNCHANGED <<rec, gate, path, changes, wire, src, serve, late>>

-----------------------------------------------------------------------------
(* The ends of a run.                                                       *)

\* Mutant: a stopped transfer is a failed one, whatever stopped it.
StopUnheld ==
  /\ At("stop")
  /\ Goes(IF run.asked # "run" THEN "honour" ELSE "fail")
  /\ UNCHANGED <<rec, gate, costVars>>

\* What was asked comes first, then the path, then the failure.
Stop ==
  /\ At("stop")
  /\ run' = [run EXCEPT !.pc = IF run.asked # "run" THEN "honour"
                               ELSE IF gate.tripped THEN "word" ELSE "fail",
                        !.word = "metered"]
  /\ UNCHANGED <<rec, gate, costVars>>

Word ==
  /\ At("word")
  /\ rec' = [rec EXCEPT !.word = run.word]
  /\ Goes("release")
  /\ UNCHANGED <<gate, costVars>>

Fail ==
  /\ At("fail")
  /\ rec' = [rec EXCEPT !.word = "", !.failed = TRUE]
  /\ Goes("release")
  /\ UNCHANGED <<gate, costVars>>

Honour ==
  /\ At("honour")
  /\ rec' = IF run.asked = "cancel"
            THEN [rec EXCEPT !.state = "cancelled", !.word = "", !.failed = FALSE, !.live = FALSE]
            ELSE rec
  /\ Goes("release")
  /\ UNCHANGED <<gate, costVars>>

Put ==
  /\ At("put")
  /\ rec' = [rec EXCEPT !.state = "transferred", !.word = "", !.failed = FALSE]
  /\ Goes("release")
  /\ UNCHANGED <<gate, costVars>>

Release ==
  /\ At("release")
  /\ rec' = Released(rec)
  /\ run' = Idle /\ gate' = NoGate
  /\ UNCHANGED costVars

-----------------------------------------------------------------------------
SetWant ==
  /\ ~Terminal(rec.state) /\ Disturb("ask")
  /\ \E w \in Wants \ {rec.want} : rec' = [rec EXCEPT !.want = w]
  /\ UNCHANGED <<run, gate, path, changes, wire, src, serve, late>>

\* The service ends and is started again; a lease it held lapses.
Restart ==
  /\ Disturb("crash")
  /\ run' = Idle /\ gate' = NoGate
  /\ rec' = [rec EXCEPT !.live = FALSE]
  /\ src' = Closed /\ wire' = << >> /\ serve' = "start" /\ late' = Unopened
  /\ UNCHANGED <<path, changes>>

Init ==
  /\ CostInit
  /\ rec = [state |-> "pending", live |-> FALSE, want |-> "run", word |-> "", failed |-> FALSE]
  /\ run = Idle /\ gate = NoGate

Step ==
  \/ Adopt \/ Observe \/ Gate \/ GateCancelled \/ Mark \/ GateNotices \/ Check
  \/ OpenRequest \/ Cut \/ Stop \/ Word \/ Fail \/ Honour \/ Put \/ Release

Next ==
  \/ CostNext /\ UNCHANGED gateVars
  \/ Step \/ Move \/ SourceFails \/ SetWant \/ Restart

Spec == Init /\ [][Next]_vars

\* Notices are delivered, the sweep comes round every second, goroutines go on.
\* A request may take forever.
Fairness ==
  /\ WF_vars(Reading /\ UNCHANGED gateVars)
  /\ WF_vars(Adopt) /\ WF_vars(Observe) /\ WF_vars(GateNotices) /\ WF_vars(Cut)
  /\ WF_vars(Step)

SlowSpec == Spec /\ Fairness

-----------------------------------------------------------------------------
TypeOK ==
  /\ CostTypeOK
  /\ rec \in [state : States, live : BOOLEAN, want : Wants, word : Words, failed : BOOLEAN]
  /\ run \in [pc : {"off", "gate", "mark", "check", "open", "move", "stop", "word", "fail",
                    "honour", "put", "release"},
              asked : Wants, left : 0..Requests, word : Words]
  /\ gate \in [on : BOOLEAN, tripped : BOOLEAN, seen : Costs \cup {"unavailable"}]

\* A record that says it waits is not being transferred and is not over
\* [DL-N5]: the word goes when the transfer moves again and when the work ends,
\* and comes with nothing opened after it.
WordWhileWaiting ==
  rec.word # "" => ~Terminal(rec.state) /\ rec.state # "transferred"
                   /\ run.pc \notin {"check", "open", "move", "put"}

\* A run ends as a failure only for a source that failed: waiting for the path is
\* not one, and neither is stopping because somebody asked, unless the run was
\* asked while it was asking its gate.
OnlyFailuresFail ==
  [][~At("fail") /\ run'.pc = "fail" /\ "ask" \notin faults.seen => ~Stopped]_vars

\* A transfer under way stops when the path is known to be metered, though its
\* request never ends by itself.
StopsMoving == (Cost = "metered" /\ At("move")) ~> (Cost # "metered" \/ ~At("move"))

\* Requests are answered.  The bus has not gone from under an open source, which
\* then reports its last cost for good, and the source is one that is Truthful.
Answers == WF_vars(Move)
Hears   == "bus" \notin faults.seen /\ src.on # "windows"

\* Work that is still wanted is delivered if the path ends up free, whatever the
\* record said it waited for and however late the source opened.
Moves ==
  Answers /\ (<>[](path = "free" /\ rec.want = "run" /\ Hears))
    => <>(rec.state \in {"transferred", "cancelled"})

\* If the path ends up costed, unfinished wanted work ends up saying so.
SaysWhy ==
  Answers /\ (<>[](path = "costed" /\ rec.want = "run" /\ Hears))
    => <>[](rec.word = "metered" \/ rec.state \in {"transferred", "cancelled"})

\* A cancel that stands is carried out, also on work that waits.
Cancelled == (<>[](rec.want = "cancel")) => <>(rec.state \in {"transferred", "cancelled"})

\* The path and the person decide, and the run and the record follow them.
Follows == StopsMoving /\ Moves /\ SaysWhy /\ Cancelled
=============================================================================
