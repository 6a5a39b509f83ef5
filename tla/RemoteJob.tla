------------------------------ MODULE RemoteJob ------------------------------
(***************************************************************************)
(* The delegate that is another machine's job service                      *)
(* (go/serve/remote_delegation.go): one record whose work requires         *)
(* recoverable submission, the service that sweeps it, and what the remote *)
(* keeps of the one identity the record has there, its id in the current   *)
(* history epoch.                                                          *)
(*                                                                         *)
(* The remote is external (abstraction-job): it accepts an identity once,  *)
(* answers the same for ever after, seals an absent identity it is asked   *)
(* to reconcile, and journals nothing of a request its admission refuses.  *)
(* One service sweeps the store, so the lease is left out; which call is   *)
(* made when several do is module Delegation's subject.                    *)
(***************************************************************************)
EXTENDS Disturbances

CONSTANTS
  Epochs,   \* histories the remote goes through: a bound on its losses
  Chunks    \* calls of ReadResult one result takes

ASSUME RemoteAssumption ==
  Epochs \in Nat \ {0} /\ Chunks \in Nat \ {0} /\ MaxFaults \in Nat

VARIABLES
  rec,     \* the record: whose hands it is in, state, intent
  there,   \* the remote: epoch, what it knows of the identity, the work
  admits,  \* what its admission says of the request
  refused, \* RemoteJobDelegator.refused, the memory of this process
  dest,    \* chunks at the destination
  own      \* what the process is doing

vars == <<rec, there, admits, refused, dest, own, faults>>
here == <<rec, refused, dest, own>>

Idle == [pc |-> "idle", epoch |-> 0]

At(pc)   == own.pc = pc
Goes(pc) == own' = [own EXCEPT !.pc = pc]
Over     == own' = Idle

\* The handoff the record tells of: none, one nobody settled (the external id
\* is the record's own), or a handle, which names the epoch.
NotDelegated == [st |-> "none", epoch |-> 0]
Unsettled    == [st |-> "asked", epoch |-> 0]
handle(e)    == [st |-> "held", epoch |-> e]

Hand(to) == rec' = [rec EXCEPT !.deleg = to, !.state = "pending"]

-----------------------------------------------------------------------------
(* The remote.                                                              *)

NewHistory(e) == [epoch |-> e, id |-> "absent", work |-> "none"]

\* What the remote makes of the identity of epoch e when it is submitted.  A
\* history it does not have is not one it can decide about.
Answer(e) ==
  IF e # there.epoch THEN "unknown"
  ELSE IF there.id = "accepted" THEN "accepted"
  ELSE IF there.id = "sealed" THEN "no"
  ELSE IF admits = "yes" THEN "accepted" ELSE admits

Accepting(e) ==
  IF Answer(e) = "accepted" /\ there.id = "absent"
  THEN [there EXCEPT !.id = "accepted", !.work = "running"] ELSE there

Sealing ==
  IF there.id = "absent" THEN [there EXCEPT !.id = "sealed"] ELSE there

RemoteStep ==
  /\ there.work = "running"
  /\ \/ there' = [there EXCEPT !.work = "complete"] /\ Calm
     \/ there' = [there EXCEPT !.work = "failed"] /\ Disturb("fail")
  /\ UNCHANGED <<here, admits>>

\* The remote's history is lost, or its rules or its applier change.
RemoteChange ==
  \/ /\ there.epoch < Epochs /\ Disturb("reset")
     /\ there' = NewHistory(there.epoch + 1)
     /\ UNCHANGED <<here, admits>>
  \/ /\ \E a \in {"yes", "no", "unavailable"} \ {admits} :
          admits' = a /\ Disturb(IF a = "yes" THEN admits ELSE a)
     /\ UNCHANGED <<here, there>>

-----------------------------------------------------------------------------
(* Runner.Delegate around RemoteJobDelegator.Start.                         *)

\* The handoff is on the record before the work is handed over.
Handoff ==
  /\ At("idle") /\ rec.state = "pending" /\ rec.deleg = NotDelegated
  /\ Hand(Unsettled)
  /\ Goes("window")
  /\ UNCHANGED <<there, admits, refused, dest, faults>>

\* GetHistoryWindow; without it nothing was submitted, and located asks all
\* the same.
Window ==
  /\ At("window")
  /\ \/ own' = [pc |-> "submit", epoch |-> there.epoch] /\ Calm
     \/ Goes("locate") /\ Disturb("request")
  /\ UNCHANGED <<rec, there, admits, refused, dest>>

\* What Start makes of an answer that arrived.
Hears(ans) ==
  CASE ans = "accepted" -> refused' = "none" /\ Goes("handle")
    [] ans = "unknown"  -> UNCHANGED refused /\ Goes("locate")
    [] OTHER            -> refused' = ans /\ Goes("locate")

Submit ==
  /\ At("submit")
  /\ \/ there' = Accepting(own.epoch) /\ Hears(Answer(own.epoch)) /\ Calm
     \/ there' = Accepting(own.epoch) /\ UNCHANGED refused /\ Goes("locate") /\ Disturb("reply")
     \/ UNCHANGED <<there, refused>> /\ Goes("locate") /\ Disturb("request")
  /\ UNCHANGED <<rec, admits, dest>>

\* Mutant: a lost answer reads as an identity the remote does not have.
LocateGuessing(found, absent) ==
  /\ \/ /\ there' = Sealing
        /\ IF there.id = "accepted" THEN found ELSE absent
        /\ Calm
     \/ UNCHANGED there /\ absent /\ Disturb("reply")
  /\ UNCHANGED <<refused, admits, dest>>

\* RemoteJobDelegator.Locate: a refusal this process remembers is an answer;
\* otherwise the remote reconciles the identity.  An outcome nobody could get
\* leaves the handoff as it is.
Locate(found, absent) ==
  /\ \/ refused # "none" /\ absent /\ UNCHANGED there /\ Calm
     \/ /\ refused = "none" /\ there' = Sealing
        /\ IF there.id = "accepted" THEN found ELSE absent
        /\ Calm
     \/ refused = "none" /\ there' = Sealing /\ UNCHANGED rec /\ Over /\ Disturb("reply")
     \/ refused = "none" /\ UNCHANGED <<there, rec>> /\ Over /\ Disturb("request")
  /\ UNCHANGED <<refused, admits, dest>>

LocateStart ==
  /\ At("locate")
  /\ Locate(own' = [pc |-> "handle", epoch |-> there.epoch] /\ UNCHANGED rec,
            Hand(NotDelegated) /\ Goes("adopt"))

RecordHandle ==
  /\ At("handle")
  /\ Hand(handle(own.epoch))
  /\ Over
  /\ UNCHANGED <<there, admits, refused, dest, faults>>

-----------------------------------------------------------------------------
(* Runner.Adopt: run does nothing here for work that requires recoverable   *)
(* submission, but it ends what was refused for good.                       *)

AdoptRefused ==
  /\ At("adopt") /\ rec.want = "run"
  /\ rec' = IF refused = "no" THEN [rec EXCEPT !.state = "failed"] ELSE rec
  /\ Over
  /\ UNCHANGED <<there, admits, refused, dest, faults>>

AdoptCancelled ==
  /\ At("adopt") /\ rec.want = "cancel"
  /\ rec' = [rec EXCEPT !.state = "cancelled"]
  /\ Over
  /\ UNCHANGED <<there, admits, refused, dest, faults>>

-----------------------------------------------------------------------------
(* Runner.Reconcile around Locate, Poll, Finalize and Abandon.              *)

Resolve ==
  /\ At("idle") /\ rec.state = "pending" /\ rec.deleg = Unsettled
  /\ Locate(Hand(handle(there.epoch)) /\ Over,
            Hand(NotDelegated) /\ Over)

\* Mutants: an identity of a lost history is waited for; a cancel is told to
\* nobody.
PollWaiting(e) == IF e # there.epoch THEN "running" ELSE there.work
AbandonNothing == there

\* An identity the remote does not know is gone.
Poll(e) == IF e # there.epoch \/ there.id # "accepted" THEN "gone" ELSE there.work

\* A remote that cannot be asked leaves everything as it is.
Unheard == UNCHANGED <<rec, own, dest>>

Held == rec.deleg.st = "held"
HeldEpoch == rec.deleg.epoch

Observe ==
  /\ At("idle") /\ rec.state = "pending" /\ Held /\ rec.want = "run"
  /\ \/ /\ CASE Poll(HeldEpoch) = "running"  -> UNCHANGED <<rec, own, dest>>
             [] Poll(HeldEpoch) = "complete" ->
                  own' = [pc |-> "read", epoch |-> HeldEpoch] /\ dest' = 0 /\ UNCHANGED rec
             [] OTHER -> Hand(NotDelegated) /\ UNCHANGED <<own, dest>>
        /\ Calm
     \/ Unheard /\ Disturb("request")
  /\ UNCHANGED <<there, admits, refused>>

\* FinalizeReporting, a chunk at a time into a file it cut to nothing.  What
\* goes wrong leaves a short file and the record as it was.
ReadChunk ==
  /\ At("read")
  /\ IF Poll(own.epoch) = "complete"
     THEN \/ /\ dest' = dest + 1
             /\ IF dest' = Chunks THEN Goes("mark") ELSE UNCHANGED own
             /\ Calm
          \/ UNCHANGED dest /\ Over /\ Disturb("reply")
     ELSE UNCHANGED dest /\ Over /\ Calm
  /\ UNCHANGED <<rec, there, admits, refused>>

\* The digest matched; the record says so.
Mark ==
  /\ At("mark")
  /\ rec' = [rec EXCEPT !.state = "transferred"]
  /\ Over
  /\ UNCHANGED <<there, admits, refused, dest, faults>>

\* CancelWork: intent over there, which stops work that is not over; then the
\* record.
Abandon ==
  IF HeldEpoch = there.epoch /\ there.work = "running"
  THEN [there EXCEPT !.work = "cancelled"] ELSE there

CancelThere ==
  /\ At("idle") /\ rec.state = "pending" /\ Held /\ rec.want = "cancel"
  /\ \/ there' = Abandon /\ Goes("cancel") /\ Calm
     \/ there' = Abandon /\ UNCHANGED own /\ Disturb("reply")
     \/ UNCHANGED <<there, own>> /\ Disturb("request")
  /\ UNCHANGED <<rec, admits, refused, dest>>

CancelHere ==
  /\ At("cancel")
  /\ rec' = [rec EXCEPT !.state = "cancelled", !.deleg = NotDelegated]
  /\ Over
  /\ UNCHANGED <<there, admits, refused, dest, faults>>

-----------------------------------------------------------------------------

SetWant(w) ==
  /\ rec.want # w /\ rec.state = "pending" /\ Disturb("cancel")
  /\ rec' = [rec EXCEPT !.want = w]
  /\ UNCHANGED <<there, admits, refused, dest, own>>

\* The next process remembers no refusal.
Crash ==
  /\ Disturb("crash")
  /\ Over /\ refused' = "none"
  /\ UNCHANGED <<rec, there, admits, dest>>

Init ==
  /\ rec = [deleg |-> NotDelegated, state |-> "pending", want |-> "run"]
  /\ there = NewHistory(1)
  /\ admits \in {"yes"} \cup (Kinds \cap {"no", "unavailable"})
  /\ refused = "none"
  /\ dest = 0
  /\ own = Idle
  /\ faults = [left |-> MaxFaults, seen |-> {admits} \ {"yes"}]

Sweep ==
  \/ Handoff \/ Window \/ Submit \/ LocateStart \/ RecordHandle
  \/ AdoptRefused \/ AdoptCancelled
  \/ Resolve \/ Observe \/ ReadChunk \/ Mark \/ CancelThere \/ CancelHere

Next ==
  \/ Sweep \/ RemoteStep \/ RemoteChange \/ Crash
  \/ \E w \in {"run", "cancel"} : SetWant(w)

Spec == Init /\ [][Next]_vars

\* The service sweeps, and the remote finishes what it runs.
FairSpec == Spec /\ WF_vars(Sweep) /\ WF_vars(RemoteStep /\ Calm)

-----------------------------------------------------------------------------
(* Properties.                                                              *)

PCs == {"idle", "window", "submit", "locate", "handle", "adopt", "read", "mark", "cancel"}

\* Every variable stays in its range.
TypeOK ==
  /\ rec \in [deleg : {NotDelegated, Unsettled} \cup {handle(e) : e \in 1..Epochs},
              state : {"pending", "transferred", "failed", "cancelled"},
              want : {"run", "cancel"}]
  /\ there \in [epoch : 1..Epochs, id : {"absent", "accepted", "sealed"},
                work : {"none", "running", "complete", "failed", "cancelled"}]
  /\ admits \in {"yes", "no", "unavailable"} /\ refused \in {"none", "no", "unavailable"}
  /\ dest \in 0..Chunks
  /\ own \in [pc : PCs, epoch : 0..Epochs]
  /\ faults \in [left : 0..MaxFaults, seen : SUBSET Kinds]

\* Work the remote runs can be found again from the record, whatever answers
\* were lost, whoever died and whatever the record became: unless an admission
\* that was only unavailable is remembered as its last word.
NoneForgotten ==
  /\ TypeOK
  /\ there.work = "running" /\ "unavailable" \notin faults.seen
       => rec.deleg \in {Unsettled, handle(there.epoch)}

\* Why: nobody hands the work over but under a handoff the record tells of, a
\* process that remembers a refusal has nothing running over there, and work of
\* a lost history is not running.
Whereabouts ==
  /\ NoneForgotten
  /\ there.work = "running" => there.id = "accepted"
  /\ "unavailable" \in {admits, refused} => "unavailable" \in faults.seen
  /\ own.pc \in {"window", "submit", "locate", "handle"} => rec.deleg = Unsettled
  /\ refused = "no" =>
       /\ there.work # "running" \/ "unavailable" \in faults.seen
       /\ own.pc \in {"locate", "adopt"} \/ (At("idle") /\ rec.state # "pending")
  /\ own.pc \in {"adopt", "cancel"} =>
       there.work # "running" \/ "unavailable" \in faults.seen
  /\ own.pc \in {"submit", "handle", "read"} => own.epoch \in 1..there.epoch
  /\ At("handle") /\ there.work = "running" => own.epoch = there.epoch
  /\ own.pc \in {"read", "mark", "cancel"} => Held
  /\ At("read") => dest < Chunks

\* Wanted work ends, delivered or refused, unless the remote's admission
\* cannot answer or the remote failed the one identity the record has.
Ended ==
  []<>(rec.state # "pending" \/ rec.want # "run" \/ admits = "unavailable"
       \/ there.work \in {"failed", "cancelled"})
=============================================================================
