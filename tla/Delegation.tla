----------------------------- MODULE Delegation -----------------------------
(***************************************************************************)
(* One record handed to a system outside the process (BITS, a NAS, a       *)
(* remote job service) and brought back: Runner.Delegate, Runner.Reconcile *)
(* and what they call in go/delegator.go, the sweep of go/serve/pass.go    *)
(* that calls them, and the in-process run that takes the work when nobody *)
(* else will.                                                              *)
(*                                                                         *)
(* Several supervisors share the record.  A supervisor's steps are split   *)
(* at every call of the store or of the external system.  An external      *)
(* system keeps the jobs it accepted whatever happens to the processes     *)
(* that asked; its answers can be lost.  The epoch of a claim is never     *)
(* compared by size, so it is kept as two facts of each process: whether   *)
(* its own claim is still the last (own.cur), and whether nobody claimed   *)
(* since it loaded the record (own.fresh).                                 *)
(***************************************************************************)
EXTENDS JobStore, FiniteSets, Sequences

CONSTANTS
  Supervisors, \* processes that sweep the store
  Systems,     \* external systems
  Known,       \* Known[s]: the systems registered in process s
  Locators,    \* systems that can say what they did with a request
  Suspenders,  \* systems that can pause work
  Resuming,    \* systems that promise to continue from proven bytes
  Liars,       \* those of them that start again from zero
  Hopeless,    \* systems that fail every job they take
  Releasing,   \* systems that forget a job once Finalize handed it over
  Handles,     \* handles the systems give out: a bound on external jobs
  Request,     \* the record's own id, which names the request
  None,
  Sources,     \* how many sources of the spec a delegate is asked about
  MaxFaults,   \* how many disturbances a behaviour has, of any kind
  Stalls,      \* a lease may lapse under a process that is still working
  Refusals,    \* an Abandon may fail
  Leaks,       \* and one that nobody makes again
  Overlap,     \* a sweep may ask about a handoff another process is making
  Ends         \* Runner.Terminal ends a digest mismatch (the service profile)

ASSUME DelegationAssumption ==
  /\ Known \in [Supervisors -> SUBSET Systems]
  /\ Locators \subseteq Systems /\ Suspenders \subseteq Systems
  /\ Liars \subseteq Resuming /\ Resuming \subseteq Systems
  /\ Releasing \subseteq Systems /\ Hopeless \subseteq Systems
  /\ Request \notin Handles /\ None \notin Handles /\ Request # None
  /\ None \notin Systems /\ None \notin Supervisors
  /\ Sources \in Nat \ {0} /\ MaxFaults \in Nat
  /\ Stalls \in BOOLEAN /\ Refusals \in BOOLEAN /\ Leaks \in BOOLEAN
  /\ Overlap \in BOOLEAN
  /\ Ends \in BOOLEAN

VARIABLES
  rec,    \* the record in the store
  ext,    \* what became of each handle in the system that gave it out
  final,  \* the file at the destination: "none", "good" or "bad" bytes
  own,    \* where each supervisor is and what it holds in memory
  doubt,  \* doubt[s]: systems s caught fetching from zero (Disbelieve)
  told,   \* told[s]: handles s told to stop (Runner.abandoned)
  faults  \* disturbances left, and whether a job was leaked

vars == <<rec, ext, final, own, doubt, told, faults>>
memory == <<doubt, told>>

-----------------------------------------------------------------------------
(* The record and who may write it.                                         *)

NotDelegated == [sys |-> None, ext |-> None, delivered |-> FALSE]
Delegated(r) == r.deleg # NotDelegated
Unsettled(r) == r.deleg.ext = Request
HandedTo(x, e) == [sys |-> x, ext |-> e, delivered |-> FALSE]

\* serve.Pass: the stages of a sweep, in their order.
Stages == <<"reconcile", "delegate", "adopt", "deliver">>

Idle == [pc    |-> "idle",
         turn  |-> 1,      \* the stage of the sweep it is at
         cur   |-> FALSE,  \* its claim is still the last one
         fresh |-> FALSE,  \* nobody claimed since it loaded the record
         seen  |-> NotDelegated, \* the delegation it loaded
         state |-> "pending",    \* the state it loaded
         want  |-> "run",        \* the intent it read when it claimed
         sys   |-> None,   \* the system it is handing the work to
         ext   |-> None,   \* the handle it got
         said  |-> "none", \* what the system answered
         left  |-> 0]      \* sources it has not offered yet

Become(s, o) == own' = [own EXCEPT ![s] = o]
At(s, p)     == own[s].pc = p
Goes(s, p)   == Become(s, [own[s] EXCEPT !.pc = p])

\* A new piece of work of this stage, nothing remembered; the stage is over.
Fresh(s)  == [Idle EXCEPT !.turn = own[s].turn]
Moved(s)  == [Idle EXCEPT !.turn = (own[s].turn % Len(Stages)) + 1]
Over(s)   == Become(s, Moved(s))
Turn(s, st) == At(s, "idle") /\ Stages[own[s].turn] = st

\* The store lets an owner claim again what it already holds.
MayClaim(s) == ~Terminal(rec.state) /\ (rec.live => rec.holder = s)

\* Store.Claim by s, which goes on as o.
Claims(s, o) ==
  /\ rec' = [rec EXCEPT !.state  = IF @ = "pending" THEN "running" ELSE @,
                        !.live   = TRUE,
                        !.holder = s]
  /\ own' = [t \in Supervisors |->
               IF t = s THEN [o EXCEPT !.cur = TRUE, !.want = rec.want]
                        ELSE [own[t] EXCEPT !.cur = FALSE, !.fresh = FALSE]]

\* Store.Update, Renew and Release are refused for a claim that is not the
\* last, for a lapsed lease and for finished work.
MayWrite(s) == rec.live /\ own[s].cur /\ ~Terminal(rec.state)

\* Store.Release.  Delegated work keeps the state it is in.
LetGo(r) ==
  [r EXCEPT !.live = FALSE, !.holder = None,
            !.state = IF @ = "running" /\ ~Delegated(r) THEN "pending" ELSE @]

Disturb == faults.left > 0 /\ faults' = [faults EXCEPT !.left = @ - 1]
Calm    == UNCHANGED faults
Leak    == Leaks /\ faults.left > 0 /\ faults' = [left |-> faults.left - 1, leaked |-> TRUE]

-----------------------------------------------------------------------------
(* The external systems.                                                    *)

Nothing == [sys |-> None, st |-> "none", good |-> FALSE, low |-> FALSE]

\* A job that is moving bytes or holding them for a requester.
Active(e) == ext[e].st \in {"running", "suspended", "transferred"}

Held(x) == {e \in Handles : ext[e].sys = x /\ Active(e)}

Sets(e, st) == ext' = [ext EXCEPT ![e].st = st]

\* Delegator.Abandon stops a job that is still there, and is a no-op for one
\* that is not.
Stopped(e) ==
  ext' = [ext EXCEPT ![e].st = IF Active(e) THEN "stopped" ELSE @]

\* A handle nobody has any more.
Unheld(e) == rec.deleg.ext # e /\ \A s \in Supervisors : own[s].ext # e /\ own[s].seen.ext # e

ExternalStep(e) ==
  /\ \/ /\ ext[e].st = "running" /\ ext[e].sys \notin Hopeless
        /\ Sets(e, "transferred") /\ Calm
     \/ /\ ext[e].st \in {"running", "suspended"} /\ Sets(e, "failed")
        /\ IF ext[e].sys \in Hopeless THEN Calm ELSE Disturb
     \/ /\ ext[e].st = "failed" /\ ext[e].sys \in Hopeless /\ Unheld(e)
        /\ ext' = [ext EXCEPT ![e] = Nothing] /\ Calm
     \/ Active(e) /\ Sets(e, "gone") /\ Disturb
  /\ UNCHANGED <<rec, final, own, memory>>

-----------------------------------------------------------------------------
(* Runner.Delegate, from DelegateAll's list to the handle on the record.    *)

\* Mutant: work already in somebody's hands is offered to another.
AnyOrphan(r) == Orphan(r)

Offerable(r) == Orphan(r) /\ ~Delegated(r)

\* DelegateAll reads Store.Orphans and goes through what it read.
ListWork(s) ==
  /\ Turn(s, "delegate") /\ Known[s] # {} /\ Offerable(rec)
  /\ Become(s, [Fresh(s) EXCEPT !.pc = "listed"])
  /\ UNCHANGED <<rec, ext, final, memory, faults>>

\* What it claims may no longer be what was listed.
AfterClaim(r) == IF Delegated(r) THEN "release" ELSE "offer"

DelegateClaim(s) ==
  /\ At(s, "listed")
  /\ IF MayClaim(s)
     THEN Claims(s, [Fresh(s) EXCEPT !.pc = AfterClaim(rec), !.left = Sources])
     ELSE Over(s) /\ UNCHANGED rec
  /\ UNCHANGED <<ext, final, memory, faults>>

\* Delegators.suits: proven bytes go only to a system that promises to resume
\* and was not caught starting over.
Suits(s, x) == rec.proven => x \in Resuming /\ x \notin doubt[s]

\* The next source is offered.  For a system that can be asked later, the
\* handoff is on the record before the work is.
Offer(s) ==
  /\ At(s, "offer") /\ own[s].left > 0
  /\ \E x \in Known[s] :
       /\ Suits(s, x)
       /\ IF x \notin Locators
          THEN Become(s, [own[s] EXCEPT !.pc = "start", !.sys = x, !.left = @ - 1])
               /\ UNCHANGED rec
          ELSE IF MayWrite(s)
          THEN /\ rec' = [rec EXCEPT !.deleg = HandedTo(x, Request), !.state = "running"]
               /\ Become(s, [own[s] EXCEPT !.pc = "start", !.sys = x, !.left = @ - 1])
          ELSE Goes(s, "release") /\ UNCHANGED rec
  /\ UNCHANGED <<ext, final, memory, faults>>

\* No source left, a source nobody here can serve, or bytes the store already
\* has: the lease goes back and the adopting pass gets the work.
OfferNothing(s) ==
  /\ At(s, "offer")
  /\ Goes(s, "release")
  /\ UNCHANGED <<rec, ext, final, memory, faults>>

\* Delegator.Start takes the work on: from here the job exists, whoever learns
\* of it.  Only a system that can be asked later may lose the answer: that is
\* the obligation the interface states on Start.
StartAccepted(s) ==
  /\ At(s, "start")
  /\ \E e \in Handles, good, lost \in BOOLEAN :
       /\ ext[e] = Nothing
       /\ ext' = [ext EXCEPT ![e] = [sys |-> own[s].sys, st |-> "running", good |-> good,
                                     low |-> rec.proven /\ own[s].sys \in Liars]]
       /\ lost => own[s].sys \in Locators
       /\ IF lost THEN Goes(s, "locate")
          ELSE Become(s, [own[s] EXCEPT !.pc = "handle", !.ext = e])
       /\ IF lost \/ ~good THEN Disturb ELSE Calm
  /\ UNCHANGED <<rec, final, memory>>

StartRefused(s) ==
  /\ At(s, "start")
  /\ Goes(s, "locate")
  /\ UNCHANGED <<rec, ext, final, memory, faults>>

\* A system that answers with the request itself is told to stop at once.
StartEchoed(s) ==
  /\ At(s, "start") /\ Disturb
  /\ Goes(s, "release")
  /\ UNCHANGED <<rec, ext, final, memory>>

\* Mutant: a Start without an answer was refused.
TakenAtItsWord(s) == Goes(s, "unhand") /\ Calm

(***************************************************************************)
(* located: Locate after a Start that failed.  A system that cannot be     *)
(* asked is taken at its word; an error leaves the outcome unknown.        *)
(***************************************************************************)
Located(s) ==
  \/ own[s].sys \notin Locators /\ Goes(s, "offer") /\ Calm
  \/ own[s].sys \in Locators /\ Goes(s, "release") /\ Disturb
  \/ /\ own[s].sys \in Locators /\ Held(own[s].sys) = {}
     /\ Goes(s, "unhand") /\ Calm
  \/ /\ own[s].sys \in Locators
     /\ \E e \in Held(own[s].sys) : Become(s, [own[s] EXCEPT !.pc = "handle", !.ext = e])
     /\ Calm

LocateStart(s) ==
  /\ At(s, "locate")
  /\ Located(s)
  /\ UNCHANGED <<rec, ext, final, memory>>

\* Mutant: the checkpoint goes with the handle.
TakenBackEmpty(r) == [r EXCEPT !.deleg = NotDelegated, !.state = "pending", !.proven = FALSE]

TakenBack(r) == [r EXCEPT !.deleg = NotDelegated, !.state = "pending"]

\* Runner.unhand, then the next source.
Unhand(s) ==
  /\ At(s, "unhand")
  /\ IF MayWrite(s)
     THEN rec' = TakenBack(rec) /\ Goes(s, "offer")
     ELSE UNCHANGED rec /\ Goes(s, "release")
  /\ UNCHANGED <<ext, final, memory, faults>>

\* The handle goes on the record; when that is refused the work is cancelled,
\* and a refused cancel is a leak.
RecordHandle(s) ==
  /\ At(s, "handle")
  /\ IF MayWrite(s)
     THEN /\ rec' = [rec EXCEPT !.deleg = HandedTo(own[s].sys, own[s].ext), !.state = "running"]
          /\ Goes(s, "release")
          /\ UNCHANGED ext /\ Calm
     ELSE /\ Over(s) /\ UNCHANGED rec
          /\ \/ Stopped(own[s].ext) /\ Calm
             \/ Leak /\ UNCHANGED ext
  /\ UNCHANGED <<final, memory>>

Release(s) ==
  /\ At(s, "release")
  /\ rec' = IF MayWrite(s) THEN LetGo(rec) ELSE rec
  /\ Over(s)
  /\ UNCHANGED <<ext, final, memory, faults>>

-----------------------------------------------------------------------------
(* Runner.Reconcile: load, ask the system, claim, act on the answer.        *)

\* Mutant: delivered work is asked about again.
BusinessAgain(s) ==
  IF ~Delegated(rec) \/ Terminal(rec.state) \/ rec.deleg.sys \notin Known[s] THEN "nothing"
  ELSE IF rec.want # "run" THEN "honour" ELSE IF Unsettled(rec) THEN "settle" ELSE "poll"

\* What Reconcile finds to do with the record it loaded.  A handoff nobody
\* settled comes first, then finished work whose system was not told, then
\* what somebody asked for.
Business(s) ==
  LET known == rec.deleg.sys \in Known[s]
      said  == rec.note = "stranded"
  IN  IF ~Delegated(rec) \/ rec.deleg.delivered \/ rec.state = "transferred" THEN "nothing"
      ELSE IF Unsettled(rec) /\ ~Overlap /\ rec.live /\ rec.holder # s THEN "nothing"
      ELSE IF Unsettled(rec)
           THEN IF known THEN "settle" ELSE IF said THEN "nothing" ELSE "stranded"
      ELSE IF Terminal(rec.state)
           THEN IF known /\ rec.deleg.ext \notin told[s] THEN "tell" ELSE "nothing"
      ELSE IF rec.want # "run" THEN IF known THEN "honour" ELSE "nothing"
      ELSE IF known THEN "poll" ELSE IF said THEN "nothing" ELSE "stranded"

Load(s) ==
  /\ Turn(s, "reconcile") /\ Business(s) # "nothing"
  /\ Become(s, [Fresh(s) EXCEPT
       !.fresh = TRUE, !.seen = rec.deleg, !.state = rec.state, !.said = Business(s),
       !.pc = CASE Business(s) \in {"settle", "poll"} -> "ask"
                [] Business(s) = "tell" -> "tell"
                [] OTHER -> "claim"])
  /\ UNCHANGED <<rec, ext, final, memory, faults>>

\* Runner.abandonDelegated: once per process, since the record cannot say so.
Tell(s) ==
  /\ At(s, "tell")
  /\ Over(s)
  /\ \/ /\ Stopped(own[s].seen.ext) /\ Calm
        /\ told' = [told EXCEPT ![s] = @ \cup {own[s].seen.ext}]
     \/ Refusals /\ Disturb /\ UNCHANGED <<ext, told>>
  /\ UNCHANGED <<rec, final, doubt>>

\* What Poll answers for a handle.
PollSays(e) ==
  CASE ext[e].st = "running"     -> IF ext[e].low THEN {"running", "lied"} ELSE {"running"}
    [] ext[e].st = "suspended"   -> {"suspended"}
    [] ext[e].st = "transferred" -> {"transferred"}
    [] ext[e].st = "failed"      -> {"failed"}
    [] ext[e].st = "done"        -> {"transferred"}
    [] OTHER                     -> {"gone"}

\* Runner.resolve's Locate, or Poll.  Neither takes the lease.
Ask(s) ==
  /\ At(s, "ask")
  /\ LET o == own[s] IN
     \/ /\ o.said = "settle"
        /\ \/ Held(o.seen.sys) = {} /\ Become(s, [o EXCEPT !.pc = "claim", !.ext = None])
           \/ \E e \in Held(o.seen.sys) : Become(s, [o EXCEPT !.pc = "claim", !.ext = e])
     \/ /\ o.said = "poll"
        /\ \E a \in PollSays(o.seen.ext) :
             Become(s, IF a = "suspended" /\ o.seen.sys \notin Suspenders THEN Moved(s)
                       ELSE [o EXCEPT !.pc = "claim", !.ext = o.seen.ext, !.said = a])
  /\ UNCHANGED <<rec, ext, final, memory, faults>>

\* The system cannot be reached.
AskFails(s) ==
  /\ At(s, "ask") /\ Disturb
  /\ Over(s)
  /\ UNCHANGED <<rec, ext, final, memory>>

\* Mutant: an answer is acted on whatever happened to the record since.
SameRecord(s) == Delegated(rec)

\* What claimDelegation accepts: nobody claimed since the record was loaded,
\* and its holder left state and delegation as they were.
AsSeen(s) ==
  /\ own[s].fresh
  /\ rec.deleg = own[s].seen
  /\ rec.state = own[s].state

\* Mutant: what somebody asked for gives the lease back like any other answer.
NextWanted(s) ==
  IF rec.want # "run" THEN "release" ELSE own[s].said

\* The next step, given what was asked and the intent read with the claim.
\* Only the settling of a handoff and the note go on whatever is wanted.
NextStep(s) ==
  LET said == own[s].said IN
  IF said \in {"settle", "stranded", "honour", "lied"} THEN said
  ELSE IF rec.want # "run" THEN "release"
  ELSE said

(***************************************************************************)
(* Runner.claimDelegation.  A store that compares refuses a claim of       *)
(* anything else outright; any other store grants it and it is given back. *)
(***************************************************************************)
ClaimDelegation(s) ==
  /\ At(s, "claim")
  /\ IF ~MayClaim(s) THEN Over(s) /\ UNCHANGED rec
     ELSE IF AsSeen(s) THEN Claims(s, [own[s] EXCEPT !.pc = NextStep(s)])
     ELSE \/ Over(s) /\ UNCHANGED rec
          \/ Claims(s, [own[s] EXCEPT !.pc = "release"])
  /\ doubt' = IF own[s].said = "lied" THEN [doubt EXCEPT ![s] = @ \cup {own[s].seen.sys}]
              ELSE doubt
  /\ UNCHANGED <<ext, final, told, faults>>

\* resolve: there is no such work, or it has this handle.
Settle(s) ==
  /\ At(s, "settle")
  /\ rec' = IF ~MayWrite(s) THEN rec
            ELSE IF own[s].ext = None THEN TakenBack(rec)
            ELSE [rec EXCEPT !.deleg.ext = own[s].ext]
  /\ Goes(s, "release")
  /\ UNCHANGED <<ext, final, memory, faults>>

\* Runner.stranded: said once, on the record.
Note(s) ==
  /\ At(s, "stranded")
  /\ rec' = IF MayWrite(s) THEN [rec EXCEPT !.note = "stranded"] ELSE rec
  /\ Goes(s, "release")
  /\ UNCHANGED <<ext, final, memory, faults>>

\* Still at it: only the progress is written.
StillRunning(s) ==
  /\ At(s, "running")
  /\ Goes(s, "release")
  /\ UNCHANGED <<rec, ext, final, memory, faults>>

\* Mutant: a sweep that sees suspended work takes it to be going.
CarryOnAlone(s) ==
  /\ At(s, "suspended")
  /\ Goes(s, "release")
  /\ UNCHANGED <<rec, ext, final, memory, faults>>

\* Suspended although run is wanted: ask the system to carry on.
CarryOn(s) ==
  /\ At(s, "suspended")
  /\ \/ /\ ext' = [ext EXCEPT ![own[s].ext].st = IF @ = "suspended" THEN "running" ELSE @]
        /\ Calm
     \/ Disturb /\ UNCHANGED ext
  /\ Goes(s, "release")
  /\ UNCHANGED <<rec, final, memory>>

\* Failed or gone: the work is ours again, the checkpoint as it was.
HandBack(s) ==
  /\ At(s, "failed") \/ At(s, "gone")
  /\ rec' = IF MayWrite(s)
            THEN [TakenBack(rec) EXCEPT !.note = IF At(s, "failed") THEN "failure" ELSE @]
            ELSE rec
  /\ Goes(s, "release")
  /\ UNCHANGED <<ext, final, memory, faults>>

\* Runner.restarted: the system is doubted from now on, its job is stopped,
\* and the proven bytes come back with the work.
StartedOver(s) ==
  /\ At(s, "lied")
  /\ \/ Stopped(own[s].ext) /\ Calm
     \/ Leak /\ UNCHANGED ext
  /\ rec' = IF MayWrite(s) THEN [TakenBack(rec) EXCEPT !.note = "failure"] ELSE rec
  /\ Goes(s, "release")
  /\ UNCHANGED <<final, memory>>

(***************************************************************************)
(* Finalize: the bytes reach the destination, checked by nobody yet.  An   *)
(* error leaves the lease held.                                            *)
(***************************************************************************)
Finalize(s) ==
  /\ At(s, "transferred")
  /\ \/ /\ ext[own[s].ext].st \in {"transferred", "done"}
        /\ final' = IF ext[own[s].ext].good THEN "good" ELSE "bad"
        /\ Sets(own[s].ext, IF ext[own[s].ext].sys \in Releasing THEN "released" ELSE "done")
        /\ Goes(s, "verify") /\ Calm
     \/ /\ IF ext[own[s].ext].st \in {"transferred", "done"} THEN Disturb ELSE Calm
        /\ Over(s) /\ UNCHANGED <<ext, final>>
  /\ UNCHANGED <<rec, memory>>

\* hashFile over what was delivered.
Verify(s) ==
  /\ At(s, "verify")
  /\ \/ Become(s, [own[s] EXCEPT !.pc = "mark", !.said = final]) /\ Calm
     \/ Over(s) /\ Disturb
  /\ UNCHANGED <<rec, ext, final, memory>>

\* Mutant: the record says transferred whatever the hash was.
MarkedDelivered(s) ==
  [rec EXCEPT !.state = "transferred", !.deleg.delivered = TRUE, !.proven = TRUE, !.note = "none"]

Marked(s) ==
  IF own[s].said = "good"
  THEN [rec EXCEPT !.state = "transferred", !.deleg.delivered = TRUE, !.proven = TRUE,
                   !.note = "none"]
  ELSE [rec EXCEPT !.state = IF Ends THEN "failed" ELSE "pending",
                   !.deleg = NotDelegated, !.proven = FALSE, !.note = "failure"]

\* The write that ends the delivery, which does not give the lease back.
Mark(s) ==
  /\ At(s, "mark")
  /\ rec' = IF MayWrite(s) THEN Marked(s) ELSE rec
  /\ Over(s)
  /\ UNCHANGED <<ext, final, memory, faults>>

-----------------------------------------------------------------------------
(* honourDelegated: what somebody asked for, of work this process does not  *)
(* perform.                                                                 *)

\* Mutant: the record is cancelled and the system is not told.
CancelLast(s) ==
  /\ At(s, "honour") /\ own[s].want = "cancel"
  /\ Goes(s, "cancel")
  /\ UNCHANGED <<rec, ext, final, memory, faults>>

\* Cancel reaches the system first; a refused cancel keeps the lease.
CancelThere(s) ==
  /\ At(s, "honour") /\ own[s].want = "cancel"
  /\ \/ Stopped(own[s].seen.ext) /\ Goes(s, "cancel") /\ Calm
     \/ Refusals /\ Disturb /\ Over(s) /\ UNCHANGED ext
  /\ UNCHANGED <<rec, final, memory>>

CancelHere(s) ==
  /\ At(s, "cancel")
  /\ rec' = IF MayWrite(s)
            THEN [rec EXCEPT !.state = "cancelled", !.deleg = NotDelegated, !.note = "none"]
            ELSE rec
  /\ Over(s)
  /\ UNCHANGED <<ext, final, memory, faults>>

\* A system that cannot pause says so on the record and carries on.
Pause(s) ==
  /\ At(s, "honour") /\ own[s].want = "pause"
  /\ IF rec.deleg.sys \in Suspenders
     THEN /\ \/ /\ ext' = [ext EXCEPT ![own[s].seen.ext].st = IF @ = "running" THEN "suspended" ELSE @]
                /\ Goes(s, "release") /\ Calm
             \/ Disturb /\ Over(s) /\ UNCHANGED ext
          /\ UNCHANGED rec
     ELSE /\ rec' = IF MayWrite(s) THEN [rec EXCEPT !.note = "failure"] ELSE rec
          /\ Goes(s, "release")
          /\ UNCHANGED ext /\ Calm
  /\ UNCHANGED <<final, memory>>

\* Run is wanted after all.
NothingToHonour(s) ==
  /\ At(s, "honour") /\ own[s].want = "run"
  /\ Goes(s, "release")
  /\ UNCHANGED <<rec, ext, final, memory, faults>>

-----------------------------------------------------------------------------
(* Runner.Adopt and Runner.Run, as far as they concern who has the work.    *)
(* The transfer itself is module Runner's subject.                          *)

\* Adopt goes through a list of orphans it read once; a long run may lie
\* between the reading and an item's turn.
ListOrphan(s) ==
  /\ Turn(s, "adopt") /\ Offerable(rec)
  /\ Become(s, [Fresh(s) EXCEPT !.pc = "orphan"])
  /\ UNCHANGED <<rec, ext, final, memory, faults>>

\* Runner.Run takes whatever the record has become meanwhile.
RunClaim(s) ==
  /\ At(s, "orphan")
  /\ IF MayClaim(s)
     THEN Claims(s, [Fresh(s) EXCEPT !.pc = IF rec.want = "run" THEN "local" ELSE "asked"])
     ELSE Over(s) /\ UNCHANGED rec
  /\ UNCHANGED <<ext, final, memory, faults>>

\* A checkpoint.
LocalProgress(s) ==
  /\ At(s, "local") /\ MayWrite(s) /\ ~rec.proven
  /\ rec' = [rec EXCEPT !.proven = TRUE, !.note = "none"]
  /\ UNCHANGED <<ext, final, own, memory, faults>>

\* The intent observer stopped the transfer.
LocalAsked(s) ==
  /\ At(s, "local") /\ rec.want # "run"
  /\ Become(s, [own[s] EXCEPT !.pc = "asked", !.want = rec.want])
  /\ UNCHANGED <<rec, ext, final, memory, faults>>

\* Runner.honour, and Run's release.
LocalHonour(s) ==
  /\ At(s, "asked")
  /\ IF own[s].want = "cancel"
     THEN /\ rec' = IF MayWrite(s) THEN [rec EXCEPT !.state = "cancelled", !.note = "none"]
                    ELSE rec
          /\ Over(s)
     ELSE Goes(s, "release") /\ UNCHANGED rec
  /\ UNCHANGED <<ext, final, memory, faults>>

LocalFail(s) ==
  /\ At(s, "local") /\ Disturb
  /\ rec' = IF MayWrite(s) THEN [rec EXCEPT !.note = "failure"] ELSE rec
  /\ Goes(s, "release")
  /\ UNCHANGED <<ext, final, memory>>

\* The keeper finds the lease gone and stops the work.
LocalFenced(s) ==
  /\ At(s, "local") /\ ~MayWrite(s)
  /\ Over(s)
  /\ UNCHANGED <<rec, ext, final, memory, faults>>

\* The digest matched; deliver put the file at its destination.
LocalDeliver(s) ==
  /\ At(s, "local") /\ MayWrite(s)
  /\ final' = "good"
  /\ Goes(s, "placed")
  /\ UNCHANGED <<rec, ext, memory, faults>>

LocalMark(s) ==
  /\ At(s, "placed")
  /\ rec' = IF MayWrite(s)
            THEN [rec EXCEPT !.state = "transferred", !.proven = TRUE, !.note = "none"]
            ELSE rec
  /\ Goes(s, "release")
  /\ UNCHANGED <<ext, final, memory, faults>>

\* TakeDeliveryAll and TakeDelivery.
TakeClaim(s) ==
  /\ Turn(s, "deliver") /\ rec.state = "transferred" /\ MayClaim(s)
  /\ Claims(s, [Fresh(s) EXCEPT !.pc = "take"])
  /\ UNCHANGED <<ext, final, memory, faults>>

Take(s) ==
  /\ At(s, "take")
  /\ rec' = IF MayWrite(s) THEN [rec EXCEPT !.state = "complete"] ELSE rec
  /\ Over(s)
  /\ UNCHANGED <<ext, final, memory, faults>>

\* Nothing for this stage to do.
Pass(s) ==
  /\ At(s, "idle") /\ Over(s)
  /\ CASE Stages[own[s].turn] = "reconcile" ->
            Business(s) = "nothing"
       [] Stages[own[s].turn] = "delegate" -> Known[s] = {} \/ ~Offerable(rec)
       [] Stages[own[s].turn] = "adopt"    -> ~Offerable(rec)
       [] OTHER -> rec.state # "transferred" \/ ~MayClaim(s)
  /\ UNCHANGED <<rec, ext, final, memory, faults>>

-----------------------------------------------------------------------------
(* What happens around them.                                                *)

SetWant(w) ==
  /\ rec.want # w /\ ~Terminal(rec.state) /\ Disturb
  /\ rec' = [rec EXCEPT !.want = w]
  /\ UNCHANGED <<ext, final, own, memory>>

\* A lease its holder does not work under passes its end; one it does work
\* under only when the process stalls.
Lapse ==
  /\ rec.live
  /\ IF rec.holder # None /\ own[rec.holder].pc # "idle"
     THEN Stalls /\ Disturb
     ELSE Calm
  /\ rec' = [rec EXCEPT !.live = FALSE, !.holder = None]
  /\ UNCHANGED <<ext, final, own, memory>>

\* The successor of a process has a name of its own and remembers nothing.
Crash(s) ==
  /\ Disturb
  /\ Become(s, Idle)
  /\ rec' = [rec EXCEPT !.holder = IF @ = s THEN None ELSE @]
  /\ doubt' = [doubt EXCEPT ![s] = {}]
  /\ told' = [told EXCEPT ![s] = {}]
  /\ UNCHANGED <<ext, final>>

Init ==
  /\ rec = [state |-> "pending", live |-> FALSE, holder |-> None, want |-> "run",
            deleg |-> NotDelegated, proven |-> FALSE, note |-> "none"]
  /\ ext = [e \in Handles |-> Nothing]
  /\ final = "none"
  /\ own = [s \in Supervisors |-> Idle]
  /\ doubt = [s \in Supervisors |-> {}]
  /\ told = [s \in Supervisors |-> {}]
  /\ faults = [left |-> MaxFaults, leaked |-> FALSE]

Delegating(s) ==
  \/ ListWork(s) \/ DelegateClaim(s) \/ Offer(s) \/ OfferNothing(s)
  \/ StartAccepted(s) \/ StartRefused(s) \/ StartEchoed(s) \/ LocateStart(s)
  \/ Unhand(s) \/ RecordHandle(s)

Reconciling(s) ==
  \/ Load(s) \/ Tell(s) \/ Ask(s) \/ AskFails(s) \/ ClaimDelegation(s)
  \/ Settle(s) \/ Note(s) \/ StillRunning(s) \/ CarryOn(s) \/ HandBack(s)
  \/ StartedOver(s) \/ Finalize(s) \/ Verify(s) \/ Mark(s)
  \/ CancelThere(s) \/ CancelHere(s) \/ Pause(s) \/ NothingToHonour(s)

Adopting(s) ==
  \/ ListOrphan(s) \/ RunClaim(s) \/ LocalProgress(s) \/ LocalAsked(s)
  \/ LocalHonour(s) \/ LocalFail(s) \/ LocalFenced(s) \/ LocalDeliver(s) \/ LocalMark(s)
  \/ TakeClaim(s) \/ Take(s)

Sweep(s) == Delegating(s) \/ Reconciling(s) \/ Adopting(s) \/ Release(s) \/ Pass(s)

Next ==
  \/ \E s \in Supervisors : Sweep(s) \/ Crash(s)
  \/ \E e \in Handles : ExternalStep(e)
  \/ \E w \in Wants : SetWant(w)
  \/ Lapse

Spec == Init /\ [][Next]_vars

\* A supervisor keeps sweeping, a system finishes what it runs, and a lease
\* nobody works under ends.
Fairness ==
  /\ \A s \in Supervisors : WF_vars(Sweep(s))
  /\ \A e \in Handles : WF_vars(ExternalStep(e) /\ Calm)
  /\ WF_vars(Lapse /\ Calm)

FairSpec == Spec /\ Fairness

-----------------------------------------------------------------------------
(* Properties.                                                              *)

Delegation == [sys : Systems \cup {None}, ext : Handles \cup {Request, None},
               delivered : BOOLEAN]

PCs == {"idle", "listed", "offer", "start", "locate", "unhand", "handle", "release",
        "ask", "tell", "claim", "settle", "stranded", "running", "suspended", "failed",
        "gone", "lied", "transferred", "verify", "mark", "honour", "cancel",
        "orphan", "local", "asked", "placed", "take"}

Said == {"none", "nothing", "settle", "tell", "honour", "poll", "stranded", "running",
         "lied", "suspended", "transferred", "failed", "gone", "good", "bad"}

\* Every variable stays in its range.
TypeOK ==
  /\ rec \in [state : States, live : BOOLEAN, holder : Supervisors \cup {None},
              want : Wants, deleg : Delegation, proven : BOOLEAN,
              note : {"none", "failure", "stranded"}]
  /\ ext \in [Handles -> [sys : Systems \cup {None},
                          st : {"none", "running", "suspended", "transferred", "failed",
                                "gone", "stopped", "done", "released"},
                          good : BOOLEAN, low : BOOLEAN]]
  /\ final \in {"none", "good", "bad"}
  /\ own \in [Supervisors ->
       [pc : PCs, turn : 1..4, cur : BOOLEAN, fresh : BOOLEAN, seen : Delegation,
        state : States, want : Wants, sys : Systems \cup {None},
        ext : Handles \cup {None}, said : Said, left : 0..Sources]]
  /\ doubt \in [Supervisors -> SUBSET Systems]
  /\ told \in [Supervisors -> SUBSET Handles]
  /\ faults \in [left : 0..MaxFaults, leaked : BOOLEAN]

\* Who is moving bytes of this artifact right now.
Transfers == {e \in Handles : ext[e].st \in {"running", "suspended"}}
             \cup {s \in Supervisors : At(s, "local") /\ MayWrite(s)}

\* The artifact is never fetched twice at the same time, here or outside: an
\* answer that was lost, a crash or a handle gone stale starts no second
\* transfer while the first still runs.
OneTransfer == Cardinality(Transfers) <= 1

\* The supervisor between Start and the write of the handle knows the job.
Carried(e) == \E s \in Supervisors : At(s, "handle") /\ own[s].ext = e

\* Every job an external system holds can be found again, from the record or
\* by asking with the request the record keeps, unless it was leaked.
NoStray ==
  ~faults.leaked =>
    \A e \in Handles :
      Active(e) => \/ Carried(e)
                   \/ rec.deleg.sys = ext[e].sys /\ rec.deleg.ext \in {e, Request}

\* At every moment the transfers of the artifact are accounted for: there is one
\* at most, and the record leads to it.
Accounted == TypeOK /\ OneTransfer /\ NoStray

\* A record says transferred or complete only when the destination holds the
\* artifact, whoever moved the bytes and whoever had claimed them.
DeliveredGood == rec.state \in {"transferred", "complete"} => final = "good"

\* Bytes this store proved stay proven when the work comes back from a system
\* that failed, forgot it or started over; only a wrong file unproves them.
KeptProven == [][rec.proven /\ ~rec'.proven => final = "bad"]_vars

\* Wanted work ends, at home when nobody outside can do it, and a cancel is
\* carried out, unless the work was already over.
Ended ==
  /\ rec.want = "run" ~> (Terminal(rec.state) \/ rec.want # "run")
  /\ rec.want = "cancel"
       ~> (Terminal(rec.state) \/ rec.state = "transferred" \/ rec.want # "cancel")

\* No external system goes on working for a record that is over.
OverThereToo ==
  \A e \in Handles : (Terminal(rec.state) /\ Active(e)) ~> ~Active(e)

\* What the record and the systems say of who has the work.
Where ==
  IF Terminal(rec.state) THEN "over"
  ELSE IF rec.state = "transferred" THEN "delivered"
  ELSE IF Unsettled(rec) THEN "asked"
  ELSE IF Delegated(rec) THEN "there" ELSE "here"

Moving == (IF \E e \in Handles : ext[e].st \in {"running", "suspended"} THEN {"there"} ELSE {})
          \cup (IF \E s \in Supervisors : At(s, "local") /\ MayWrite(s) THEN {"here"} ELSE {})

\* With one sweeping process, every step of the sweep, the systems and the
\* faults is a step of Custody: work is in one pair of hands at a time.
C == INSTANCE Custody WITH where <- Where, moving <- Moving
InOneCustody == C!Spec
=============================================================================
