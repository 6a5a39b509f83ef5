-------------------------- MODULE DelegationProofs --------------------------
(***************************************************************************)
(* Proofs about Delegation: its type invariant; that what is recorded as   *)
(* delivered is good and proven bytes stay proven; that no external job is *)
(* lost sight of; and, for one sweeping process, that the artifact is      *)
(* moved once at a time and every step is a step of Custody.               *)
(***************************************************************************)
EXTENDS DelegationInvariant, FiniteSetTheorems, TLAPS

\* The ranges TypeOK names.
Record  == [state : States, live : BOOLEAN, holder : Supervisors \cup {None},
            want : Wants, deleg : Delegation, proven : BOOLEAN,
            note : {"none", "failure", "stranded"}]
Status  == {"none", "running", "suspended", "transferred", "failed", "gone", "stopped",
            "done", "released"}
Job     == [sys : Systems \cup {None}, st : Status, good : BOOLEAN, low : BOOLEAN]
Process == [pc : PCs, turn : 1..4, cur : BOOLEAN, fresh : BOOLEAN, seen : Delegation,
            state : States, want : Wants, sys : Systems \cup {None},
            ext : Handles \cup {None}, said : Said, left : 0..Sources]
Faults  == [left : 0..MaxFaults, leaked : BOOLEAN]

LEMMA Ranges ==
  TypeOK <=> /\ rec \in Record /\ ext \in [Handles -> Job]
             /\ final \in {"none", "good", "bad"}
             /\ own \in [Supervisors -> Process]
             /\ doubt \in [Supervisors -> SUBSET Systems]
             /\ told \in [Supervisors -> SUBSET Handles]
             /\ faults \in Faults
BY DEF TypeOK, Record, Job, Status, Process, Faults

LEMMA RangesNext ==
  TypeOK' <=> /\ rec' \in Record /\ ext' \in [Handles -> Job]
              /\ final' \in {"none", "good", "bad"}
              /\ own' \in [Supervisors -> Process]
              /\ doubt' \in [Supervisors -> SUBSET Systems]
              /\ told' \in [Supervisors -> SUBSET Handles]
              /\ faults' \in Faults
BY DEF TypeOK, Record, Job, Status, Process, Faults

-----------------------------------------------------------------------------
(* What the operators of the sweep return.                                  *)

LEMMA NextTurn ==
  ASSUME NEW n \in 1..4
  PROVE  (n % Len(Stages)) + 1 \in 1..4
<1>1. Len(Stages) = 4
  BY DEF Stages
<1> QED
  BY <1>1

LEMMA Undelegated ==
  NotDelegated \in Delegation /\ ~IsDelegation(NotDelegated)
BY DelegationAssumption DEF NotDelegated, Delegation, IsDelegation

LEMMA Begun ==
  /\ Idle \in Process
  /\ \A o \in Process :
       /\ [Idle EXCEPT !.turn = o.turn] \in Process
       /\ [Idle EXCEPT !.turn = (o.turn % Len(Stages)) + 1] \in Process
<1>1. Idle \in Process
  BY Undelegated, DelegationAssumption
     DEF Idle, Process, PCs, Said, States, Wants
<1>2. ASSUME NEW o \in Process
      PROVE  (o.turn % Len(Stages)) + 1 \in 1..4 /\ o.turn \in 1..4
  BY NextTurn DEF Process
<1> QED
  BY <1>1, <1>2 DEF Process, Idle

LEMMA Beginning ==
  ASSUME own \in [Supervisors -> Process], NEW s \in Supervisors
  PROVE  Fresh(s) \in Process /\ Moved(s) \in Process
BY Begun DEF Fresh, Moved

\* A process that moves is where it was put; the others are where they were.
LEMMA Becoming ==
  ASSUME own \in [Supervisors -> Process], NEW s \in Supervisors, NEW o, Become(s, o)
  PROVE  /\ own'[s] = o
         /\ \A t \in Supervisors \ {s} : own'[t] = own[t]
         /\ o \in Process => own' \in [Supervisors -> Process]
BY DEF Become

LEMMA Going ==
  ASSUME own \in [Supervisors -> Process], NEW s \in Supervisors, NEW p, Goes(s, p)
  PROVE  /\ \A t \in Supervisors \ {s} : own'[t] = own[t]
         /\ own'[s].pc = p /\ own'[s].cur = own[s].cur /\ own'[s].fresh = own[s].fresh
         /\ own'[s].seen = own[s].seen /\ own'[s].state = own[s].state
         /\ own'[s].sys = own[s].sys /\ own'[s].ext = own[s].ext
         /\ own'[s].said = own[s].said /\ own'[s].want = own[s].want
BY DEF Goes, Become, Process

LEMMA Leaving ==
  ASSUME own \in [Supervisors -> Process], NEW s \in Supervisors, Over(s)
  PROVE  /\ \A t \in Supervisors \ {s} : own'[t] = own[t]
         /\ own'[s].pc = "idle" /\ ~own'[s].cur /\ ~own'[s].fresh
         /\ own'[s].seen = NotDelegated /\ own'[s].ext = None
         /\ own'[s].seen.ext = None
BY DEF Over, Moved, Become, Process, Idle, NotDelegated

LEMMA ClaimTaken ==
  ASSUME rec \in Record, own \in [Supervisors -> Process], NEW s \in Supervisors,
         NEW o \in Process, Claims(s, o)
  PROVE  /\ rec' \in Record
         /\ own' \in [Supervisors -> Process]
         /\ own'[s] = [o EXCEPT !.cur = TRUE, !.want = rec.want]
         /\ \A t \in Supervisors \ {s} :
              own'[t] = [own[t] EXCEPT !.cur = FALSE, !.fresh = FALSE]
         /\ rec'.deleg = rec.deleg /\ rec'.want = rec.want
         /\ rec'.proven = rec.proven /\ rec'.note = rec.note
         /\ rec'.live /\ rec'.holder = s
         /\ rec'.state = IF rec.state = "pending" THEN "running" ELSE rec.state
<1>1. /\ own' \in [Supervisors -> Process]
      /\ own'[s] = [o EXCEPT !.cur = TRUE, !.want = rec.want]
      /\ \A t \in Supervisors \ {s} :
           own'[t] = [own[t] EXCEPT !.cur = FALSE, !.fresh = FALSE]
  BY DEF Claims, Record, Process
<1>2. rec' = [rec EXCEPT !.state = IF rec.state = "pending" THEN "running" ELSE rec.state,
                         !.live = TRUE, !.holder = s]
  BY DEF Claims
<1> QED
  BY <1>1, <1>2 DEF Record, States
-----------------------------------------------------------------------------
(* Every variable stays in its range.                                       *)

LEMMA FaultsCount ==
  ASSUME faults \in Faults, Disturb \/ Calm \/ Leak
  PROVE  faults' \in Faults
<1>1. CASE Calm
  BY <1>1 DEF Calm
<1>2. faults.left \in Nat /\ MaxFaults \in Nat /\ faults.left <= MaxFaults
  BY DelegationAssumption DEF Faults
<1>3. faults.left > 0 => faults.left - 1 \in 0..MaxFaults
  BY <1>2
<1>4. CASE Disturb
  BY <1>3, <1>4 DEF Disturb, Faults
<1>5. CASE Leak
  BY <1>3, <1>5 DEF Leak, Faults
<1> QED
  BY <1>1, <1>4, <1>5

LEMMA Walks ==
  ASSUME own \in [Supervisors -> Process], NEW s \in Supervisors
  PROVE  /\ \A p \in PCs : Goes(s, p) => own' \in [Supervisors -> Process]
         /\ Over(s) => own' \in [Supervisors -> Process]
<1>1. \A p \in PCs : [own[s] EXCEPT !.pc = p] \in Process
  BY DEF Process
<1>2. Moved(s) \in Process
  BY Beginning
<1> QED
  BY <1>1, <1>2 DEF Goes, Over, Become

\* The writes of the sweep to the record.
LEMMA Writes ==
  ASSUME rec \in Record
  PROVE  /\ TakenBack(rec) \in Record /\ LetGo(rec) \in Record
         /\ \A x \in Systems, e \in Handles \cup {Request} :
              [rec EXCEPT !.deleg = HandedTo(x, e), !.state = "running"] \in Record
         /\ \A e \in Handles : [rec EXCEPT !.deleg.ext = e] \in Record
<1>1. \A x \in Systems, e \in Handles \cup {Request} : HandedTo(x, e) \in Delegation
  BY DEF HandedTo, Delegation
<1>2. \A e \in Handles : [rec.deleg EXCEPT !.ext = e] \in Delegation
  BY DEF Record, Delegation
<1>3. TakenBack(rec) \in Record /\ LetGo(rec) \in Record
  BY Undelegated DEF TakenBack, LetGo, Record, States
<1>4. \A x \in Systems, e \in Handles \cup {Request} :
        [rec EXCEPT !.deleg = HandedTo(x, e), !.state = "running"] \in Record
  BY <1>1 DEF Record, States
<1>5. \A e \in Handles : [rec EXCEPT !.deleg.ext = e] \in Record
  BY <1>2 DEF Record
<1> QED
  BY <1>3, <1>4, <1>5

\* Delegator.Resume and Delegator.Suspend.
Turns(e, a, b) == ext' = [ext EXCEPT ![e].st = IF @ = a THEN b ELSE @]

\* What the systems may be asked to do leaves each job a job.
LEMMA JobsMove ==
  ASSUME ext \in [Handles -> Job]
  PROVE  /\ \A e, st : st \in Status /\ Sets(e, st) => ext' \in [Handles -> Job]
         /\ \A e : Stopped(e) => ext' \in [Handles -> Job]
         /\ \A e, a, b : b \in Status /\ Turns(e, a, b) => ext' \in [Handles -> Job]
<1>1. ASSUME NEW e, NEW st, e \in Handles => st \in Status
      PROVE  [ext EXCEPT ![e].st = st] \in [Handles -> Job]
  <2>1. CASE e \notin Handles
    BY <2>1
  <2>2. CASE e \in Handles
    <3>1. [ext[e] EXCEPT !.st = st] \in Job
      BY <1>1, <2>2 DEF Job
    <3> QED
      BY <2>2, <3>1
  <2> QED
    BY <2>1, <2>2
<1>2. "stopped" \in Status /\ \A e \in Handles : ext[e].st \in Status
  BY DEF Status, Job
<1>3. ASSUME NEW e, NEW st \in Status, Sets(e, st)
      PROVE  ext' \in [Handles -> Job]
  BY <1>1, <1>3 DEF Sets
<1>4. ASSUME NEW e, Stopped(e)
      PROVE  ext' \in [Handles -> Job]
  <2> DEFINE st == IF Active(e) THEN "stopped" ELSE ext[e].st
  <2>1. ext' = [ext EXCEPT ![e].st = st]
    BY <1>4 DEF Stopped
  <2>2. e \in Handles => st \in Status
    BY <1>2
  <2> QED
    BY <1>1, <2>1, <2>2
<1>5. ASSUME NEW e, NEW a, NEW b \in Status, Turns(e, a, b)
      PROVE  ext' \in [Handles -> Job]
  <2> DEFINE st == IF ext[e].st = a THEN b ELSE ext[e].st
  <2>1. ext' = [ext EXCEPT ![e].st = st]
    BY <1>5 DEF Turns
  <2>2. e \in Handles => st \in Status
    BY <1>2
  <2> QED
    BY <1>1, <2>1, <2>2
<1> QED
  BY <1>3, <1>4, <1>5

LEMMA TypeDelegating ==
  ASSUME TypeOK, Memory, NEW s \in Supervisors, Delegating(s)
  PROVE  TypeOK'
<1>1. /\ rec \in Record /\ own \in [Supervisors -> Process] /\ own[s] \in Process
      /\ ext \in [Handles -> Job] /\ Fresh(s) \in Process /\ Moved(s) \in Process
      /\ Shape(own[s])
  BY Ranges, Beginning DEF Memory
<1> USE <1>1, Ranges, RangesNext
<1>2. CASE ListWork(s)
  BY <1>2 DEF ListWork, Become, Process, PCs, memory
<1>3. CASE DelegateClaim(s)
  <2>1. AfterClaim(rec) \in PCs /\ Sources \in 0..Sources
    BY DelegationAssumption DEF AfterClaim, PCs
  <2>2. [Fresh(s) EXCEPT !.pc = AfterClaim(rec), !.left = Sources] \in Process
    BY <2>1 DEF Process
  <2>3. CASE MayClaim(s)
    BY <1>3, <2>2, <2>3, ClaimTaken DEF DelegateClaim, memory
  <2>4. CASE ~MayClaim(s)
    BY <1>3, <2>4, Walks DEF DelegateClaim, memory
  <2> QED
    BY <2>3, <2>4
<1>4. CASE Offer(s)
  <2>1. PICK x \in Known[s] :
          \/ /\ rec' \in {rec, [rec EXCEPT !.deleg = HandedTo(x, Request), !.state = "running"]}
             /\ Become(s, [own[s] EXCEPT !.pc = "start", !.sys = x, !.left = @ - 1])
          \/ Goes(s, "release") /\ UNCHANGED rec
    BY <1>4 DEF Offer
  <2>2. x \in Systems
    BY DelegationAssumption
  <2>3. [rec EXCEPT !.deleg = HandedTo(x, Request), !.state = "running"] \in Record
    BY <2>2, Writes
  <2>4. rec' \in Record
    BY <2>1, <2>3
  <2>5. own[s].left - 1 \in 0..Sources
    BY <1>4, DelegationAssumption DEF Offer, Process
  <2>6. [own[s] EXCEPT !.pc = "start", !.sys = x, !.left = @ - 1] \in Process
    BY <2>2, <2>5 DEF Process, PCs
  <2>7. own' \in [Supervisors -> Process]
    BY <2>1, <2>6, Walks DEF Become, PCs
  <2> QED
    BY <1>4, <2>4, <2>7 DEF Offer, memory
<1>5. CASE OfferNothing(s) \/ StartRefused(s)
  BY <1>5, Walks DEF OfferNothing, StartRefused, PCs, memory
<1>6. CASE StartEchoed(s)
  BY <1>6, Walks, FaultsCount DEF StartEchoed, PCs, memory
<1>7. CASE StartAccepted(s)
  <2>1. PICK e \in Handles, good \in BOOLEAN, lost \in BOOLEAN :
          /\ ext' = [ext EXCEPT ![e] = [sys |-> own[s].sys, st |-> "running", good |-> good,
                                        low |-> rec.proven /\ own[s].sys \in Liars]]
          /\ \/ Goes(s, "locate")
             \/ Become(s, [own[s] EXCEPT !.pc = "handle", !.ext = e])
          /\ Disturb \/ Calm
    BY <1>7 DEF StartAccepted
  <2>2. (rec.proven /\ own[s].sys \in Liars) \in BOOLEAN
    OBVIOUS
  <2>3. own[s].sys \in Systems \cup {None}
    BY DEF Process
  <2>4. ext' \in [Handles -> Job]
    BY <2>1, <2>2, <2>3 DEF Job, Status
  <2>5. [own[s] EXCEPT !.pc = "handle", !.ext = e] \in Process
    BY DEF Process, PCs
  <2>6. own' \in [Supervisors -> Process]
    BY <2>1, <2>5, Walks DEF Become, PCs
  <2> QED
    BY <1>7, <2>1, <2>4, <2>6, FaultsCount DEF StartAccepted, memory
<1>8. CASE LocateStart(s)
  <2>1. \A e \in Handles : [own[s] EXCEPT !.pc = "handle", !.ext = e] \in Process
    BY DEF Process, PCs
  <2>2. /\ \/ Goes(s, "offer") \/ Goes(s, "release") \/ Goes(s, "unhand")
           \/ \E e \in Handles : Become(s, [own[s] EXCEPT !.pc = "handle", !.ext = e])
        /\ Disturb \/ Calm
    BY <1>8 DEF LocateStart, Located, Held
  <2>3. own' \in [Supervisors -> Process]
    BY <2>1, <2>2, Walks DEF Become, PCs
  <2> QED
    BY <1>8, <2>2, <2>3, FaultsCount DEF LocateStart, memory
<1>9. CASE Unhand(s)
  BY <1>9, Walks, Writes DEF Unhand, PCs, memory
<1>10. CASE RecordHandle(s)
  <2>1. own[s].sys \in Systems /\ own[s].ext \in Handles
    BY <1>10 DEF RecordHandle, At, Shape, Handing
  <2>2. [rec EXCEPT !.deleg = HandedTo(own[s].sys, own[s].ext), !.state = "running"] \in Record
    BY <2>1, Writes
  <2>3. rec' \in Record
    BY <1>10, <2>2 DEF RecordHandle
  <2>4. own' \in [Supervisors -> Process]
    BY <1>10, Walks DEF RecordHandle, PCs
  <2>5. ext' \in [Handles -> Job] /\ faults' \in Faults
    BY <1>10, JobsMove, FaultsCount DEF RecordHandle
  <2> QED
    BY <1>10, <2>3, <2>4, <2>5 DEF RecordHandle, memory
<1> QED
  BY <1>2, <1>3, <1>4, <1>5, <1>6, <1>7, <1>8, <1>9, <1>10 DEF Delegating

LEMMA TypeReconciling ==
  ASSUME TypeOK, Memory, NEW s \in Supervisors, Reconciling(s)
  PROVE  TypeOK'
<1>1. /\ rec \in Record /\ own \in [Supervisors -> Process] /\ own[s] \in Process
      /\ ext \in [Handles -> Job] /\ Fresh(s) \in Process /\ Moved(s) \in Process
      /\ Shape(own[s])
  BY Ranges, Beginning DEF Memory
<1> USE <1>1, Ranges, RangesNext
<1>2. CASE Load(s)
  <2>1. Business(s) \in Said
    BY DEF Business, Said
  <2>2. \A p \in PCs : [Fresh(s) EXCEPT !.fresh = TRUE, !.seen = rec.deleg,
                          !.state = rec.state, !.said = Business(s), !.pc = p] \in Process
    BY <2>1 DEF Process, Record
  <2>3. \E p \in {"ask", "tell", "claim"} :
          Become(s, [Fresh(s) EXCEPT !.fresh = TRUE, !.seen = rec.deleg,
                          !.state = rec.state, !.said = Business(s), !.pc = p])
    BY <1>2 DEF Load
  <2> QED
    BY <1>2, <2>2, <2>3 DEF Load, Become, PCs, memory
<1>3. CASE Tell(s)
  <2>1. own[s].seen.ext \in Handles
    BY <1>3 DEF Tell, At, Shape
  <2>2. told' \in [Supervisors -> SUBSET Handles]
    BY <1>3, <2>1 DEF Tell
  <2> QED
    BY <1>3, <2>2, Walks, JobsMove, FaultsCount DEF Tell
<1>4. CASE Ask(s)
  <2>1. \A e : PollSays(e) \subseteq Said
    BY DEF PollSays, Said
  <2>2. own[s].seen.ext \in Handles \/ own[s].said # "poll"
    BY <1>4 DEF Ask, At, Shape
  <2>3. \A e \in Handles \cup {None} :
          /\ [own[s] EXCEPT !.pc = "claim", !.ext = e] \in Process
          /\ \A a \in Said : [own[s] EXCEPT !.pc = "claim", !.ext = e, !.said = a] \in Process
    BY DEF Process, PCs
  <2>4. ASSUME NEW e \in Handles \cup {None}, Become(s, [own[s] EXCEPT !.pc = "claim", !.ext = e])
        PROVE  own' \in [Supervisors -> Process]
    <3>1. [own[s] EXCEPT !.pc = "claim", !.ext = e] \in Process
      BY <2>3
    <3> QED
      BY <2>4, <3>1 DEF Become
  <2>5. ASSUME NEW a \in PollSays(own[s].seen.ext), own[s].said = "poll",
               Become(s, [own[s] EXCEPT !.pc = "claim", !.ext = own[s].seen.ext, !.said = a])
        PROVE  own' \in [Supervisors -> Process]
    <3>1. a \in Said /\ own[s].seen.ext \in Handles
      BY <2>1, <2>2, <2>5
    <3>2. [own[s] EXCEPT !.pc = "claim", !.ext = own[s].seen.ext, !.said = a] \in Process
      BY <2>3, <3>1
    <3> QED
      BY <2>5, <3>2 DEF Become
  <2>6. Become(s, Moved(s)) => own' \in [Supervisors -> Process]
    BY DEF Become
  <2>7. own' \in [Supervisors -> Process]
    BY <1>4, <2>4, <2>5, <2>6 DEF Ask, Held
  <2> QED
    BY <1>4, <2>7 DEF Ask, memory
<1>5. CASE AskFails(s)
  BY <1>5, Walks, FaultsCount DEF AskFails, memory
<1>6. CASE ClaimDelegation(s)
  <2>1. own[s].said \in Polled \cup {"settle", "stranded", "honour"}
    BY <1>6 DEF ClaimDelegation, At, Shape
  <2>2. NextStep(s) \in PCs
    BY <2>1 DEF NextStep, Polled, PCs
  <2>3. \A p \in PCs : [own[s] EXCEPT !.pc = p] \in Process
    BY DEF Process
  <2>4. rec' \in Record /\ own' \in [Supervisors -> Process]
    BY <1>6, <2>2, <2>3, Walks, ClaimTaken DEF ClaimDelegation, PCs
  <2>5. own[s].seen.sys \in Systems
    BY <1>6 DEF ClaimDelegation, At, Shape, IsDelegation
  <2>6. doubt' \in [Supervisors -> SUBSET Systems]
    BY <1>6, <2>5 DEF ClaimDelegation
  <2> QED
    BY <1>6, <2>4, <2>6 DEF ClaimDelegation
<1>7. CASE Settle(s)
  <2>1. own[s].ext # None => own[s].ext \in Handles
    BY DEF Process
  <2> QED
    BY <1>7, <2>1, Walks, Writes DEF Settle, PCs, memory
<1>8. CASE Note(s) \/ StillRunning(s) \/ NothingToHonour(s)
  <2>1. [rec EXCEPT !.note = "stranded"] \in Record
    BY DEF Record
  <2> QED
    BY <1>8, <2>1, Walks DEF Note, StillRunning, NothingToHonour, PCs, memory
<1>9. CASE CarryOn(s)
  <2>1. Turns(own[s].ext, "suspended", "running") \/ UNCHANGED ext
    BY <1>9 DEF CarryOn, Turns
  <2>2. ext' \in [Handles -> Job]
    BY <2>1, JobsMove DEF Status
  <2> QED
    BY <1>9, <2>2, Walks, FaultsCount DEF CarryOn, PCs, memory
<1>10. CASE HandBack(s)
  <2>1. /\ [TakenBack(rec) EXCEPT !.note = "failure"] \in Record
        /\ [TakenBack(rec) EXCEPT !.note = @] \in Record
    BY Writes DEF Record
  <2>2. rec' \in Record
    BY <1>10, <2>1 DEF HandBack
  <2> QED
    BY <1>10, <2>2, Walks DEF HandBack, PCs, memory
<1>11. CASE StartedOver(s)
  <2>1. [TakenBack(rec) EXCEPT !.note = "failure"] \in Record
    BY Writes DEF Record
  <2> QED
    BY <1>11, <2>1, Walks, JobsMove, FaultsCount DEF StartedOver, PCs, memory
<1>12. CASE Finalize(s)
  <2>1. "released" \in Status /\ "done" \in Status
    BY DEF Status
  <2>2. /\ ext' \in [Handles -> Job] /\ faults' \in Faults
        /\ final' \in {"none", "good", "bad"}
    BY <1>12, <2>1, JobsMove, FaultsCount DEF Finalize
  <2> QED
    BY <1>12, <2>2, Walks DEF Finalize, PCs, memory
<1>13. CASE Verify(s)
  <2>1. [own[s] EXCEPT !.pc = "mark", !.said = final] \in Process
    BY DEF Process, PCs, Said
  <2> QED
    BY <1>13, <2>1, Walks, FaultsCount DEF Verify, Become, memory
<1>14. CASE Mark(s)
  <2>1. [rec.deleg EXCEPT !.delivered = TRUE] \in Delegation
    BY DEF Record, Delegation
  <2>2. Marked(s) \in Record
    BY <2>1, Undelegated DEF Marked, Record, States
  <2> QED
    BY <1>14, <2>2, Walks DEF Mark, memory
<1>15. CASE CancelThere(s)
  BY <1>15, Walks, JobsMove, FaultsCount DEF CancelThere, PCs, memory
<1>16. CASE CancelHere(s)
  <2>1. [rec EXCEPT !.state = "cancelled", !.deleg = NotDelegated, !.note = "none"] \in Record
    BY Undelegated DEF Record, States
  <2> QED
    BY <1>16, <2>1, Walks DEF CancelHere, memory
<1>17. CASE Pause(s)
  <2>1. [rec EXCEPT !.note = "failure"] \in Record
    BY DEF Record
  <2>2. Turns(own[s].seen.ext, "running", "suspended") \/ UNCHANGED ext
    BY <1>17 DEF Pause, Turns
  <2>3. ext' \in [Handles -> Job]
    BY <2>2, JobsMove DEF Status
  <2> QED
    BY <1>17, <2>1, <2>3, Walks, FaultsCount DEF Pause, PCs, memory
<1> QED
  BY <1>2, <1>3, <1>4, <1>5, <1>6, <1>7, <1>8, <1>9, <1>10, <1>11, <1>12, <1>13, <1>14,
     <1>15, <1>16, <1>17 DEF Reconciling

LEMMA TypeAdopting ==
  ASSUME TypeOK, Memory, NEW s \in Supervisors,
         Adopting(s) \/ Release(s) \/ Pass(s) \/ Crash(s)
  PROVE  TypeOK'
<1>1. /\ rec \in Record /\ own \in [Supervisors -> Process] /\ own[s] \in Process
      /\ Fresh(s) \in Process /\ Moved(s) \in Process /\ Idle \in Process
  BY Ranges, Beginning, Begun
<1> USE <1>1, Ranges, RangesNext
<1>2. CASE ListOrphan(s)
  BY <1>2 DEF ListOrphan, Become, Process, PCs, memory
<1>3. CASE RunClaim(s)
  <2>1. \A p \in PCs : [Fresh(s) EXCEPT !.pc = p] \in Process
    BY DEF Process
  <2>2. CASE MayClaim(s)
    BY <1>3, <2>1, <2>2, ClaimTaken DEF RunClaim, PCs, memory
  <2>3. CASE ~MayClaim(s)
    BY <1>3, <2>3, Walks DEF RunClaim, memory
  <2> QED
    BY <2>2, <2>3
<1>4. CASE LocalProgress(s)
  BY <1>4 DEF LocalProgress, Record, memory
<1>5. CASE LocalAsked(s)
  <2>1. [own[s] EXCEPT !.pc = "asked", !.want = rec.want] \in Process
    BY DEF Process, PCs, Record
  <2> QED
    BY <1>5, <2>1 DEF LocalAsked, Become, memory
<1>6. CASE LocalHonour(s)
  <2>1. rec' \in Record
    BY <1>6 DEF LocalHonour, Record, States
  <2> QED
    BY <1>6, <2>1, Walks DEF LocalHonour, PCs, memory
<1>7. CASE LocalFail(s)
  <2>1. rec' \in Record
    BY <1>7 DEF LocalFail, Record
  <2> QED
    BY <1>7, <2>1, Walks, FaultsCount DEF LocalFail, PCs, memory
<1>8. CASE LocalFenced(s) \/ LocalDeliver(s) \/ Pass(s)
  BY <1>8, Walks DEF LocalFenced, LocalDeliver, Pass, PCs, memory
<1>9. CASE LocalMark(s)
  <2>1. rec' \in Record
    BY <1>9 DEF LocalMark, Record, States
  <2> QED
    BY <1>9, <2>1, Walks DEF LocalMark, PCs, memory
<1>10. CASE TakeClaim(s)
  <2>1. [Fresh(s) EXCEPT !.pc = "take"] \in Process
    BY DEF Process, PCs
  <2> QED
    BY <1>10, <2>1, ClaimTaken DEF TakeClaim, memory
<1>11. CASE Take(s)
  <2>1. rec' \in Record
    BY <1>11 DEF Take, Record, States
  <2> QED
    BY <1>11, <2>1, Walks DEF Take, memory
<1>12. CASE Release(s)
  BY <1>12, Walks, Writes DEF Release, memory
<1>13. CASE Crash(s)
  <2>1. rec' \in Record
    BY <1>13 DEF Crash, Record
  <2> QED
    BY <1>13, <2>1, FaultsCount DEF Crash, Become
<1> QED
  BY <1>2, <1>3, <1>4, <1>5, <1>6, <1>7, <1>8, <1>9, <1>10, <1>11, <1>12, <1>13
     DEF Adopting

LEMMA TypeOutside ==
  ASSUME TypeOK, \/ \E e \in Handles : ExternalStep(e)
                 \/ \E w \in Wants : SetWant(w)
                 \/ Lapse
  PROVE  TypeOK'
<1> USE Ranges, RangesNext
<1>1. CASE \E e \in Handles : ExternalStep(e)
  <2>1. PICK e \in Handles : ExternalStep(e)
    BY <1>1
  <2>2. [ext EXCEPT ![e] = Nothing] \in [Handles -> Job]
    BY DEF Nothing, Job, Status
  <2>3. ext' \in [Handles -> Job]
    BY <2>1, <2>2, JobsMove DEF ExternalStep, Status
  <2> QED
    BY <2>1, <2>3, FaultsCount DEF ExternalStep, memory
<1>2. CASE \E w \in Wants : SetWant(w)
  BY <1>2, FaultsCount DEF SetWant, Record, memory
<1>3. CASE Lapse
  <2>1. rec' \in Record
    BY <1>3 DEF Lapse, Record
  <2> QED
    BY <1>3, <2>1, FaultsCount DEF Lapse, memory
<1> QED
  BY <1>1, <1>2, <1>3

LEMMA TypeStep ==
  ASSUME TypeOK, Memory, [Next]_vars
  PROVE  TypeOK'
<1>1. CASE UNCHANGED vars
  BY <1>1, Ranges, RangesNext DEF vars, memory
<1> QED
  BY <1>1, TypeDelegating, TypeReconciling, TypeAdopting, TypeOutside DEF Next, Sweep

-----------------------------------------------------------------------------
(* What a step may do, whichever it is: it claims the record, or it moves   *)
(* its own process on and writes the record only under the last claim.      *)

Takes(s) ==
  /\ MayClaim(s) /\ own[s].pc \in {"idle", "listed", "claim", "orphan"}
  /\ own'[s].cur /\ own'[s].pc \in Holders
  /\ \A t \in Supervisors \ {s} :
       own'[t] = [own[t] EXCEPT !.cur = FALSE, !.fresh = FALSE]
  /\ rec' = [rec EXCEPT !.state = IF @ = "pending" THEN "running" ELSE @,
                        !.live = TRUE, !.holder = s]
  /\ UNCHANGED <<ext, final, faults>>

Proceeds(s) ==
  /\ \A t \in Supervisors \ {s} : own'[t] = own[t]
  /\ own'[s].cur => own[s].cur
  /\ rec' # rec => MayWrite(s)

Claiming(s) == DelegateClaim(s) \/ ClaimDelegation(s) \/ RunClaim(s) \/ TakeClaim(s)

\* A claim that is granted, and one that is refused.
LEMMA Taking ==
  ASSUME TypeOK, Memory, NEW s \in Supervisors, Claiming(s)
  PROVE  Takes(s) \/ (Over(s) /\ UNCHANGED <<rec, ext, final, faults>>)
<1>1. /\ rec \in Record /\ own \in [Supervisors -> Process] /\ Fresh(s) \in Process
      /\ own[s] \in Process /\ Shape(own[s])
  BY Ranges, Beginning DEF Memory
<1>2. ASSUME NEW o \in Process, o.pc \in Holders, Claims(s, o), MayClaim(s),
             own[s].pc \in {"idle", "listed", "claim", "orphan"},
             UNCHANGED <<ext, final, faults>>
      PROVE  Takes(s)
  <2>1. own'[s] = [o EXCEPT !.cur = TRUE, !.want = rec.want]
    BY <1>1, <1>2, ClaimTaken
  <2>2. own'[s].cur /\ own'[s].pc \in Holders
    BY <1>2, <2>1 DEF Process
  <2> QED
    BY <1>1, <1>2, <2>2, ClaimTaken DEF Takes, Claims
<1>3. \A p \in Holders : /\ [Fresh(s) EXCEPT !.pc = p] \in Process
                         /\ [Fresh(s) EXCEPT !.pc = p].pc = p
                         /\ [own[s] EXCEPT !.pc = p] \in Process
                         /\ [own[s] EXCEPT !.pc = p].pc = p
  BY <1>1 DEF Process, PCs, Holders, Handing, Acting, AtHome, Polled
<1>4. CASE DelegateClaim(s)
  <2> DEFINE o == [Fresh(s) EXCEPT !.pc = AfterClaim(rec), !.left = Sources]
  <2>1. AfterClaim(rec) \in Holders \cap PCs /\ Sources \in 0..Sources
    BY DelegationAssumption DEF AfterClaim, PCs, Holders
  <2>2. o \in Process /\ o.pc \in Holders
    BY <1>1, <2>1 DEF Process
  <2>3. CASE MayClaim(s)
    <3>1. Claims(s, o) /\ own[s].pc = "listed" /\ UNCHANGED <<ext, final, faults>>
      BY <1>4, <2>3 DEF DelegateClaim, At
    <3> QED
      BY <1>2, <2>2, <2>3, <3>1
  <2> QED
    BY <1>4, <2>3 DEF DelegateClaim
<1>5. CASE ClaimDelegation(s)
  <2>1. own[s].pc = "claim" /\ UNCHANGED <<ext, final, faults>>
    BY <1>5 DEF ClaimDelegation, At
  <2>2. NextStep(s) \in Holders
    BY <1>1, <2>1 DEF NextStep, Shape, Holders, Acting, Polled
  <2>3. CASE MayClaim(s)
    <3>1. \/ \E p \in Holders : Claims(s, [own[s] EXCEPT !.pc = p])
          \/ Over(s) /\ UNCHANGED rec
      BY <1>5, <2>2, <2>3 DEF ClaimDelegation, Holders
    <3> QED
      BY <1>2, <1>3, <2>1, <2>3, <3>1
  <2> QED
    BY <1>5, <2>1, <2>3 DEF ClaimDelegation
<1>6. CASE RunClaim(s)
  <2>1. CASE MayClaim(s)
    <3>1. /\ \E p \in Holders : Claims(s, [Fresh(s) EXCEPT !.pc = p])
          /\ own[s].pc = "orphan" /\ UNCHANGED <<ext, final, faults>>
      BY <1>6, <2>1 DEF RunClaim, At, Holders, AtHome
    <3> QED
      BY <1>2, <1>3, <2>1, <3>1
  <2> QED
    BY <1>6, <2>1 DEF RunClaim
<1>7. CASE TakeClaim(s)
  <2>1. /\ \E p \in Holders : Claims(s, [Fresh(s) EXCEPT !.pc = p])
        /\ own[s].pc = "idle" /\ MayClaim(s) /\ UNCHANGED <<ext, final, faults>>
    BY <1>7 DEF TakeClaim, Turn, At, Holders
  <2> QED
    BY <1>2, <1>3, <2>1
<1> QED
  BY <1>4, <1>5, <1>6, <1>7 DEF Claiming

\* The other steps of a sweep.
Rest(s) ==
  \/ ListWork(s) \/ Offer(s) \/ OfferNothing(s) \/ StartAccepted(s) \/ StartRefused(s)
  \/ StartEchoed(s) \/ LocateStart(s) \/ Unhand(s) \/ RecordHandle(s)
  \/ Load(s) \/ Tell(s) \/ Ask(s) \/ AskFails(s) \/ Settle(s) \/ Note(s) \/ StillRunning(s)
  \/ CarryOn(s) \/ HandBack(s) \/ StartedOver(s) \/ Finalize(s) \/ Verify(s) \/ Mark(s)
  \/ CancelThere(s) \/ CancelHere(s) \/ Pause(s) \/ NothingToHonour(s)
  \/ ListOrphan(s) \/ LocalProgress(s) \/ LocalAsked(s) \/ LocalHonour(s) \/ LocalFail(s)
  \/ LocalFenced(s) \/ LocalDeliver(s) \/ LocalMark(s) \/ Take(s) \/ Release(s) \/ Pass(s)

LEMMA SweepParts ==
  ASSUME NEW s \in Supervisors, Sweep(s)
  PROVE  Claiming(s) \/ Rest(s)
BY DEF Sweep, Delegating, Reconciling, Adopting, Claiming, Rest

LEMMA Proceeding ==
  ASSUME TypeOK, NEW s \in Supervisors, Rest(s)
  PROVE  Proceeds(s)
<1>1. /\ own \in [Supervisors -> Process] /\ own[s] \in Process /\ rec \in Record
  BY Ranges
<1> USE <1>1 DEF Proceeds, Become, Goes, Over, Moved, Fresh, Idle, Process
<1>2. CASE ListWork(s) \/ ListOrphan(s)
  BY <1>2 DEF ListWork, ListOrphan
<1>3. CASE Load(s)
  BY <1>3 DEF Load
<1>4. CASE Offer(s)
  BY <1>4 DEF Offer
<1>5. CASE OfferNothing(s)
  BY <1>5 DEF OfferNothing
<1>6. CASE StartAccepted(s)
  BY <1>6 DEF StartAccepted
<1>7. CASE StartRefused(s) \/ StartEchoed(s) \/ Unhand(s) \/ RecordHandle(s)
  BY <1>7 DEF StartRefused, StartEchoed, Unhand, RecordHandle
<1>8. CASE LocateStart(s)
  BY <1>8 DEF LocateStart, Located
<1>9. CASE Tell(s) \/ AskFails(s) \/ Settle(s) \/ Note(s) \/ StillRunning(s) \/ CarryOn(s)
  BY <1>9 DEF Tell, AskFails, Settle, Note, StillRunning, CarryOn
<1>10. CASE Ask(s)
  <2>1. \/ Over(s)
        \/ \E e : Become(s, [own[s] EXCEPT !.pc = "claim", !.ext = e])
        \/ \E a : Become(s, [own[s] EXCEPT !.pc = "claim", !.ext = own[s].seen.ext, !.said = a])
    BY <1>10 DEF Ask
  <2>2. UNCHANGED rec
    BY <1>10 DEF Ask
  <2>3. CASE Over(s)
    BY <2>2, <2>3
  <2>4. CASE \E e : Become(s, [own[s] EXCEPT !.pc = "claim", !.ext = e])
    BY <2>2, <2>4
  <2>5. CASE \E a : Become(s, [own[s] EXCEPT !.pc = "claim", !.ext = own[s].seen.ext, !.said = a])
    BY <2>2, <2>5
  <2> QED
    BY <2>1, <2>3, <2>4, <2>5
<1>11. CASE HandBack(s) \/ StartedOver(s) \/ Finalize(s) \/ Mark(s)
  BY <1>11 DEF HandBack, StartedOver, Finalize, Mark
<1>12. CASE Verify(s)
  BY <1>12 DEF Verify
<1>13. CASE CancelThere(s) \/ CancelHere(s) \/ Pause(s) \/ NothingToHonour(s)
  BY <1>13 DEF CancelThere, CancelHere, Pause, NothingToHonour
<1>14. CASE LocalProgress(s) \/ LocalAsked(s) \/ LocalHonour(s) \/ LocalFail(s)
  BY <1>14 DEF LocalProgress, LocalAsked, LocalHonour, LocalFail
<1>15. CASE LocalFenced(s) \/ LocalDeliver(s) \/ LocalMark(s) \/ Take(s) \/ Release(s) \/ Pass(s)
  BY <1>15 DEF LocalFenced, LocalDeliver, LocalMark, Take, Release, Pass
<1> QED
  BY <1>2, <1>3, <1>4, <1>5, <1>6, <1>7, <1>8, <1>9, <1>10, <1>11, <1>12, <1>13, <1>14, <1>15 DEF Rest

\* What a step writes of the delegation, and where it does so.
LEMMA DelegWrites ==
  ASSUME TypeOK, NEW s \in Supervisors, Rest(s)
  PROVE  \/ rec'.deleg = rec.deleg
         \/ /\ own[s].pc \in {"unhand", "settle", "failed", "gone", "lied", "mark", "cancel"}
            /\ own[s].pc = "settle" => own[s].ext = None
            /\ rec'.deleg = NotDelegated
         \/ /\ own[s].pc = "mark"
            /\ rec'.deleg = [rec.deleg EXCEPT !.delivered = TRUE]
         \/ /\ own[s].pc = "offer"
            /\ \E x \in Systems : rec'.deleg = HandedTo(x, Request)
         \/ /\ own[s].pc = "handle"
            /\ rec'.deleg = HandedTo(own[s].sys, own[s].ext)
         \/ /\ own[s].pc = "settle" /\ own[s].ext \in Handles
            /\ rec'.deleg = [rec.deleg EXCEPT !.ext = own[s].ext]
<1>1. rec \in Record /\ own[s] \in Process
  BY Ranges
<1> USE <1>1 DEF Record
<1>2. CASE \/ ListWork(s) \/ OfferNothing(s) \/ StartAccepted(s) \/ StartRefused(s)
           \/ StartEchoed(s) \/ LocateStart(s) \/ Load(s) \/ Tell(s) \/ Ask(s) \/ AskFails(s)
           \/ StillRunning(s) \/ CarryOn(s) \/ Finalize(s) \/ Verify(s) \/ CancelThere(s)
           \/ NothingToHonour(s) \/ ListOrphan(s) \/ LocalAsked(s) \/ LocalFenced(s)
           \/ LocalDeliver(s) \/ Pass(s)
  BY <1>2 DEF ListWork, OfferNothing, StartAccepted, StartRefused, StartEchoed, LocateStart,
     Load, Tell, Ask, AskFails, StillRunning, CarryOn, Finalize, Verify, CancelThere,
     NothingToHonour, ListOrphan, LocalAsked, LocalFenced, LocalDeliver, Pass
<1>3. CASE \/ Note(s) \/ Pause(s) \/ LocalProgress(s) \/ LocalHonour(s) \/ LocalFail(s)
           \/ LocalMark(s) \/ Take(s) \/ Release(s)
  BY <1>3 DEF Note, Pause, LocalProgress, LocalHonour, LocalFail, LocalMark, Take, Release,
     LetGo
<1>4. CASE Offer(s)
  BY <1>4, DelegationAssumption DEF Offer, At
<1>5. CASE Unhand(s) \/ HandBack(s) \/ StartedOver(s) \/ CancelHere(s)
  BY <1>5 DEF Unhand, HandBack, StartedOver, CancelHere, TakenBack, At
<1>6. CASE RecordHandle(s)
  BY <1>6 DEF RecordHandle, At
<1>7. CASE Settle(s)
  <2>1. own[s].ext # None => own[s].ext \in Handles
    BY DEF Process
  <2> QED
    BY <1>7, <2>1 DEF Settle, TakenBack, At
<1>8. CASE Mark(s)
  BY <1>8 DEF Mark, Marked, At
<1> QED
  BY <1>2, <1>3, <1>4, <1>5, <1>6, <1>7, <1>8 DEF Rest

\* The handles a process learns of in a step, and those of what it loads.
LEMMA Learning ==
  ASSUME TypeOK, NEW s \in Supervisors, Rest(s)
  PROVE  /\ own'[s].seen \in {own[s].seen, rec.deleg, NotDelegated}
         /\ \/ own'[s].ext \in {None, own[s].ext, own[s].seen.ext}
            \/ ext'[own'[s].ext].st # "none"
<1>1. /\ own \in [Supervisors -> Process] /\ own[s] \in Process /\ Fresh(s) \in Process
      /\ Fresh(s).seen = NotDelegated /\ Fresh(s).ext = None /\ Moved(s).ext = None
      /\ Moved(s).seen = NotDelegated /\ ext \in [Handles -> Job]
  BY Ranges, Beginning DEF Fresh, Moved, Idle
<1> USE <1>1
<1>2. CASE \E p \in PCs : Goes(s, p)
  BY <1>2, Going
<1>3. CASE Over(s)
  BY <1>3, Leaving
<1>4. CASE UNCHANGED own
  BY <1>4
<1>5. CASE ListWork(s) \/ ListOrphan(s)
  BY <1>5 DEF ListWork, ListOrphan, Become, Process
<1>6. CASE Load(s)
  <2>1. PICK p : own' = [own EXCEPT ![s] = [Fresh(s) EXCEPT !.fresh = TRUE, !.seen = rec.deleg,
                   !.state = rec.state, !.said = Business(s), !.pc = p]]
    BY <1>6 DEF Load, Become
  <2>2. own'[s].seen = rec.deleg /\ own'[s].ext = None
    BY <2>1 DEF Process
  <2> QED
    BY <2>2
<1>7. CASE Offer(s)
  <2>1. \/ Goes(s, "release")
        \/ \E x : Become(s, [own[s] EXCEPT !.pc = "start", !.sys = x, !.left = @ - 1])
    BY <1>7 DEF Offer
  <2>2. ASSUME NEW x, Become(s, [own[s] EXCEPT !.pc = "start", !.sys = x, !.left = @ - 1])
        PROVE  own'[s].seen = own[s].seen /\ own'[s].ext = own[s].ext
    BY <2>2 DEF Become, Process
  <2> QED
    BY <1>2, <2>1, <2>2 DEF PCs
<1>8. CASE StartAccepted(s)
  <2>1. PICK e \in Handles, good \in BOOLEAN :
          /\ ext' = [ext EXCEPT ![e] = [sys |-> own[s].sys, st |-> "running", good |-> good,
                                        low |-> rec.proven /\ own[s].sys \in Liars]]
          /\ \/ Goes(s, "locate")
             \/ Become(s, [own[s] EXCEPT !.pc = "handle", !.ext = e])
    BY <1>8 DEF StartAccepted
  <2>2. ext'[e].st = "running"
    BY <2>1
  <2>3. CASE Become(s, [own[s] EXCEPT !.pc = "handle", !.ext = e])
    BY <2>3, <2>2 DEF Become, Process
  <2> QED
    BY <1>2, <2>1, <2>3 DEF PCs
<1>9. CASE LocateStart(s)
  <2>1. \/ Goes(s, "offer") \/ Goes(s, "release") \/ Goes(s, "unhand")
        \/ \E e \in Handles : /\ ext'[e].st # "none"
                              /\ Become(s, [own[s] EXCEPT !.pc = "handle", !.ext = e])
    BY <1>9 DEF LocateStart, Located, Held, Active
  <2>2. ASSUME NEW e \in Handles, ext'[e].st # "none",
               Become(s, [own[s] EXCEPT !.pc = "handle", !.ext = e])
        PROVE  own'[s].seen = own[s].seen /\ own'[s].ext = e
    BY <2>2 DEF Become, Process
  <2> QED
    BY <1>2, <2>1, <2>2 DEF PCs
<1>10. CASE Ask(s)
  <2>1. \/ \E e \in Handles \cup {None} :
             /\ e \in Handles => ext'[e].st # "none"
             /\ Become(s, [own[s] EXCEPT !.pc = "claim", !.ext = e])
        \/ Over(s)
        \/ \E a : Become(s, [own[s] EXCEPT !.pc = "claim", !.ext = own[s].seen.ext, !.said = a])
    BY <1>10, DelegationAssumption DEF Ask, Held, Active, Over
  <2>2. ASSUME NEW e, Become(s, [own[s] EXCEPT !.pc = "claim", !.ext = e])
        PROVE  own'[s].seen = own[s].seen /\ own'[s].ext = e
    BY <2>2 DEF Become, Process
  <2>3. ASSUME NEW e, NEW a, Become(s, [own[s] EXCEPT !.pc = "claim", !.ext = e, !.said = a])
        PROVE  own'[s].seen = own[s].seen /\ own'[s].ext = e
    BY <2>3 DEF Become, Process
  <2> QED
    BY <1>3, <2>1, <2>2, <2>3
<1>11. CASE Verify(s) \/ LocalAsked(s)
  <2>1. \/ Become(s, [own[s] EXCEPT !.pc = "mark", !.said = final])
        \/ Become(s, [own[s] EXCEPT !.pc = "asked", !.want = rec.want])
        \/ Over(s)
    BY <1>11 DEF Verify, LocalAsked
  <2>2. CASE Become(s, [own[s] EXCEPT !.pc = "mark", !.said = final])
    BY <2>2 DEF Become, Process
  <2>3. CASE Become(s, [own[s] EXCEPT !.pc = "asked", !.want = rec.want])
    BY <2>3 DEF Become, Process
  <2> QED
    BY <1>3, <2>1, <2>2, <2>3
<1>12. CASE \/ OfferNothing(s) \/ StartRefused(s) \/ StartEchoed(s) \/ Unhand(s)
            \/ RecordHandle(s) \/ Tell(s) \/ AskFails(s) \/ Settle(s) \/ Note(s)
            \/ StillRunning(s) \/ CarryOn(s) \/ HandBack(s) \/ StartedOver(s) \/ Finalize(s)
            \/ Mark(s)
  BY <1>2, <1>3, <1>12 DEF OfferNothing, StartRefused, StartEchoed, Unhand, RecordHandle,
     Tell, AskFails, Settle, Note, StillRunning, CarryOn, HandBack, StartedOver, Finalize,
     Mark, PCs
<1>13. CASE \/ CancelThere(s) \/ CancelHere(s) \/ Pause(s) \/ NothingToHonour(s)
            \/ LocalProgress(s) \/ LocalHonour(s) \/ LocalFail(s) \/ LocalFenced(s)
            \/ LocalDeliver(s) \/ LocalMark(s) \/ Take(s) \/ Release(s) \/ Pass(s)
  BY <1>2, <1>3, <1>4, <1>13 DEF CancelThere, CancelHere, Pause, NothingToHonour,
     LocalProgress, LocalHonour, LocalFail, LocalFenced, LocalDeliver, LocalMark, Take,
     Release, Pass, PCs
<1> QED
  BY <1>5, <1>7, <1>8, <1>9, <1>10, <1>11, <1>12, <1>13, <1>6 DEF Rest

\* No step but StartAccepted begins a job, and none but the system's own
\* clearing away forgets one.
Shrink ==
  \A e \in Handles :
    /\ ext'[e].st \in {"running", "suspended", "transferred"} => Active(e)
    /\ ext'[e].st \in {"running", "suspended"} => ext[e].st \in {"running", "suspended"}
    /\ ext'[e].st = "none" <=> ext[e].st = "none"
    /\ ext'[e].sys = ext[e].sys

LEMMA Shrinking ==
  ASSUME ext \in [Handles -> Job]
  PROVE  /\ UNCHANGED ext => Shrink
         /\ \A e : Stopped(e) => Shrink
         /\ \A e : Turns(e, "suspended", "running") \/ Turns(e, "running", "suspended") => Shrink
         /\ \A e \in Handles, st \in {"done", "released", "gone", "failed"} :
              ext[e].st # "none" /\ Sets(e, st) => Shrink
         /\ \A e \in Handles :
              ext[e].st = "running" /\ Sets(e, "transferred") => Shrink
<1>1. ASSUME NEW e, NEW st,
             e \in Handles =>
               /\ st \in {"running", "suspended", "transferred"} => Active(e)
               /\ st \in {"running", "suspended"} => ext[e].st \in {"running", "suspended"}
               /\ st = "none" <=> ext[e].st = "none",
             ext' = [ext EXCEPT ![e].st = st]
      PROVE  Shrink
  <2>1. ASSUME NEW f \in Handles
        PROVE  /\ f = e => ext'[f] = [ext[f] EXCEPT !.st = st]
               /\ f # e => ext'[f] = ext[f]
    BY <1>1
  <2>2. \A f \in Handles : /\ ext[f] \in Job
                           /\ [ext[f] EXCEPT !.st = st].st = st
                           /\ [ext[f] EXCEPT !.st = st].sys = ext[f].sys
    BY DEF Job
  <2> QED
    BY <1>1, <2>1, <2>2 DEF Shrink, Active
<1>2. UNCHANGED ext => Shrink
  BY DEF Shrink, Active
<1>3. ASSUME NEW e, Stopped(e)
      PROVE  Shrink
  <2> DEFINE st == IF Active(e) THEN "stopped" ELSE ext[e].st
  <2>1. ext' = [ext EXCEPT ![e].st = st]
    BY <1>3 DEF Stopped
  <2>2. /\ st \in {"running", "suspended", "transferred"} => Active(e)
        /\ st \in {"running", "suspended"} => ext[e].st \in {"running", "suspended"}
        /\ st = "none" <=> ext[e].st = "none"
    BY DEF Active
  <2> HIDE DEF st
  <2> QED
    BY <1>1, <2>1, <2>2
<1>4. ASSUME NEW e, NEW a \in {"running", "suspended"}, NEW b \in {"running", "suspended"},
             Turns(e, a, b)
      PROVE  Shrink
  <2> DEFINE st == IF ext[e].st = a THEN b ELSE ext[e].st
  <2>1. ext' = [ext EXCEPT ![e].st = st]
    BY <1>4 DEF Turns
  <2>2. /\ st \in {"running", "suspended", "transferred"} => Active(e)
        /\ st \in {"running", "suspended"} => ext[e].st \in {"running", "suspended"}
        /\ st = "none" <=> ext[e].st = "none"
    BY DEF Active
  <2> HIDE DEF st
  <2> QED
    BY <1>1, <2>1, <2>2
<1>5. ASSUME NEW e \in Handles, NEW st \in {"done", "released", "gone", "failed"},
             ext[e].st # "none", Sets(e, st)
      PROVE  Shrink
  BY <1>1, <1>5 DEF Sets
<1>6. ASSUME NEW e \in Handles, ext[e].st = "running", Sets(e, "transferred")
      PROVE  Shrink
  BY <1>1, <1>6 DEF Sets, Active
<1> QED
  BY <1>2, <1>3, <1>4, <1>5, <1>6

LEMMA JobsOfStep ==
  ASSUME TypeOK, Memory, NEW s \in Supervisors, Rest(s), ~StartAccepted(s)
  PROVE  Shrink
<1>1. ext \in [Handles -> Job] /\ Shape(own[s])
  BY Ranges DEF Memory
<1> USE <1>1, Shrinking
<1>2. CASE Tell(s) \/ StartedOver(s) \/ CancelThere(s) \/ RecordHandle(s)
  BY <1>2 DEF Tell, StartedOver, CancelThere, RecordHandle
<1>3. CASE CarryOn(s)
  BY <1>3 DEF CarryOn, Turns
<1>4. CASE Pause(s)
  BY <1>4 DEF Pause, Turns
<1>5. CASE Finalize(s)
  <2>1. own[s].ext \in Handles
    BY <1>5 DEF Finalize, At, Shape, Polled
  <2> QED
    BY <1>5, <2>1 DEF Finalize
<1>6. CASE \/ ListWork(s) \/ Offer(s) \/ OfferNothing(s) \/ StartRefused(s)
           \/ StartEchoed(s) \/ LocateStart(s) \/ Unhand(s) \/ Load(s) \/ Ask(s)
           \/ AskFails(s) \/ Settle(s) \/ Note(s) \/ StillRunning(s) \/ HandBack(s)
           \/ Verify(s) \/ Mark(s) \/ CancelHere(s) \/ NothingToHonour(s)
  BY <1>6 DEF ListWork, Offer, OfferNothing, StartRefused, StartEchoed, LocateStart, Unhand,
     Load, Ask, AskFails, Settle, Note, StillRunning, HandBack, Verify, Mark, CancelHere,
     NothingToHonour
<1>7. CASE \/ ListOrphan(s) \/ LocalProgress(s) \/ LocalAsked(s) \/ LocalHonour(s)
           \/ LocalFail(s) \/ LocalFenced(s) \/ LocalDeliver(s) \/ LocalMark(s) \/ Take(s)
           \/ Release(s) \/ Pass(s)
  BY <1>7 DEF ListOrphan, LocalProgress, LocalAsked, LocalHonour, LocalFail, LocalFenced,
     LocalDeliver, LocalMark, Take, Release, Pass
<1> QED
  BY <1>2, <1>3, <1>4, <1>5, <1>6, <1>7 DEF Rest

-----------------------------------------------------------------------------
(* What the processes remember is in order: Memory, step by step.           *)

LEMMA ShapeLoose ==
  ASSUME NEW o \in Process, Shape(o)
  PROVE  Shape([o EXCEPT !.cur = FALSE, !.fresh = FALSE])
BY DEF Shape, Process

LEMMA ShapeOver ==
  ASSUME own \in [Supervisors -> Process], NEW s \in Supervisors, Over(s)
  PROVE  Shape(own'[s])
BY Leaving DEF Shape, Handing, Acting, Polled

\* The points at which nothing but the claim is remembered.
Plain == {"offer", "release", "local", "asked", "placed", "take"}

LEMMA ShapePlain ==
  ASSUME NEW o, o.pc \in Plain
  PROVE  Shape(o)
BY DEF Shape, Plain, Holders, Handing, Acting, Polled, AtHome

\* A step that only moves the process on within the work it claimed for.
LEMMA ShapeGoes ==
  ASSUME TypeOK, Memory, NEW s \in Supervisors, NEW p, Goes(s, p),
         \/ p \in Plain
         \/ own[s].pc = "start" /\ p = "locate"
         \/ own[s].pc = "locate" /\ p = "unhand"
         \/ own[s].pc = "transferred" /\ p = "verify"
         \/ own[s].pc = "honour" /\ p = "cancel"
  PROVE  Shape(own'[s])
<1>1. own \in [Supervisors -> Process] /\ Shape(own[s])
  BY Ranges DEF Memory
<1>2. /\ own'[s].pc = p /\ own'[s].cur = own[s].cur /\ own'[s].sys = own[s].sys
      /\ own'[s].seen = own[s].seen /\ own'[s].ext = own[s].ext
  BY <1>1, Going
<1>3. CASE p \in Plain
  BY <1>2, <1>3, ShapePlain
<1>4. CASE p \notin Plain
  BY <1>1, <1>2, <1>4 DEF Shape, Plain, Holders, Handing, Acting, Polled, AtHome
<1> QED
  BY <1>3, <1>4

LEMMA ShapeClaiming ==
  ASSUME TypeOK, Memory, NEW s \in Supervisors, Claiming(s)
  PROVE  Shape(own'[s])
<1>1. /\ rec \in Record /\ own \in [Supervisors -> Process] /\ Fresh(s) \in Process
      /\ own[s] \in Process /\ Shape(own[s])
  BY Ranges, Beginning DEF Memory
<1>2. CASE Over(s)
  BY <1>1, <1>2, ShapeOver
<1>3. ASSUME NEW o, o \in Process, o.pc \in Plain, Claims(s, o)
      PROVE  Shape(own'[s])
  <2>1. own'[s] = [o EXCEPT !.cur = TRUE, !.want = rec.want]
    BY <1>1, <1>3, ClaimTaken
  <2>2. own'[s].pc \in Plain
    BY <1>3, <2>1 DEF Process
  <2> QED
    BY <2>2, ShapePlain
<1>4. \A p \in Plain : /\ [Fresh(s) EXCEPT !.pc = p] \in Process
                       /\ [Fresh(s) EXCEPT !.pc = p].pc = p
                       /\ [own[s] EXCEPT !.pc = p] \in Process
                       /\ [own[s] EXCEPT !.pc = p].pc = p
  BY <1>1 DEF Process, PCs, Plain
<1>5. CASE DelegateClaim(s)
  <2> DEFINE o == [Fresh(s) EXCEPT !.pc = AfterClaim(rec), !.left = Sources]
  <2>1. AfterClaim(rec) \in Plain \cap PCs /\ Sources \in 0..Sources
    BY DelegationAssumption DEF AfterClaim, PCs, Plain
  <2>2. o \in Process /\ o.pc \in Plain
    BY <1>1, <2>1 DEF Process
  <2>3. Claims(s, o) \/ Over(s)
    BY <1>5 DEF DelegateClaim
  <2> QED
    BY <1>2, <1>3, <2>2, <2>3
<1>6. CASE RunClaim(s)
  <2>1. \/ Over(s)
        \/ Claims(s, [Fresh(s) EXCEPT !.pc = "local"])
        \/ Claims(s, [Fresh(s) EXCEPT !.pc = "asked"])
    BY <1>6 DEF RunClaim
  <2> QED
    BY <1>2, <1>3, <1>4, <2>1 DEF Plain
<1>7. CASE TakeClaim(s)
  <2>1. Claims(s, [Fresh(s) EXCEPT !.pc = "take"])
    BY <1>7 DEF TakeClaim
  <2> QED
    BY <1>3, <1>4, <2>1 DEF Plain
<1>8. CASE ClaimDelegation(s)
  <2>1. own[s].pc = "claim"
    BY <1>8 DEF ClaimDelegation, At
  <2>2. CASE Claims(s, [own[s] EXCEPT !.pc = "release"])
    BY <1>3, <1>4, <2>2 DEF Plain
  <2>3. CASE Claims(s, [own[s] EXCEPT !.pc = NextStep(s)])
    <3> DEFINE q == NextStep(s)
               o == [own[s] EXCEPT !.pc = q]
    <3>1. q = "release" \/ q = own[s].said
      BY DEF NextStep
    <3>2. own[s].said \in Polled \cup {"settle", "stranded", "honour"}
      BY <1>1, <2>1 DEF Shape
    <3>3. q \in PCs
      BY <3>1, <3>2 DEF PCs, Polled
    <3> HIDE DEF q
    <3>4. o \in Process /\ Claims(s, o)
      BY <1>1, <2>3, <3>3 DEF Process, q
    <3>5. own'[s] = [o EXCEPT !.cur = TRUE, !.want = rec.want]
      BY <1>1, <3>4, ClaimTaken
    <3>6. /\ own'[s].pc = q /\ own'[s].sys = own[s].sys /\ own'[s].ext = own[s].ext
          /\ own'[s].seen = own[s].seen
      BY <1>1, <3>5 DEF Process
    <3>7. CASE q = "release"
      BY <3>6, <3>7, ShapePlain DEF Plain
    <3>8. CASE q = own[s].said
      BY <1>1, <2>1, <3>2, <3>6, <3>8 DEF Shape, Holders, Handing, Acting, Polled, AtHome
    <3> QED
      BY <3>1, <3>7, <3>8
  <2> QED
    BY <1>2, <1>8, <2>2, <2>3 DEF ClaimDelegation
<1> QED
  BY <1>5, <1>6, <1>7, <1>8 DEF Claiming

LEMMA ShapeRest ==
  ASSUME TypeOK, Memory, NEW s \in Supervisors, Rest(s)
  PROVE  Shape(own'[s])
<1>1. /\ own \in [Supervisors -> Process] /\ own[s] \in Process /\ Fresh(s) \in Process
      /\ ~Fresh(s).cur /\ Shape(own[s]) /\ RecordShape
  BY Ranges, Beginning DEF Memory, Fresh, Idle, Process
<1>2. CASE Over(s)
  BY <1>1, <1>2, ShapeOver
<1>3. CASE UNCHANGED own
  BY <1>1, <1>3
<1>4. CASE \E p \in Plain : Goes(s, p)
  BY <1>4, ShapeGoes
<1>5. CASE ListWork(s) \/ ListOrphan(s)
  <2>1. \E p \in {"listed", "orphan"} : Become(s, [Fresh(s) EXCEPT !.pc = p])
    BY <1>5 DEF ListWork, ListOrphan
  <2>2. own'[s].pc \in {"listed", "orphan"} /\ ~own'[s].cur
    BY <1>1, <2>1 DEF Become, Process
  <2> QED
    BY <2>2 DEF Shape, Handing, Acting, Polled
<1>6. CASE Offer(s)
  <2>1. \/ Goes(s, "release")
        \/ \E x \in Systems : Become(s, [own[s] EXCEPT !.pc = "start", !.sys = x, !.left = @ - 1])
    BY <1>6, DelegationAssumption DEF Offer
  <2>2. ASSUME NEW x \in Systems,
               Become(s, [own[s] EXCEPT !.pc = "start", !.sys = x, !.left = @ - 1])
        PROVE  own'[s].pc = "start" /\ own'[s].sys = x
    BY <1>1, <2>2 DEF Become, Process
  <2>3. ASSUME own'[s].pc = "start", own'[s].sys \in Systems
        PROVE  Shape(own'[s])
    BY <2>3 DEF Shape, Holders, Handing, Acting, Polled
  <2> QED
    BY <1>4, <2>1, <2>2, <2>3 DEF Plain
<1>7. CASE StartAccepted(s) \/ LocateStart(s)
  <2>1. own[s].pc \in {"start", "locate"} /\ own[s].sys \in Systems
    BY <1>1, <1>7 DEF StartAccepted, LocateStart, At, Shape, Handing
  <2>2. ASSUME NEW e \in Handles, Become(s, [own[s] EXCEPT !.pc = "handle", !.ext = e])
        PROVE  Shape(own'[s])
    <3>1. own'[s].pc = "handle" /\ own'[s].ext = e /\ own'[s].sys = own[s].sys
      BY <1>1, <2>2 DEF Become, Process
    <3> QED
      BY <2>1, <2>2, <3>1 DEF Shape, Holders, Handing, Acting, Polled
  <2>3. \/ \E p \in Plain : Goes(s, p)
        \/ own[s].pc = "start" /\ Goes(s, "locate")
        \/ own[s].pc = "locate" /\ Goes(s, "unhand")
        \/ \E e \in Handles : Become(s, [own[s] EXCEPT !.pc = "handle", !.ext = e])
    BY <1>7 DEF StartAccepted, LocateStart, Located, Held, At, Plain
  <2> QED
    BY <1>4, <2>2, <2>3, ShapeGoes
<1>8. CASE StartRefused(s)
  BY <1>8, ShapeGoes DEF StartRefused, At
<1>9. CASE Load(s)
  <2> DEFINE b == Business(s)
  <2>1. PICK p : /\ p = (CASE b \in {"settle", "poll"} -> "ask" [] b = "tell" -> "tell"
                           [] OTHER -> "claim")
                 /\ own' = [own EXCEPT ![s] = [Fresh(s) EXCEPT !.fresh = TRUE,
                      !.seen = rec.deleg, !.state = rec.state, !.said = b, !.pc = p]]
    BY <1>9 DEF Load, Become
  <2>2. /\ own'[s].pc = p /\ own'[s].seen = rec.deleg /\ own'[s].said = b
        /\ own'[s].cur = FALSE
    BY <1>1, <2>1 DEF Process
  <2>3. b # "nothing"
    BY <1>9 DEF Load
  <2>4. /\ Delegated(rec) /\ b \in {"settle", "stranded", "tell", "honour", "poll"}
        /\ b = "settle" => Unsettled(rec)
        /\ b \in {"tell", "honour", "poll"} => ~Unsettled(rec)
    BY <2>3 DEF Business
  <2>5. IsDelegation(rec.deleg)
    BY <1>1, <2>4 DEF RecordShape
  <2>6. /\ b = "settle" => rec.deleg.ext = Request
        /\ b \in {"tell", "honour", "poll"} => rec.deleg.ext \in Handles
    BY <2>4, <2>5 DEF Unsettled, IsDelegation
  <2> HIDE DEF b
  <2>7. \/ b \in {"settle", "poll"} /\ p = "ask"
        \/ b = "tell" /\ p = "tell"
        \/ b \in {"stranded", "honour"} /\ p = "claim"
    BY <2>1, <2>4
  <2> QED
    BY <2>2, <2>5, <2>6, <2>7 DEF Shape, Holders, Handing, Acting, Polled, AtHome
<1>10. CASE Ask(s)
  <2>1. own[s].pc = "ask" /\ own[s].said \in {"settle", "poll"} /\ IsDelegation(own[s].seen)
        /\ (own[s].said = "settle" => own[s].seen.ext = Request)
        /\ (own[s].said = "poll" => own[s].seen.ext \in Handles)
        /\ own[s].cur = FALSE
    BY <1>1, <1>10 DEF Ask, At, Shape, Holders, Handing, Acting, Polled, AtHome, Process
  <2>2. ASSUME NEW e, own[s].said = "settle",
               Become(s, [own[s] EXCEPT !.pc = "claim", !.ext = e])
        PROVE  Shape(own'[s])
    <3>1. /\ own'[s].pc = "claim" /\ own'[s].seen = own[s].seen
          /\ own'[s].said = own[s].said /\ own'[s].cur = own[s].cur
      BY <1>1, <2>2 DEF Become, Process
    <3> QED
      BY <2>1, <2>2, <3>1 DEF Shape, Handing, Acting, Polled
  <2>3. ASSUME NEW a \in Polled, own[s].said = "poll",
               Become(s, [own[s] EXCEPT !.pc = "claim", !.ext = own[s].seen.ext, !.said = a])
        PROVE  Shape(own'[s])
    <3>1. /\ own'[s].pc = "claim" /\ own'[s].seen = own[s].seen
          /\ own'[s].said = a /\ own'[s].ext = own[s].seen.ext /\ own'[s].cur = own[s].cur
      BY <1>1, <2>3 DEF Become, Process
    <3> QED
      BY <2>1, <2>3, <3>1 DEF Shape, Handing, Acting, Polled
  <2>4. \A e : PollSays(e) \subseteq Polled
    BY DEF PollSays, Polled
  <2>5. \/ own[s].said = "settle" /\ \E e : Become(s, [own[s] EXCEPT !.pc = "claim", !.ext = e])
        \/ Over(s)
        \/ \E a \in PollSays(own[s].seen.ext) :
             /\ own[s].said = "poll"
             /\ Become(s, [own[s] EXCEPT !.pc = "claim", !.ext = own[s].seen.ext, !.said = a])
    BY <1>10 DEF Ask, Over
  <2> QED
    BY <1>2, <2>2, <2>3, <2>4, <2>5
<1>11. CASE Finalize(s) \/ CancelThere(s)
  BY <1>2, <1>11, ShapeGoes DEF Finalize, CancelThere, At
<1>12. CASE Verify(s)
  <2>1. own[s].pc = "verify"
    BY <1>12 DEF Verify, At
  <2>2. CASE Become(s, [own[s] EXCEPT !.pc = "mark", !.said = final])
    <3>1. /\ own'[s].pc = "mark" /\ own'[s].seen = own[s].seen /\ own'[s].ext = own[s].ext
      BY <1>1, <2>2 DEF Become, Process
    <3> QED
      BY <1>1, <2>1, <3>1 DEF Shape, Holders, Handing, Acting, Polled
  <2> QED
    BY <1>2, <1>12, <2>2 DEF Verify
<1>13. CASE LocalAsked(s)
  <2>1. own'[s].pc = "asked"
    BY <1>1, <1>13 DEF LocalAsked, Become, Process
  <2> QED
    BY <2>1, ShapePlain DEF Plain
<1>14. CASE \/ OfferNothing(s) \/ StartEchoed(s) \/ Unhand(s) \/ RecordHandle(s)
            \/ Tell(s) \/ AskFails(s) \/ Settle(s) \/ Note(s) \/ StillRunning(s)
            \/ CarryOn(s) \/ HandBack(s) \/ StartedOver(s) \/ Mark(s) \/ CancelHere(s)
  BY <1>2, <1>4, <1>14 DEF OfferNothing, StartEchoed, Unhand, RecordHandle, Tell, AskFails,
     Settle, Note, StillRunning, CarryOn, HandBack, StartedOver, Mark, CancelHere, Plain
<1>15. CASE \/ Pause(s) \/ NothingToHonour(s) \/ LocalProgress(s) \/ LocalHonour(s)
            \/ LocalFail(s) \/ LocalFenced(s) \/ LocalDeliver(s) \/ LocalMark(s)
            \/ Take(s) \/ Release(s) \/ Pass(s)
  BY <1>2, <1>3, <1>4, <1>15 DEF Pause, NothingToHonour, LocalProgress, LocalHonour,
     LocalFail, LocalFenced, LocalDeliver, LocalMark, Take, Release, Pass, Plain
<1> QED
  BY <1>5, <1>6, <1>7, <1>8, <1>9, <1>10, <1>11, <1>12, <1>13, <1>14, <1>15 DEF Rest

LEMMA ShapeStep ==
  ASSUME TypeOK, Memory, NEW s \in Supervisors, Sweep(s) \/ Crash(s)
  PROVE  \A t \in Supervisors : Shape(own'[t])
<1>1. own \in [Supervisors -> Process] /\ \A t \in Supervisors : Shape(own[t])
  BY Ranges DEF Memory
<1>2. CASE Claiming(s)
  <2>1. Shape(own'[s])
    BY <1>2, ShapeClaiming
  <2>2. ASSUME NEW t \in Supervisors \ {s}
        PROVE  Shape(own'[t])
    <3>1. own'[t] = own[t] \/ own'[t] = [own[t] EXCEPT !.cur = FALSE, !.fresh = FALSE]
      BY <1>1, <1>2, Taking, Leaving DEF Takes
    <3> QED
      BY <1>1, <3>1, ShapeLoose
  <2> QED
    BY <2>1, <2>2
<1>3. CASE Rest(s)
  BY <1>1, <1>3, ShapeRest, Proceeding DEF Proceeds
<1>4. CASE Crash(s)
  <2>1. own'[s] = Idle /\ \A t \in Supervisors \ {s} : own'[t] = own[t]
    BY <1>1, <1>4 DEF Crash, Become
  <2>2. Shape(Idle)
    BY DEF Shape, Idle, Handing, Acting, Polled
  <2> QED
    BY <1>1, <2>1, <2>2
<1> QED
  BY <1>2, <1>3, <1>4, SweepParts

\* A process acts on an answer only after the claim made for it.
LEMMA ActingRest ==
  ASSUME TypeOK, NEW s \in Supervisors, Rest(s), own'[s].pc \in Acting
  PROVE  own[s].pc \in Acting /\ UNCHANGED rec /\ own'[s].seen = own[s].seen
<1>1. /\ own \in [Supervisors -> Process] /\ own[s] \in Process /\ Fresh(s) \in Process
  BY Ranges, Beginning
<1>2. /\ ~Over(s) /\ \A p : Goes(s, p) => p \in Acting
      /\ ~Goes(s, "release") /\ ~Goes(s, "locate") /\ ~Goes(s, "offer") /\ ~Goes(s, "unhand")
  BY <1>1, Going, Leaving DEF Acting, Polled
<1>3. ~LocalProgress(s)
  BY <1>1 DEF LocalProgress, At, Acting, Polled
<1>4. ~ListWork(s) /\ ~ListOrphan(s)
  <2>1. ASSUME NEW p \in {"listed", "orphan"}, Become(s, [Fresh(s) EXCEPT !.pc = p])
        PROVE  FALSE
    <3>1. own'[s].pc = p
      BY <1>1, <2>1 DEF Become, Process
    <3> QED
      BY <3>1 DEF Acting, Polled
  <2> QED
    BY <2>1 DEF ListWork, ListOrphan
<1>5. ~Load(s)
  <2>1. ASSUME NEW p \in {"ask", "tell", "claim"}, NEW b,
               Become(s, [Fresh(s) EXCEPT !.fresh = TRUE, !.seen = rec.deleg,
                                          !.state = rec.state, !.said = b, !.pc = p])
        PROVE  FALSE
    <3>1. own'[s].pc = p
      BY <1>1, <2>1 DEF Become, Process
    <3> QED
      BY <3>1 DEF Acting, Polled
  <2> QED
    BY <2>1 DEF Load
<1>6. ASSUME NEW x, Become(s, [own[s] EXCEPT !.pc = "start", !.sys = x, !.left = @ - 1])
      PROVE  FALSE
  <2>1. own'[s].pc = "start"
    BY <1>1, <1>6 DEF Become, Process
  <2> QED
    BY <2>1 DEF Acting, Polled
<1>7. ASSUME NEW e, Become(s, [own[s] EXCEPT !.pc = "handle", !.ext = e])
      PROVE  FALSE
  <2>1. own'[s].pc = "handle"
    BY <1>1, <1>7 DEF Become, Process
  <2> QED
    BY <2>1 DEF Acting, Polled
<1>8. ASSUME NEW e, NEW a,
             \/ Become(s, [own[s] EXCEPT !.pc = "claim", !.ext = e])
             \/ Become(s, [own[s] EXCEPT !.pc = "claim", !.ext = e, !.said = a])
      PROVE  FALSE
  <2>1. own'[s].pc = "claim"
    BY <1>1, <1>8 DEF Become, Process
  <2> QED
    BY <2>1 DEF Acting, Polled
<1>9. ~LocalAsked(s)
  <2>1. ASSUME Become(s, [own[s] EXCEPT !.pc = "asked", !.want = rec.want])
        PROVE  own'[s].pc = "asked"
    BY <1>1, <2>1 DEF Become, Process
  <2> QED
    BY <2>1 DEF LocalAsked, Acting, Polled
<1>10. CASE Finalize(s) \/ CancelThere(s)
  BY <1>1, <1>2, <1>10, Going DEF Finalize, CancelThere, At, Acting, Polled
<1>11. CASE Verify(s)
  <2>1. Become(s, [own[s] EXCEPT !.pc = "mark", !.said = final])
    BY <1>2, <1>11 DEF Verify
  <2>2. own'[s].seen = own[s].seen
    BY <1>1, <2>1 DEF Become, Process
  <2> QED
    BY <1>11, <2>2 DEF Verify, At, Acting
<1>12. ~Offer(s) /\ ~StartAccepted(s) /\ ~LocateStart(s) /\ ~Ask(s)
  <2>1. ~Offer(s)
    <3>1. Offer(s) => \/ Goes(s, "release")
                      \/ \E x : Become(s, [own[s] EXCEPT !.pc = "start", !.sys = x, !.left = @ - 1])
      BY DEF Offer
    <3> QED
      BY <1>2, <1>6, <3>1, Zenon
  <2>2. ~StartAccepted(s)
    <3>1. StartAccepted(s) => \/ Goes(s, "locate")
                              \/ \E e : Become(s, [own[s] EXCEPT !.pc = "handle", !.ext = e])
      BY DEF StartAccepted
    <3> QED
      BY <1>2, <1>7, <3>1, Zenon
  <2>3. ~LocateStart(s)
    <3>1. LocateStart(s) => \/ Goes(s, "offer") \/ Goes(s, "release") \/ Goes(s, "unhand")
                            \/ \E e : Become(s, [own[s] EXCEPT !.pc = "handle", !.ext = e])
      BY DEF LocateStart, Located
    <3> QED
      BY <1>2, <1>7, <3>1, Zenon
  <2>4. ~Ask(s)
    BY <1>2, <1>8 DEF Ask, Over
  <2> QED
    BY <2>1, <2>2, <2>3, <2>4
<1>13. /\ ~OfferNothing(s) /\ ~StartRefused(s) /\ ~StartEchoed(s) /\ ~Unhand(s)
       /\ ~RecordHandle(s)
  BY <1>2 DEF OfferNothing, StartRefused, StartEchoed, Unhand, RecordHandle, Acting, Polled
<1>14. /\ ~Tell(s) /\ ~AskFails(s) /\ ~Settle(s) /\ ~Note(s) /\ ~StillRunning(s)
       /\ ~CarryOn(s) /\ ~HandBack(s) /\ ~StartedOver(s) /\ ~Mark(s) /\ ~CancelHere(s)
       /\ ~Pause(s) /\ ~NothingToHonour(s)
  BY <1>2 DEF Tell, AskFails, Settle, Note, StillRunning, CarryOn, HandBack, StartedOver,
     Mark, CancelHere, Pause, NothingToHonour, Acting, Polled
<1>15. /\ ~LocalHonour(s) /\ ~LocalFail(s) /\ ~LocalFenced(s) /\ ~LocalDeliver(s)
       /\ ~LocalMark(s) /\ ~Take(s) /\ ~Release(s) /\ ~Pass(s)
  BY <1>2 DEF LocalHonour, LocalFail, LocalFenced, LocalDeliver, LocalMark, Take, Release,
     Pass, Acting, Polled
<1> QED
  BY <1>3, <1>4, <1>5, <1>9, <1>10, <1>11, <1>12, <1>14, <1>15,
     <1>13 DEF Rest

\* The others' claims are over when s claims; while s has the last one nobody
\* else writes, and what s itself saw is still so when it goes on.
LEMMA LastClaimStep ==
  ASSUME TypeOK, Memory, NEW s \in Supervisors, Sweep(s) \/ Crash(s)
  PROVE  LastClaim'
<1>1. /\ own \in [Supervisors -> Process] /\ rec \in Record /\ own[s] \in Process
      /\ LastClaim /\ Fresh(s) \in Process
  BY Ranges, Beginning DEF Memory
<1>2. CASE Takes(s) /\ Claiming(s)
  <2>1. rec'.deleg = rec.deleg
    BY <1>1, <1>2 DEF Takes, Record
  <2>2. ASSUME NEW t \in Supervisors \ {s}
        PROVE  ~own'[t].cur
    <3>1. own[t] \in Process /\ own'[t] = [own[t] EXCEPT !.cur = FALSE, !.fresh = FALSE]
      BY <1>1, <1>2 DEF Takes
    <3> QED
      BY <3>1 DEF Process
  <2>3. own'[s].pc \in Acting => rec.deleg = own'[s].seen
    <3>1. CASE \E p \in Plain : \E o \in {Fresh(s), own[s]} : Claims(s, [o EXCEPT !.pc = p])
      <4>1. own'[s].pc \in Plain
        BY <1>1, <3>1 DEF Claims, Process
      <4> QED
        BY <4>1 DEF Plain, Acting, Polled
    <3>2. CASE AsSeen(s) /\ Claims(s, [own[s] EXCEPT !.pc = NextStep(s)])
      <4>1. own'[s].seen = own[s].seen
        BY <1>1, <3>2 DEF Claims, Process
      <4> QED
        BY <3>2, <4>1 DEF AsSeen
    <3>3. CASE Claims(s, [Fresh(s) EXCEPT !.pc = AfterClaim(rec), !.left = Sources])
      <4>1. own'[s].pc = AfterClaim(rec)
        BY <1>1, <3>3 DEF Claims, Process
      <4> QED
        BY <4>1 DEF AfterClaim, Acting, Polled
    <3>4. CASE Over(s)
      BY <1>1, <3>4, Leaving DEF Acting, Polled
    <3> QED
      BY <1>2, <3>1, <3>2, <3>3, <3>4
         DEF Claiming, DelegateClaim, ClaimDelegation, RunClaim, TakeClaim, Plain
  <2> QED
    BY <2>1, <2>2, <2>3 DEF LastClaim
<1>3. CASE Proceeds(s) /\ (own'[s].pc \in Acting /\ own'[s].cur => rec'.deleg = own'[s].seen)
  <2>1. ASSUME NEW t \in Supervisors, own'[t].cur
        PROVE  /\ own[t].cur
               /\ own'[t].pc \in Acting => rec'.deleg = own'[t].seen
    <3>1. own[t].cur
      BY <1>3, <2>1 DEF Proceeds
    <3>2. CASE t # s
      <4>1. own'[t] = own[t] /\ ~own[s].cur
        BY <1>1, <1>3, <3>1, <3>2 DEF Proceeds, LastClaim
      <4>2. rec' = rec
        BY <1>3, <4>1 DEF Proceeds, MayWrite
      <4> QED
        BY <1>1, <3>1, <4>1, <4>2 DEF LastClaim
    <3> QED
      BY <1>3, <2>1, <3>1, <3>2
  <2> QED
    BY <1>1, <2>1 DEF LastClaim
<1>4. CASE Rest(s)
  <2>1. CASE own'[s].pc \notin Acting
    BY <1>3, <1>4, <2>1, Proceeding
  <2>2. CASE own'[s].pc \in Acting
    <3>1. own[s].pc \in Acting /\ UNCHANGED rec /\ own'[s].seen = own[s].seen
      BY <1>4, <2>2, ActingRest
    <3> QED
      BY <1>1, <1>3, <1>4, <3>1, Proceeding DEF LastClaim, Proceeds
  <2> QED
    BY <2>1, <2>2
<1>5. CASE Claiming(s)
  <2>1. CASE Over(s) /\ UNCHANGED rec
    <3>1. Proceeds(s) /\ ~own'[s].cur
      BY <1>1, <2>1, Leaving DEF Proceeds
    <3> QED
      BY <1>3, <3>1
  <2> QED
    BY <1>2, <1>5, <2>1, Taking
<1>6. CASE Crash(s)
  <2>1. own'[s] = Idle /\ \A t \in Supervisors \ {s} : own'[t] = own[t]
    BY <1>1, <1>6 DEF Crash, Become
  <2>2. rec'.deleg = rec.deleg
    BY <1>1, <1>6 DEF Crash, Record
  <2> QED
    BY <1>1, <2>1, <2>2 DEF LastClaim, Idle
<1> QED
  BY <1>4, <1>5, <1>6, SweepParts

LEMMA RecordShapeStep ==
  ASSUME TypeOK, Memory, NEW s \in Supervisors, Sweep(s) \/ Crash(s)
  PROVE  RecordShape'
<1>1. /\ own \in [Supervisors -> Process] /\ rec \in Record /\ own[s] \in Process
      /\ RecordShape /\ Shape(own[s]) /\ LastClaim /\ rec.deleg \in Delegation
  BY Ranges DEF Memory, Record
<1>2. CASE rec'.deleg = rec.deleg \/ rec'.deleg = NotDelegated
  BY <1>1, <1>2 DEF RecordShape, Delegated
<1>3. CASE Claiming(s) \/ Crash(s)
  <2>1. rec'.deleg = rec.deleg
    BY <1>1, <1>3, Taking DEF Takes, Crash, Record
  <2> QED
    BY <1>2, <2>1
<1>4. CASE Rest(s)
  <2>1. CASE own[s].pc = "mark" /\ rec'.deleg = [rec.deleg EXCEPT !.delivered = TRUE]
               /\ rec'.deleg # rec.deleg
    <3>1. own[s].cur /\ rec.deleg = own[s].seen
      BY <1>1, <1>4, <2>1, Proceeding DEF Proceeds, MayWrite, LastClaim, Acting
    <3>2. IsDelegation(rec.deleg)
      BY <1>1, <2>1, <3>1 DEF Shape, Acting
    <3> QED
      BY <1>1, <2>1, <3>2 DEF RecordShape, IsDelegation, Delegation
  <2>2. CASE own[s].pc = "offer" /\ \E x \in Systems : rec'.deleg = HandedTo(x, Request)
    BY <2>2 DEF RecordShape, IsDelegation, HandedTo
  <2>3. CASE own[s].pc = "handle" /\ rec'.deleg = HandedTo(own[s].sys, own[s].ext)
    BY <1>1, <2>3 DEF RecordShape, IsDelegation, HandedTo, Shape, Handing
  <2>4. CASE /\ own[s].pc = "settle" /\ own[s].ext \in Handles
             /\ rec'.deleg = [rec.deleg EXCEPT !.ext = own[s].ext]
             /\ rec'.deleg # rec.deleg
    <3>1. own[s].cur /\ rec.deleg = own[s].seen
      BY <1>1, <1>4, <2>4, Proceeding DEF Proceeds, MayWrite, LastClaim, Acting
    <3>2. IsDelegation(rec.deleg)
      BY <1>1, <2>4, <3>1 DEF Shape, Acting
    <3> QED
      BY <1>1, <2>4, <3>2 DEF RecordShape, IsDelegation, Delegation
  <2> QED
    BY <1>2, <1>4, <2>1, <2>2, <2>3, <2>4, DelegWrites
<1> QED
  BY <1>3, <1>4, SweepParts

\* StartAccepted begins one job and forgets none.
LEMMA Started ==
  ASSUME TypeOK, NEW s \in Supervisors, StartAccepted(s)
  PROVE  \E e \in Handles :
           /\ ext[e].st = "none"
           /\ ext'[e].st = "running" /\ ext'[e].sys = own[s].sys
           /\ \A f \in Handles \ {e} : ext'[f] = ext[f]
           /\ UNCHANGED <<rec, final, doubt, told>>
           /\ \A t \in Supervisors \ {s} : own'[t] = own[t]
           /\ \/ own'[s].pc = "locate" /\ own'[s].sys = own[s].sys
              \/ own'[s].pc = "handle" /\ own'[s].sys = own[s].sys /\ own'[s].ext = e
           /\ Disturb \/ Calm
<1>1. own \in [Supervisors -> Process] /\ own[s] \in Process /\ ext \in [Handles -> Job]
  BY Ranges
<1>2. PICK e \in Handles, good \in BOOLEAN, lost \in BOOLEAN :
        /\ ext[e] = Nothing
        /\ ext' = [ext EXCEPT ![e] = [sys |-> own[s].sys, st |-> "running", good |-> good,
                                      low |-> rec.proven /\ own[s].sys \in Liars]]
        /\ \/ Goes(s, "locate")
           \/ Become(s, [own[s] EXCEPT !.pc = "handle", !.ext = e])
        /\ Disturb \/ Calm
  BY DEF StartAccepted
<1>3. /\ ext[e].st = "none" /\ ext'[e].st = "running" /\ ext'[e].sys = own[s].sys
      /\ \A f \in Handles \ {e} : ext'[f] = ext[f]
  BY <1>1, <1>2 DEF Nothing
<1>4. CASE Goes(s, "locate")
  BY <1>1, <1>2, <1>3, <1>4, Going DEF StartAccepted, memory
<1>5. CASE Become(s, [own[s] EXCEPT !.pc = "handle", !.ext = e])
  <2>1. /\ own'[s].pc = "handle" /\ own'[s].sys = own[s].sys /\ own'[s].ext = e
        /\ \A t \in Supervisors \ {s} : own'[t] = own[t]
    BY <1>1, <1>5 DEF Become, Process
  <2> QED
    BY <1>2, <1>3, <2>1 DEF StartAccepted, memory
<1> QED
  BY <1>2, <1>4, <1>5

LEMMA GivenOutStep ==
  ASSUME TypeOK, Memory, NEW s \in Supervisors, Sweep(s) \/ Crash(s)
  PROVE  GivenOut'
<1>1. /\ own \in [Supervisors -> Process] /\ rec \in Record /\ own[s] \in Process
      /\ ext \in [Handles -> Job] /\ GivenOut /\ None \notin Handles /\ Request \notin Handles
  BY Ranges, DelegationAssumption DEF Memory
<1>2. SUFFICES ASSUME NEW e \in Handles, ext'[e].st = "none"
               PROVE  /\ rec'.deleg.ext # e
                      /\ \A t \in Supervisors : own'[t].ext # e /\ own'[t].seen.ext # e
  BY DEF GivenOut, Unheld
<1>3. CASE Rest(s)
  <2>1. ext[e].st = "none"
    <3>1. CASE StartAccepted(s)
      BY <1>2, <3>1, Started
    <3>2. CASE ~StartAccepted(s)
      BY <1>2, <1>3, <3>2, JobsOfStep DEF Shrink
    <3> QED
      BY <3>1, <3>2
  <2>2. rec.deleg.ext # e /\ \A t \in Supervisors : own[t].ext # e /\ own[t].seen.ext # e
    BY <1>1, <2>1 DEF GivenOut, Unheld
  <2>3. rec'.deleg.ext # e
    <3>1. own[s].ext # e /\ Request # e /\ rec.deleg \in Delegation
      BY <1>1, <2>2 DEF Record
    <3>2. CASE \/ rec'.deleg = [rec.deleg EXCEPT !.delivered = TRUE]
               \/ rec'.deleg = [rec.deleg EXCEPT !.ext = own[s].ext]
      BY <2>2, <3>1, <3>2 DEF Delegation
    <3>3. CASE rec'.deleg = NotDelegated \/ rec'.deleg = rec.deleg
      BY <1>1, <2>2, <3>3 DEF NotDelegated
    <3>4. ASSUME NEW x, NEW h \in {Request, own[s].ext}, rec'.deleg = HandedTo(x, h)
          PROVE  rec'.deleg.ext # e
      BY <3>1, <3>4 DEF HandedTo
    <3> QED
      BY <1>3, <3>2, <3>3, <3>4, DelegWrites
  <2>4. own'[s].ext # e /\ own'[s].seen.ext # e
    BY <1>1, <1>2, <1>3, <2>2, Learning DEF NotDelegated
  <2>5. \A t \in Supervisors \ {s} : own'[t] = own[t]
    BY <1>3, Proceeding DEF Proceeds
  <2> QED
    BY <2>2, <2>3, <2>4, <2>5
<1>4. CASE Claiming(s)
  <2>1. UNCHANGED ext /\ rec'.deleg = rec.deleg
    <3>1. Takes(s) \/ UNCHANGED <<rec, ext>>
      BY <1>4, Taking
    <3> QED
      BY <1>1, <3>1 DEF Takes, Record
  <2>2. rec.deleg.ext # e /\ \A t \in Supervisors : own[t].ext # e /\ own[t].seen.ext # e
    BY <1>1, <1>2, <2>1 DEF GivenOut, Unheld
  <2>3. ASSUME NEW t \in Supervisors \ {s}
        PROVE  own'[t].ext # e /\ own'[t].seen.ext # e
    <3>1. own'[t] = own[t] \/ own'[t] = [own[t] EXCEPT !.cur = FALSE, !.fresh = FALSE]
      BY <1>1, <1>4, Taking, Leaving DEF Takes
    <3>2. own[t] \in Process
      BY <1>1
    <3> QED
      BY <2>2, <3>1, <3>2 DEF Process
  <2>4. own'[s].ext # e /\ own'[s].seen.ext # e
    <3>1. CASE Over(s)
      BY <1>1, <3>1, Leaving
    <3>2. CASE \E p : Claims(s, [own[s] EXCEPT !.pc = p])
      <4>1. own'[s].ext = own[s].ext /\ own'[s].seen = own[s].seen
        BY <1>1, <3>2 DEF Claims, Process
      <4> QED
        BY <2>2, <4>1
    <3>3. CASE \E p : \/ Claims(s, [Fresh(s) EXCEPT !.pc = p])
                      \/ Claims(s, [Fresh(s) EXCEPT !.pc = p, !.left = Sources])
      <4>1. Fresh(s) \in Process /\ Fresh(s).ext = None /\ Fresh(s).seen.ext = None
        BY <1>1, Beginning DEF Fresh, Idle, NotDelegated
      <4>2. own'[s].ext = None /\ own'[s].seen.ext = None
        BY <3>3, <4>1 DEF Claims, Process
      <4> QED
        BY <1>1, <4>2
    <3> QED
      BY <1>4, <3>1, <3>2, <3>3
         DEF Claiming, DelegateClaim, ClaimDelegation, RunClaim, TakeClaim
  <2> QED
    BY <2>1, <2>2, <2>3, <2>4
<1>5. CASE Crash(s)
  <2>1. /\ UNCHANGED ext /\ rec'.deleg = rec.deleg
        /\ own'[s] = Idle /\ \A t \in Supervisors \ {s} : own'[t] = own[t]
    BY <1>1, <1>5 DEF Crash, Become, Record
  <2> QED
    BY <1>1, <1>2, <2>1 DEF GivenOut, Unheld, Idle, NotDelegated
<1> QED
  BY <1>3, <1>4, <1>5, SweepParts

\* Around the processes: the systems, the intent and the lease.
Around == (\E e \in Handles : ExternalStep(e)) \/ (\E w \in Wants : SetWant(w)) \/ Lapse

\* What an outside step leaves alone.
LEMMA OutsideMoves ==
  ASSUME TypeOK, Around
  PROVE  /\ UNCHANGED <<own, final>>
         /\ rec'.deleg = rec.deleg /\ rec'.state = rec.state /\ rec'.proven = rec.proven
         /\ rec'.note = rec.note
         /\ \/ Shrink
            \/ \E e \in Handles : /\ Unheld(e) /\ ~Active(e) /\ ext'[e] = Nothing
                                  /\ \A f \in Handles \ {e} : ext'[f] = ext[f]
         /\ faults'.leaked = faults.leaked
<1>1. /\ rec \in Record /\ ext \in [Handles -> Job] /\ faults \in Faults
  BY Ranges
<1>2. (Disturb \/ Calm) => faults'.leaked = faults.leaked
  BY <1>1 DEF Disturb, Calm, Faults
<1>3. ASSUME NEW e \in Handles, ExternalStep(e)
      PROVE  /\ UNCHANGED <<own, final, rec>> /\ (Disturb \/ Calm)
             /\ \/ Shrink
                \/ /\ Unheld(e) /\ ~Active(e) /\ ext'[e] = Nothing
                   /\ \A f \in Handles \ {e} : ext'[f] = ext[f]
  <2>1. CASE ext[e].st = "running" /\ Sets(e, "transferred") /\ Calm
    BY <1>1, <1>3, <2>1, Shrinking DEF ExternalStep
  <2>2. CASE \/ ext[e].st \in {"running", "suspended"} /\ Sets(e, "failed") /\ (Disturb \/ Calm)
             \/ Active(e) /\ Sets(e, "gone") /\ Disturb
    BY <1>1, <1>3, <2>2, Shrinking DEF ExternalStep, Active
  <2>3. CASE /\ ext[e].st = "failed" /\ Unheld(e)
             /\ ext' = [ext EXCEPT ![e] = Nothing] /\ Calm
    BY <1>1, <1>3, <2>3 DEF ExternalStep, Active
  <2> QED
    BY <1>3, <2>1, <2>2, <2>3 DEF ExternalStep
<1>4. CASE \E e \in Handles : ExternalStep(e)
  BY <1>2, <1>3, <1>4
<1>5. CASE \E w \in Wants : SetWant(w)
  BY <1>1, <1>2, <1>5, Shrinking DEF SetWant, Record
<1>6. CASE Lapse
  BY <1>1, <1>2, <1>6, Shrinking DEF Lapse, Record
<1> QED
  BY <1>4, <1>5, <1>6 DEF Around

LEMMA MemoryStep ==
  ASSUME TypeOK, Memory, [Next]_vars
  PROVE  Memory'
<1>1. ASSUME NEW s \in Supervisors, Sweep(s) \/ Crash(s)
      PROVE  Memory'
  BY <1>1, RecordShapeStep, ShapeStep, LastClaimStep, GivenOutStep DEF Memory
<1>2. CASE Around
  <2>1. /\ UNCHANGED own /\ rec'.deleg = rec.deleg
        /\ \A e \in Handles : ext'[e].st = "none" => ext[e].st = "none" \/ Unheld(e)
    BY <1>2, OutsideMoves DEF Shrink
  <2>2. RecordShape' /\ LastClaim' /\ \A s \in Supervisors : Shape(own'[s])
    BY <2>1 DEF Memory, RecordShape, Delegated, LastClaim
  <2>3. GivenOut'
    BY <2>1 DEF Memory, GivenOut, Unheld
  <2> QED
    BY <2>2, <2>3 DEF Memory
<1>3. CASE UNCHANGED vars
  BY <1>3 DEF vars, Memory, RecordShape, Delegated, LastClaim, GivenOut, Unheld
<1> QED
  BY <1>1, <1>2, <1>3 DEF Next, Around

LEMMA Begins ==
  ASSUME Init
  PROVE  TypeOK /\ Memory
<1>1. TypeOK
  BY Begun, Undelegated, DelegationAssumption, Ranges
     DEF Init, Record, Job, Status, Nothing, Faults, States, Wants
<1>2. Memory
  BY DelegationAssumption
     DEF Init, Memory, RecordShape, Delegated, Shape, LastClaim, GivenOut, Unheld, Idle,
         Nothing, NotDelegated, Handing, Acting, Polled
<1> QED
  BY <1>1, <1>2

(***************************************************************************)
(* Whatever the processes and the systems do, every variable stays in its  *)
(* range: a handle is recorded only once it was given out, and a process   *)
(* acts only on what it loaded.  The shapes of memory are needed for it.   *)
(***************************************************************************)
THEOREM DelegationTypes == Spec => [](TypeOK /\ Memory)
<1>1. TypeOK /\ Memory /\ [Next]_vars => TypeOK' /\ Memory'
  BY TypeStep, MemoryStep
<1> QED
  BY <1>1, Begins, PTL DEF Spec

-----------------------------------------------------------------------------
(* Custody of the record: Kept, where a process is alone or does not stall. *)

\* The steps that end what a process does.
Ending(s) ==
  \/ Tell(s) \/ AskFails(s) \/ Mark(s) \/ CancelHere(s) \/ LocalFenced(s) \/ Take(s)
  \/ Release(s) \/ Pass(s)

\* Where a step takes a process.
LEMMA Course ==
  ASSUME TypeOK, NEW s \in Supervisors, Rest(s)
  PROVE  \/ own'[s].pc = "idle"
         \/ ~Holding(s) /\ own'[s].pc \in {"listed", "orphan", "tell"}
         \/ Load(s) /\ own'[s].pc \in {"ask", "claim", "tell"}
         \/ Ask(s) /\ own'[s].pc = "claim"
         \/ /\ Holding(s) /\ ~Ending(s)
            /\ own'[s].pc \in Handing \cup {"offer", "release", "local", "asked", "cancel"}
            /\ own'[s].cur = own[s].cur
            /\ own'[s].pc = "local" => own[s].pc = "local"
            /\ own'[s].pc = "asked" => own[s].pc = "local"
            /\ own'[s].pc \in Handing \cup {"offer", "cancel"} =>
                 \/ Offer(s) \/ StartAccepted(s) \/ StartRefused(s) \/ LocateStart(s)
                 \/ Unhand(s) \/ CancelThere(s)
         \/ Finalize(s) /\ own'[s].pc = "verify" /\ own'[s].cur = own[s].cur
         \/ Verify(s) /\ own'[s].pc = "mark" /\ own'[s].cur = own[s].cur
         \/ LocalDeliver(s) /\ own'[s].pc = "placed" /\ own'[s].cur = own[s].cur
<1>1. /\ own \in [Supervisors -> Process] /\ own[s] \in Process /\ Fresh(s) \in Process
  BY Ranges, Beginning
<1>2. CASE Over(s)
  BY <1>1, <1>2, Leaving
<1>3. CASE ListWork(s) \/ ListOrphan(s)
  <2>1. PICK p \in {"listed", "orphan"} : Become(s, [Fresh(s) EXCEPT !.pc = p])
    BY <1>3 DEF ListWork, ListOrphan
  <2>2. own'[s].pc = p
    BY <1>1, <2>1 DEF Become, Process
  <2>3. ~Holding(s)
    BY <1>3 DEF ListWork, ListOrphan, Turn, At, Holding, Holders, Handing, Acting, AtHome,
                Polled
  <2> QED
    BY <2>2, <2>3
<1>4. CASE Load(s)
  <2>1. PICK p \in {"ask", "tell", "claim"} :
          Become(s, [Fresh(s) EXCEPT !.fresh = TRUE, !.seen = rec.deleg, !.state = rec.state,
                                     !.said = Business(s), !.pc = p])
    BY <1>4 DEF Load
  <2>2. own'[s].pc = p
    BY <1>1, <2>1 DEF Become, Process
  <2> QED
    BY <1>4, <2>2
<1>5. CASE Ask(s)
  <2>1. \/ Over(s)
        \/ \E e : Become(s, [own[s] EXCEPT !.pc = "claim", !.ext = e])
        \/ \E e, a : Become(s, [own[s] EXCEPT !.pc = "claim", !.ext = e, !.said = a])
    BY <1>5 DEF Ask, Over
  <2>2. ASSUME NEW e, NEW a,
               \/ Become(s, [own[s] EXCEPT !.pc = "claim", !.ext = e])
               \/ Become(s, [own[s] EXCEPT !.pc = "claim", !.ext = e, !.said = a])
        PROVE  own'[s].pc = "claim"
    BY <1>1, <2>2 DEF Become, Process
  <2> QED
    BY <1>2, <1>5, <2>1, <2>2
<1>6. CASE Offer(s) \/ StartAccepted(s) \/ LocateStart(s)
  <2>1. Holding(s) /\ ~Ending(s)
    BY <1>6 DEF Offer, StartAccepted, LocateStart, At, Holding, Holders, Handing, Ending, Tell,
       AskFails, Mark, CancelHere, LocalFenced, Take, Release, Pass
  <2>2. \/ Goes(s, "release") \/ Goes(s, "locate") \/ Goes(s, "offer") \/ Goes(s, "unhand")
        \/ \E x : Become(s, [own[s] EXCEPT !.pc = "start", !.sys = x, !.left = @ - 1])
        \/ \E e : Become(s, [own[s] EXCEPT !.pc = "handle", !.ext = e])
    BY <1>6 DEF Offer, StartAccepted, LocateStart, Located
  <2>3. ASSUME NEW x, Become(s, [own[s] EXCEPT !.pc = "start", !.sys = x, !.left = @ - 1])
        PROVE  own'[s].pc = "start" /\ own'[s].cur = own[s].cur
    BY <1>1, <2>3 DEF Become, Process
  <2>4. ASSUME NEW e, Become(s, [own[s] EXCEPT !.pc = "handle", !.ext = e])
        PROVE  own'[s].pc = "handle" /\ own'[s].cur = own[s].cur
    BY <1>1, <2>4 DEF Become, Process
  <2>5. /\ own'[s].pc \in Handing \cup {"offer", "release"} /\ own'[s].cur = own[s].cur
    BY <1>1, <2>2, <2>3, <2>4, Going DEF Handing
  <2> QED
    BY <1>6, <2>1, <2>5 DEF Handing
<1>7. CASE Verify(s)
  <2>1. Become(s, [own[s] EXCEPT !.pc = "mark", !.said = final]) =>
          own'[s].pc = "mark" /\ own'[s].cur = own[s].cur
    BY <1>1 DEF Become, Process
  <2> QED
    BY <1>2, <1>7, <2>1 DEF Verify
<1>8. CASE LocalAsked(s)
  <2>1. own'[s].pc = "asked" /\ own'[s].cur = own[s].cur
    BY <1>1, <1>8 DEF LocalAsked, Become, Process
  <2>2. own[s].pc = "local" /\ Holding(s)
    BY <1>8 DEF LocalAsked, At, Holding, Holders, AtHome
  <2>3. ~Ending(s)
    BY <1>1, <2>1, Leaving DEF Ending, Tell, AskFails, Mark, CancelHere, LocalFenced, Take,
       Release, Pass
  <2> QED
    BY <2>1, <2>2, <2>3 DEF Handing
<1>9. CASE LocalProgress(s)
  BY <1>9 DEF Handing, LocalProgress, At, Holding, Holders, AtHome, Ending, Tell, AskFails, Mark,
     CancelHere, LocalFenced, Take, Release, Pass
<1>10. CASE Finalize(s) \/ LocalDeliver(s)
  BY <1>1, <1>2, <1>10, Going DEF Finalize, LocalDeliver
<1>11. CASE Ending(s)
  BY <1>2, <1>11 DEF Ending, Tell, AskFails, Mark, CancelHere, LocalFenced, Take, Release,
     Pass
<1>12. CASE \/ OfferNothing(s) \/ StartRefused(s) \/ StartEchoed(s) \/ Unhand(s)
            \/ RecordHandle(s) \/ Settle(s) \/ Note(s) \/ StillRunning(s) \/ CarryOn(s)
            \/ HandBack(s) \/ StartedOver(s) \/ CancelThere(s) \/ Pause(s)
            \/ NothingToHonour(s) \/ LocalHonour(s) \/ LocalFail(s) \/ LocalMark(s)
  <2>1. Holding(s)
    BY <1>12 DEF OfferNothing, StartRefused, StartEchoed, Unhand, RecordHandle, Settle, Note,
       StillRunning, CarryOn, HandBack, StartedOver, CancelThere, Pause, NothingToHonour,
       LocalHonour, LocalFail, LocalMark, At, Holding, Holders, Handing, Acting, AtHome,
       Polled
  <2>2. \/ Over(s) \/ Goes(s, "release")
        \/ /\ StartRefused(s) \/ Unhand(s) \/ CancelThere(s)
           /\ \E p \in {"offer", "locate", "cancel"} : Goes(s, p)
    BY <1>12 DEF OfferNothing, StartRefused, StartEchoed, Unhand, RecordHandle, Settle, Note,
       StillRunning, CarryOn, HandBack, StartedOver, CancelThere, Pause, NothingToHonour,
       LocalHonour, LocalFail, LocalMark
  <2>3. CASE ~Over(s)
    <3>1. /\ own'[s].pc \in {"offer", "release", "locate", "cancel"}
          /\ own'[s].cur = own[s].cur
          /\ own'[s].pc # "release" => StartRefused(s) \/ Unhand(s) \/ CancelThere(s)
      BY <1>1, <2>2, <2>3, Going
    <3>2. ~Ending(s)
      BY <1>1, <3>1, Leaving DEF Ending, Tell, AskFails, Mark, CancelHere, LocalFenced, Take,
         Release, Pass
    <3> QED
      BY <2>1, <3>1, <3>2 DEF Handing
  <2> QED
    BY <1>2, <2>3
<1> QED
  BY <1>3, <1>4, <1>5, <1>6, <1>7, <1>8, <1>9, <1>10, <1>11, <1>12 DEF Rest, Ending

\* What a step writes of the state, the lease and the proven bytes.
RecordMoves(s) ==
  /\ MayWrite(s) /\ rec'.want = rec.want
  /\ IF own[s].pc = "release"
     THEN rec' = LetGo(rec) /\ own'[s].pc = "idle"
     ELSE rec'.live = rec.live /\ rec'.holder = rec.holder
  /\ \/ rec'.state = rec.state
     \/ own[s].pc = "release"
     \/ rec'.state = "running" /\ own[s].pc \in {"offer", "handle"}
     \/ rec'.state = "pending" /\ own[s].pc \in {"unhand", "settle", "failed", "gone", "lied"}
     \/ rec'.state = "transferred" /\ own[s].pc = "placed"
     \/ rec'.state = "transferred" /\ own[s].pc = "mark" /\ own[s].said = "good"
     \/ /\ rec'.state = IF Ends THEN "failed" ELSE "pending"
        /\ own[s].pc = "mark" /\ own[s].said # "good"
     \/ rec'.state = "complete" /\ own[s].pc = "take"
     \/ rec'.state = "cancelled" /\ own[s].pc \in {"cancel", "asked"}
  /\ Terminal(rec'.state) => own'[s].pc = "idle"
  /\ rec.proven /\ ~rec'.proven => own[s].pc = "mark" /\ own[s].said # "good"

LEMMA RecordWrites ==
  ASSUME TypeOK, NEW s \in Supervisors, Rest(s), rec' # rec
  PROVE  RecordMoves(s)
<1>1. rec \in Record /\ own \in [Supervisors -> Process]
  BY Ranges
<1>2. Over(s) => own'[s].pc = "idle"
  BY <1>1, Leaving
<1> USE <1>1, <1>2 DEF Record, RecordMoves, At
<1>3. CASE Offer(s) \/ RecordHandle(s)
  BY <1>3 DEF Offer, RecordHandle, Terminal
<1>4. CASE Unhand(s) \/ Settle(s) \/ HandBack(s) \/ StartedOver(s)
  BY <1>4 DEF Unhand, Settle, HandBack, StartedOver, TakenBack, Terminal, MayWrite
<1>5. CASE Note(s) \/ Pause(s) \/ LocalProgress(s) \/ LocalFail(s) \/ LocalMark(s)
  BY <1>5 DEF Note, Pause, LocalProgress, LocalFail, LocalMark, Terminal, MayWrite
<1>6. CASE Mark(s)
  <2>1. rec' = Marked(s) /\ MayWrite(s) /\ own[s].pc = "mark" /\ own'[s].pc = "idle"
    BY <1>6 DEF Mark
  <2>2. CASE own[s].said = "good"
    BY <2>1, <2>2 DEF Marked
  <2>3. CASE own[s].said # "good"
    BY <2>1, <2>3 DEF Marked
  <2> QED
    BY <2>2, <2>3
<1>7. CASE CancelHere(s) \/ LocalHonour(s) \/ Take(s)
  BY <1>7 DEF CancelHere, LocalHonour, Take
<1>8. CASE Release(s)
  BY <1>8 DEF Release, LetGo
<1> QED
  BY <1>3, <1>4, <1>5, <1>6, <1>7, <1>8
     DEF Rest, ListWork, OfferNothing, StartAccepted, StartRefused, StartEchoed, LocateStart,
     Load, Tell, Ask, AskFails, StillRunning, CarryOn, Finalize, Verify, CancelThere,
     NothingToHonour, ListOrphan, LocalAsked, LocalFenced, LocalDeliver, Pass

\* One process works on the record at a time.
LEMMA OneHolds ==
  ASSUME Memory, Kept, NEW s \in Supervisors, NEW t \in Supervisors, Holding(s), Holding(t)
  PROVE  s = t
BY DEF Memory, LastClaim, Kept

\* The steps that put a file at the destination.
LEMMA FinalWrites ==
  ASSUME TypeOK, NEW s \in Supervisors, Rest(s), final' # final
  PROVE  /\ Holding(s) /\ UNCHANGED rec
         /\ final' \in {"good", "bad"}
         /\ own[s].pc = "transferred" \/ final' = "good"
<1>1. CASE Finalize(s)
  BY <1>1 DEF Finalize, At, Holding, Holders, Acting, Polled
<1>2. CASE LocalDeliver(s)
  BY <1>2 DEF LocalDeliver, At, Holding, Holders, AtHome
<1> QED
  BY <1>1, <1>2
     DEF Rest, ListWork, Offer, OfferNothing, StartAccepted, StartRefused, StartEchoed,
     LocateStart, Unhand, RecordHandle, Load, Tell, Ask, AskFails, Settle, Note,
     StillRunning, CarryOn, HandBack, StartedOver, Verify, Mark, CancelThere, CancelHere,
     Pause, NothingToHonour, ListOrphan, LocalProgress, LocalAsked, LocalHonour, LocalFail,
     LocalFenced, LocalMark, Take, Release, Pass

\* While a process works on the record, what another one does touches neither.
LEMMA Bystander ==
  ASSUME TypeOK, Memory, Kept, Orderly,
         NEW s \in Supervisors, NEW t \in Supervisors, s # t, Holding(t), Sweep(s)
  PROVE  own'[t] = own[t] /\ UNCHANGED <<rec, final>>
<1>1. ~Stalls /\ rec.live /\ rec.holder = t /\ own[t].cur /\ ~Holding(s) /\ ~own[s].cur
  BY OneHolds DEF Orderly, Alone, Kept, Memory, LastClaim
<1>2. own \in [Supervisors -> Process]
  BY Ranges
<1>3. CASE Claiming(s)
  <2>1. ~Takes(s)
    BY <1>1 DEF Takes, MayClaim
  <2> QED
    BY <1>2, <1>3, <2>1, Taking, Leaving
<1>4. CASE Rest(s)
  <2>1. own'[t] = own[t] /\ UNCHANGED rec
    BY <1>1, <1>4, Proceeding DEF Proceeds, MayWrite
  <2>2. UNCHANGED final
    BY <1>1, <1>4, FinalWrites
  <2> QED
    BY <2>1, <2>2
<1> QED
  BY <1>3, <1>4, SweepParts

\* What a process that still works on the record after a step did in it.
LEMMA Staying ==
  ASSUME TypeOK, Memory, Kept, NEW s \in Supervisors, Rest(s), own'[s].pc \in Holders
  PROVE  /\ Holding(s) /\ own'[s].cur = own[s].cur
         /\ rec'.live = rec.live /\ rec'.holder = rec.holder
         /\ rec' # rec => ~Terminal(rec'.state)
<1>1. ~({"idle", "listed", "orphan", "tell", "ask", "claim"} \cap Holders # {})
  BY DEF Holders, Handing, Acting, AtHome, Polled
<1>2. Holding(s) /\ own'[s].cur = own[s].cur
  <2>1. Finalize(s) \/ Verify(s) \/ LocalDeliver(s) => Holding(s)
    BY DEF Finalize, Verify, LocalDeliver, At, Holding, Holders, Acting, AtHome, Polled
  <2> QED
    BY <1>1, <2>1, Course
<1>3. CASE rec' # rec
  <2>1. RecordMoves(s) /\ own'[s].pc # "idle"
    BY <1>1, <1>3, RecordWrites
  <2> QED
    BY <1>2, <2>1 DEF RecordMoves
<1> QED
  BY <1>2, <1>3

LEMMA KeptStep ==
  ASSUME TypeOK, Memory, Kept, Orderly, [Next]_vars
  PROVE  Kept'
<1>1. own \in [Supervisors -> Process] /\ rec \in Record
  BY Ranges
<1>2. ASSUME NEW s \in Supervisors, Sweep(s)
      PROVE  Kept'
  <2>1. SUFFICES ASSUME NEW t \in Supervisors, own'[t].pc \in Holders
                 PROVE  /\ own'[t].cur
                        /\ ~Stalls => /\ rec'.live /\ rec'.holder = t
                                      /\ ~Terminal(rec'.state)
    BY DEF Kept, Holding
  <2>2. CASE t # s
    <3>1. own'[t] = own[t] \/ own'[t] = [own[t] EXCEPT !.cur = FALSE, !.fresh = FALSE]
      BY <1>1, <1>2, <2>2, Taking, Leaving, Proceeding, SweepParts DEF Takes, Proceeds
    <3>2. Holding(t)
      BY <1>1, <2>1, <3>1 DEF Holding, Process
    <3> QED
      BY <1>2, <2>2, <3>2, Bystander DEF Kept
  <2>3. CASE t = s /\ Claiming(s)
    <3>1. own'[s].pc # "idle"
      BY <2>1, <2>3 DEF Holders, Handing, Acting, AtHome, Polled
    <3>2. Takes(s)
      BY <1>1, <2>3, <3>1, Taking, Leaving
    <3> QED
      BY <1>1, <2>3, <3>2 DEF Takes, MayClaim, Record, Terminal
  <2>4. CASE t = s /\ Rest(s)
    BY <2>1, <2>4, Staying DEF Kept
  <2> QED
    BY <1>2, <2>2, <2>3, <2>4, SweepParts
<1>3. ASSUME NEW s \in Supervisors, Crash(s)
      PROVE  Kept'
  <2>1. /\ own'[s] = Idle /\ \A t \in Supervisors \ {s} : own'[t] = own[t]
        /\ rec' = [rec EXCEPT !.holder = IF @ = s THEN None ELSE @]
    BY <1>1, <1>3 DEF Crash, Become
  <2>2. Idle.pc \notin Holders
    BY DEF Idle, Holders, Handing, Acting, AtHome, Polled
  <2> QED
    BY <1>1, <2>1, <2>2 DEF Kept, Holding, Record
<1>4. CASE Around
  <2>1. UNCHANGED own /\ rec'.state = rec.state
    BY <1>4, OutsideMoves
  <2>2. ASSUME NEW t \in Supervisors, Holding(t), ~Stalls
        PROVE  rec'.live /\ rec'.holder = t
    <3>1. rec.live /\ rec.holder = t /\ own[t].pc # "idle" /\ t # None
      BY <2>2, DelegationAssumption DEF Kept, Holding, Holders, Handing, Acting, AtHome, Polled
    <3>2. ~Lapse
      BY <2>2, <3>1 DEF Lapse
    <3> QED
      BY <1>1, <1>4, <3>1, <3>2 DEF Around, ExternalStep, SetWant, Record
  <2> QED
    BY <2>1, <2>2 DEF Kept, Holding
<1>5. CASE UNCHANGED vars
  BY <1>5 DEF vars, Kept, Holding
<1> QED
  BY <1>2, <1>3, <1>4, <1>5 DEF Next, Around

-----------------------------------------------------------------------------
(* What is at the destination.                                              *)

\* What Destination says of one process.
Delivering(s) ==
  /\ own[s].pc \in {"ask", "claim"} => own[s].state # "transferred"
  /\ \/ own[s].pc = "ask" /\ own[s].said = "poll"
     \/ own[s].pc = "claim" /\ own[s].said \in Polled
     => own[s].state \in {"pending", "running"}
  /\ own[s].pc \in {"transferred", "verify", "mark"} => rec.state = "running"
  /\ own[s].pc \in {"verify", "mark"} => final \in {"good", "bad"}
  /\ own[s].pc = "mark" => own[s].said = final
  /\ own[s].pc = "placed" => final = "good"
  /\ own[s].pc = "take" => rec.state = "transferred"

LEMMA DeliveringAll ==
  Destination <=> \A s \in Supervisors : Delivering(s)
BY DEF Destination, Delivering

LEMMA DeliveringClaim ==
  ASSUME TypeOK, Memory, Destination, NEW s \in Supervisors, Claiming(s)
  PROVE  Delivering(s)'
<1>1. /\ own \in [Supervisors -> Process] /\ Fresh(s) \in Process /\ rec \in Record
      /\ own[s] \in Process /\ Shape(own[s]) /\ Delivering(s)
  BY Ranges, Beginning, DeliveringAll DEF Memory
<1>2. ASSUME NEW p, NEW o \in Process, p \in PCs, Claims(s, [o EXCEPT !.pc = p])
      PROVE  own'[s].pc = p /\ rec'.state = IF rec.state = "pending" THEN "running" ELSE rec.state
  BY <1>1, <1>2 DEF Claims, Process, Record
<1>3. CASE Over(s)
  BY <1>1, <1>3, Leaving DEF Delivering
<1>4. CASE DelegateClaim(s)
  <2>1. ASSUME Claims(s, [Fresh(s) EXCEPT !.pc = AfterClaim(rec), !.left = Sources])
        PROVE  own'[s].pc \in {"release", "offer"}
    BY <1>1, <2>1 DEF Claims, Process, AfterClaim
  <2> QED
    BY <1>3, <1>4, <2>1 DEF DelegateClaim, Delivering
<1>5. CASE ClaimDelegation(s)
  <2>1. NextStep(s) \in Holders \cap PCs /\ (NextStep(s) \in {"transferred"} => own[s].said = "transferred")
    BY <1>1, <1>5 DEF ClaimDelegation, At, NextStep, Shape, Holders, Acting, Polled, PCs
  <2>2. NextStep(s) \notin {"verify", "mark", "placed", "take"}
    BY <1>1, <1>5 DEF ClaimDelegation, At, NextStep, Shape, Polled
  <2>3. NextStep(s) \notin {"ask", "claim"}
    BY <2>1 DEF Holders, Handing, Acting, AtHome, Polled
  <2>4. CASE AsSeen(s) /\ Claims(s, [own[s] EXCEPT !.pc = NextStep(s)])
    <3>1. /\ own'[s].pc = NextStep(s)
          /\ rec'.state = IF rec.state = "pending" THEN "running" ELSE rec.state
      BY <1>1, <1>2, <2>1, <2>4
    <3>2. own'[s].pc = "transferred" => rec.state \in {"pending", "running"}
      BY <1>1, <1>5, <2>1, <2>4, <3>1 DEF ClaimDelegation, At, AsSeen, Delivering, Polled
    <3> QED
      BY <2>2, <2>3, <3>1, <3>2 DEF Delivering
  <2>5. CASE Claims(s, [own[s] EXCEPT !.pc = "release"])
    <3>1. own'[s].pc = "release"
      BY <1>1, <1>2, <2>5 DEF PCs
    <3> QED
      BY <3>1 DEF Delivering
  <2> QED
    BY <1>3, <1>5, <2>4, <2>5 DEF ClaimDelegation
<1>6. CASE RunClaim(s)
  <2>1. Over(s) \/ \E p \in {"local", "asked"} : Claims(s, [Fresh(s) EXCEPT !.pc = p])
    BY <1>6 DEF RunClaim
  <2>2. Over(s) \/ own'[s].pc \in {"local", "asked"}
    BY <1>1, <1>2, <2>1 DEF PCs
  <2> QED
    BY <1>3, <2>2 DEF Delivering
<1>7. CASE TakeClaim(s)
  <2>1. /\ rec.state = "transferred" /\ own'[s].pc = "take"
        /\ rec'.state = IF rec.state = "pending" THEN "running" ELSE rec.state
    BY <1>1, <1>2, <1>7 DEF TakeClaim, PCs
  <2> QED
    BY <2>1 DEF Delivering
<1> QED
  BY <1>4, <1>5, <1>6, <1>7 DEF Claiming

LEMMA DeliveringRest ==
  ASSUME TypeOK, Memory, Kept, Destination, NEW s \in Supervisors, Rest(s)
  PROVE  Delivering(s)'
<1>1. /\ own \in [Supervisors -> Process] /\ Fresh(s) \in Process /\ rec \in Record
      /\ own[s] \in Process /\ Delivering(s)
  BY Ranges, Beginning, DeliveringAll
<1>2. CASE Load(s)
  <2>1. PICK p \in {"ask", "claim", "tell"} :
          /\ Become(s, [Fresh(s) EXCEPT !.fresh = TRUE, !.seen = rec.deleg, !.state = rec.state,
                                        !.said = Business(s), !.pc = p])
          /\ p \in {"ask", "tell"} \/ Business(s) \notin {"settle", "poll", "tell"}
    BY <1>2 DEF Load
  <2>2. own'[s].pc = p /\ own'[s].said = Business(s) /\ own'[s].state = rec.state
    BY <1>1, <2>1 DEF Become, Process
  <2>3. /\ Business(s) = "poll" => rec.state \in {"pending", "running"}
        /\ rec.state # "transferred"
    BY <1>1, <1>2 DEF Load, Business, Record, States, Terminal
  <2>4. Business(s) \notin Polled
    BY DEF Business, Polled
  <2> QED
    BY <2>2, <2>3, <2>4 DEF Delivering
<1>3. CASE Ask(s)
  <2>1. \/ Over(s)
        \/ \E e : own[s].said = "settle" /\ Become(s, [own[s] EXCEPT !.pc = "claim", !.ext = e])
        \/ \E e, a : own[s].said = "poll" /\ Become(s, [own[s] EXCEPT !.pc = "claim", !.ext = e, !.said = a])
    BY <1>3 DEF Ask, Over
  <2>2. ASSUME NEW e, own[s].said = "settle", Become(s, [own[s] EXCEPT !.pc = "claim", !.ext = e])
        PROVE  own'[s].pc = "claim" /\ own'[s].state = own[s].state /\ own'[s].said = "settle"
    BY <1>1, <2>2 DEF Become, Process
  <2>3. ASSUME NEW e, NEW a, own[s].said = "poll",
               Become(s, [own[s] EXCEPT !.pc = "claim", !.ext = e, !.said = a])
        PROVE  own'[s].pc = "claim" /\ own'[s].state = own[s].state /\ own[s].said = "poll"
    BY <1>1, <2>3 DEF Become, Process
  <2>4. CASE Over(s)
    BY <1>1, <2>4, Leaving DEF Delivering
  <2> QED
    BY <1>1, <1>3, <2>1, <2>2, <2>3, <2>4 DEF Delivering, Ask, At, Polled
<1>4. CASE Finalize(s) /\ own'[s].pc = "verify"
  <2>1. /\ own[s].pc = "transferred" /\ UNCHANGED rec
        /\ Over(s) \/ final' \in {"good", "bad"}
    BY <1>4 DEF Finalize, At
  <2> QED
    BY <1>1, <1>4, <2>1, Leaving DEF Delivering
<1>5. CASE Verify(s) /\ own'[s].pc = "mark"
  <2>1. /\ own[s].pc = "verify" /\ UNCHANGED <<rec, final>>
        /\ Over(s) \/ Become(s, [own[s] EXCEPT !.pc = "mark", !.said = final])
    BY <1>5 DEF Verify, At
  <2>2. ASSUME Become(s, [own[s] EXCEPT !.pc = "mark", !.said = final])
        PROVE  own'[s].said = final
    BY <1>1, <2>2 DEF Become, Process
  <2> QED
    BY <1>1, <1>5, <2>1, <2>2, Leaving DEF Delivering
<1>6. CASE LocalDeliver(s) /\ own'[s].pc = "placed"
  <2>1. final' = "good"
    BY <1>6 DEF LocalDeliver
  <2> QED
    BY <1>6, <2>1 DEF Delivering
<1>7. CASE own'[s].pc \in Handing \cup {"offer", "release", "local", "asked", "cancel", "idle",
                                        "listed", "orphan", "tell"}
  BY <1>7 DEF Delivering, Handing
<1> QED
  BY <1>2, <1>3, <1>4, <1>5, <1>6, <1>7, Course

LEMMA DestinationStep ==
  ASSUME TypeOK, Memory, Kept, Orderly, Destination, [Next]_vars
  PROVE  Destination'
<1>1. own \in [Supervisors -> Process] /\ rec \in Record
  BY Ranges
<1>2. ASSUME NEW s \in Supervisors, Sweep(s)
      PROVE  Destination'
  <2>1. Delivering(s)'
    BY <1>2, DeliveringClaim, DeliveringRest, SweepParts
  <2>2. ASSUME NEW t \in Supervisors \ {s}
        PROVE  Delivering(t)'
    <3>1. own'[t] = own[t] \/ own'[t] = [own[t] EXCEPT !.cur = FALSE, !.fresh = FALSE]
      BY <1>1, <1>2, Taking, Leaving, Proceeding, SweepParts DEF Takes, Proceeds
    <3>2. /\ own'[t].pc = own[t].pc /\ own'[t].said = own[t].said
          /\ own'[t].state = own[t].state
      BY <1>1, <3>1 DEF Process
    <3>3. CASE Holding(t)
      <4>1. UNCHANGED <<rec, final>>
        BY <1>2, <3>3, Bystander
      <4> QED
        BY <3>2, <4>1, DeliveringAll DEF Delivering
    <3>4. CASE ~Holding(t)
      <4>1. own[t].pc \notin {"transferred", "verify", "mark", "placed", "take"}
        BY <3>4 DEF Holding, Holders, Acting, Polled, AtHome
      <4> QED
        BY <3>2, <4>1, DeliveringAll DEF Delivering
    <3> QED
      BY <3>3, <3>4
  <2> QED
    BY <2>1, <2>2 DEF Destination, Delivering
<1>3. ASSUME NEW s \in Supervisors, Crash(s)
      PROVE  Destination'
  <2>1. /\ own'[s] = Idle /\ \A t \in Supervisors \ {s} : own'[t] = own[t]
        /\ rec'.state = rec.state /\ UNCHANGED final
    BY <1>1, <1>3 DEF Crash, Become, Record
  <2> QED
    BY <2>1 DEF Destination, Idle
<1>4. CASE Around
  <2>1. UNCHANGED <<own, final>> /\ rec'.state = rec.state
    BY <1>4, OutsideMoves
  <2> QED
    BY <2>1 DEF Destination
<1>5. CASE UNCHANGED vars
  BY <1>5 DEF vars, Destination
<1> QED
  BY <1>2, <1>3, <1>4, <1>5 DEF Next, Around

LEMMA DeliveredStep ==
  ASSUME TypeOK, Memory, Kept, Orderly, Destination, DeliveredGood, [Next]_vars
  PROVE  DeliveredGood'
<1>1. own \in [Supervisors -> Process] /\ rec \in Record
  BY Ranges
<1>2. ASSUME NEW s \in Supervisors, Claiming(s)
      PROVE  DeliveredGood'
  <2>1. UNCHANGED final /\ rec'.state = IF rec.state = "pending" /\ Takes(s) THEN "running" ELSE rec.state
    BY <1>1, <1>2, Taking DEF Takes, Record
  <2> QED
    BY <2>1 DEF DeliveredGood
<1>3. ASSUME NEW s \in Supervisors, Rest(s)
      PROVE  DeliveredGood'
  <2>1. Delivering(s)
    BY DeliveringAll
  <2>2. CASE final' # final
    <3>1. UNCHANGED rec /\ (own[s].pc = "transferred" \/ final' = "good")
      BY <1>3, <2>2, FinalWrites
    <3> QED
      BY <2>1, <3>1 DEF Delivering, DeliveredGood
  <2>3. CASE rec' # rec
    <3>1. RecordMoves(s) /\ UNCHANGED final
      BY <1>3, <2>3, RecordWrites, FinalWrites
    <3>2. own[s].pc = "release" => rec'.state \in {rec.state, "pending"}
      BY <1>1, <3>1 DEF RecordMoves, LetGo, Record
    <3>3. own[s].pc # "release" =>
            \/ rec'.state \in {rec.state, "pending", "running", "cancelled", "failed"}
            \/ own[s].pc \in {"placed", "take"}
            \/ own[s].pc = "mark" /\ own[s].said = "good"
      BY <3>1 DEF RecordMoves
    <3> QED
      BY <2>1, <3>1, <3>2, <3>3 DEF Delivering, DeliveredGood
  <2> QED
    BY <2>2, <2>3 DEF DeliveredGood
<1>4. ASSUME NEW s \in Supervisors, Crash(s)
      PROVE  DeliveredGood'
  BY <1>1, <1>4 DEF Crash, Record, DeliveredGood
<1>5. CASE Around
  BY <1>5, OutsideMoves DEF DeliveredGood
<1>6. CASE UNCHANGED vars
  BY <1>6 DEF vars, DeliveredGood
<1> QED
  BY <1>2, <1>3, <1>4, <1>5, <1>6, SweepParts DEF Next, Around

DeliveryInv == TypeOK /\ Memory /\ Kept /\ Destination /\ DeliveredGood

LEMMA DeliveryBegins ==
  ASSUME Init
  PROVE  DeliveryInv
<1>1. TypeOK /\ Memory
  BY Begins
<1>2. \A s \in Supervisors : own[s] = Idle
  BY DEF Init
<1>3. Kept /\ Destination
  BY <1>2 DEF Kept, Destination, Holding, Holders, Handing, Acting, AtHome, Polled, Idle
<1>4. DeliveredGood
  BY DEF Init, DeliveredGood
<1> QED
  BY <1>1, <1>3, <1>4 DEF DeliveryInv

LEMMA DeliveryStep ==
  ASSUME Orderly, DeliveryInv, [Next]_vars
  PROVE  DeliveryInv'
BY TypeStep, MemoryStep, KeptStep, DestinationStep, DeliveredStep DEF DeliveryInv

(***************************************************************************)
(* Whoever moved the bytes, a record says transferred only over the right  *)
(* file: between Finalize and the mark nobody else works on the record, so *)
(* the hash that was taken is still that of the file.  It needs processes  *)
(* that do not stall past their lease, or only one of them: a process that *)
(* wakes up in Finalize would write over what another delivered.           *)
(***************************************************************************)
THEOREM Delivered == Orderly => (Spec => []DeliveredGood)
<1> SUFFICES ASSUME Orderly
             PROVE  Spec => []DeliveredGood
  OBVIOUS
<1>1. Init => DeliveryInv
  BY DeliveryBegins
<1>2. DeliveryInv /\ [Next]_vars => DeliveryInv'
  BY DeliveryStep
<1>3. DeliveryInv => DeliveredGood
  BY DEF DeliveryInv
<1> QED
  BY <1>1, <1>2, <1>3, PTL DEF Spec

(***************************************************************************)
(* Proven bytes outlive every system that failed, forgot the work or began *)
(* again: the one step that unproves them is the mark of a file whose hash *)
(* was wrong, and that file is then at the destination.                    *)
(***************************************************************************)
THEOREM ProvenBytesKept == Orderly => (Spec => KeptProven)
<1> SUFFICES ASSUME Orderly
             PROVE  Spec => KeptProven
  OBVIOUS
<1>1. Init => DeliveryInv
  BY DeliveryBegins
<1>2. DeliveryInv /\ [Next]_vars => DeliveryInv'
  BY DeliveryStep
<1>3. DeliveryInv /\ [Next]_vars => [rec.proven /\ ~rec'.proven => final = "bad"]_vars
  <2> SUFFICES ASSUME DeliveryInv, [Next]_vars, rec.proven, ~rec'.proven
               PROVE  final = "bad"
    OBVIOUS
  <2>1. TypeOK /\ Memory /\ rec \in Record /\ \A s \in Supervisors : Delivering(s)
    BY Ranges, DeliveringAll DEF DeliveryInv
  <2>2. ASSUME NEW s \in Supervisors, Rest(s)
        PROVE  final = "bad"
    <3>1. RecordMoves(s)
      BY <2>1, <2>2, RecordWrites
    <3> QED
      BY <2>1, <3>1 DEF RecordMoves, Delivering
  <2>3. ASSUME NEW s \in Supervisors, Claiming(s)
        PROVE  FALSE
    BY <2>1, <2>3, Taking DEF Takes, Record
  <2>4. ~(\E s \in Supervisors : Crash(s)) /\ ~Around /\ ~UNCHANGED vars
    BY <2>1, OutsideMoves DEF Crash, Record, vars
  <2> QED
    BY <2>2, <2>3, <2>4, SweepParts DEF Next, Around
<1> QED
  BY <1>1, <1>2, <1>3, PTL DEF Spec, KeptProven

-----------------------------------------------------------------------------
(* Where the external jobs are: what was heard of a job that is over.       *)

\* Where a claim takes a process.
LEMMA Granted ==
  ASSUME TypeOK, Memory, NEW s \in Supervisors, Claiming(s)
  PROVE  \/ own'[s].pc = "idle"
         \/ DelegateClaim(s) /\ own'[s].pc = AfterClaim(rec)
         \/ /\ RunClaim(s)
            /\ own'[s].pc = IF rec.want = "run" THEN "local" ELSE "asked"
         \/ TakeClaim(s) /\ own'[s].pc = "take"
         \/ ClaimDelegation(s) /\ own'[s].pc = "release"
         \/ /\ ClaimDelegation(s) /\ AsSeen(s) /\ own[s].pc = "claim"
            /\ own'[s].pc = own[s].said
            /\ own[s].said \in Polled \cup {"settle", "stranded", "honour"}
            /\ own'[s].said = own[s].said /\ own'[s].ext = own[s].ext
            /\ own'[s].seen = own[s].seen
<1>1. /\ own \in [Supervisors -> Process] /\ own[s] \in Process /\ Fresh(s) \in Process
      /\ Shape(own[s])
  BY Ranges, Beginning DEF Memory
<1>2. Over(s) => own'[s].pc = "idle"
  BY <1>1, Leaving
<1>3. ASSUME NEW o \in Process, NEW p \in PCs, Claims(s, [o EXCEPT !.pc = p])
      PROVE  own'[s].pc = p /\ own'[s].said = o.said /\ own'[s].ext = o.ext
             /\ own'[s].seen = o.seen
  BY <1>1, <1>3 DEF Claims, Process
<1>4. CASE DelegateClaim(s)
  <2>1. ASSUME Claims(s, [Fresh(s) EXCEPT !.pc = AfterClaim(rec), !.left = Sources])
        PROVE  own'[s].pc = AfterClaim(rec)
    BY <1>1, <2>1 DEF Claims, Process
  <2> QED
    BY <1>2, <1>4, <2>1 DEF DelegateClaim
<1>5. CASE ClaimDelegation(s)
  <2>1. /\ own[s].pc = "claim"
        /\ own[s].said \in Polled \cup {"settle", "stranded", "honour"}
    BY <1>1, <1>5 DEF ClaimDelegation, At, Shape
  <2>2. NextStep(s) \in {"release", own[s].said} /\ NextStep(s) \in PCs /\ "release" \in PCs
    BY <1>1, <2>1 DEF NextStep, Polled, PCs
  <2> QED
    BY <1>1, <1>2, <1>3, <1>5, <2>1, <2>2 DEF ClaimDelegation
<1>6. CASE RunClaim(s)
  <2>1. Over(s) \/ Claims(s, [Fresh(s) EXCEPT !.pc = IF rec.want = "run" THEN "local" ELSE "asked"])
    BY <1>6 DEF RunClaim
  <2>2. (IF rec.want = "run" THEN "local" ELSE "asked") \in PCs
    BY DEF PCs
  <2> QED
    BY <1>1, <1>2, <1>3, <1>6, <2>1, <2>2
<1>7. CASE TakeClaim(s)
  BY <1>1, <1>3, <1>7 DEF TakeClaim, PCs
<1> QED
  BY <1>4, <1>5, <1>6, <1>7 DEF Claiming

\* What moves the process of a step and what moves the others.
LEMMA Others ==
  ASSUME TypeOK, Memory, NEW s \in Supervisors, Sweep(s) \/ Crash(s),
         NEW t \in Supervisors \ {s}
  PROVE  /\ own'[t].pc = own[t].pc /\ own'[t].said = own[t].said /\ own'[t].ext = own[t].ext
         /\ own'[t].seen = own[t].seen /\ own'[t].sys = own[t].sys
         /\ own'[t].state = own[t].state
         /\ own'[t].fresh => own[t].fresh
         /\ Takes(s) => ~own'[t].fresh
<1>1. own \in [Supervisors -> Process] /\ own[t] \in Process
  BY Ranges
<1>2. Takes(s) => own'[t] = [own[t] EXCEPT !.cur = FALSE, !.fresh = FALSE]
  BY DEF Takes
<1>3. own'[t] = own[t] \/ Takes(s)
  <2>1. Crash(s) => own'[t] = own[t]
    BY <1>1 DEF Crash, Become
  <2> QED
    BY <1>1, <2>1, Taking, Leaving, Proceeding, SweepParts DEF Proceeds
<1> QED
  BY <1>1, <1>2, <1>3 DEF Process

\* A job somebody knows the handle of does not start again once it is over.
LEMMA Halted ==
  ASSUME TypeOK, Memory, NEW e \in Handles, ~Active(e), ~Unheld(e), [Next]_vars
  PROVE  ~Active(e)'
<1>1. ASSUME Shrink \/ UNCHANGED ext
      PROVE  ~Active(e)'
  BY <1>1 DEF Shrink, Active
<1>2. ASSUME NEW s \in Supervisors, Claiming(s) \/ Crash(s)
      PROVE  UNCHANGED ext
  BY <1>2, Taking DEF Takes, Crash
<1>3. ASSUME NEW s \in Supervisors, Rest(s)
      PROVE  ~Active(e)'
  <2>1. CASE StartAccepted(s)
    <3>1. PICK f \in Handles : ext[f].st = "none" /\ \A g \in Handles \ {f} : ext'[g] = ext[g]
      BY <2>1, Started
    <3>2. f # e
      BY <3>1 DEF Memory, GivenOut
    <3> QED
      BY <3>1, <3>2 DEF Active
  <2> QED
    BY <1>1, <1>3, <2>1, JobsOfStep
<1>4. CASE Around
  BY <1>1, <1>4, OutsideMoves DEF Active, Nothing
<1> QED
  BY <1>1, <1>2, <1>3, <1>4, SweepParts DEF Next, Around, vars

\* What a process heard stays so while it is where it was.
LEMMA StoppingHeld ==
  ASSUME TypeOK, Memory, NEW t \in Supervisors, Stopping(own[t]), [Next]_vars,
         own'[t].pc = own[t].pc, own'[t].said = own[t].said, own'[t].ext = own[t].ext,
         own'[t].seen = own[t].seen
  PROVE  Stopping(own[t])'
<1>1. Shape(own[t])
  BY DEF Memory
<1>2. ~Unheld(own[t].ext) /\ ~Unheld(own[t].seen.ext)
  BY DEF Unheld
<1>3. CASE \/ own[t].pc = "claim" /\ own[t].said \in {"failed", "gone"}
           \/ own[t].pc \in {"failed", "gone", "verify", "mark"}
  <2>1. own[t].ext \in Handles /\ ~Active(own[t].ext)
    BY <1>1, <1>3 DEF Shape, Stopping, Polled
  <2> QED
    BY <1>2, <1>3, <2>1, Halted DEF Stopping, Active
<1>4. CASE own[t].pc = "cancel"
  <2>1. own[t].seen.ext \in Handles /\ ~Active(own[t].seen.ext)
    BY <1>1, <1>4 DEF Shape, Stopping
  <2> QED
    BY <1>2, <1>4, <2>1, Halted DEF Stopping, Active
<1> QED
  BY <1>3, <1>4 DEF Stopping

LEMMA StoppingMoves ==
  ASSUME TypeOK, Memory, NEW s \in Supervisors, Stopping(own[s]), Sweep(s)
  PROVE  Stopping(own[s])'
<1>1. /\ own \in [Supervisors -> Process] /\ own[s] \in Process /\ Fresh(s) \in Process
      /\ ext \in [Handles -> Job] /\ Shape(own[s])
  BY Ranges, Beginning DEF Memory
<1>2. CASE Claiming(s)
  <2>1. UNCHANGED ext
    BY <1>2, Taking DEF Takes
  <2>2. AfterClaim(rec) \in {"offer", "release"}
    BY DEF AfterClaim
  <2>3. CASE /\ own[s].pc = "claim" /\ own'[s].pc = own[s].said
             /\ own[s].said \in Polled \cup {"settle", "stranded", "honour"}
             /\ own'[s].ext = own[s].ext
    <3>1. \A e : ~Active(e) => ~Active(e)'
      BY <2>1 DEF Active
    <3>2. own'[s].pc \notin {"claim", "verify", "mark", "cancel"}
      BY <2>3 DEF Polled
    <3> QED
      BY <2>3, <3>1, <3>2 DEF Stopping, Active
  <2>4. CASE own'[s].pc \in {"idle", "offer", "release", "local", "asked", "take"}
    BY <2>4 DEF Stopping
  <2> QED
    BY <1>2, <2>2, <2>3, <2>4, Granted
<1>3. CASE Load(s)
  <2>1. PICK p \in {"ask", "claim", "tell"} :
          Become(s, [Fresh(s) EXCEPT !.fresh = TRUE, !.seen = rec.deleg, !.state = rec.state,
                                     !.said = Business(s), !.pc = p])
    BY <1>3 DEF Load
  <2>2. own'[s].pc = p /\ own'[s].said = Business(s)
    BY <1>1, <2>1 DEF Become, Process
  <2>3. Business(s) \notin {"failed", "gone"}
    BY DEF Business
  <2> QED
    BY <2>2, <2>3 DEF Stopping
<1>4. CASE Ask(s)
  <2>1. /\ UNCHANGED ext /\ own[s].pc = "ask"
        /\ \/ Over(s)
           \/ \E e : own[s].said = "settle" /\ Become(s, [own[s] EXCEPT !.pc = "claim", !.ext = e])
           \/ \E a \in PollSays(own[s].seen.ext) :
                /\ own[s].said = "poll"
                /\ Become(s, [own[s] EXCEPT !.pc = "claim", !.ext = own[s].seen.ext, !.said = a])
    BY <1>4 DEF Ask, Over, At
  <2>2. ASSUME NEW e, own[s].said = "settle", Become(s, [own[s] EXCEPT !.pc = "claim", !.ext = e])
        PROVE  own'[s].pc = "claim" /\ own'[s].said = "settle"
    BY <1>1, <2>2 DEF Become, Process
  <2>3. ASSUME NEW a \in PollSays(own[s].seen.ext), own[s].said = "poll",
               Become(s, [own[s] EXCEPT !.pc = "claim", !.ext = own[s].seen.ext, !.said = a])
        PROVE  Stopping(own[s])'
    <3>1. own'[s].pc = "claim" /\ own'[s].said = a /\ own'[s].ext = own[s].seen.ext
      BY <1>1, <2>3 DEF Become, Process
    <3>2. own[s].seen.ext \in Handles
      BY <1>1, <2>1, <2>3 DEF Shape
    <3>3. a \in {"failed", "gone"} => ~Active(own[s].seen.ext)
      BY <1>1, <2>3, <3>2 DEF PollSays, Active
    <3> QED
      BY <2>1, <3>1, <3>3 DEF Stopping, Active
  <2>4. CASE Over(s)
    BY <1>1, <2>4, Leaving DEF Stopping
  <2> QED
    BY <2>1, <2>2, <2>3, <2>4 DEF Stopping
<1>5. CASE Finalize(s) /\ own'[s].pc = "verify"
  <2>1. /\ own[s].pc = "transferred" /\ own[s].ext \in Handles /\ own'[s].ext = own[s].ext
        /\ \E st \in {"done", "released"} : Sets(own[s].ext, st)
    BY <1>1, <1>5, Leaving, Going DEF Finalize, At, Shape, Polled
  <2>2. ~Active(own[s].ext)'
    BY <1>1, <2>1 DEF Sets, Active, Job
  <2> QED
    BY <1>5, <2>1, <2>2 DEF Stopping, Active
<1>6. CASE Verify(s) /\ own'[s].pc = "mark"
  <2>1. /\ own[s].pc = "verify" /\ UNCHANGED ext
        /\ Over(s) \/ Become(s, [own[s] EXCEPT !.pc = "mark", !.said = final])
    BY <1>6 DEF Verify, At
  <2>2. ASSUME Become(s, [own[s] EXCEPT !.pc = "mark", !.said = final])
        PROVE  own'[s].ext = own[s].ext
    BY <1>1, <2>2 DEF Become, Process
  <2> QED
    BY <1>1, <1>6, <2>1, <2>2, Leaving DEF Stopping, Active
<1>7. CASE CancelThere(s) /\ own'[s].pc = "cancel"
  <2>1. /\ own[s].pc = "honour" /\ Stopped(own[s].seen.ext) /\ Goes(s, "cancel")
    BY <1>1, <1>7, Leaving DEF CancelThere, At
  <2>2. own'[s].seen = own[s].seen /\ own[s].seen.ext \in Handles
    BY <1>1, <2>1, Going DEF Shape
  <2>3. ~Active(own[s].seen.ext)'
    BY <1>1, <2>1, <2>2 DEF Stopped, Active, Job
  <2> QED
    BY <1>7, <2>2, <2>3 DEF Stopping, Active
<1>8. CASE own'[s].pc \notin {"claim", "failed", "gone", "verify", "mark", "cancel"}
  BY <1>8 DEF Stopping
<1>9. ASSUME Rest(s), ~Load(s), ~Ask(s),
             own'[s].pc \in {"claim", "failed", "gone", "verify", "mark", "cancel"}
      PROVE  \/ Finalize(s) /\ own'[s].pc = "verify"
             \/ Verify(s) /\ own'[s].pc = "mark"
             \/ CancelThere(s) /\ own'[s].pc = "cancel"
  <2>1. own'[s].pc = "cancel" => \A p \in Handing \cup {"offer", "verify", "mark"} : own'[s].pc # p
    BY DEF Handing
  <2>2. own'[s].pc = "cancel" =>
          ~Offer(s) /\ ~StartAccepted(s) /\ ~StartRefused(s) /\ ~LocateStart(s) /\ ~Unhand(s)
    <3>1. \A p \in {"release", "locate", "offer", "unhand"} : Goes(s, p) => own'[s].pc # "cancel"
      BY <1>1, Going
    <3>2. \A x : Become(s, [own[s] EXCEPT !.pc = "start", !.sys = x, !.left = @ - 1])
                   => own'[s].pc # "cancel"
      BY <1>1 DEF Become, Process
    <3>3. \A e : Become(s, [own[s] EXCEPT !.pc = "handle", !.ext = e]) => own'[s].pc # "cancel"
      BY <1>1 DEF Become, Process
    <3> QED
      BY <3>1, <3>2, <3>3 DEF Offer, StartAccepted, StartRefused, LocateStart, Located, Unhand
  <2> QED
    BY <1>9, <2>2, Course DEF Handing
<1> QED
  BY <1>2, <1>3, <1>4, <1>5, <1>6, <1>7, <1>8, <1>9, SweepParts

LEMMA StoppingStep ==
  ASSUME TypeOK, Memory, \A t \in Supervisors : Stopping(own[t]), [Next]_vars,
         NEW t \in Supervisors
  PROVE  Stopping(own[t])'
<1>1. ASSUME NEW s \in Supervisors, Sweep(s) \/ Crash(s)
      PROVE  Stopping(own[t])'
  <2>1. CASE t # s
    BY <1>1, <2>1, Others, StoppingHeld
  <2>2. CASE t = s /\ Crash(s)
    <3>1. own'[s].pc = "idle"
      BY <2>2, Ranges DEF Crash, Become, Idle
    <3> QED
      BY <2>2, <3>1 DEF Stopping
  <2> QED
    BY <1>1, <2>1, <2>2, StoppingMoves
<1>2. CASE Around \/ UNCHANGED vars
  BY <1>2, OutsideMoves, StoppingHeld DEF vars
<1> QED
  BY <1>1, <1>2 DEF Next, Around

-----------------------------------------------------------------------------
(* Where the external jobs are: the record leads to each of them.           *)

\* What a step does to the faults.
LEMMA FaultSteps ==
  ASSUME TypeOK, Memory, [Next]_vars
  PROVE  Disturb \/ Calm \/ Leak \/ faults'.leaked = faults.leaked
<1>1. ASSUME NEW s \in Supervisors, Rest(s)
      PROVE  Disturb \/ Calm \/ Leak \/ UNCHANGED faults
  BY <1>1 DEF Rest, ListWork, Offer, OfferNothing, StartAccepted, StartRefused,
     StartEchoed, LocateStart, Located, Unhand, RecordHandle, Load, Tell, Ask, AskFails,
     Settle, Note, StillRunning, CarryOn, HandBack, StartedOver, Finalize, Verify, Mark,
     CancelThere, CancelHere, Pause, NothingToHonour, ListOrphan, LocalProgress, LocalAsked,
     LocalHonour, LocalFail, LocalFenced, LocalDeliver, LocalMark, Take, Release, Pass
<1>2. ASSUME NEW s \in Supervisors, Claiming(s) \/ Crash(s)
      PROVE  Disturb \/ UNCHANGED faults
  BY <1>2, Taking DEF Takes, Crash
<1> QED
  BY <1>1, <1>2, OutsideMoves, SweepParts DEF Next, Around, vars

\* What was leaked stays leaked.
LEMMA Leaking ==
  ASSUME TypeOK, Memory, [Next]_vars, ~faults'.leaked
  PROVE  ~faults.leaked
<1>1. faults \in Faults
  BY Ranges
<1>2. Disturb \/ Calm => faults'.leaked = faults.leaked
  BY <1>1 DEF Disturb, Calm, Faults
<1> QED
  BY <1>2, FaultSteps DEF Leak

\* Work nobody has handed out runs nowhere outside; work handed to a job runs
\* in no other.
LEMMA Leads ==
  ASSUME Found
  PROVE  /\ ~Delegated(rec) => NoneActive
         /\ \A h \in Handles : rec.deleg.ext = h => OnlyActive(h)
BY DelegationAssumption
   DEF Found, NoneActive, OnlyActive, Delegated, NotDelegated

\* A step that starts nothing makes nothing active.
LEMMA Fewer ==
  ASSUME \/ Shrink \/ UNCHANGED ext
         \/ \E e \in Handles : /\ ~Active(e) /\ ext'[e] = Nothing
                               /\ \A f \in Handles \ {e} : ext'[f] = ext[f]
  PROVE  /\ \A e \in Handles : Active(e)' => Active(e) /\ ext'[e].sys = ext[e].sys
         /\ NoneActive => NoneActive'
         /\ \A h : OnlyActive(h) => \A e \in Handles : Active(e)' => e = h
         /\ OneActive => OneActive'
<1>1. \A e \in Handles : Active(e)' => Active(e) /\ ext'[e].sys = ext[e].sys
  BY DEF Shrink, Active, Nothing
<1> QED
  BY <1>1 DEF NoneActive, OnlyActive, OneActive

\* While nothing is lost: what Jobs says of every process but one.
Informed == Found /\ OneActive /\ Undisturbed /\ \A s \in Supervisors : Knows(own[s])

LEMMA InformedClaiming ==
  ASSUME TypeOK, Memory, Kept, Informed, NEW s \in Supervisors, Claiming(s)
  PROVE  /\ UNCHANGED ext /\ rec'.deleg = rec.deleg /\ Found' /\ OneActive'
         /\ Knows(own[s])'
<1>1. rec \in Record /\ own \in [Supervisors -> Process] /\ own[s] \in Process
  BY Ranges
<1>2. UNCHANGED ext /\ rec'.deleg = rec.deleg
  <2>1. Takes(s) \/ UNCHANGED <<rec, ext>>
    BY Taking
  <2> QED
    BY <1>1, <2>1 DEF Takes, Record
<1>3. Found' /\ OneActive'
  BY <1>2 DEF Informed, Found, OneActive, OnlyActive, Active
<1>4. Knows(own[s])'
  <2>1. AfterClaim(rec) = "release" \/ (AfterClaim(rec) = "offer" /\ ~Delegated(rec))
    BY DEF AfterClaim
  <2>2. CASE own'[s].pc = "offer" /\ ~Delegated(rec)
    BY <1>2, <2>2 DEF Knows, Handing, Delegated
  <2>3. CASE own'[s].pc \in {"idle", "release", "local", "asked", "take"}
    BY <2>3 DEF Knows, Handing
  <2>4. CASE /\ AsSeen(s) /\ own[s].pc = "claim" /\ own'[s].pc = own[s].said
             /\ own[s].said \in Polled \cup {"settle", "stranded", "honour"}
             /\ own'[s].ext = own[s].ext
    <3>1. own[s].said = "settle" => OnlyActive(own[s].ext)
      BY <2>4 DEF Informed, Knows, AsSeen
    <3>2. own[s].said = "settle" => OnlyActive(own[s].ext)'
      BY <1>2, <2>4, <3>1 DEF OnlyActive, Active
    <3>3. own'[s].pc \notin Handing \cup {"offer", "claim"}
      BY <2>4 DEF Polled, Handing
    <3> QED
      BY <2>4, <3>2, <3>3 DEF Knows, OnlyActive, Handing
  <2> QED
    BY <2>1, <2>2, <2>3, <2>4, Granted
<1> QED
  BY <1>2, <1>3, <1>4

\* Where the process that holds the last claim heard that its job is over, no
\* job is left.
LEMMA DoneThere ==
  ASSUME Memory, Found, NEW s \in Supervisors, Stopping(own[s]), own[s].cur,
         own[s].pc \in {"failed", "gone", "verify", "mark", "cancel"}
  PROVE  NoneActive
<1>1. rec.deleg = own[s].seen
  BY DEF Memory, LastClaim, Acting, Polled
<1>2. /\ own[s].seen.ext \in Handles
      /\ own[s].pc # "cancel" => own[s].ext = own[s].seen.ext
      /\ ~Active(own[s].seen.ext)
  BY DEF Memory, Shape, Polled, Stopping
<1> QED
  BY <1>1, <1>2, Leads DEF NoneActive, OnlyActive

\* Only the work taken from a system that began again is written at "lied".
LEMMA LiedWrites ==
  ASSUME NEW s \in Supervisors, Rest(s), own[s].pc = "lied"
  PROVE  StartedOver(s)
BY DEF Rest, ListWork, Offer, OfferNothing, StartAccepted, StartRefused,
   StartEchoed, LocateStart, Unhand, RecordHandle, Load, Tell, Ask, AskFails,
   Settle, Note, StillRunning, CarryOn, HandBack, Finalize, Verify, Mark,
   CancelThere, CancelHere, Pause, NothingToHonour, ListOrphan, LocalProgress, LocalAsked,
   LocalHonour, LocalFail, LocalFenced, LocalDeliver, LocalMark, Take, Release, Pass, At, Turn

\* Where the process that holds the last claim takes the work from a system
\* that began again, no job is left after it.
LEMMA StopThere ==
  ASSUME TypeOK, Memory, Found, ~faults'.leaked, NEW s \in Supervisors, Rest(s),
         own[s].pc = "lied", own[s].cur
  PROVE  NoneActive'
<1>1. /\ ext \in [Handles -> Job] /\ Shape(own[s]) /\ rec.deleg = own[s].seen
  BY Ranges DEF Memory, LastClaim, Acting, Polled
<1>2. own[s].ext \in Handles /\ own[s].ext = own[s].seen.ext
  BY <1>1 DEF Polled, Shape
<1>3. OnlyActive(own[s].ext)
  BY <1>1, <1>2, Leads
<1>4. StartedOver(s) /\ Stopped(own[s].ext)
  BY LiedWrites DEF StartedOver, Leak
<1>5. ext'[own[s].ext].st \notin {"running", "suspended", "transferred"}
  BY <1>1, <1>2, <1>4 DEF Stopped, Active, Job
<1>6. \A e \in Handles : Active(e)' => Active(e)
  BY <1>1, <1>4, Shrinking, Fewer
<1> QED
  BY <1>3, <1>5, <1>6 DEF OnlyActive, NoneActive, Active

LEMMA FoundRest ==
  ASSUME TypeOK, Memory, Kept, Answering, Informed, \A t \in Supervisors : Stopping(own[t]),
         ~faults'.leaked, NEW s \in Supervisors, Rest(s)
  PROVE  Found' /\ OneActive'
<1>1. /\ rec \in Record /\ own \in [Supervisors -> Process] /\ own[s] \in Process
      /\ ext \in [Handles -> Job] /\ Shape(own[s]) /\ Knows(own[s]) /\ Stopping(own[s])
      /\ Found /\ OneActive
  BY Ranges DEF Memory, Informed
<1>2. CASE StartAccepted(s)
  <2>1. own[s].pc = "start" /\ rec.deleg = HandedTo(own[s].sys, Request) /\ NoneActive
    BY <1>1, <1>2 DEF StartAccepted, At, Knows, Handing
  <2>2. PICK e \in Handles :
          /\ ext'[e].sys = own[s].sys /\ UNCHANGED rec
          /\ \A f \in Handles \ {e} : ext'[f] = ext[f]
    BY <1>2, Started
  <2>3. \A f \in Handles : Active(f)' => f = e
    BY <2>1, <2>2 DEF NoneActive, Active
  <2> QED
    BY <2>1, <2>2, <2>3 DEF Found, OneActive, OnlyActive, HandedTo
<1>3. CASE ~StartAccepted(s)
  <2>1. /\ \A e \in Handles : Active(e)' => Active(e) /\ ext'[e].sys = ext[e].sys
        /\ NoneActive => NoneActive'
        /\ OneActive'
    BY <1>1, <1>3, JobsOfStep, Fewer
  <2>2. CASE rec'.deleg = rec.deleg
    BY <1>1, <2>1, <2>2 DEF Found
  <2>3. CASE rec'.deleg # rec.deleg
    <3>1. MayWrite(s)
      BY <2>3, Proceeding DEF Proceeds
    <3>2. CASE own[s].pc \in {"failed", "gone", "mark", "cancel"}
      <4>1. NoneActive
        BY <1>1, <3>1, <3>2, DoneThere DEF MayWrite
      <4> QED
        BY <2>1, <4>1 DEF Found, NoneActive
    <3>3. CASE own[s].pc = "lied"
      <4>1. NoneActive'
        BY <1>1, <3>1, <3>3, StopThere DEF MayWrite
      <4> QED
        BY <2>1, <4>1 DEF Found, NoneActive
    <3>4. CASE own[s].pc \in {"unhand", "offer"}
      <4>1. NoneActive
        BY <1>1, <3>4, Leads DEF Knows
      <4> QED
        BY <2>1, <4>1 DEF Found, NoneActive
    <3>5. CASE own[s].pc = "handle"
      <4>1. /\ rec.deleg = HandedTo(own[s].sys, Request) /\ OnlyActive(own[s].ext)
            /\ rec'.deleg = HandedTo(own[s].sys, own[s].ext)
        BY <1>1, <2>3, <3>5, DelegWrites DEF Knows, Handing
      <4> QED
        BY <1>1, <2>1, <4>1 DEF Found, OnlyActive, HandedTo
    <3>6. CASE own[s].pc = "settle"
      <4>1. OnlyActive(own[s].ext)
        BY <1>1, <3>6 DEF Knows
      <4>2. CASE own[s].ext = None
        <5>1. NoneActive
          BY <4>1, <4>2, DelegationAssumption DEF OnlyActive, NoneActive
        <5> QED
          BY <2>1, <5>1 DEF Found, NoneActive
      <4>3. CASE own[s].ext # None
        <5>1. rec'.deleg = [rec.deleg EXCEPT !.ext = own[s].ext]
          BY <2>3, <3>6, <4>3, DelegWrites
        <5>2. rec'.deleg.sys = rec.deleg.sys /\ rec'.deleg.ext = own[s].ext
          BY <1>1, <5>1 DEF Record, Delegation
        <5> QED
          BY <1>1, <2>1, <4>1, <5>2 DEF Found, OnlyActive
      <4> QED
        BY <4>2, <4>3
    <3> QED
      BY <2>1, <2>3, <3>2, <3>3, <3>4, <3>5, <3>6, DelegWrites
  <2> QED
    BY <2>2, <2>3
<1> QED
  BY <1>2, <1>3

LEMMA KnowsRest ==
  ASSUME TypeOK, Memory, Kept, Answering, Informed, NEW s \in Supervisors, Rest(s)
  PROVE  Knows(own[s])'
<1>1. /\ rec \in Record /\ own \in [Supervisors -> Process] /\ own[s] \in Process
      /\ ext \in [Handles -> Job] /\ Shape(own[s]) /\ Knows(own[s]) /\ Fresh(s) \in Process
      /\ Found /\ OneActive
  BY Ranges, Beginning DEF Memory, Informed
<1>2. ASSUME NEW p, Goes(s, p)
      PROVE  /\ own'[s].pc = p /\ own'[s].sys = own[s].sys /\ own'[s].ext = own[s].ext
             /\ p \in {"release", "cancel", "verify", "placed"} => Knows(own[s])'
  <2>1. own'[s].pc = p /\ own'[s].sys = own[s].sys /\ own'[s].ext = own[s].ext
    BY <1>1, <1>2, Going
  <2> QED
    BY <2>1 DEF Knows, Handing
<1>3. ASSUME NEW x, Become(s, [own[s] EXCEPT !.pc = "start", !.sys = x, !.left = @ - 1])
      PROVE  own'[s].pc = "start" /\ own'[s].sys = x
  BY <1>1, <1>3 DEF Become, Process
<1>4. ASSUME NEW e, Become(s, [own[s] EXCEPT !.pc = "handle", !.ext = e])
      PROVE  own'[s].pc = "handle" /\ own'[s].sys = own[s].sys /\ own'[s].ext = e
  BY <1>1, <1>4 DEF Become, Process
<1>5. CASE Offer(s)
  <2>1. NoneActive /\ UNCHANGED ext
    BY <1>1, <1>5, Leads DEF Offer, At, Knows
  <2>2. \/ Goes(s, "release")
        \/ \E x \in Known[s] :
             /\ rec' = [rec EXCEPT !.deleg = HandedTo(x, Request), !.state = "running"]
             /\ Become(s, [own[s] EXCEPT !.pc = "start", !.sys = x, !.left = @ - 1])
    BY <1>5, DelegationAssumption DEF Offer, Answering
  <2>3. CASE \E x \in Known[s] :
             /\ rec' = [rec EXCEPT !.deleg = HandedTo(x, Request), !.state = "running"]
             /\ Become(s, [own[s] EXCEPT !.pc = "start", !.sys = x, !.left = @ - 1])
    <3>1. PICK x \in Known[s] :
            /\ rec' = [rec EXCEPT !.deleg = HandedTo(x, Request), !.state = "running"]
            /\ Become(s, [own[s] EXCEPT !.pc = "start", !.sys = x, !.left = @ - 1])
      BY <2>3
    <3>2. own'[s].pc = "start" /\ own'[s].sys = x
      BY <1>3, <3>1
    <3>3. rec'.deleg = HandedTo(x, Request)
      BY <1>1, <3>1 DEF Record
    <3>4. NoneActive'
      BY <2>1 DEF NoneActive, Active
    <3> QED
      BY <3>2, <3>3, <3>4 DEF Knows, NoneActive
  <2> QED
    BY <1>2, <2>2, <2>3
<1>6. CASE StartAccepted(s)
  <2>1. own[s].pc = "start" /\ rec.deleg = HandedTo(own[s].sys, Request) /\ NoneActive
    BY <1>1, <1>6 DEF StartAccepted, At, Knows, Handing
  <2>2. PICK e \in Handles :
          /\ UNCHANGED rec /\ \A f \in Handles \ {e} : ext'[f] = ext[f]
          /\ \/ own'[s].pc = "locate" /\ own'[s].sys = own[s].sys
             \/ own'[s].pc = "handle" /\ own'[s].sys = own[s].sys /\ own'[s].ext = e
    BY <1>6, Started
  <2>3. \A f \in Handles : Active(f)' => f = e
    BY <2>1, <2>2 DEF NoneActive, Active
  <2> QED
    BY <2>1, <2>2, <2>3 DEF Knows, OnlyActive
<1>7. CASE StartRefused(s)
  <2>1. own[s].pc = "start" /\ UNCHANGED rec /\ Goes(s, "locate")
    BY <1>7 DEF StartRefused, At
  <2> QED
    BY <1>1, <1>2, <2>1 DEF Knows, Handing
<1>8. CASE LocateStart(s)
  <2>1. /\ own[s].pc = "locate" /\ UNCHANGED <<rec, ext>> /\ own[s].sys \in Systems
        /\ rec.deleg = HandedTo(own[s].sys, Request)
    BY <1>1, <1>8 DEF LocateStart, At, Shape, Knows, Handing
  <2>2. \/ Goes(s, "release")
        \/ Held(own[s].sys) = {} /\ Goes(s, "unhand")
        \/ \E e \in Held(own[s].sys) : Become(s, [own[s] EXCEPT !.pc = "handle", !.ext = e])
    BY <1>8, <2>1 DEF LocateStart, Located, Answering
  <2>3. CASE Held(own[s].sys) = {} /\ Goes(s, "unhand")
    <3>1. NoneActive
      BY <1>1, <2>1, <2>3 DEF Found, NoneActive, Held, HandedTo
    <3>2. NoneActive' /\ own'[s].pc = "unhand" /\ own'[s].sys = own[s].sys
      BY <1>2, <2>1, <2>3, <3>1 DEF NoneActive, Active
    <3> QED
      BY <2>1, <3>2 DEF Knows, NoneActive
  <2>4. CASE \E e \in Held(own[s].sys) : Become(s, [own[s] EXCEPT !.pc = "handle", !.ext = e])
    <3>1. PICK e \in Held(own[s].sys) : Become(s, [own[s] EXCEPT !.pc = "handle", !.ext = e])
      BY <2>4
    <3>2. OnlyActive(e)
      BY <1>1, <3>1 DEF Held, OneActive
    <3>3. own'[s].pc = "handle" /\ own'[s].sys = own[s].sys /\ own'[s].ext = e
      BY <1>4, <3>1
    <3> QED
      BY <2>1, <3>2, <3>3 DEF Knows, OnlyActive, Active
  <2> QED
    BY <1>2, <2>2, <2>3, <2>4
<1>9. CASE Unhand(s)
  <2>1. Goes(s, "release") \/ (rec' = TakenBack(rec) /\ Goes(s, "offer"))
    BY <1>9 DEF Unhand
  <2>2. rec' = TakenBack(rec) => ~Delegated(rec)'
    BY <1>1 DEF TakenBack, Delegated, Record
  <2> QED
    BY <1>2, <2>1, <2>2 DEF Knows, Handing
<1>10. CASE Load(s)
  <2>1. PICK p \in {"ask", "claim", "tell"} :
          /\ Become(s, [Fresh(s) EXCEPT !.fresh = TRUE, !.seen = rec.deleg, !.state = rec.state,
                                        !.said = Business(s), !.pc = p])
          /\ p = "claim" => Business(s) # "settle"
    BY <1>10 DEF Load
  <2>2. own'[s].pc = p /\ own'[s].said = Business(s)
    BY <1>1, <2>1 DEF Become, Process
  <2> QED
    BY <2>1, <2>2 DEF Knows, Handing
<1>11. CASE Ask(s)
  <2>1. /\ UNCHANGED <<rec, ext>> /\ own[s].pc = "ask"
        /\ \/ Over(s)
           \/ \E e : /\ own[s].said = "settle"
                     /\ \/ Held(own[s].seen.sys) = {} /\ e = None
                        \/ e \in Held(own[s].seen.sys)
                     /\ Become(s, [own[s] EXCEPT !.pc = "claim", !.ext = e])
           \/ \E a \in PollSays(own[s].seen.ext) :
                Become(s, [own[s] EXCEPT !.pc = "claim", !.ext = own[s].seen.ext, !.said = a])
    BY <1>11 DEF Ask, Over, At
  <2>2. ASSUME NEW e, own[s].said = "settle",
               \/ Held(own[s].seen.sys) = {} /\ e = None
               \/ e \in Held(own[s].seen.sys),
               Become(s, [own[s] EXCEPT !.pc = "claim", !.ext = e])
        PROVE  Knows(own[s])'
    <3>1. own'[s].pc = "claim" /\ own'[s].ext = e /\ own'[s].fresh = own[s].fresh
      BY <1>1, <2>2 DEF Become, Process
    <3>2. ASSUME own[s].fresh
          PROVE  OnlyActive(e)
      <4>1. rec.deleg = own[s].seen
        BY <2>1, <2>2, <3>2 DEF Informed, Undisturbed
      <4>2. CASE e \in Held(own[s].seen.sys)
        BY <1>1, <4>2 DEF Held, OneActive
      <4>3. CASE Held(own[s].seen.sys) = {}
        BY <1>1, <4>1, <4>3 DEF Held, Found, OnlyActive
      <4> QED
        BY <2>2, <4>2, <4>3
    <3> QED
      BY <2>1, <3>1, <3>2 DEF Knows, OnlyActive, Active, Handing
  <2>3. ASSUME NEW a \in PollSays(own[s].seen.ext),
               Become(s, [own[s] EXCEPT !.pc = "claim", !.ext = own[s].seen.ext, !.said = a])
        PROVE  Knows(own[s])'
    <3>1. own'[s].pc = "claim" /\ own'[s].said = a /\ a # "settle"
      BY <1>1, <2>3 DEF Become, Process, PollSays
    <3> QED
      BY <3>1 DEF Knows, Handing
  <2>4. CASE Over(s)
    BY <1>1, <2>4, Leaving DEF Knows, Handing
  <2> QED
    BY <2>1, <2>2, <2>3, <2>4
<1>12. CASE own'[s].pc \notin Handing \cup {"offer", "settle", "claim"}
  BY <1>12 DEF Knows, Handing
<1>13. ASSUME ~Load(s), ~Ask(s), own'[s].pc \in Handing \cup {"offer", "settle", "claim"}
       PROVE  \/ Offer(s) \/ StartAccepted(s) \/ StartRefused(s) \/ LocateStart(s)
              \/ Unhand(s) \/ CancelThere(s)
  BY <1>13, Course DEF Handing
<1>14. CASE CancelThere(s)
  BY <1>1, <1>2, <1>14, Leaving DEF CancelThere, Knows, Handing
<1> QED
  BY <1>5, <1>6, <1>7, <1>8, <1>9, <1>10, <1>11, <1>12, <1>13, <1>14

\* A step that leaves the delegation alone and starts nothing.
LEMMA KnowsStays ==
  ASSUME NEW t \in Supervisors, Knows(own[t]), rec'.deleg = rec.deleg,
         \/ Shrink \/ UNCHANGED ext
         \/ \E e \in Handles : /\ ~Active(e) /\ ext'[e] = Nothing
                               /\ \A f \in Handles \ {e} : ext'[f] = ext[f],
         own'[t].pc = own[t].pc, own'[t].sys = own[t].sys, own'[t].ext = own[t].ext,
         own'[t].said = own[t].said, own'[t].fresh => own[t].fresh
  PROVE  Knows(own[t])'
<1>1. /\ NoneActive => NoneActive'
      /\ OnlyActive(own[t].ext) => OnlyActive(own[t].ext)'
  BY Fewer DEF OnlyActive
<1> QED
  BY <1>1 DEF Knows, Delegated

LEMMA KnowsOthers ==
  ASSUME TypeOK, Memory, Kept, Orderly, Informed,
         NEW s \in Supervisors, Sweep(s), NEW t \in Supervisors \ {s}
  PROVE  Knows(own[t])'
<1>1. /\ own'[t].pc = own[t].pc /\ own'[t].sys = own[t].sys /\ own'[t].ext = own[t].ext
      /\ own'[t].said = own[t].said
      /\ own'[t].fresh => own[t].fresh
  BY Others
<1>2. Knows(own[t])
  BY DEF Informed
<1>3. ASSUME ~Holding(s)
      PROVE  Shrink \/ UNCHANGED ext
  <2>1. StartAccepted(s) => Holding(s)
    BY DEF StartAccepted, At, Holding, Holders, Handing
  <2> QED
    BY <1>3, <2>1, JobsOfStep, Taking, SweepParts DEF Takes
<1>4. CASE Holding(t)
  <2>1. ~Holding(s) /\ UNCHANGED rec
    BY <1>4, OneHolds, Bystander
  <2> QED
    BY <1>1, <1>2, <1>3, <2>1, KnowsStays
<1>5. CASE ~Holding(t)
  <2>1. own[t].pc \notin Handing \cup {"offer", "settle"}
    BY <1>5 DEF Holding, Holders, Acting
  <2>2. CASE own'[t].pc = "claim" /\ own'[t].said = "settle" /\ own'[t].fresh
    <3>1. ~Holding(s) /\ OnlyActive(own[t].ext)
      BY <1>1, <1>2, <2>2 DEF Informed, Undisturbed, Knows
    <3>2. OnlyActive(own[t].ext)'
      BY <1>1, <1>3, <3>1, Fewer DEF OnlyActive
    <3> QED
      BY <1>1, <2>1, <3>2 DEF Knows, Handing
  <2> QED
    BY <1>1, <2>1, <2>2 DEF Knows, Handing
<1> QED
  BY <1>4, <1>5

\* Nobody works on the record before a step of one who does not, nor after it.
LEMMA Quiet ==
  ASSUME TypeOK, Memory, Kept, NEW s \in Supervisors, Sweep(s), ~Takes(s),
         \A t \in Supervisors : ~Holding(t)
  PROVE  /\ rec'.deleg = rec.deleg
         /\ \A t \in Supervisors : ~Holding(t)'
<1>1. own \in [Supervisors -> Process] /\ Shape(own[s])
  BY Ranges DEF Memory
<1>2. \A t \in Supervisors \ {s} : ~Holding(t)'
  BY Others DEF Holding
<1>3. CASE Claiming(s)
  <2>1. Over(s) /\ UNCHANGED rec
    BY <1>3, Taking
  <2>2. own'[s].pc = "idle"
    BY <1>1, <2>1, Leaving
  <2> QED
    BY <1>2, <2>1, <2>2 DEF Holding, Holders, Handing, Acting, AtHome, Polled
<1>4. CASE Rest(s)
  <2>1. ~own[s].cur
    BY <1>1 DEF Shape, Holding
  <2>2. UNCHANGED rec /\ own'[s].pc \notin Holders
    BY <1>4, <2>1, Proceeding, Staying DEF Proceeds, MayWrite
  <2> QED
    BY <1>2, <2>2 DEF Holding
<1> QED
  BY <1>3, <1>4, SweepParts

LEMMA UndisturbedMoves ==
  ASSUME TypeOK, Memory, Kept, Undivided, Undisturbed, NEW s \in Supervisors, Rest(s),
         own'[s].pc \in {"ask", "claim"}, own'[s].said = "settle", own'[s].fresh
  PROVE  rec'.deleg = own'[s].seen /\ \A t \in Supervisors : ~Holding(t)'
<1>1. /\ own \in [Supervisors -> Process] /\ own[s] \in Process /\ Fresh(s) \in Process
      /\ rec \in Record
  BY Ranges, Beginning
<1>2. Load(s) \/ Ask(s)
  BY Course DEF Handing
<1>3. Sweep(s) /\ UNCHANGED rec /\ ~Holding(s) /\ ~Holding(s)'
  BY <1>2 DEF Sweep, Reconciling, Load, Ask, Turn, At, Holding, Holders, Handing, Acting,
              AtHome, Polled
<1>4. CASE Load(s)
  <2>1. PICK p \in {"ask", "claim", "tell"} :
          /\ Become(s, [Fresh(s) EXCEPT !.fresh = TRUE, !.seen = rec.deleg, !.state = rec.state,
                                        !.said = Business(s), !.pc = p])
    BY <1>4 DEF Load
  <2>2. own'[s].seen = rec.deleg /\ Business(s) = "settle"
    BY <1>1, <2>1 DEF Become, Process
  <2>3. ASSUME NEW t \in Supervisors, Holding(t)
        PROVE  FALSE
    <3>1. t # s /\ ~Stalls /\ ~Overlap
      BY <1>3, <2>3 DEF Undivided, Alone
    <3>2. rec.live /\ rec.holder = t
      BY <2>3, <3>1 DEF Kept
    <3> QED
      BY <2>2, <3>1, <3>2 DEF Business
  <2>4. \A t \in Supervisors \ {s} : own'[t] = own[t]
    BY <1>1, Proceeding DEF Proceeds
  <2> QED
    BY <1>3, <2>2, <2>3, <2>4 DEF Holding
<1>5. CASE Ask(s)
  <2>1. /\ own[s].pc = "ask" /\ own[s].said \in {"settle", "poll"}
        /\ \/ Over(s)
           \/ \E e : Become(s, [own[s] EXCEPT !.pc = "claim", !.ext = e])
           \/ \E a \in PollSays(own[s].seen.ext) : \E e :
                Become(s, [own[s] EXCEPT !.pc = "claim", !.ext = e, !.said = a])
    BY <1>5 DEF Ask, Over, At
  <2>2. ASSUME NEW a \in PollSays(own[s].seen.ext), NEW e,
               Become(s, [own[s] EXCEPT !.pc = "claim", !.ext = e, !.said = a])
        PROVE  FALSE
    BY <1>1, <2>2 DEF Become, Process, PollSays
  <2>3. ~Over(s)
    BY <1>1, Leaving
  <2>4. PICK e : Become(s, [own[s] EXCEPT !.pc = "claim", !.ext = e])
    BY <2>1, <2>2, <2>3
  <2>5. own'[s].said = own[s].said /\ own'[s].fresh = own[s].fresh /\ own'[s].seen = own[s].seen
    BY <1>1, <2>4 DEF Become, Process
  <2>6. rec.deleg = own[s].seen /\ \A t \in Supervisors : ~Holding(t)
    BY <2>1, <2>5 DEF Undisturbed
  <2>7. \A t \in Supervisors \ {s} : own'[t] = own[t]
    BY <1>1, Proceeding DEF Proceeds
  <2> QED
    BY <1>3, <2>5, <2>6, <2>7 DEF Holding
<1> QED
  BY <1>2, <1>4, <1>5

LEMMA UndisturbedStep ==
  ASSUME TypeOK, Memory, Kept, Undivided, Undisturbed, NEW s \in Supervisors, Sweep(s)
  PROVE  Undisturbed'
<1> SUFFICES ASSUME NEW t \in Supervisors,
                    own'[t].pc \in {"ask", "claim"}, own'[t].said = "settle", own'[t].fresh
             PROVE  rec'.deleg = own'[t].seen /\ \A u \in Supervisors : ~Holding(u)'
  BY DEF Undisturbed
<1>1. CASE t # s
  <2>1. /\ own'[t].seen = own[t].seen /\ ~Takes(s)
        /\ own[t].pc \in {"ask", "claim"} /\ own[t].said = "settle" /\ own[t].fresh
    BY <1>1, Others
  <2>2. rec.deleg = own[t].seen /\ \A u \in Supervisors : ~Holding(u)
    BY <2>1 DEF Undisturbed
  <2> QED
    BY <2>1, <2>2, Quiet
<1>2. CASE t = s /\ Claiming(s)
  <2>1. own'[s].pc \notin {"ask", "claim"}
    BY <1>2, Granted DEF AfterClaim, Polled
  <2> QED
    BY <1>2, <2>1
<1>3. CASE t = s /\ Rest(s)
  BY <1>3, UndisturbedMoves
<1> QED
  BY <1>1, <1>2, <1>3, SweepParts

LEMMA InformedStep ==
  ASSUME TypeOK, Memory, Kept, Undivided, Answering, Informed,
         \A t \in Supervisors : Stopping(own[t]), [Next]_vars, ~faults'.leaked
  PROVE  Informed'
<1>1. own \in [Supervisors -> Process] /\ rec \in Record
  BY Ranges
<1>2. ASSUME NEW s \in Supervisors, Sweep(s)
      PROVE  Informed'
  <2>1. Orderly
    BY DEF Undivided, Orderly
  <2>2. Found' /\ OneActive' /\ Knows(own[s])'
    BY <1>2, InformedClaiming, FoundRest, KnowsRest, SweepParts
  <2>3. \A t \in Supervisors : Knows(own[t])'
    BY <1>2, <2>1, <2>2, KnowsOthers
  <2>4. Undisturbed'
    BY <1>2, UndisturbedStep DEF Informed
  <2> QED
    BY <2>2, <2>3, <2>4 DEF Informed
<1>3. ASSUME NEW s \in Supervisors, Crash(s)
      PROVE  Informed'
  <2>1. /\ own'[s] = Idle /\ UNCHANGED ext /\ rec'.deleg = rec.deleg
        /\ \A t \in Supervisors \ {s} : own'[t] = own[t]
    BY <1>1, <1>3 DEF Crash, Become, Record
  <2>2. Found' /\ OneActive'
    BY <2>1, Fewer DEF Informed, Found
  <2>3. ASSUME NEW t \in Supervisors
        PROVE  Knows(own[t])'
    <3>1. CASE t = s
      BY <2>1, <3>1 DEF Knows, Idle, Handing
    <3>2. CASE t # s
      BY <2>1, <3>2, KnowsStays DEF Informed
    <3> QED
      BY <3>1, <3>2
  <2>4. Undisturbed'
    BY <2>1 DEF Informed, Undisturbed, Idle, Holding, Holders, Handing, Acting, AtHome, Polled
  <2> QED
    BY <2>2, <2>3, <2>4 DEF Informed
<1>4. CASE Around \/ UNCHANGED vars
  <2>1. /\ UNCHANGED own /\ rec'.deleg = rec.deleg
        /\ \/ Shrink \/ UNCHANGED ext
           \/ \E e \in Handles : /\ ~Active(e) /\ ext'[e] = Nothing
                                 /\ \A f \in Handles \ {e} : ext'[f] = ext[f]
    BY <1>4, OutsideMoves DEF vars
  <2>2. Found' /\ OneActive'
    BY <2>1, Fewer DEF Informed, Found
  <2>3. \A t \in Supervisors : Knows(own[t])'
    BY <2>1, KnowsStays DEF Informed
  <2>4. Undisturbed'
    BY <2>1 DEF Informed, Undisturbed, Holding
  <2> QED
    BY <2>2, <2>3, <2>4 DEF Informed
<1> QED
  BY <1>2, <1>3, <1>4 DEF Next, Around

JobsInv == TypeOK /\ Memory /\ Kept /\ Jobs

LEMMA JobsBegin ==
  ASSUME Init
  PROVE  JobsInv
<1>1. TypeOK /\ Memory /\ Kept
  BY DeliveryBegins DEF DeliveryInv
<1>2. /\ \A s \in Supervisors : own[s] = Idle
      /\ \A e \in Handles : ~Active(e)
  BY DEF Init, Active, Nothing
<1>3. Jobs
  BY <1>2 DEF Jobs, Stopping, Found, OneActive, OnlyActive, Undisturbed, Knows, Idle, Handing
<1> QED
  BY <1>1, <1>3 DEF JobsInv

LEMMA JobsStep ==
  ASSUME Undivided, Answering, JobsInv, [Next]_vars
  PROVE  JobsInv'
<1>1. TypeOK' /\ Memory' /\ Kept'
  BY TypeStep, MemoryStep, KeptStep DEF JobsInv, Undivided, Orderly
<1>2. \A t \in Supervisors : Stopping(own[t])'
  BY StoppingStep DEF JobsInv, Jobs
<1>3. ~faults'.leaked => Informed'
  BY InformedStep, Leaking DEF JobsInv, Jobs, Informed
<1> QED
  BY <1>1, <1>2, <1>3 DEF JobsInv, Jobs, Informed

(***************************************************************************)
(* Work handed to systems that can be asked is never lost: until a refused *)
(* stop leaks a job, every one that is still there is found from the       *)
(* record, by the handle on it or by the request.  It is so for one        *)
(* process that may crash and stall, and for any number that neither stall *)
(* past a lease nor ask about a handoff another is making.                 *)
(***************************************************************************)
THEOREM Strayless == Undivided /\ Answering => (Spec => []NoStray)
<1> SUFFICES ASSUME Undivided, Answering
             PROVE  Spec => []NoStray
  OBVIOUS
<1>1. Init => JobsInv
  BY JobsBegin
<1>2. JobsInv /\ [Next]_vars => JobsInv'
  BY JobsStep
<1>3. JobsInv => NoStray
  BY DEF JobsInv, Jobs, Found, NoStray
<1> QED
  BY <1>1, <1>2, <1>3, PTL DEF Spec

-----------------------------------------------------------------------------
(* One process alone, from which nothing leaks.                             *)

OneInv ==
  TypeOK /\ Memory /\ Kept /\ Destination /\ Jobs /\ Solitary /\ ~faults.leaked

LEMMA OneInvParts ==
  ASSUME OneInv
  PROVE  /\ TypeOK /\ Memory /\ Kept /\ Destination /\ Informed /\ Solitary
         /\ \A s \in Supervisors : Stopping(own[s])
         /\ JobsInv /\ Found
BY DEF OneInv, Jobs, JobsInv, Informed

\* With what one process is at, where the work is.
LEMMA SolitaryAt ==
  ASSUME OneInv, NEW s \in Supervisors
  PROVE  /\ own[s].pc \in {"listed", "orphan", "offer"} \cup AtHome =>
              ~Delegated(rec) /\ AtWork /\ NoneActive
         /\ own[s].pc \in Handing \cup Acting => AtWork
         /\ own[s].pc \in {"start", "unhand"} => NoneActive
         /\ own[s].pc \in {"failed", "gone", "verify", "mark", "cancel"} => NoneActive
         /\ own[s].pc = "take" => rec.state = "transferred" /\ NoneActive
<1>1. own[s].pc \in {"failed", "gone", "verify", "mark", "cancel"} => own[s].cur
  BY DEF OneInv, Kept, Holding, Holders, Acting, Polled
<1>2. own[s].pc = "take" => rec.state = "transferred" /\ ~AtWork
  BY DEF OneInv, Destination, AtWork
<1> QED
  BY <1>1, <1>2, OneInvParts, Leads, DoneThere DEF Solitary, Informed, Knows

\* A finished or delivered record after a step of the sweep.
LEMMA Finished ==
  ASSUME OneInv, NEW s \in Supervisors, Rest(s), ~(AtWork')
  PROVE  NoneActive /\ ~StartAccepted(s)
<1>1. rec \in Record
  BY OneInvParts, Ranges
<1>2. CASE AtWork
  <2>1. rec' # rec
    BY <1>2 DEF AtWork
  <2>2. RecordMoves(s)
    BY <2>1, OneInvParts, RecordWrites
  <2>3. own[s].pc # "release"
    BY <1>1, <1>2, <2>2 DEF RecordMoves, LetGo, AtWork, Record
  <2>4. own[s].pc \in {"placed", "mark", "take", "cancel", "asked"}
    BY <1>2, <2>2, <2>3 DEF RecordMoves, AtWork
  <2> QED
    BY <2>4, SolitaryAt DEF AtHome, StartAccepted, At
<1>3. CASE ~AtWork
  BY <1>3, OneInvParts, SolitaryAt DEF Solitary, StartAccepted, At, Handing
<1> QED
  BY <1>2, <1>3

LEMMA SolitaryClaiming ==
  ASSUME OneInv, NEW s \in Supervisors, Claiming(s), Alone
  PROVE  Solitary'
<1>1. /\ TypeOK /\ Memory /\ rec \in Record /\ Solitary
      /\ UNCHANGED ext /\ rec'.deleg = rec.deleg
  BY OneInvParts, Ranges, InformedClaiming
<1>2. AtWork' <=> AtWork
  <2>1. Takes(s) \/ UNCHANGED rec
    BY <1>1, Taking
  <2> QED
    BY <1>1, <2>1 DEF Takes, AtWork, Record
<1>3. ~AtWork' => NoneActive'
  BY <1>1, <1>2 DEF Solitary, NoneActive, Active
<1>4. CASE own'[s].pc \in {"offer", "local", "asked"} /\ own[s].pc \in {"listed", "orphan"}
  <2>1. ~Delegated(rec) /\ AtWork
    BY <1>1, <1>4 DEF Solitary
  <2> QED
    BY <1>1, <1>2, <1>3, <2>1 DEF Solitary, Alone, Delegated
<1>5. CASE own'[s].pc \in {"idle", "release", "take"}
  BY <1>3, <1>5 DEF Solitary, Alone, AtHome, Handing, Acting, Polled
<1>6. CASE /\ AsSeen(s) /\ own[s].pc = "claim" /\ own'[s].pc = own[s].said
           /\ own[s].said \in Polled \cup {"settle", "stranded", "honour"}
           /\ ClaimDelegation(s)
  <2>1. CASE MayClaim(s)
    <3>1. AtWork
      BY <1>1, <1>6, <2>1, OneInvParts
         DEF Destination, AsSeen, MayClaim, Terminal, AtWork, Record, States
    <3> QED
      BY <1>2, <1>3, <1>6, <3>1 DEF Solitary, Alone, AtHome, Polled
  <2>2. CASE ~MayClaim(s)
    <3>1. own'[s].pc = "idle"
      BY <1>1, <1>6, <2>2, Ranges, Leaving DEF ClaimDelegation
    <3> QED
      BY <1>5, <3>1
  <2> QED
    BY <2>1, <2>2
<1>7. AfterClaim(rec) \in {"offer", "release"}
  BY DEF AfterClaim
<1>8. /\ DelegateClaim(s) => own[s].pc = "listed"
      /\ RunClaim(s) => own[s].pc = "orphan"
  BY DEF DelegateClaim, RunClaim, At
<1> QED
  BY <1>1, <1>4, <1>5, <1>6, <1>7, <1>8, Granted

\* Only the listing of work puts a process where it has a list.
LEMMA ListedBy ==
  ASSUME TypeOK, NEW s \in Supervisors, Rest(s), own'[s].pc \in {"listed", "orphan"}
  PROVE  ListWork(s) \/ ListOrphan(s)
<1>1. own \in [Supervisors -> Process] /\ own[s] \in Process
  BY Ranges
<1>2. ~Over(s) /\ \A p \in {"release", "locate", "offer", "unhand", "cancel", "verify", "placed"} : ~Goes(s, p)
  BY <1>1, Leaving, Going
<1>3. ASSUME NEW p \in {"ask", "claim", "tell"},
             Become(s, [Fresh(s) EXCEPT !.fresh = TRUE, !.seen = rec.deleg, !.state = rec.state,
                                        !.said = Business(s), !.pc = p])
      PROVE  FALSE
  BY <1>1, <1>3, Beginning DEF Become, Process
<1>4. ~Holding(s) /\ ~Load(s) /\ ~Ask(s)
  <2>1. ~Load(s)
    BY <1>3 DEF Load
  <2>2. ~Ask(s)
    <3>1. ASSUME NEW e, NEW a,
                 \/ Become(s, [own[s] EXCEPT !.pc = "claim", !.ext = e])
                 \/ Become(s, [own[s] EXCEPT !.pc = "claim", !.ext = e, !.said = a])
          PROVE  FALSE
      <4>1. CASE Become(s, [own[s] EXCEPT !.pc = "claim", !.ext = e])
        BY <1>1, <4>1 DEF Become, Process
      <4>2. CASE Become(s, [own[s] EXCEPT !.pc = "claim", !.ext = e, !.said = a])
        BY <1>1, <4>2 DEF Become, Process
      <4> QED
        BY <3>1, <4>1, <4>2
    <3> QED
      BY <1>2, <3>1 DEF Ask, Over
  <2> QED
    BY <2>1, <2>2, Course DEF Handing
<1> QED
  BY <1>2, <1>4
     DEF Rest, Offer, OfferNothing, StartAccepted, StartRefused,
     StartEchoed, LocateStart, Unhand, RecordHandle, Tell, AskFails,
     Settle, Note, StillRunning, CarryOn, HandBack, StartedOver, Finalize, Verify, Mark,
     CancelThere, CancelHere, Pause, NothingToHonour, LocalProgress, LocalAsked,
     LocalHonour, LocalFail, LocalFenced, LocalDeliver, LocalMark, Take, Release, Pass,
     At, Holding, Holders, Handing, Acting, AtHome, Polled

LEMMA SolitaryRest ==
  ASSUME OneInv, Answering, NEW s \in Supervisors, Rest(s), Alone
  PROVE  Solitary'
<1>1. /\ TypeOK /\ Memory /\ rec \in Record /\ Solitary /\ own[s] \in Process
      /\ own \in [Supervisors -> Process] /\ ext \in [Handles -> Job] /\ Shape(own[s])
  BY OneInvParts, Ranges DEF Memory
<1>2. ~AtWork' => NoneActive'
  <2>1. ASSUME ~AtWork'
        PROVE  NoneActive'
    <3>1. NoneActive /\ Shrink
      BY <1>1, <2>1, Finished, JobsOfStep
    <3> QED
      BY <3>1, Fewer
  <2> QED
    BY <2>1
<1>3. SUFFICES
        /\ own'[s].pc \in {"listed", "orphan", "offer"} \cup AtHome => ~Delegated(rec)' /\ AtWork'
        /\ own'[s].pc \in Handing \cup Acting => AtWork'
  BY <1>2 DEF Solitary, Alone
<1>4. CASE own'[s].pc \in Acting
  <2>1. own[s].pc \in Acting /\ UNCHANGED rec
    BY <1>1, <1>4, ActingRest
  <2> QED
    BY <1>1, <1>4, <2>1 DEF Solitary, Acting, AtHome, AtWork, Polled
<1>5. CASE own'[s].pc \in {"listed", "orphan"}
  <2>1. ListWork(s) \/ ListOrphan(s)
    BY <1>1, <1>5, ListedBy
  <2>2. UNCHANGED rec /\ ~Delegated(rec) /\ AtWork
    BY <2>1 DEF ListWork, ListOrphan, Offerable, Orphan, AtWork
  <2> QED
    BY <1>5, <2>2 DEF Delegated, AtWork, Handing, Acting, Polled
<1>6. CASE own'[s].pc \in AtHome
  <2>1. own[s].pc = "local"
    BY <1>1, <1>6, Course DEF AtHome, Handing, LocalDeliver, At
  <2>2. /\ rec'.deleg = rec.deleg /\ rec'.state = rec.state
    <3>1. rec'.deleg = rec.deleg
      BY <1>1, <2>1, DelegWrites
    <3>2. rec'.state = rec.state
      BY <1>1, <2>1, RecordWrites DEF RecordMoves
    <3> QED
      BY <3>1, <3>2
  <2> QED
    BY <1>1, <1>6, <2>1, <2>2
       DEF Solitary, AtHome, Delegated, AtWork, Handing, Acting, Polled
<1>7. CASE own'[s].pc \in Handing \cup {"offer"}
  <2>1. \/ Offer(s) \/ StartAccepted(s) \/ StartRefused(s) \/ LocateStart(s) \/ Unhand(s)
        \/ CancelThere(s)
    BY <1>1, <1>7, Course DEF Handing
  <2>2. CASE Offer(s)
    <3>1. \/ rec'.state = "running"
          \/ Goes(s, "release")
      BY <1>1, <2>2, DelegationAssumption DEF Offer, Answering, Record
    <3>2. own'[s].pc # "offer" /\ ~Goes(s, "release")
      <4>1. \/ Goes(s, "release")
            \/ \E x : Become(s, [own[s] EXCEPT !.pc = "start", !.sys = x, !.left = @ - 1])
        BY <2>2 DEF Offer
      <4>2. \A x : Become(s, [own[s] EXCEPT !.pc = "start", !.sys = x, !.left = @ - 1])
                     => own'[s].pc = "start"
        BY <1>1 DEF Become, Process
      <4>3. ~Goes(s, "release")
        BY <1>1, <1>7, Going DEF Handing
      <4> QED
        BY <4>1, <4>2, <4>3
    <3> QED
      BY <1>7, <3>1, <3>2 DEF AtWork, AtHome, Handing
  <2>3. CASE StartAccepted(s) \/ StartRefused(s) \/ LocateStart(s)
    <3>1. UNCHANGED rec /\ AtWork
      BY <1>1, <2>3 DEF Solitary, StartAccepted, StartRefused, LocateStart, At, Handing
    <3>2. own'[s].pc # "offer"
      <4>1. \/ \E p \in {"locate", "release", "unhand"} : Goes(s, p)
            \/ \E e : Become(s, [own[s] EXCEPT !.pc = "handle", !.ext = e])
        BY <1>1, <2>3
           DEF StartAccepted, StartRefused, LocateStart, Located, Answering, At, Shape, Handing
      <4>2. \A e : Become(s, [own[s] EXCEPT !.pc = "handle", !.ext = e])
                     => own'[s].pc = "handle"
        BY <1>1 DEF Become, Process
      <4> QED
        BY <1>1, <4>1, <4>2, Going
    <3> QED
      BY <1>7, <3>1, <3>2 DEF AtWork, AtHome, Handing
  <2>4. CASE Unhand(s)
    <3>1. rec' = TakenBack(rec) /\ Goes(s, "offer")
      BY <1>1, <1>7, <2>4, Going DEF Unhand, Handing
    <3>2. rec'.state = "pending" /\ rec'.deleg = NotDelegated
      BY <1>1, <3>1 DEF TakenBack, Record
    <3> QED
      BY <3>2 DEF Delegated, AtWork
  <2>5. ~CancelThere(s)
    BY <1>1, <1>7, Going, Leaving DEF CancelThere, Handing
  <2> QED
    BY <2>1, <2>2, <2>3, <2>4, <2>5
<1> QED
  BY <1>4, <1>5, <1>6, <1>7

LEMMA OneBegins ==
  ASSUME Init
  PROVE  OneInv
<1>1. JobsInv /\ DeliveryInv
  BY JobsBegin, DeliveryBegins
<1>2. Solitary /\ ~faults.leaked
  BY DEF Init, Solitary, Idle, AtHome, Handing, Acting, Polled, AtWork
<1> QED
  BY <1>1, <1>2 DEF OneInv, JobsInv, DeliveryInv

\* Where nothing leaks, nothing was leaked.
LEMMA NoLeak ==
  ASSUME TypeOK, Memory, ~Leaks, [Next]_vars, ~faults.leaked
  PROVE  ~faults'.leaked
<1>1. faults \in Faults
  BY Ranges
<1>2. Disturb \/ Calm => faults'.leaked = faults.leaked
  BY <1>1 DEF Disturb, Calm, Faults
<1> QED
  BY <1>2, FaultSteps DEF Leak

LEMMA OneStep ==
  ASSUME Alone, ~Leaks, Answering, OneInv, [Next]_vars
  PROVE  OneInv'
<1>1. Orderly /\ Undivided
  BY DEF Orderly, Undivided
<1>2. TypeOK' /\ Memory' /\ Kept' /\ Jobs'
  BY <1>1, OneInvParts, JobsStep DEF JobsInv
<1>3. Destination'
  BY <1>1, OneInvParts, DestinationStep
<1>4. ~faults'.leaked
  BY OneInvParts, NoLeak DEF OneInv
<1>5. Solitary'
  <2>1. ASSUME NEW s \in Supervisors, Crash(s)
        PROVE  Solitary'
    <3>1. own'[s] = Idle /\ UNCHANGED ext /\ rec'.state = rec.state
      BY <2>1, OneInvParts, Ranges DEF Crash, Become, Record
    <3>2. ~AtWork' => NoneActive'
      BY <3>1, OneInvParts DEF Solitary, AtWork, NoneActive, Active
    <3> QED
      BY <3>1, <3>2 DEF Solitary, Alone, Idle, AtHome, Handing, Acting, Polled
  <2>2. CASE Around \/ UNCHANGED vars
    <3>1. /\ UNCHANGED own /\ rec'.deleg = rec.deleg /\ rec'.state = rec.state
          /\ NoneActive => NoneActive'
      BY <2>2, OneInvParts, OutsideMoves, Fewer DEF vars
    <3> QED
      BY <3>1, OneInvParts DEF Solitary, Delegated, AtWork
  <2> QED
    BY <2>1, <2>2, SweepParts, SolitaryClaiming, SolitaryRest DEF Next, Around
<1> QED
  BY <1>2, <1>3, <1>4, <1>5 DEF OneInv

\* Work outside and work at home exclude each other.
LEMMA OneSide ==
  ASSUME Alone, OneInv
  PROVE  OneTransfer /\ NoStray
<1>1. NoStray
  BY OneInvParts DEF NoStray, Found
<1>2. CASE \E s \in Supervisors : At(s, "local") /\ MayWrite(s)
  <2>1. PICK s \in Supervisors : At(s, "local") /\ MayWrite(s)
    BY <1>2
  <2>2. Transfers = {s}
    <3>1. NoneActive
      BY <2>1, SolitaryAt DEF At, AtHome
    <3>2. {e \in Handles : ext[e].st \in {"running", "suspended"}} = {}
      BY <3>1 DEF NoneActive, Active
    <3>3. {t \in Supervisors : At(t, "local") /\ MayWrite(t)} = {s}
      BY <2>1 DEF Alone
    <3> QED
      BY <3>2, <3>3 DEF Transfers
  <2>3. Cardinality({s}) = 1
    BY FS_Singleton
  <2> QED
    BY <1>1, <2>2, <2>3 DEF OneTransfer
<1>3. CASE ~(\E s \in Supervisors : At(s, "local") /\ MayWrite(s))
  <2>1. Transfers = {e \in Handles : ext[e].st \in {"running", "suspended"}}
    BY <1>3 DEF Transfers
  <2>2. CASE Transfers = {}
    BY <1>1, <2>2, FS_EmptySet DEF OneTransfer
  <2>3. CASE \E e : e \in Transfers
    <3>1. PICK e \in Transfers : TRUE
      BY <2>3
    <3>2. Transfers = {e}
      BY <2>1, <3>1, OneInvParts DEF Informed, OneActive, OnlyActive, Active
    <3>3. Cardinality({e}) = 1
      BY FS_Singleton
    <3> QED
      BY <1>1, <3>2, <3>3 DEF OneTransfer
  <2> QED
    BY <2>2, <2>3
<1> QED
  BY <1>2, <1>3

(***************************************************************************)
(* One process that may crash, stall past its lease, lose answers and find *)
(* systems that lie or forget moves the bytes once at a time, here or      *)
(* outside, and the record leads to the job that moves them.  The systems  *)
(* are taken to be ones that can be asked, and to carry out a stop.        *)
(***************************************************************************)
THEOREM AllAccounted == Alone /\ ~Leaks /\ Answering => (Spec => []Accounted)
<1> SUFFICES ASSUME Alone, ~Leaks, Answering
             PROVE  Spec => []Accounted
  OBVIOUS
<1>1. Init => OneInv
  BY OneBegins
<1>2. OneInv /\ [Next]_vars => OneInv'
  BY OneStep
<1>3. OneInv => Accounted
  BY OneSide, OneInvParts DEF Accounted
<1> QED
  BY <1>1, <1>2, <1>3, PTL DEF Spec

-----------------------------------------------------------------------------
(* The refinement of Custody: every step keeps the work in one pair of      *)
(* hands, and passes it on only when nothing moves.                         *)

There == \E e \in Handles : ext[e].st \in {"running", "suspended"}
Home  == \E s \in Supervisors : At(s, "local") /\ MayWrite(s)

Sides(t, h) == (IF t THEN {"there"} ELSE {}) \cup (IF h THEN {"here"} ELSE {})

PlaceOf(st, d) ==
  IF Terminal(st) THEN "over"
  ELSE IF st = "transferred" THEN "delivered"
  ELSE IF d.ext = Request THEN "asked"
  ELSE IF d # NotDelegated THEN "there" ELSE "here"

LEMMA Viewed ==
  /\ Where = PlaceOf(rec.state, rec.deleg) /\ Where' = PlaceOf(rec'.state, rec'.deleg)
  /\ Moving = Sides(There, Home) /\ Moving' = Sides(There', Home')
BY DEF Where, PlaceOf, Unsettled, Delegated, Moving, Sides, There, Home

LEMMA Places ==
  ASSUME NEW st \in States, NEW d
  PROVE  /\ PlaceOf(st, d) \in {"asked", "there", "here", "delivered", "over"}
         /\ PlaceOf(st, d) = "over" <=> Terminal(st)
         /\ PlaceOf(st, d) = "delivered" <=> st = "transferred"
         /\ st \in {"pending", "running"} =>
              /\ d = NotDelegated => PlaceOf(st, d) = "here"
              /\ d # NotDelegated =>
                   PlaceOf(st, d) = IF d.ext = Request THEN "asked" ELSE "there"
BY DelegationAssumption DEF PlaceOf, Terminal, NotDelegated, States

LEMMA SameSides ==
  ASSUME There <=> There', Home <=> Home'
  PROVE  Moving' = Moving
<1>1. ASSUME NEW t, NEW u, NEW h, NEW k, t <=> u, h <=> k
      PROVE  Sides(t, h) = Sides(u, k)
  <2>1. CASE t
    BY <1>1, <2>1 DEF Sides
  <2>2. CASE ~t
    BY <1>1, <2>2 DEF Sides
  <2> QED
    BY <2>1, <2>2
<1> QED
  BY <1>1, Viewed

\* What Custody allows of the work and of who moves its bytes.
CustodyStep == C!Next \/ UNCHANGED <<Where, Moving>>

\* The work stays where it is, outside: transfers only stop.
LEMMA Slower ==
  ASSUME Where' = Where, There' => There, ~Home, ~Home', There => Where \in {"asked", "there"}
  PROVE  CustodyStep
<1>1. CASE There <=> There'
  BY <1>1, SameSides DEF CustodyStep
<1>2. CASE There /\ ~There'
  BY <1>2, Viewed DEF CustodyStep, C!Next, C!Outside, Sides
<1> QED
  BY <1>1, <1>2

\* The work stays at home, where a transfer begins or ends.
LEMMA AtHomeStep ==
  ASSUME Where' = Where, ~There, ~There', Home \/ Home' => Where = "here"
  PROVE  CustodyStep
<1>1. CASE Home <=> Home'
  BY <1>1, SameSides DEF CustodyStep
<1>2. CASE ~(Home <=> Home')
  BY <1>2, Viewed DEF CustodyStep, C!Next, C!Here, Sides
<1> QED
  BY <1>1, <1>2

\* The work changes hands, or ends, while nothing moves.
LEMMA Passed ==
  ASSUME ~There, ~There', ~Home, ~Home',
         \/ Where' = Where
         \/ Where = "here" /\ Where' = "asked"
         \/ Where = "asked" /\ Where' \in {"here", "there"}
         \/ Where = "there" /\ Where' = "here"
         \/ Where \in {"here", "there"} /\ Where' = "delivered"
         \/ Where # "over" /\ Where' = "over"
  PROVE  CustodyStep
<1>1. Moving = {} /\ Moving' = {}
  BY Viewed DEF Sides
<1> QED
  BY <1>1 DEF CustodyStep, C!Next, C!HandOver, C!Decline, C!Learn, C!TakeBack, C!Deliver,
              C!Finish

\* A handle is written without a word to its system.
LEMMA LearnWrites ==
  ASSUME NEW s \in Supervisors, Rest(s), own[s].pc \in {"handle", "settle"}, rec' # rec
  PROVE  UNCHANGED ext
BY DEF Rest, ListWork, Offer, OfferNothing, StartAccepted, StartRefused,
   StartEchoed, LocateStart, Unhand, RecordHandle, Load, Tell, Ask, AskFails,
   Settle, Note, StillRunning, CarryOn, HandBack, StartedOver, Finalize, Verify, Mark,
   CancelThere, CancelHere, Pause, NothingToHonour, ListOrphan, LocalProgress, LocalAsked,
   LocalHonour, LocalFail, LocalFenced, LocalDeliver, LocalMark, Take, Release, Pass, At, Turn

\* Learning of a handle, or not.
LEMMA Learned ==
  ASSUME OneInv, Alone, NEW s \in Supervisors, Rest(s), rec' # rec,
         own[s].pc \in {"handle", "settle"}, ~Home, ~Home',
         Where = "asked", Where' \in {"asked", "there"}
  PROVE  CustodyStep
<1>1. There' <=> There
  BY LearnWrites DEF There
<1>2. Moving' = Moving
  BY <1>1, SameSides
<1> QED
  BY <1>2 DEF CustodyStep, C!Next, C!Learn

\* What a state of the invariant says of both sides.
LEMMA SidesOf ==
  ASSUME OneInv, Alone
  PROVE  /\ Home => Where = "here" /\ NoneActive
         /\ There => Where \in {"asked", "there"}
         /\ NoneActive => ~There
<1>1. rec \in Record
  BY OneInvParts, Ranges
<1>2. NoneActive => ~There
  BY DEF NoneActive, There, Active
<1>3. ASSUME Home
      PROVE  Where = "here" /\ NoneActive
  <2>1. PICK s \in Supervisors : At(s, "local")
    BY <1>3 DEF Home
  <2>2. ~Delegated(rec) /\ AtWork /\ NoneActive
    BY <2>1, SolitaryAt DEF At, AtHome
  <2> QED
    BY <1>1, <2>2, Viewed, Places DEF Delegated, AtWork, Record
<1>4. ASSUME There
      PROVE  Where \in {"asked", "there"}
  <2>1. ~NoneActive /\ AtWork
    BY <1>2, <1>4, OneInvParts DEF Solitary
  <2>2. Delegated(rec)
    BY <2>1, OneInvParts, Leads
  <2> QED
    BY <1>1, <2>1, <2>2, Viewed, Places DEF Delegated, AtWork, Record
<1> QED
  BY <1>2, <1>3, <1>4

LEMMA CustodyClaiming ==
  ASSUME OneInv, Alone, NEW s \in Supervisors, Claiming(s)
  PROVE  CustodyStep
<1>1. TypeOK /\ Memory /\ rec \in Record /\ own \in [Supervisors -> Process]
  BY OneInvParts, Ranges
<1>2. UNCHANGED ext /\ rec'.deleg = rec.deleg
  BY OneInvParts, InformedClaiming
<1>3. \/ rec'.state = rec.state
      \/ rec.state = "pending" /\ rec'.state = "running"
  <2>1. Takes(s) \/ UNCHANGED rec
    BY <1>1, Taking
  <2> QED
    BY <1>1, <2>1 DEF Takes, Record
<1>4. Where' = Where
  BY <1>1, <1>2, <1>3, Viewed, Places DEF Record, States
<1>5. There' <=> There
  BY <1>2 DEF There
<1>6. ~Home
  BY DEF Home, Claiming, DelegateClaim, ClaimDelegation, RunClaim, TakeClaim, At, Turn, Alone
<1>7. CASE RunClaim(s)
  <2>1. NoneActive /\ ~Delegated(rec) /\ AtWork
    BY <1>7, SolitaryAt DEF RunClaim, At
  <2>2. Where = "here" /\ ~There
    BY <1>1, <2>1, Viewed, Places, SidesOf DEF Delegated, AtWork, Record
  <2> QED
    BY <1>4, <1>5, <2>2, AtHomeStep
<1>8. CASE ~RunClaim(s)
  <2>1. own'[s].pc # "local"
    BY <1>1, <1>8, Granted DEF AfterClaim, Polled
  <2>2. ~Home'
    BY <2>1 DEF Home, At, Alone
  <2> QED
    BY <1>4, <1>5, <1>6, <2>2, SidesOf, Slower
<1> QED
  BY <1>7, <1>8

\* A step that writes the record, by what the process is at.
LEMMA CustodyWrites ==
  ASSUME OneInv, Alone, NEW s \in Supervisors, Rest(s), rec' # rec, own[s].pc # "local",
         ~Home, ~Home', There' => There, ~faults'.leaked, NoneActive => NoneActive'
  PROVE  CustodyStep
<1>1. /\ TypeOK /\ Memory /\ rec \in Record /\ own[s] \in Process /\ Shape(own[s])
      /\ Knows(own[s]) /\ Found
  BY OneInvParts, Ranges DEF Memory, Informed
<1>2. RecordMoves(s) /\ own[s].cur
  BY <1>1, RecordWrites DEF RecordMoves, MayWrite
<1>3. rec.state \in States /\ rec'.state \in States
  <2>1. own[s].pc = "release" => rec'.state \in States
    BY <1>1, <1>2 DEF RecordMoves, LetGo, Record, States
  <2> QED
    BY <1>1, <1>2, <2>1 DEF RecordMoves, Record, States
<1>4. /\ NoneActive => ~There /\ ~There'
      /\ NoneActive' => ~There'
  BY DEF NoneActive, There, Active
<1>5. own[s].pc \in Acting => rec.deleg = own[s].seen /\ AtWork
  BY <1>1, <1>2, SolitaryAt DEF Memory, LastClaim
<1>6. own[s].pc \in Polled \cup {"mark", "cancel"} => Where = "there"
  <2>1. ASSUME own[s].pc \in Polled \cup {"mark", "cancel"}
        PROVE  Where = "there"
    <3>1. own[s].seen.ext \in Handles /\ IsDelegation(own[s].seen)
      BY <1>1, <2>1 DEF Shape, Polled, Acting
    <3>2. rec.deleg # NotDelegated /\ rec.deleg.ext # Request /\ AtWork
      BY <1>5, <2>1, <3>1, Undelegated, DelegationAssumption DEF Acting
    <3> QED
      BY <1>3, <3>2, Viewed, Places DEF AtWork
  <2> QED
    BY <2>1
<1>7. CASE own[s].pc \in {"failed", "gone", "mark", "cancel"}
  <2>1. Where = "there" /\ ~There /\ ~There'
    BY <1>4, <1>6, <1>7, SolitaryAt DEF Polled
  <2>2. rec'.deleg = rec.deleg \/ rec'.deleg = NotDelegated
        \/ rec'.deleg = [rec.deleg EXCEPT !.delivered = TRUE]
    BY <1>1, <1>7, DelegWrites
  <2>3. Where' # "asked"
    <3>1. rec.deleg.ext # Request
      BY <1>5, <1>7, <1>1, DelegationAssumption DEF Acting, Polled, Shape
    <3>2. rec'.deleg.ext # Request
      BY <1>1, <2>2, <3>1, DelegationAssumption DEF NotDelegated, Record, Delegation
    <3> QED
      BY <1>3, <3>2, Viewed DEF PlaceOf
  <2> QED
    BY <1>3, <2>1, <2>3, Viewed, Places, Passed
<1>8. CASE own[s].pc = "lied"
  <2>1. Where = "there" /\ ~There'
    BY <1>1, <1>2, <1>4, <1>6, <1>8, StopThere DEF Polled
  <2>2. rec'.deleg = rec.deleg \/ rec'.deleg = NotDelegated
    BY <1>1, <1>8, DelegWrites
  <2>3. rec'.state \in {"pending", "running"}
    BY <1>2, <1>5, <1>8 DEF RecordMoves, AtWork, Acting, Polled
  <2>4. Where' = Where \/ Where' = "here"
    <3>1. AtWork /\ rec.state \in {"pending", "running"}
      BY <1>5, <1>8 DEF AtWork, Acting, Polled
    <3>2. CASE rec'.deleg = rec.deleg
      <4>1. rec.deleg # NotDelegated
        BY <1>3, <2>1, <3>1, Viewed, Places
      <4> QED
        BY <1>3, <2>3, <3>1, <3>2, <4>1, Viewed, Places
    <3>3. CASE rec'.deleg = NotDelegated
      BY <1>3, <2>3, <3>3, Viewed, Places
    <3> QED
      BY <2>2, <3>2, <3>3
  <2>5. CASE Where' = "here"
    BY <2>1, <2>5, Viewed DEF CustodyStep, C!Next, C!TakeBack, Sides
  <2> QED
    BY <2>1, <2>4, <2>5, Slower
<1>9. CASE own[s].pc \in {"start", "locate", "unhand", "handle"}
  <2>1. AtWork /\ rec.deleg = HandedTo(own[s].sys, Request)
    BY <1>1, <1>9, SolitaryAt DEF Handing, Knows
  <2>2. Where = "asked"
    BY <1>3, <2>1, Viewed, Places, DelegationAssumption
       DEF AtWork, HandedTo, NotDelegated
  <2>3. rec'.state \in {"pending", "running"}
    BY <1>2, <1>9, <2>1 DEF RecordMoves, AtWork
  <2>4. CASE own[s].pc = "unhand"
    <3>1. Where' \in {"asked", "here"}
      BY <1>1, <1>3, <2>1, <2>2, <2>3, <2>4, DelegWrites, Viewed, Places
         DEF AtWork
    <3> QED
      BY <1>4, <2>2, <2>4, <3>1, SolitaryAt, Passed
  <2>5. CASE own[s].pc = "handle"
    <3>1. Where' \in {"asked", "there"}
      <4>1. CASE rec'.deleg = HandedTo(own[s].sys, own[s].ext)
        <5>1. own[s].sys \in Systems
          BY <1>1, <2>5 DEF Shape, Handing
        <5>2. rec'.deleg # NotDelegated
          BY <4>1, <5>1, DelegationAssumption DEF HandedTo, NotDelegated
        <5> QED
          BY <1>3, <2>3, <5>2, Viewed, Places
      <4>2. CASE rec'.deleg = rec.deleg
        BY <1>3, <2>1, <2>2, <2>3, <4>2, Viewed, Places DEF AtWork
      <4> QED
        BY <1>1, <2>5, <4>1, <4>2, DelegWrites
    <3> QED
      BY <2>2, <2>5, <3>1, Learned
  <2>6. CASE own[s].pc \in {"start", "locate"}
    <3>1. rec'.deleg = rec.deleg
      BY <1>1, <2>6, DelegWrites
    <3> QED
      BY <1>3, <2>1, <2>2, <2>3, <3>1, Viewed, Places, Slower DEF AtWork
  <2> QED
    BY <1>9, <2>4, <2>5, <2>6
<1>10. CASE own[s].pc = "settle"
  <2>1. rec.deleg.ext = Request /\ AtWork /\ OnlyActive(own[s].ext)
    BY <1>1, <1>5, <1>10 DEF Shape, Acting, Knows
  <2>2. rec.deleg # NotDelegated /\ Where = "asked"
    BY <1>3, <2>1, Viewed, Places, DelegationAssumption DEF AtWork, NotDelegated
  <2>3. rec'.state \in {"pending", "running"}
    BY <1>2, <1>10, <2>1 DEF RecordMoves, AtWork
  <2>4. CASE rec'.deleg = NotDelegated
    <3>1. own[s].ext = None
      <4>1. rec'.deleg # rec.deleg /\ rec.deleg \in Delegation
        BY <1>1, <2>2, <2>4 DEF Record
      <4>2. ASSUME NEW e \in Handles
            PROVE  [rec.deleg EXCEPT !.ext = e] # NotDelegated
        BY <4>1, DelegationAssumption DEF Delegation, NotDelegated
      <4> QED
        BY <1>1, <1>10, <2>4, <4>1, <4>2, DelegWrites
    <3>2. NoneActive
      BY <2>1, <3>1, DelegationAssumption DEF OnlyActive, NoneActive
    <3>3. Where' = "here"
      BY <1>3, <2>3, <2>4, Viewed, Places
    <3> QED
      BY <1>4, <2>2, <3>2, <3>3, Passed
  <2>5. CASE rec'.deleg # NotDelegated
    <3>1. Where' \in {"asked", "there"}
      BY <1>3, <2>3, <2>5, Viewed, Places
    <3> QED
      BY <1>10, <2>2, <3>1, Learned
  <2> QED
    BY <2>4, <2>5
<1>11. CASE own[s].pc = "offer"
  <2>1. NoneActive /\ ~Delegated(rec) /\ AtWork
    BY <1>11, SolitaryAt
  <2>2. Where = "here"
    BY <1>3, <2>1, Viewed, Places DEF AtWork, Delegated
  <2>3. rec'.state \in {"pending", "running"}
    BY <1>2, <1>11, <2>1 DEF RecordMoves, AtWork
  <2>4. rec'.deleg = rec.deleg \/ \E x \in Systems : rec'.deleg = HandedTo(x, Request)
    BY <1>1, <1>11, DelegWrites
  <2>5. Where' \in {"here", "asked"}
    <3>1. ASSUME NEW x \in Systems
          PROVE  HandedTo(x, Request).ext = Request /\ HandedTo(x, Request) # NotDelegated
      BY DelegationAssumption DEF HandedTo, NotDelegated
    <3> QED
      BY <1>3, <2>1, <2>3, <2>4, <3>1, Viewed, Places DEF Delegated
  <2> QED
    BY <1>4, <2>1, <2>2, <2>5, Passed
<1>12. CASE own[s].pc = "take"
  <2>1. rec.state = "transferred" /\ NoneActive
    BY <1>12, SolitaryAt
  <2>2. rec'.state \in {"transferred", "complete"}
    BY <1>2, <1>12, <2>1 DEF RecordMoves
  <2>3. Where = "delivered" /\ Where' \in {"delivered", "over"}
    BY <1>3, <2>1, <2>2, Viewed, Places DEF Terminal
  <2> QED
    BY <1>4, <2>1, <2>3, Passed
<1>13. CASE own[s].pc \in {"placed", "asked"}
  <2>1. NoneActive /\ ~Delegated(rec) /\ AtWork
    BY <1>13, SolitaryAt DEF AtHome
  <2>2. rec'.deleg = rec.deleg
    BY <1>1, <1>13, DelegWrites
  <2>3. Where = "here" /\ Where' \in {"here", "delivered", "over"}
    BY <1>3, <2>1, <2>2, Viewed, Places DEF Delegated, AtWork, Terminal, States
  <2> QED
    BY <1>4, <2>1, <2>3, Passed
<1>14. CASE own[s].pc = "release"
  <2>1. rec' = LetGo(rec)
    BY <1>2, <1>14 DEF RecordMoves
  <2>2. /\ rec'.deleg = rec.deleg
        /\ rec'.state = rec.state \/ (rec.state = "running" /\ rec'.state = "pending")
    BY <1>1, <2>1 DEF LetGo, Record
  <2>3. Where' = Where
    BY <1>3, <2>2, Viewed, Places
  <2> QED
    BY <2>3, SidesOf, Slower
<1>15. CASE own[s].pc \notin {"failed", "gone", "mark", "cancel", "lied", "start", "locate",
                              "unhand", "handle", "settle", "offer", "take", "placed",
                              "asked", "release"}
  <2>1. rec'.deleg = rec.deleg
    BY <1>1, <1>15, DelegWrites
  <2>2. rec'.state = rec.state
    BY <1>2, <1>15 DEF RecordMoves
  <2> QED
    BY <2>1, <2>2, Viewed, SidesOf, Slower
<1> QED
  BY <1>7, <1>8, <1>9, <1>10, <1>11, <1>12, <1>13, <1>14, <1>15

LEMMA CustodyRest ==
  ASSUME OneInv, Alone, Answering, ~faults'.leaked, NEW s \in Supervisors, Rest(s)
  PROVE  CustodyStep
<1>1. /\ TypeOK /\ Memory /\ rec \in Record /\ own[s] \in Process
      /\ own \in [Supervisors -> Process] /\ Knows(own[s]) /\ ext \in [Handles -> Job]
  BY OneInvParts, Ranges DEF Informed
<1>2. CASE own[s].pc = "local"
  <2>1. NoneActive /\ ~Delegated(rec) /\ AtWork /\ ~StartAccepted(s)
    BY <1>2, SolitaryAt DEF AtHome, StartAccepted, At
  <2>2. rec'.deleg = rec.deleg /\ rec'.state = rec.state
    <3>1. rec'.deleg = rec.deleg
      BY <1>1, <1>2, DelegWrites
    <3>2. rec'.state = rec.state
      BY <1>1, <1>2, RecordWrites DEF RecordMoves
    <3> QED
      BY <3>1, <3>2
  <2>3. Where = "here" /\ Where' = Where
    BY <1>1, <2>1, <2>2, Viewed, Places DEF Delegated, AtWork, Record
  <2>4. ~There /\ ~There'
    BY <1>1, <2>1, JobsOfStep DEF Shrink, NoneActive, There, Active
  <2> QED
    BY <2>3, <2>4, AtHomeStep
<1>3. CASE own[s].pc # "local"
  <2>1. ~Home /\ ~Home'
    <3>1. own'[s].pc # "local"
      BY <1>1, <1>3, Course DEF Handing
    <3> QED
      BY <1>3, <3>1 DEF Home, At, Alone
  <2>2. CASE StartAccepted(s)
    <3>1. own[s].pc = "start" /\ rec.deleg = HandedTo(own[s].sys, Request)
      BY <1>1, <2>2 DEF StartAccepted, At, Knows, Handing
    <3>2. NoneActive /\ AtWork /\ UNCHANGED rec /\ ~There
      BY <2>2, <3>1, SolitaryAt, SidesOf DEF StartAccepted, Handing
    <3>3. There'
      BY <1>1, <2>2, Started DEF There
    <3>4. Where = "asked" /\ Where' = "asked"
      BY <1>1, <3>1, <3>2, Viewed, Places, DelegationAssumption
         DEF HandedTo, NotDelegated, AtWork, Record
    <3> QED
      BY <2>1, <3>2, <3>3, <3>4, Viewed DEF CustodyStep, C!Next, C!Accept, Sides
  <2>3. CASE ~StartAccepted(s)
    <3>1. Shrink
      BY <1>1, <2>3, JobsOfStep
    <3>2. There' => There
      BY <3>1 DEF There, Shrink
    <3>3. NoneActive => NoneActive'
      BY <3>1, Fewer
    <3>4. CASE rec' = rec
      BY <2>1, <3>2, <3>4, Viewed, SidesOf, Slower
    <3> QED
      BY <1>3, <2>1, <3>2, <3>3, <3>4, CustodyWrites
  <2> QED
    BY <2>2, <2>3
<1> QED
  BY <1>2, <1>3

LEMMA CustodyAround ==
  ASSUME OneInv, Alone, Around \/ (\E s \in Supervisors : Crash(s)) \/ UNCHANGED vars
  PROVE  CustodyStep
<1>1. TypeOK /\ rec \in Record /\ ext \in [Handles -> Job] /\ own \in [Supervisors -> Process]
  BY OneInvParts, Ranges
<1>2. /\ rec'.deleg = rec.deleg /\ rec'.state = rec.state
      /\ There' => There
  <2>1. CASE Around
    <3>1. There' => There
      BY <1>1, <2>1, OutsideMoves DEF Shrink, There, Nothing
    <3> QED
      BY <1>1, <2>1, <3>1, OutsideMoves
  <2> QED
    BY <1>1, <2>1 DEF Crash, Record, vars, There
<1>3. Where' = Where
  BY <1>2, Viewed
<1>4. Home' => Home
  <2>1. ASSUME NEW s \in Supervisors, Crash(s)
        PROVE  ~Home'
    BY <1>1, <2>1 DEF Crash, Become, Idle, Home, At, Alone
  <2>2. ASSUME Around
        PROVE  Home' => Home
    <3>1. UNCHANGED own /\ rec'.state = rec.state
      BY <1>1, <2>2, OutsideMoves
    <3>2. rec'.live => rec.live
      BY <1>1, <2>2 DEF Around, ExternalStep, SetWant, Lapse, Record
    <3> QED
      BY <3>1, <3>2 DEF Home, At, MayWrite
  <2> QED
    BY <2>1, <2>2 DEF Home, At, MayWrite, vars
<1>5. CASE Home
  BY <1>2, <1>3, <1>5, SidesOf, AtHomeStep
<1>6. CASE ~Home
  BY <1>2, <1>3, <1>4, <1>6, SidesOf, Slower
<1> QED
  BY <1>5, <1>6

(***************************************************************************)
(* Every step of a sweep, of the systems and of the faults is a step of    *)
(* Custody: the work is handed over through a question, comes home only    *)
(* when nothing was started or nothing moves any more, and ends while      *)
(* nothing moves.  The lease, the lost answers and the crashes are what    *)
(* Custody does not know.                                                  *)
(***************************************************************************)
THEOREM InCustody == Alone /\ ~Leaks /\ Answering => (Spec => InOneCustody)
<1> SUFFICES ASSUME Alone, ~Leaks, Answering
             PROVE  Spec => InOneCustody
  OBVIOUS
<1>1. Init => OneInv /\ C!Init
  <2> SUFFICES ASSUME Init
               PROVE  OneInv /\ C!Init
    OBVIOUS
  <2>1. OneInv
    BY OneBegins
  <2>2. ~There /\ ~Home
    BY DEF Init, There, Home, At, Idle, Nothing
  <2>3. Where = "here"
    BY DelegationAssumption DEF Init, Where, Terminal, Unsettled, Delegated, NotDelegated
  <2> QED
    BY <2>1, <2>2, <2>3, Viewed DEF C!Init, Sides
<1>2. OneInv /\ [Next]_vars => OneInv'
  BY OneStep
<1>3. OneInv /\ [Next]_vars => [C!Next]_(C!custody)
  <2> SUFFICES ASSUME OneInv, [Next]_vars
               PROVE  CustodyStep
    BY DEF CustodyStep, C!custody
  <2>1. ~faults'.leaked
    BY OneStep DEF OneInv
  <2> QED
    BY <2>1, CustodyClaiming, CustodyRest, CustodyAround, SweepParts DEF Next, Around
<1> QED
  BY <1>1, <1>2, <1>3, PTL DEF Spec, InOneCustody, C!Spec
=============================================================================
