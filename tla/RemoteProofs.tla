---------------------------- MODULE RemoteProofs ----------------------------
(***************************************************************************)
(* What the remote job service runs for a record can be found again from   *)
(* the record: RemoteJob's NoneForgotten, for any number of histories,     *)
(* chunks and disturbances.                                                *)
(***************************************************************************)
EXTENDS RemoteJob, TLAPS

LEMMA DisturbType ==
  ASSUME TypeOK, NEW k, Disturb(k)
  PROVE  /\ faults' \in [left : 0..MaxFaults, seen : SUBSET Kinds]
         /\ faults.seen \subseteq faults'.seen /\ k \in faults'.seen
BY RemoteAssumption DEF TypeOK, Disturb

LEMMA HandTypes ==
  ASSUME TypeOK,
         NEW d \in {NotDelegated, Unsettled} \cup {handle(e) : e \in 1..Epochs}, Hand(d)
  PROVE  /\ rec' \in [deleg : {NotDelegated, Unsettled} \cup {handle(e) : e \in 1..Epochs},
                      state : {"pending", "transferred", "failed", "cancelled"},
                      want : {"run", "cancel"}]
         /\ rec'.deleg = d /\ rec'.state = "pending" /\ rec'.want = rec.want
BY DEF TypeOK, Hand

LEMMA GoesTypes ==
  ASSUME TypeOK, NEW pc \in PCs, Goes(pc)
  PROVE  own' \in [pc : PCs, epoch : 0..Epochs] /\ own'.pc = pc /\ own'.epoch = own.epoch
BY DEF TypeOK, Goes

LEMMA OverTypes ==
  ASSUME Over
  PROVE  own' \in [pc : PCs, epoch : 0..Epochs] /\ own'.pc = "idle"
BY RemoteAssumption DEF Over, Idle, PCs

LEMMA SealingType ==
  ASSUME TypeOK
  PROVE  /\ Sealing \in [epoch : 1..Epochs, id : {"absent", "accepted", "sealed"},
                         work : {"none", "running", "complete", "failed", "cancelled"}]
         /\ Sealing.epoch = there.epoch /\ Sealing.work = there.work
         /\ there.id = "accepted" => Sealing.id = "accepted"
BY DEF TypeOK, Sealing

\* A handoff the remote takes leaves work running there, or there already was some.
LEMMA AcceptingType ==
  ASSUME TypeOK, NEW e
  PROVE  /\ Accepting(e) \in [epoch : 1..Epochs, id : {"absent", "accepted", "sealed"},
                              work : {"none", "running", "complete", "failed", "cancelled"}]
         /\ Accepting(e).epoch = there.epoch
         /\ \/ Accepting(e) = there
            \/ /\ Accepting(e).id = "accepted"
               /\ Answer(e) = "accepted" /\ e = there.epoch
BY DEF TypeOK, Accepting, Answer

LEMMA HandleKinds ==
  /\ NotDelegated.st = "none" /\ Unsettled.st = "asked" /\ Unsettled # NotDelegated
  /\ \A e : handle(e).st = "held" /\ handle(e).epoch = e
            /\ handle(e) # NotDelegated /\ handle(e) # Unsettled
BY DEF NotDelegated, Unsettled, handle

LEMMA HandoffType == ASSUME TypeOK, Handoff PROVE TypeOK'
BY HandTypes, GoesTypes, OverTypes, DisturbType, SealingType, AcceptingType, RemoteAssumption
   DEF Handoff, TypeOK, At, PCs, Calm

LEMMA HandoffKeeps == ASSUME Whereabouts, Handoff, TypeOK' PROVE Whereabouts'
BY HandleKinds, SealingType, AcceptingType, RemoteAssumption
   DEF Handoff, Whereabouts, NoneForgotten, NotDelegated, Unsettled, handle, Hand, Goes, Over, Idle, At, PCs, Disturb, Calm, Held, TypeOK

LEMMA WindowType == ASSUME TypeOK, Window PROVE TypeOK'
BY HandTypes, GoesTypes, OverTypes, DisturbType, SealingType, AcceptingType, RemoteAssumption
   DEF Window, TypeOK, At, PCs, Calm

LEMMA WindowKeeps == ASSUME Whereabouts, Window, TypeOK' PROVE Whereabouts'
BY HandleKinds, SealingType, AcceptingType, RemoteAssumption
   DEF Window, Whereabouts, NoneForgotten, NotDelegated, Unsettled, handle, Hand, Goes, Over, Idle, At, PCs, Disturb, Calm, Held, TypeOK

LEMMA SubmitType == ASSUME TypeOK, Submit PROVE TypeOK'
<1>1. there' \in {there, Accepting(own.epoch)}
  BY DEF Submit
<1>2. refused' \in {"none", "no", "unavailable"} /\ own' \in [pc : PCs, epoch : 0..Epochs]
  <2>1. CASE Hears(Answer(own.epoch))
    <3>1. Answer(own.epoch) \in {"unknown", "accepted", "no", "unavailable"}
      BY DEF Answer, TypeOK
    <3>2. refused' \in {refused, "none", Answer(own.epoch)} /\ (Goes("handle") \/ Goes("locate"))
      BY <2>1 DEF Hears
    <3>3. "handle" \in PCs /\ "locate" \in PCs
      BY DEF PCs
    <3>4. own' \in [pc : PCs, epoch : 0..Epochs]
      BY <3>2, <3>3, GoesTypes
    <3>5. refused' # "accepted" /\ refused' # "unknown"
      BY <2>1 DEF Hears, TypeOK
    <3> QED
      BY <3>1, <3>2, <3>4, <3>5 DEF TypeOK
  <2>2. CASE UNCHANGED refused /\ Goes("locate")
    <3>1. "locate" \in PCs
      BY DEF PCs
    <3> QED
      BY <2>2, <3>1, GoesTypes DEF TypeOK
  <2> QED
    BY <2>1, <2>2 DEF Submit
<1>3. faults' \in [left : 0..MaxFaults, seen : SUBSET Kinds]
  BY DisturbType DEF Submit, Calm, TypeOK
<1> QED
  BY <1>1, <1>2, <1>3, AcceptingType DEF Submit, TypeOK

\* What the remote runs after it was handed over is recorded as handed over.
LEMMA SubmitKeeps == ASSUME Whereabouts, Submit, TypeOK' PROVE Whereabouts'
<1>1. /\ rec' = rec /\ admits' = admits /\ dest' = dest
      /\ rec.deleg = Unsettled /\ refused # "no" /\ faults.seen \subseteq faults'.seen
      /\ own.epoch \in 1..there.epoch
  BY DEF Submit, Whereabouts, Disturb, Calm, At
<1>2. /\ there'.epoch = there.epoch
      /\ there'.work = "running" => there'.id = "accepted"
  BY AcceptingType DEF Submit, Whereabouts, NoneForgotten, Accepting, TypeOK
<1>3. \/ /\ Hears(Answer(own.epoch)) /\ there' = Accepting(own.epoch)
      \/ refused' = refused /\ Goes("locate")
  BY DEF Submit
<1>4. own.epoch \in Nat /\ there.epoch \in Nat
  BY RemoteAssumption DEF Whereabouts, NoneForgotten, TypeOK
<1>5. own'.epoch = own.epoch /\ own'.pc \in {"handle", "locate"}
  BY <1>3 DEF Hears, Goes, Whereabouts, NoneForgotten, TypeOK
<1>6. CASE refused' = refused /\ own'.pc = "locate"
  BY <1>1, <1>2, <1>6, HandleKinds DEF Whereabouts, NoneForgotten, At, Held
<1>7. CASE Hears(Answer(own.epoch)) /\ there' = Accepting(own.epoch)
  <2>1. CASE Answer(own.epoch) = "accepted"
    <3>1. refused' = "none"
      BY <1>7, <2>1 DEF Hears
    <3>2. own.epoch = there.epoch
      BY <2>1 DEF Answer
    <3> QED
      BY <1>1, <1>2, <1>4, <1>5, <3>1, <3>2, HandleKinds DEF Whereabouts, NoneForgotten, At, Held
  <2>2. CASE Answer(own.epoch) # "accepted"
    <3>1. there' = there /\ own'.pc = "locate"
      BY <1>7, <2>2 DEF Hears, Accepting, Goes, Whereabouts, NoneForgotten, TypeOK
    <3>2. refused' = "no" => there.work # "running"
      BY <1>1, <1>7, <2>2 DEF Hears, Answer, Whereabouts
    <3>3. refused' = "unavailable" => "unavailable" \in faults'.seen
      BY <1>1, <1>7, <2>2 DEF Hears, Answer, Whereabouts
    <3> QED
      BY <1>1, <1>2, <3>1, <3>2, <3>3, HandleKinds DEF Whereabouts, NoneForgotten, At, Held
  <2> QED
    BY <2>1, <2>2
<1> QED
  BY <1>3, <1>5, <1>6, <1>7 DEF Goes, Whereabouts, NoneForgotten, TypeOK

LEMMA LocateStartType == ASSUME TypeOK, LocateStart PROVE TypeOK'
BY HandTypes, GoesTypes, OverTypes, DisturbType, SealingType, AcceptingType, RemoteAssumption
   DEF LocateStart, Locate, TypeOK, At, PCs, Calm

LEMMA LocateStartKeeps == ASSUME Whereabouts, LocateStart, TypeOK' PROVE Whereabouts'
BY HandleKinds, SealingType, AcceptingType, RemoteAssumption
   DEF LocateStart, Locate, Whereabouts, NoneForgotten, NotDelegated, Unsettled, handle, Hand, Goes, Over, Idle, At, PCs, Disturb, Calm, Held, TypeOK

LEMMA RecordHandleType == ASSUME Whereabouts, TypeOK, RecordHandle PROVE TypeOK'
BY HandTypes, GoesTypes, OverTypes, DisturbType, SealingType, AcceptingType, RemoteAssumption
   DEF RecordHandle, Whereabouts, TypeOK, At, PCs, Calm

LEMMA RecordHandleKeeps == ASSUME Whereabouts, RecordHandle, TypeOK' PROVE Whereabouts'
BY HandleKinds, SealingType, AcceptingType, RemoteAssumption
   DEF RecordHandle, Whereabouts, NoneForgotten, NotDelegated, Unsettled, handle, Hand, Goes, Over, Idle, At, PCs, Disturb, Calm, Held, TypeOK

LEMMA AdoptType == ASSUME TypeOK, AdoptRefused \/ AdoptCancelled PROVE TypeOK'
BY HandTypes, GoesTypes, OverTypes, DisturbType, SealingType, AcceptingType, RemoteAssumption
   DEF AdoptRefused, AdoptCancelled, TypeOK, At, PCs, Calm

LEMMA AdoptKeeps == ASSUME Whereabouts, AdoptRefused \/ AdoptCancelled, TypeOK' PROVE Whereabouts'
BY HandleKinds, SealingType, AcceptingType, RemoteAssumption
   DEF AdoptRefused, AdoptCancelled, Whereabouts, NoneForgotten, NotDelegated, Unsettled, handle, Hand, Goes, Over, Idle, At, PCs, Disturb, Calm, Held, TypeOK

LEMMA ResolveType == ASSUME TypeOK, Resolve PROVE TypeOK'
BY HandTypes, GoesTypes, OverTypes, DisturbType, SealingType, AcceptingType, RemoteAssumption
   DEF Resolve, Locate, TypeOK, At, PCs, Calm

\* An unsettled handoff is settled by what the remote has of it.
LEMMA ResolveKeeps == ASSUME Whereabouts, Resolve, TypeOK' PROVE Whereabouts'
<1>1. /\ admits' = admits /\ refused' = refused /\ dest' = dest
      /\ refused # "no" /\ faults.seen \subseteq faults'.seen
  BY DEF Resolve, Locate, Whereabouts, Disturb, Calm, At
<1>2. /\ there'.epoch = there.epoch /\ there'.work = there.work
      /\ there'.work = "running" => there'.id = "accepted"
  BY SealingType DEF Resolve, Locate, Whereabouts, NoneForgotten
<1>3. own'.pc = "idle"
  BY DEF Resolve, Locate, Over, Idle
<1>4. \/ rec'.deleg \in {rec.deleg, handle(there.epoch)}
      \/ there.work # "running"
      \/ "unavailable" \in faults.seen
  BY DEF Resolve, Locate, Hand, Whereabouts, NoneForgotten, TypeOK
<1>5. NoneForgotten'
  BY <1>1, <1>2, <1>4 DEF Whereabouts, NoneForgotten
<1> QED
  BY <1>1, <1>2, <1>3, <1>5, HandleKinds DEF Whereabouts, At, Held

LEMMA ObserveType == ASSUME TypeOK, Observe PROVE TypeOK'
BY HandTypes, GoesTypes, OverTypes, DisturbType, SealingType, AcceptingType, RemoteAssumption
   DEF Observe, Unheard, Poll, HeldEpoch, Held, TypeOK, At, PCs, Calm

LEMMA ObserveKeeps == ASSUME Whereabouts, Observe, TypeOK' PROVE Whereabouts'
BY HandleKinds, SealingType, AcceptingType, RemoteAssumption
   DEF Observe, Unheard, Poll, HeldEpoch, Held, Whereabouts, NoneForgotten, NotDelegated, Unsettled, handle, Hand, Goes, Over, Idle, At, PCs, Disturb, Calm, Held, TypeOK

LEMMA ReadChunkType == ASSUME Whereabouts, TypeOK, ReadChunk PROVE TypeOK'
BY HandTypes, GoesTypes, OverTypes, DisturbType, SealingType, AcceptingType, RemoteAssumption
   DEF ReadChunk, Poll, Whereabouts, TypeOK, At, PCs, Calm

LEMMA ReadChunkKeeps == ASSUME Whereabouts, ReadChunk, TypeOK' PROVE Whereabouts'
BY HandleKinds, SealingType, AcceptingType, RemoteAssumption
   DEF ReadChunk, Poll, Whereabouts, NoneForgotten, NotDelegated, Unsettled, handle, Hand, Goes, Over, Idle, At, PCs, Disturb, Calm, Held, TypeOK

LEMMA MarkType == ASSUME TypeOK, Mark PROVE TypeOK'
BY HandTypes, GoesTypes, OverTypes, DisturbType, SealingType, AcceptingType, RemoteAssumption
   DEF Mark, TypeOK, At, PCs, Calm

LEMMA MarkKeeps == ASSUME Whereabouts, Mark, TypeOK' PROVE Whereabouts'
BY HandleKinds, SealingType, AcceptingType, RemoteAssumption
   DEF Mark, Whereabouts, NoneForgotten, NotDelegated, Unsettled, handle, Hand, Goes, Over, Idle, At, PCs, Disturb, Calm, Held, TypeOK

LEMMA CancelThereType == ASSUME TypeOK, CancelThere PROVE TypeOK'
BY HandTypes, GoesTypes, OverTypes, DisturbType, SealingType, AcceptingType, RemoteAssumption
   DEF CancelThere, Abandon, HeldEpoch, TypeOK, At, PCs, Calm

LEMMA CancelThereKeeps == ASSUME Whereabouts, CancelThere, TypeOK' PROVE Whereabouts'
BY HandleKinds, SealingType, AcceptingType, RemoteAssumption
   DEF CancelThere, Abandon, HeldEpoch, Whereabouts, NoneForgotten, NotDelegated, Unsettled, handle, Hand, Goes, Over, Idle, At, PCs, Disturb, Calm, Held, TypeOK

LEMMA CancelHereType == ASSUME TypeOK, CancelHere PROVE TypeOK'
BY HandTypes, GoesTypes, OverTypes, DisturbType, SealingType, AcceptingType, RemoteAssumption
   DEF CancelHere, TypeOK, At, PCs, Calm

LEMMA CancelHereKeeps == ASSUME Whereabouts, CancelHere, TypeOK' PROVE Whereabouts'
BY HandleKinds, SealingType, AcceptingType, RemoteAssumption
   DEF CancelHere, Whereabouts, NoneForgotten, NotDelegated, Unsettled, handle, Hand, Goes, Over, Idle, At, PCs, Disturb, Calm, Held, TypeOK

LEMMA RemoteStepType == ASSUME TypeOK, RemoteStep PROVE TypeOK'
BY HandTypes, GoesTypes, OverTypes, DisturbType, SealingType, AcceptingType, RemoteAssumption
   DEF RemoteStep, here, TypeOK, At, PCs, Calm

LEMMA RemoteStepKeeps == ASSUME Whereabouts, RemoteStep, TypeOK' PROVE Whereabouts'
BY HandleKinds, SealingType, AcceptingType, RemoteAssumption
   DEF RemoteStep, here, Whereabouts, NoneForgotten, NotDelegated, Unsettled, handle, Hand, Goes, Over, Idle, At, PCs, Disturb, Calm, Held, TypeOK

LEMMA RemoteChangeType == ASSUME TypeOK, RemoteChange PROVE TypeOK'
BY HandTypes, GoesTypes, OverTypes, DisturbType, SealingType, AcceptingType, RemoteAssumption
   DEF RemoteChange, here, NewHistory, TypeOK, At, PCs, Calm

LEMMA RemoteChangeKeeps == ASSUME Whereabouts, RemoteChange, TypeOK' PROVE Whereabouts'
BY HandleKinds, SealingType, AcceptingType, RemoteAssumption
   DEF RemoteChange, here, NewHistory, Whereabouts, NoneForgotten, NotDelegated, Unsettled, handle, Hand, Goes, Over, Idle, At, PCs, Disturb, Calm, Held, TypeOK

LEMMA CrashType == ASSUME TypeOK, Crash PROVE TypeOK'
BY HandTypes, GoesTypes, OverTypes, DisturbType, SealingType, AcceptingType, RemoteAssumption
   DEF Crash, TypeOK, At, PCs, Calm

LEMMA CrashKeeps == ASSUME Whereabouts, Crash, TypeOK' PROVE Whereabouts'
BY HandleKinds, SealingType, AcceptingType, RemoteAssumption
   DEF Crash, Whereabouts, NoneForgotten, NotDelegated, Unsettled, handle, Hand, Goes, Over, Idle, At, PCs, Disturb, Calm, Held, TypeOK

LEMMA SetWantType == ASSUME TypeOK, \E w \in {"run", "cancel"} : SetWant(w) PROVE TypeOK'
BY HandTypes, GoesTypes, OverTypes, DisturbType, SealingType, AcceptingType, RemoteAssumption
   DEF SetWant, TypeOK, At, PCs, Calm

LEMMA SetWantKeeps == ASSUME Whereabouts, \E w \in {"run", "cancel"} : SetWant(w), TypeOK' PROVE Whereabouts'
BY HandleKinds, SealingType, AcceptingType, RemoteAssumption
   DEF SetWant, Whereabouts, NoneForgotten, NotDelegated, Unsettled, handle, Hand, Goes, Over, Idle, At, PCs, Disturb, Calm, Held, TypeOK

\* One step of anybody.
LEMMA Steps ==
  ASSUME Whereabouts, [Next]_vars
  PROVE  Whereabouts'
<1>0. TypeOK
  BY DEF Whereabouts, NoneForgotten
<1>1. CASE UNCHANGED vars
  BY <1>1 DEF vars, Whereabouts, NoneForgotten, TypeOK, At, Held
<1>2. CASE Sweep
  <2>1. TypeOK'
    BY <1>0, <1>2, HandoffType, WindowType, SubmitType, LocateStartType, RecordHandleType,
       AdoptType, ResolveType, ObserveType, ReadChunkType, MarkType, CancelThereType,
       CancelHereType DEF Sweep
  <2> QED
    BY <1>2, <2>1, HandoffKeeps, WindowKeeps, SubmitKeeps, LocateStartKeeps,
       RecordHandleKeeps, AdoptKeeps, ResolveKeeps, ObserveKeeps, ReadChunkKeeps, MarkKeeps,
       CancelThereKeeps, CancelHereKeeps DEF Sweep
<1>3. CASE RemoteStep \/ RemoteChange \/ Crash \/ \E w \in {"run", "cancel"} : SetWant(w)
  <2>1. TypeOK'
    BY <1>0, <1>3, RemoteStepType, RemoteChangeType, CrashType, SetWantType
  <2> QED
    BY <1>3, <2>1, RemoteStepKeeps, RemoteChangeKeeps, CrashKeeps, SetWantKeeps
<1> QED
  BY <1>1, <1>2, <1>3 DEF Next

LEMMA Starts == Init => Whereabouts
<1> SUFFICES ASSUME Init PROVE Whereabouts
  OBVIOUS
<1>1. TypeOK
  BY RemoteAssumption DEF Init, TypeOK, NotDelegated, NewHistory, Idle, PCs
<1> QED
  BY <1>1 DEF Init, Whereabouts, NoneForgotten, NewHistory, Idle, At

(***************************************************************************)
(* Work the remote runs is never out of the record's sight (Start, Locate, *)
(* Poll and Abandon of RemoteJobDelegator under Runner.Delegate and        *)
(* Reconcile), whatever answers were lost, processes died and histories    *)
(* were started anew, while no admission was unavailable.                  *)
(***************************************************************************)
THEOREM RemoteWorkIsKnown == Spec => []NoneForgotten
<1>1. Whereabouts /\ [Next]_vars => Whereabouts'
  BY Steps
<1>2. Whereabouts => NoneForgotten
  BY DEF Whereabouts
<1> QED
  BY <1>1, <1>2, Starts, PTL DEF Spec
=============================================================================
