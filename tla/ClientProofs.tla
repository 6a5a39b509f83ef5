---------------------------- MODULE ClientProofs ----------------------------
(***************************************************************************)
(* A destination has one unfinished record at most, however many callers   *)
(* of however many processes resume it at once (Client's                   *)
(* OneForDestination), and who is told that the bytes are there finds the  *)
(* artifact asked for (DeliveredIsThere).                                  *)
(***************************************************************************)
EXTENDS ClientInvariant, FiniteSetTheorems, TLAPS

Record ==
  [state : States \cup {"absent"}, live : BOOLEAN, owner : Processes \cup {None},
   by : Processes \cup Callers \cup {None}, failed : BOOLEAN, want : Wants,
   what : Artifacts \cup {None}]

Stages == {"off", "claim", "open", "move", "placed", "honour", "release", "leave"}

Searching == {"start", "scan", "create", "make"}
Owning    == {"begin", "clear", "reclaim", "cleared", "giveback", "launch", "wait", "take",
              "taking"}

Answers == {"nothing", "delivered", "paused", "failure", "cancelled", "nobody", "crash"}

Call == [pc : Searching \cup Owning \cup {"told"}, id : 0..(MaxGen + MaxFresh), said : Answers]

\* What TypeOK says of everything but the callers and the records.
Workshop ==
  /\ file \in Artifacts \cup {None}
  /\ running = [p \in Processes |-> {i \in Ids : ~Is(p, i, "off")}]
  /\ work \in [Processes -> [Ids -> Stages]]
  /\ faults \in 0..MaxFaults

LEMMA Typed ==
  TypeOK <=> rec \in [Ids -> Record] /\ call \in [Callers -> Call] /\ Workshop
BY DEF TypeOK, Record, Call, Workshop, Searching, Owning, Stages, Answers

LEMMA TypedNext ==
  ASSUME rec' \in [Ids -> Record], call' \in [Callers -> Call], Workshop'
  PROVE  TypeOK'
BY DEF TypeOK, Record, Call, Workshop, Searching, Owning, Stages, Answers

LEMMA Numbers ==
  /\ MaxGen \in Nat /\ MaxGen > 0 /\ MaxFresh \in Nat /\ MaxFaults \in Nat
  /\ 1 \in OfDestination /\ OfDestination \subseteq Ids /\ Ids \subseteq 0..(MaxGen + MaxFresh)
  /\ Ids \subseteq Nat \ {0}
BY ClientAssumption DEF OfDestination, Ids

LEMMA DisturbType == ASSUME Workshop, NEW k, Disturb(k) PROVE faults' \in 0..MaxFaults
BY ClientAssumption DEF Workshop, Disturb

-----------------------------------------------------------------------------
(* The records.                                                             *)

\* No record appears, and none that has ended opens again.
Steady ==
  \A j \in Ids : /\ Terminal(rec[j].state) => Terminal(rec'[j].state)
                 /\ rec'[j].state = "absent" <=> rec[j].state = "absent"

LEMMA ClaimsKeeps ==
  ASSUME rec \in [Ids -> Record], NEW t \in Callers \cup Processes, NEW p \in Processes,
         NEW i \in Ids, MayClaim(p, i), Claims(t, p, i)
  PROVE  rec' \in [Ids -> Record] /\ Steady
<1> DEFINE s == IF rec[i].state = "pending" THEN "running" ELSE rec[i].state
<1>1. rec' = [rec EXCEPT ![i] = [rec[i] EXCEPT !.state = s, !.live = TRUE, !.owner = p, !.by = t]]
  BY DEF Claims, Record
<1>2. s \in States /\ ~Terminal(rec[i].state) /\ rec[i].state # "absent"
  BY DEF MayClaim, Open, Absent, Record, States
<1>3. [rec[i] EXCEPT !.state = s, !.live = TRUE, !.owner = p, !.by = t] \in Record
  BY <1>2 DEF Record
<1>4. rec'[i].state = s /\ \A j \in Ids \ {i} : rec'[j] = rec[j]
  BY <1>1 DEF Record
<1> QED
  BY <1>1, <1>2, <1>3, <1>4 DEF Steady, States

LEMMA WritesKeeps ==
  ASSUME rec \in [Ids -> Record], NEW t, NEW i \in Ids, NEW new \in Record,
         new.state # "absent", Writes(t, i, new)
  PROVE  rec' \in [Ids -> Record] /\ Steady
BY DEF Writes, MayWrite, Open, Absent, Steady, Record, States, Terminal

LEMMA LetGoType ==
  ASSUME NEW r \in Record
  PROVE  LetGo(r) \in Record /\ (r.state # "absent" => LetGo(r).state # "absent")
BY DEF LetGo, Record, States

LEMMA SameIsSteady == ASSUME UNCHANGED rec PROVE Steady
BY DEF Steady

LEMMA PutKeeps ==
  ASSUME rec \in [Ids -> Record], NEW i \in Ids, NEW c \in Callers, Absent(i), Put(i, c)
  PROVE  /\ rec' \in [Ids -> Record]
         /\ \A j \in Ids \ {i} : rec'[j] = rec[j]
BY ClientAssumption DEF Put, Record, States, Wants

-----------------------------------------------------------------------------
(* The callers.                                                             *)

LEMMA GoesType ==
  ASSUME call \in [Callers -> Call], NEW c \in Callers,
         NEW pc \in Searching \cup Owning \cup {"told"}, Goes(c, pc)
  PROVE  /\ call' \in [Callers -> Call] /\ call'[c].pc = pc /\ call'[c].id = call[c].id
         /\ \A d \in Callers \ {c} : call'[d] = call[d]
BY DEF Goes, Call

LEMMA TakesType ==
  ASSUME call \in [Callers -> Call], NEW c \in Callers, NEW i \in Ids, Takes(c, i)
  PROVE  /\ call' \in [Callers -> Call] /\ call'[c].pc = "begin" /\ call'[c].id = i
         /\ \A d \in Callers \ {c} : call'[d] = call[d]
BY Numbers DEF Takes, Call, Owning

LEMMA ToldType ==
  ASSUME call \in [Callers -> Call], NEW c \in Callers, NEW i \in Ids, NEW w \in Answers,
         Told(c, i, w)
  PROVE  /\ call' \in [Callers -> Call] /\ call'[c].pc = "told"
         /\ \A d \in Callers \ {c} : call'[d] = call[d]
BY Numbers DEF Told, Call

LEMMA OutcomeType ==
  ASSUME call \in [Callers -> Call], NEW c \in Callers, NEW i \in Ids, Outcome(c, i)
  PROVE  /\ call' \in [Callers -> Call] /\ call'[c].pc \in {"told", "begin"}
         /\ call'[c].pc = "begin" => call'[c].id = i
         /\ \A d \in Callers \ {c} : call'[d] = call[d]
<1>1. Told(c, i, "delivered") \/ Told(c, i, "paused") \/ Takes(c, i)
  BY DEF Outcome
<1>2. "delivered" \in Answers /\ "paused" \in Answers
  BY DEF Answers
<1> QED
  BY <1>1, <1>2, ToldType, TakesType

-----------------------------------------------------------------------------
(* A step that makes no record.                                             *)

\* Callers past the search keep to a record, and none begins to try names.
Settled ==
  \A c \in Callers :
    /\ call'[c].pc \in Owning => call'[c].id \in Ids
    /\ call'[c].pc = "make" => call[c].pc = "make" /\ call'[c].id = call[c].id

LEMMA SteadyKeeps ==
  ASSUME ClientInv, TypeOK', Steady, Settled
  PROVE  ClientInv'
<1>1. HasRecord'
  BY DEF Settled, HasRecord, Owning
<1>2. PassedOver'
  BY Numbers DEF Settled, PassedOver, ClientInv, Steady, At, OfDestination, Ids
<1>3. InTurn'
  BY Numbers DEF InTurn, ClientInv, Steady, Absent, OfDestination, Ids
<1> QED
  BY <1>1, <1>2, <1>3 DEF ClientInv

LEMMA CallerSettled ==
  ASSUME ClientInv, NEW c \in Callers, \A d \in Callers \ {c} : call'[d] = call[d],
         call'[c].pc \in Owning => call'[c].id \in Ids, call'[c].pc # "make"
  PROVE  Settled
BY DEF Settled, ClientInv, HasRecord, Owning

LEMMA SameCallsSettled == ASSUME ClientInv, UNCHANGED call PROVE Settled
BY DEF Settled, ClientInv, HasRecord, Owning

-----------------------------------------------------------------------------
(* A caller's steps.                                                        *)

\* A caller that only moves on, with the record it has.
LEMMA GoesKeeps ==
  ASSUME ClientInv, NEW c \in Callers, call[c].pc \in Owning,
         NEW pc \in Owning, Goes(c, pc),
         rec' \in [Ids -> Record], Steady, Workshop'
  PROVE  ClientInv'
<1>1. call[c].id \in Ids
  BY DEF ClientInv, HasRecord, Owning
<1>2. /\ call' \in [Callers -> Call] /\ call'[c].pc = pc /\ call'[c].id = call[c].id
      /\ \A d \in Callers \ {c} : call'[d] = call[d]
  BY GoesType, Typed DEF ClientInv
<1>3. TypeOK'
  BY <1>2, Typed, TypedNext
<1>4. pc # "make"
  BY DEF Owning
<1> QED
  BY <1>1, <1>2, <1>3, <1>4, CallerSettled, SteadyKeeps

LEMMA ToldKeeps ==
  ASSUME ClientInv, NEW c \in Callers, NEW i \in Ids, NEW w \in Answers, Told(c, i, w),
         rec' \in [Ids -> Record], Steady, Workshop'
  PROVE  ClientInv'
<1>1. /\ call' \in [Callers -> Call] /\ call'[c].pc = "told"
      /\ \A d \in Callers \ {c} : call'[d] = call[d]
  BY ToldType, Typed DEF ClientInv
<1>2. TypeOK'
  BY <1>1, Typed, TypedNext
<1>3. Settled
  BY <1>1, CallerSettled DEF Owning
<1> QED
  BY <1>2, <1>3, SteadyKeeps

LEMMA TakesKeeps ==
  ASSUME ClientInv, NEW c \in Callers, NEW i \in Ids, Takes(c, i),
         UNCHANGED rec, Workshop'
  PROVE  ClientInv'
<1>1. /\ call' \in [Callers -> Call] /\ call'[c].pc = "begin" /\ call'[c].id = i
      /\ \A d \in Callers \ {c} : call'[d] = call[d]
  BY TakesType, Typed DEF ClientInv
<1>2. TypeOK'
  BY <1>1, Typed, TypedNext DEF ClientInv
<1>3. Settled
  BY <1>1, CallerSettled
<1> QED
  BY <1>2, <1>3, SteadyKeeps, SameIsSteady

LEMMA OutcomeKeeps ==
  ASSUME ClientInv, NEW c \in Callers, NEW i \in Ids, Outcome(c, i), UNCHANGED rec, Workshop'
  PROVE  ClientInv'
<1>1. /\ call' \in [Callers -> Call] /\ call'[c].pc \in {"told", "begin"}
      /\ call'[c].pc = "begin" => call'[c].id = i
      /\ \A d \in Callers \ {c} : call'[d] = call[d]
  BY OutcomeType, Typed DEF ClientInv
<1>2. TypeOK'
  BY <1>1, Typed, TypedNext DEF ClientInv
<1>3. Settled
  BY <1>1, CallerSettled DEF Owning
<1> QED
  BY <1>2, <1>3, SteadyKeeps, SameIsSteady

\* A caller that is still searching.
LEMMA SearchKeeps ==
  ASSUME ClientInv, NEW c \in Callers, NEW pc \in {"scan", "create"}, Goes(c, pc),
         UNCHANGED rec, Workshop'
  PROVE  ClientInv'
<1>1. /\ call' \in [Callers -> Call] /\ call'[c].pc = pc
      /\ \A d \in Callers \ {c} : call'[d] = call[d]
  BY GoesType, Typed DEF ClientInv, Searching
<1>2. TypeOK'
  BY <1>1, Typed, TypedNext DEF ClientInv
<1>3. Settled
  BY <1>1, CallerSettled DEF Owning
<1> QED
  BY <1>2, <1>3, SteadyKeeps, SameIsSteady

LEMMA SameWorkshop ==
  ASSUME Workshop, UNCHANGED <<file, running, work, faults>>
  PROVE  Workshop'
BY DEF Workshop, Is

LEMMA LookStep == ASSUME ClientInv, NEW c \in Callers, Look(c) PROVE ClientInv'
<1>1. UNCHANGED rec /\ Workshop'
  BY SameWorkshop, Typed DEF Look, ClientInv
<1>2. "delivered" \in Answers
  BY DEF Answers
<1>3. CASE Goes(c, "scan")
  BY <1>1, <1>3, SearchKeeps
<1>4. CASE \E i \in Finished(c) : Told(c, i, "delivered")
  BY <1>1, <1>2, <1>4, ToldKeeps, SameIsSteady, Typed DEF Finished, ClientInv
<1> QED
  BY <1>3, <1>4 DEF Look

LEMMA ScanStep == ASSUME ClientInv, NEW c \in Callers, Scan(c) PROVE ClientInv'
<1>1. UNCHANGED rec /\ Workshop'
  BY SameWorkshop, Typed DEF Scan, ClientInv
<1>2. CASE Goes(c, "create")
  BY <1>1, <1>2, SearchKeeps
<1>3. CASE \E i \in InFlight(c) : Takes(c, i)
  BY <1>1, <1>3, TakesKeeps DEF InFlight
<1> QED
  BY <1>2, <1>3 DEF Scan

\* A record under a fresh name is none of the destination's names.
LEMMA CreateStep == ASSUME ClientInv, NEW c \in Callers, Create(c) PROVE ClientInv'
<1>1. Workshop'
  BY SameWorkshop, Typed DEF Create, ClientInv
<1>2. PICK i \in Ids \ OfDestination : Absent(i) /\ Put(i, c) /\ Takes(c, i)
  BY DEF Create
<1>3. /\ rec' \in [Ids -> Record] /\ \A j \in Ids \ {i} : rec'[j] = rec[j]
  BY <1>2, PutKeeps, Typed DEF ClientInv
<1>4. /\ call' \in [Callers -> Call] /\ call'[c].pc = "begin" /\ call'[c].id = i
      /\ \A d \in Callers \ {c} : call'[d] = call[d]
  BY <1>2, TakesType, Typed DEF ClientInv
<1>5. TypeOK'
  BY <1>1, <1>3, <1>4, Typed, TypedNext
<1>6. HasRecord'
  BY <1>4 DEF HasRecord, ClientInv
<1>7. PassedOver' /\ InTurn'
  BY <1>2, <1>3, <1>4, Numbers DEF PassedOver, InTurn, ClientInv, At, Absent, OfDestination
<1> QED
  BY <1>5, <1>6, <1>7 DEF ClientInv

LEMMA RecallStep == ASSUME ClientInv, NEW c \in Callers, Recall(c) PROVE ClientInv'
<1>1. UNCHANGED rec /\ Workshop'
  BY SameWorkshop, Typed DEF Recall, ClientInv
<1>2. "delivered" \in Answers
  BY DEF Answers
<1>3. CASE \E i \in Live : Outcome(c, i)
  BY <1>1, <1>3, OutcomeKeeps DEF Live
<1>4. CASE \E i \in Done : Told(c, i, "delivered")
  BY <1>1, <1>2, <1>4, ToldKeeps, SameIsSteady, Typed DEF Done, ClientInv
<1>5. CASE call' = [call EXCEPT ![c].pc = "make", ![c].id = 1]
  <2>1. /\ call' \in [Callers -> Call] /\ call'[c].pc = "make" /\ call'[c].id = 1
        /\ \A d \in Callers \ {c} : call'[d] = call[d]
    BY <1>5, Typed, Numbers DEF ClientInv, Call, Searching
  <2>2. TypeOK'
    BY <1>1, <2>1, Typed, TypedNext DEF ClientInv
  <2>3. HasRecord' /\ PassedOver' /\ InTurn'
    BY <1>1, <2>1, Numbers DEF HasRecord, PassedOver, InTurn, ClientInv, At, Absent
  <2> QED
    BY <2>2, <2>3 DEF ClientInv
<1> QED
  BY <1>3, <1>4, <1>5 DEF Recall

\* The next name: taken by this caller, held by unfinished work, or passed over.
LEMMA MakeStep == ASSUME ClientInv, NEW c \in Callers, Make(c) PROVE ClientInv'
<1> DEFINE i == call[c].id
<1>1. i \in OfDestination /\ i \in Ids /\ \A j \in 1..(i - 1) : Terminal(rec[j].state)
  BY Numbers DEF Make, ClientInv, PassedOver
<1>2. Workshop'
  BY SameWorkshop, Typed DEF Make, ClientInv
<1>3. CASE Absent(i) /\ Put(i, c) /\ Takes(c, i)
  <2>1. /\ rec' \in [Ids -> Record] /\ \A j \in Ids \ {i} : rec'[j] = rec[j]
    BY <1>1, <1>3, PutKeeps, Typed DEF ClientInv
  <2>2. /\ call' \in [Callers -> Call] /\ call'[c].pc = "begin" /\ call'[c].id = i
        /\ \A d \in Callers \ {c} : call'[d] = call[d]
    BY <1>1, <1>3, TakesType, Typed DEF ClientInv
  <2>3. TypeOK'
    BY <1>2, <2>1, <2>2, Typed, TypedNext
  <2>4. HasRecord'
    BY <1>1, <2>2 DEF HasRecord, ClientInv
  <2>5. ~Terminal(rec[i].state)
    BY <1>3 DEF Absent, Terminal
  <2>6. ASSUME NEW d \in Callers, At(d, "make")'
        PROVE  /\ call'[d].id \in OfDestination
               /\ \A j \in 1..(call'[d].id - 1) : Terminal(rec'[j].state)
    <3>1. d # c /\ call'[d] = call[d] /\ call[d].pc = "make"
      BY <2>2, <2>6 DEF At
    <3>2. /\ call[d].id \in OfDestination
          /\ \A j \in 1..(call[d].id - 1) : Terminal(rec[j].state)
      BY <3>1 DEF ClientInv, PassedOver, At
    <3>3. \A j \in 1..(call[d].id - 1) : j \in Ids
      BY <3>2, Numbers DEF Ids, OfDestination
    <3> QED
      BY <2>1, <2>5, <3>1, <3>2, <3>3
  <2>7. ASSUME NEW k \in OfDestination, NEW j \in OfDestination, k < j, ~Absent(j)'
        PROVE  Terminal(rec'[k].state)
    <3>1. k # i => rec'[k] = rec[k]
      BY <2>1, Numbers
    <3>2. CASE j = i
      <4>1. k \in 1..(i - 1)
        BY <2>7, <3>2, Numbers DEF OfDestination
      <4> QED
        BY <1>1, <2>7, <3>1, <3>2, <4>1, Numbers DEF OfDestination
    <3>3. CASE j # i
      <4>1. ~Absent(j) /\ Terminal(rec[k].state)
        BY <2>1, <2>7, <3>3, Numbers DEF Absent, ClientInv, InTurn
      <4> QED
        BY <2>5, <3>1, <4>1
    <3> QED
      BY <3>2, <3>3
  <2> QED
    BY <2>3, <2>4, <2>6, <2>7 DEF ClientInv, PassedOver, InTurn
<1>4. CASE UNCHANGED rec /\ Outcome(c, i)
  BY <1>1, <1>2, <1>4, OutcomeKeeps
<1>5. CASE /\ UNCHANGED rec /\ ~Absent(i) /\ ~Open(i) /\ i < MaxGen
           /\ call' = [call EXCEPT ![c].id = @ + 1]
  <2>1. i + 1 \in OfDestination /\ i + 1 \in 0..(MaxGen + MaxFresh)
    BY <1>1, <1>5, Numbers DEF OfDestination
  <2>2. /\ call' \in [Callers -> Call] /\ call'[c].pc = "make" /\ call'[c].id = i + 1
        /\ \A d \in Callers \ {c} : call'[d] = call[d]
    BY <1>5, <2>1, Typed DEF ClientInv, Call, Make, At
  <2>3. TypeOK'
    BY <1>2, <1>5, <2>2, Typed, TypedNext DEF ClientInv
  <2>4. Terminal(rec[i].state)
    BY <1>5 DEF Open
  <2>5. \A j \in 1..(call'[c].id - 1) : Terminal(rec'[j].state)
    <3>1. i \in Nat /\ i > 0
      BY <1>1, Numbers DEF OfDestination
    <3>2. call'[c].id = i + 1
      BY <2>2
    <3>3. \A j \in 1..(call'[c].id - 1) : j = i \/ j \in 1..(i - 1)
      <4> HIDE DEF i
      <4> QED
        BY <3>1, <3>2
    <3> QED
      BY <1>1, <1>5, <2>4, <3>3
  <2>6. HasRecord'
    BY <2>2 DEF HasRecord, ClientInv
  <2>7. PassedOver'
    <3>1. ASSUME NEW d \in Callers, call'[d].pc = "make"
          PROVE  /\ call'[d].id \in OfDestination
                 /\ \A j \in 1..(call'[d].id - 1) : Terminal(rec'[j].state)
      <4>1. CASE d = c
        BY <2>1, <2>2, <2>5, <4>1
      <4>2. CASE d # c
        BY <1>5, <2>2, <3>1, <4>2 DEF PassedOver, ClientInv, At
      <4> QED
        BY <4>1, <4>2
    <3> QED
      BY <3>1 DEF PassedOver, At
  <2>8. InTurn'
    BY <1>5 DEF InTurn, ClientInv, Absent
  <2> QED
    BY <2>3, <2>6, <2>7, <2>8 DEF ClientInv
<1> QED
  BY <1>3, <1>4, <1>5 DEF Make, Taken, Spent, More

LEMMA RecordOf ==
  ASSUME ClientInv, NEW c \in Callers, call[c].pc \in Owning
  PROVE  call[c].id \in Ids /\ In[c] \in Processes
BY ClientAssumption DEF ClientInv, HasRecord, Owning

LEMMA BeginStep == ASSUME ClientInv, NEW c \in Callers, Begin(c) PROVE ClientInv'
<1>1. Workshop' /\ rec' \in [Ids -> Record] /\ Steady
  BY SameWorkshop, SameIsSteady, Typed DEF Begin, ClientInv
<1>2. Goes(c, "wait") \/ Goes(c, "clear")
  BY DEF Begin
<1> QED
  BY <1>1, <1>2, GoesKeeps DEF Begin, At, Owning

LEMMA ClearStep == ASSUME ClientInv, NEW c \in Callers, Clear(c) PROVE ClientInv'
<1>1. Workshop' /\ rec' \in [Ids -> Record] /\ Steady
  BY SameWorkshop, SameIsSteady, Typed DEF Clear, ClientInv
<1>2. Goes(c, "reclaim") \/ Goes(c, "launch")
  BY DEF Clear
<1> QED
  BY <1>1, <1>2, GoesKeeps DEF Clear, At, Owning

LEMMA ReclaimStep == ASSUME ClientInv, NEW c \in Callers, Reclaim(c) PROVE ClientInv'
<1>1. Workshop' /\ call[c].pc \in Owning
  BY SameWorkshop, Typed DEF Reclaim, ClientInv, At, Owning
<1>2. rec' \in [Ids -> Record] /\ Steady
  BY <1>1, RecordOf, ClaimsKeeps, SameIsSteady, Typed DEF Reclaim, ClientInv
<1>3. Goes(c, "cleared") \/ Goes(c, "launch")
  BY DEF Reclaim
<1> QED
  BY <1>1, <1>2, <1>3, GoesKeeps DEF Owning

LEMMA ClearedStep == ASSUME ClientInv, NEW c \in Callers, Cleared(c) PROVE ClientInv'
<1> DEFINE i == call[c].id
           new == [rec[i] EXCEPT !.failed = FALSE]
<1>1. Workshop' /\ call[c].pc \in Owning /\ i \in Ids
  BY SameWorkshop, RecordOf, Typed DEF Cleared, ClientInv, At, Owning
<1>2. Writes(c, i, new) /\ Goes(c, "giveback")
  BY DEF Cleared
<1>3. rec' \in [Ids -> Record] /\ Steady
  <2>1. CASE MayWrite(c, i)
    <3>1. new \in Record /\ new.state # "absent"
      BY <1>1, <2>1, Typed DEF ClientInv, Record, MayWrite, Open, Absent
    <3> QED
      BY <1>1, <1>2, <3>1, WritesKeeps, Typed DEF ClientInv
  <2>2. CASE ~MayWrite(c, i)
    BY <1>2, <2>2, SameIsSteady, Typed DEF Writes, ClientInv
  <2> QED
    BY <2>1, <2>2
<1> QED
  BY <1>1, <1>2, <1>3, GoesKeeps DEF Owning

LEMMA GiveBackStep == ASSUME ClientInv, NEW c \in Callers, GiveBack(c) PROVE ClientInv'
<1> DEFINE i == call[c].id
<1>1. Workshop' /\ call[c].pc \in Owning /\ i \in Ids
  BY SameWorkshop, RecordOf, Typed DEF GiveBack, ClientInv, At, Owning
<1>2. Writes(c, i, LetGo(rec[i])) /\ Goes(c, "launch")
  BY DEF GiveBack
<1>3. rec' \in [Ids -> Record] /\ Steady
  <2>1. CASE MayWrite(c, i)
    <3>1. LetGo(rec[i]) \in Record /\ LetGo(rec[i]).state # "absent"
      BY <1>1, <2>1, LetGoType, Typed DEF ClientInv, MayWrite, Open, Absent
    <3> QED
      BY <1>1, <1>2, <3>1, WritesKeeps, Typed DEF ClientInv
  <2>2. CASE ~MayWrite(c, i)
    BY <1>2, <2>2, SameIsSteady, Typed DEF Writes, ClientInv
  <2> QED
    BY <2>1, <2>2
<1> QED
  BY <1>1, <1>2, <1>3, GoesKeeps DEF Owning

\* One worker per job: the set and the worker begin together.
LEMMA LaunchStep == ASSUME ClientInv, NEW c \in Callers, Launch(c) PROVE ClientInv'
<1> DEFINE p == In[c]  i == call[c].id
<1>1. call[c].pc \in Owning /\ i \in Ids /\ p \in Processes
  BY RecordOf DEF Launch, At, Owning
<1>2. Workshop /\ rec \in [Ids -> Record]
  BY Typed DEF ClientInv
<1>3. Workshop'
  <2>1. CASE UNCHANGED <<running, work>>
    BY <1>2, <2>1, SameWorkshop DEF Launch
  <2>2. CASE /\ running' = [running EXCEPT ![p] = @ \cup {i}]
             /\ work' = [work EXCEPT ![p][i] = "claim"]
    <3>1. work' \in [Processes -> [Ids -> Stages]]
      BY <1>1, <1>2, <2>2 DEF Workshop, Stages
    <3>2. running' = [q \in Processes |-> {j \in Ids : work'[q][j] # "off"}]
      BY <1>1, <1>2, <2>2 DEF Workshop, Is
    <3> QED
      BY <1>2, <3>1, <3>2 DEF Workshop, Is, Launch
  <2> QED
    BY <2>1, <2>2 DEF Launch
<1>4. Goes(c, "wait") /\ UNCHANGED rec
  BY DEF Launch
<1> QED
  BY <1>1, <1>2, <1>3, <1>4, GoesKeeps, SameIsSteady DEF Owning

LEMMA WaitStep == ASSUME ClientInv, NEW c \in Callers, Wait(c) PROVE ClientInv'
<1>1. Workshop' /\ rec' \in [Ids -> Record] /\ Steady
  BY SameWorkshop, SameIsSteady, Typed DEF Wait, ClientInv
<1>2. call[c].pc \in Owning /\ call[c].id \in Ids
  BY RecordOf DEF Wait, At, Owning
<1>3. Goes(c, "take") \/ \E w \in Answers : Told(c, call[c].id, w)
  BY DEF Wait, Answers
<1> QED
  BY <1>1, <1>2, <1>3, GoesKeeps, ToldKeeps DEF Owning

LEMMA TakeStep == ASSUME ClientInv, NEW c \in Callers, Take(c) PROVE ClientInv'
<1>1. Workshop' /\ call[c].pc \in Owning /\ call[c].id \in Ids /\ In[c] \in Processes
  BY SameWorkshop, RecordOf, Typed DEF Take, ClientInv, At, Owning
<1>2. rec' \in [Ids -> Record] /\ Steady
  BY <1>1, ClaimsKeeps, SameIsSteady, Typed DEF Take, ClientInv
<1>3. Goes(c, "taking") \/ Told(c, call[c].id, "delivered")
  BY DEF Take
<1> QED
  BY <1>1, <1>2, <1>3, GoesKeeps, ToldKeeps DEF Owning, Answers

LEMMA TakingStep == ASSUME ClientInv, NEW c \in Callers, Taking(c) PROVE ClientInv'
<1> DEFINE i == call[c].id
           new == [rec[i] EXCEPT !.state = "complete"]
<1>1. Workshop' /\ call[c].pc \in Owning /\ i \in Ids
  BY SameWorkshop, RecordOf, Typed DEF Taking, ClientInv, At, Owning
<1>2. Writes(c, i, new) /\ Told(c, i, "delivered")
  BY DEF Taking
<1>3. new \in Record /\ new.state # "absent"
  BY <1>1, Typed DEF ClientInv, Record, States
<1>4. rec' \in [Ids -> Record] /\ Steady
  BY <1>1, <1>2, <1>3, WritesKeeps, Typed DEF ClientInv
<1> QED
  BY <1>1, <1>2, <1>4, ToldKeeps DEF Answers

LEMMA CallerStep == ASSUME ClientInv, NEW c \in Callers, Caller(c) PROVE ClientInv'
BY LookStep, ScanStep, CreateStep, RecallStep, MakeStep, BeginStep, ClearStep, ReclaimStep,
   ClearedStep, GiveBackStep, LaunchStep, WaitStep, TakeStep, TakingStep DEF Caller

-----------------------------------------------------------------------------
(* The workers.                                                             *)

LEMMA WorksKeeps ==
  ASSUME Workshop, NEW p \in Processes, NEW i \in Ids, ~Is(p, i, "off"),
         NEW pc \in Stages \ {"off"}, Works(p, i, pc), UNCHANGED running,
         file' \in Artifacts \cup {None}, faults' \in 0..MaxFaults
  PROVE  Workshop'
<1>1. work' \in [Processes -> [Ids -> Stages]]
  BY DEF Works, Workshop
<1>2. \A q \in Processes, j \in Ids : work'[q][j] # "off" <=> work[q][j] # "off"
  BY DEF Works, Workshop, Is
<1>3. running' = [q \in Processes |-> {j \in Ids : work'[q][j] # "off"}]
  BY <1>2 DEF Workshop, Is
<1> QED
  BY <1>1, <1>3 DEF Workshop, Is

\* A worker's step that writes its record, or not.
LEMMA WorkerKeeps ==
  ASSUME ClientInv, UNCHANGED call, rec' \in [Ids -> Record], Steady, Workshop'
  PROVE  ClientInv'
BY SameCallsSettled, SteadyKeeps, Typed, TypedNext DEF ClientInv

LEMMA WorkerWrites ==
  ASSUME ClientInv, NEW p \in Processes, NEW i \in Ids, NEW new, Writes(p, i, new),
         MayWrite(p, i) => new \in Record /\ new.state # "absent"
  PROVE  rec' \in [Ids -> Record] /\ Steady
<1>1. CASE MayWrite(p, i)
  BY <1>1, WritesKeeps, Typed DEF ClientInv
<1>2. CASE ~MayWrite(p, i)
  BY <1>2, SameIsSteady, Typed DEF Writes, ClientInv
<1> QED
  BY <1>1, <1>2

LEMMA Writable ==
  ASSUME ClientInv, NEW p \in Processes, NEW i \in Ids, MayWrite(p, i)
  PROVE  rec[i] \in Record /\ rec[i].state # "absent"
BY Typed DEF ClientInv, MayWrite, Open, Absent

LEMMA WorkerClaimStep ==
  ASSUME ClientInv, NEW p \in Processes, NEW i \in Ids, WorkerClaim(p, i) PROVE ClientInv'
<1>1. rec' \in [Ids -> Record] /\ Steady
  BY ClaimsKeeps, SameIsSteady, Typed DEF WorkerClaim, ClientInv
<1>2. Works(p, i, "open") \/ Works(p, i, "honour") \/ Works(p, i, "leave")
  BY DEF WorkerClaim
<1>3. Workshop'
  BY <1>2, WorksKeeps, Typed DEF WorkerClaim, ClientInv, Is, Workshop, Stages
<1> QED
  BY <1>1, <1>3, WorkerKeeps DEF WorkerClaim

LEMMA WorkerOpenStep ==
  ASSUME ClientInv, NEW p \in Processes, NEW i \in Ids, WorkerOpen(p, i) PROVE ClientInv'
<1>1. rec' \in [Ids -> Record] /\ Steady
  BY WorkerWrites, Writable DEF WorkerOpen, Record
<1>2. Works(p, i, "move") \/ Works(p, i, "leave")
  BY DEF WorkerOpen
<1>3. Workshop'
  BY <1>2, WorksKeeps, Typed DEF WorkerOpen, ClientInv, Is, Workshop, Stages
<1> QED
  BY <1>1, <1>3, WorkerKeeps DEF WorkerOpen

LEMMA WorkerPlaceStep ==
  ASSUME ClientInv, NEW p \in Processes, NEW i \in Ids, WorkerPlace(p, i) PROVE ClientInv'
<1>1. rec' \in [Ids -> Record] /\ Steady
  BY SameIsSteady, Typed DEF WorkerPlace, ClientInv
<1>2. file' \in Artifacts \cup {None}
  BY Typed DEF WorkerPlace, ClientInv, Record
<1>3. Workshop'
  BY <1>2, WorksKeeps, Typed DEF WorkerPlace, ClientInv, Is, Workshop, Stages
<1> QED
  BY <1>1, <1>3, WorkerKeeps DEF WorkerPlace

LEMMA WorkerFencedStep ==
  ASSUME ClientInv, NEW p \in Processes, NEW i \in Ids,
         WorkerFenced(p, i) \/ WorkerAsked(p, i)
  PROVE  ClientInv'
<1>1. rec' \in [Ids -> Record] /\ Steady
  BY SameIsSteady, Typed DEF WorkerFenced, WorkerAsked, ClientInv
<1>2. Workshop'
  BY WorksKeeps, Typed DEF WorkerFenced, WorkerAsked, ClientInv, Is, Workshop, Stages
<1> QED
  BY <1>1, <1>2, WorkerKeeps DEF WorkerFenced, WorkerAsked

LEMMA WorkerHonourStep ==
  ASSUME ClientInv, NEW p \in Processes, NEW i \in Ids, WorkerHonour(p, i) PROVE ClientInv'
<1> DEFINE over == [rec[i] EXCEPT !.state = "cancelled", !.failed = FALSE]
<1>1. Writes(p, i, over) \/ Writes(p, i, LetGo(rec[i]))
  BY DEF WorkerHonour
<1>2. MayWrite(p, i) => over \in Record /\ over.state # "absent"
  BY Writable DEF Record, States
<1>3. MayWrite(p, i) => LetGo(rec[i]) \in Record /\ LetGo(rec[i]).state # "absent"
  BY Writable, LetGoType
<1>4. rec' \in [Ids -> Record] /\ Steady
  BY <1>1, <1>2, <1>3, WorkerWrites
<1>5. Workshop'
  BY WorksKeeps, Typed DEF WorkerHonour, ClientInv, Is, Workshop, Stages
<1> QED
  BY <1>4, <1>5, WorkerKeeps DEF WorkerHonour

LEMMA WorkerFailStep ==
  ASSUME ClientInv, NEW p \in Processes, NEW i \in Ids, WorkerFail(p, i) PROVE ClientInv'
<1>1. PICK over \in BOOLEAN :
        Writes(p, i, [LetGo(rec[i]) EXCEPT !.failed = TRUE,
                                           !.state = IF over THEN "failed" ELSE @])
  BY DEF WorkerFail
<1> DEFINE new == [LetGo(rec[i]) EXCEPT !.failed = TRUE,
                                        !.state = IF over THEN "failed" ELSE @]
<1>2. MayWrite(p, i) => LetGo(rec[i]) \in Record /\ LetGo(rec[i]).state # "absent"
  BY Writable, LetGoType
<1>3. MayWrite(p, i) => new \in Record /\ new.state # "absent"
  BY <1>2 DEF Record, States
<1>4. rec' \in [Ids -> Record] /\ Steady
  BY <1>1, <1>3, WorkerWrites
<1>5. Workshop'
  BY WorksKeeps, DisturbType, Typed DEF WorkerFail, ClientInv, Is, Workshop, Stages
<1> QED
  BY <1>4, <1>5, WorkerKeeps DEF WorkerFail

LEMMA WorkerMarkStep ==
  ASSUME ClientInv, NEW p \in Processes, NEW i \in Ids, WorkerMark(p, i) PROVE ClientInv'
<1> DEFINE new == [rec[i] EXCEPT !.state = "transferred", !.failed = FALSE]
<1>1. MayWrite(p, i) => new \in Record /\ new.state # "absent"
  BY Writable DEF Record, States
<1>2. rec' \in [Ids -> Record] /\ Steady
  BY <1>1, WorkerWrites DEF WorkerMark
<1>3. Workshop'
  BY WorksKeeps, Typed DEF WorkerMark, ClientInv, Is, Workshop, Stages
<1> QED
  BY <1>2, <1>3, WorkerKeeps DEF WorkerMark

LEMMA WorkerReleaseStep ==
  ASSUME ClientInv, NEW p \in Processes, NEW i \in Ids, WorkerRelease(p, i) PROVE ClientInv'
<1>1. MayWrite(p, i) => LetGo(rec[i]) \in Record /\ LetGo(rec[i]).state # "absent"
  BY Writable, LetGoType
<1>2. rec' \in [Ids -> Record] /\ Steady
  BY <1>1, WorkerWrites DEF WorkerRelease
<1>3. Workshop'
  BY WorksKeeps, Typed DEF WorkerRelease, ClientInv, Is, Workshop, Stages
<1> QED
  BY <1>2, <1>3, WorkerKeeps DEF WorkerRelease

LEMMA WorkerLeaveStep ==
  ASSUME ClientInv, NEW p \in Processes, NEW i \in Ids, WorkerLeave(p, i) PROVE ClientInv'
<1>1. Workshop /\ rec' \in [Ids -> Record] /\ Steady
  BY SameIsSteady, Typed DEF WorkerLeave, ClientInv
<1>2. work' \in [Processes -> [Ids -> Stages]]
  BY <1>1 DEF WorkerLeave, Works, Workshop, Stages
<1>3. running' = [q \in Processes |-> {j \in Ids : work'[q][j] # "off"}]
  BY <1>1 DEF WorkerLeave, Works, Workshop, Is
<1>4. Workshop'
  BY <1>1, <1>2, <1>3 DEF Workshop, WorkerLeave, Is
<1> QED
  BY <1>1, <1>4, WorkerKeeps DEF WorkerLeave

LEMMA WorkerStep ==
  ASSUME ClientInv, NEW p \in Processes, NEW i \in Ids, Worker(p, i) PROVE ClientInv'
BY WorkerClaimStep, WorkerOpenStep, WorkerPlaceStep, WorkerFencedStep, WorkerHonourStep,
   WorkerFailStep, WorkerMarkStep, WorkerReleaseStep, WorkerLeaveStep DEF Worker

-----------------------------------------------------------------------------
(* Around them.                                                             *)

LEMMA LapseStep == ASSUME ClientInv, NEW i \in Ids, Lapse(i) PROVE ClientInv'
<1> DEFINE new == [rec[i] EXCEPT !.live = FALSE, !.owner = None, !.by = None]
<1>1. rec' \in [Ids -> Record] /\ Steady
  <2>1. rec \in [Ids -> Record] /\ rec' = [rec EXCEPT ![i] = new]
    BY Typed DEF Lapse, ClientInv
  <2>2. new \in Record /\ new.state = rec[i].state
    BY <2>1 DEF Record
  <2>3. rec'[i] = new /\ \A j \in Ids \ {i} : rec'[j] = rec[j]
    BY <2>1
  <2> HIDE DEF new
  <2> QED
    BY <2>1, <2>2, <2>3 DEF Steady
<1>2. Workshop'
  BY SameWorkshop, Typed DEF Lapse, ClientInv
<1> QED
  BY <1>1, <1>2, WorkerKeeps DEF Lapse

LEMMA SetWantStep ==
  ASSUME ClientInv, NEW i \in Ids, NEW w \in Wants, SetWant(i, w) PROVE ClientInv'
<1>1. rec' \in [Ids -> Record] /\ Steady
  BY Typed DEF SetWant, ClientInv, Record, Steady
<1>2. PICK k : Disturb(k)
  BY DEF SetWant
<1>3. Workshop'
  BY <1>2, DisturbType, Typed DEF SetWant, ClientInv, Workshop, Is
<1> QED
  BY <1>1, <1>3, WorkerKeeps DEF SetWant

LEMMA RemoveStep == ASSUME ClientInv, Remove PROVE ClientInv'
<1>1. rec' \in [Ids -> Record] /\ Steady
  BY SameIsSteady, Typed DEF Remove, ClientInv
<1>2. Workshop'
  BY DisturbType, Typed DEF Remove, ClientInv, Workshop, Is
<1> QED
  BY <1>1, <1>2, WorkerKeeps DEF Remove

\* Callers of a process that dies are told nothing more, and its workers are gone.
LEMMA CrashStep == ASSUME ClientInv, NEW p \in Processes, Crash(p) PROVE ClientInv'
<1>1. /\ rec \in [Ids -> Record] /\ call \in [Callers -> Call] /\ Workshop
  BY Typed DEF ClientInv
<1>2. rec' \in [Ids -> Record] /\ Steady
  BY <1>1 DEF Crash, Record, Steady
<1>3. /\ call' \in [Callers -> Call]
      /\ \A c \in Callers : call'[c].pc = "told" \/ call'[c] = call[c]
  BY <1>1 DEF Crash, Call, Answers
<1>4. Workshop'
  <2>1. work' \in [Processes -> [Ids -> Stages]]
    BY <1>1 DEF Crash, Workshop, Stages
  <2>2. running' = [q \in Processes |-> {j \in Ids : work'[q][j] # "off"}]
    BY <1>1 DEF Crash, Workshop, Is
  <2> QED
    BY <1>1, <2>1, <2>2, DisturbType DEF Crash, Workshop, Is
<1>5. Settled
  BY <1>3 DEF Settled, ClientInv, HasRecord, Owning
<1>6. TypeOK'
  BY <1>2, <1>3, <1>4, TypedNext
<1> QED
  BY <1>2, <1>5, <1>6, SteadyKeeps

-----------------------------------------------------------------------------
LEMMA ClientInitial == Init => ClientInv
<1> SUFFICES ASSUME Init PROVE ClientInv
  OBVIOUS
<1>1. TypeOK
  BY ClientAssumption, Numbers DEF Init, TypeOK, States, Wants, Is
<1>2. HasRecord /\ PassedOver /\ InTurn
  BY Numbers DEF Init, HasRecord, PassedOver, InTurn, At, Absent
<1> QED
  BY <1>1, <1>2 DEF ClientInv

LEMMA ClientStep == ClientInv /\ [Next]_vars => ClientInv'
<1> SUFFICES ASSUME ClientInv, [Next]_vars PROVE ClientInv'
  OBVIOUS
<1>1. ASSUME UNCHANGED vars PROVE ClientInv'
  <2>1. rec' \in [Ids -> Record] /\ Steady /\ Workshop' /\ UNCHANGED call
    BY <1>1, SameIsSteady, SameWorkshop, Typed DEF vars, ClientInv
  <2> QED
    BY <2>1, WorkerKeeps
<1>2. ASSUME Next PROVE ClientInv'
  BY <1>2, CallerStep, WorkerStep, LapseStep, CrashStep, SetWantStep, RemoveStep DEF Next
<1> QED
  BY <1>1, <1>2

\* At most one of the names made from a destination is an unfinished record.
LEMMA OneOpen == ClientInv => OneForDestination
<1> SUFFICES ASSUME ClientInv
             PROVE  Cardinality({i \in OfDestination : Open(i)}) <= 1
  BY DEF OneForDestination, ClientInv
<1> DEFINE open == {i \in OfDestination : Open(i)}
<1>1. \A i, j \in open : i = j
  <2> SUFFICES ASSUME NEW i \in open, NEW j \in open, i < j PROVE FALSE
    BY Numbers
  <2> QED
    BY DEF ClientInv, InTurn, Open
<1>2. CASE open = {}
  BY <1>2, FS_EmptySet
<1>3. CASE open # {}
  <2>1. PICK i : open = {i}
    BY <1>1, <1>3
  <2>2. Cardinality({i}) = 1
    BY FS_Singleton
  <2> HIDE DEF open
  <2>3. Cardinality(open) <= 1
    BY <2>1, <2>2
  <2> QED
    BY <2>3 DEF open
<1> QED
  BY <1>2, <1>3

(***************************************************************************)
(* However many callers of however many processes resume one destination,  *)
(* with workers that fail, are stopped or die and records that end, one    *)
(* record of it is unfinished at a time (claimDestination in resume.go).   *)
(***************************************************************************)
THEOREM OneRecordOfDestination == Spec => []OneForDestination
<1>1. Spec => []ClientInv
  BY ClientInitial, ClientStep, PTL DEF Spec
<1> QED
  BY <1>1, OneOpen, PTL
-----------------------------------------------------------------------------
(* What is told to be there is there.                                       *)

\* Records keep what they are about, and none is made.
Same ==
  \A j \in Ids : /\ rec'[j].what = rec[j].what
                 /\ rec'[j].state = "absent" <=> rec[j].state = "absent"

LEMMA WritesSame ==
  ASSUME rec \in [Ids -> Record], NEW t, NEW i \in Ids, NEW new,
         MayWrite(t, i) => new.what = rec[i].what /\ new.state # "absent",
         Writes(t, i, new)
  PROVE  Same
BY DEF Writes, MayWrite, Open, Absent, Same

LEMMA ClaimsSame ==
  ASSUME rec \in [Ids -> Record], NEW t, NEW p, NEW i \in Ids, MayClaim(p, i), Claims(t, p, i)
  PROVE  Same
<1> DEFINE s == IF rec[i].state = "pending" THEN "running" ELSE rec[i].state
           new == [rec[i] EXCEPT !.state = s, !.live = TRUE, !.owner = p, !.by = t]
<1>1. rec' = [rec EXCEPT ![i] = new]
  BY DEF Claims, Record
<1>2. s # "absent" /\ rec[i].state # "absent" /\ rec[i] \in Record
  BY DEF MayClaim, Open, Absent
<1> HIDE DEF s
<1>3. new.what = rec[i].what /\ new.state = s
  BY <1>2 DEF Record
<1> HIDE DEF new
<1> QED
  BY <1>1, <1>2, <1>3 DEF Same

LEMMA LetGoSame ==
  ASSUME NEW r \in Record, r.state # "absent"
  PROVE  LetGo(r).what = r.what /\ LetGo(r).state # "absent"
BY DEF LetGo, Record

\* A caller that acts is past its first look, and the others stay where they are.
LEMMA CallerMoves ==
  ASSUME TypeOK, NEW c \in Callers, Caller(c)
  PROVE  call'[c].pc # "start" /\ \A d \in Callers \ {c} : call'[d] = call[d]
<1> DEFINE Moves ==
      \/ \E pc \in Searching \cup Owning : pc # "start" /\ Goes(c, pc)
      \/ \E i : Takes(c, i)
      \/ \E i, w : Told(c, i, w)
      \/ \E i : call' = [call EXCEPT ![c].pc = "make", ![c].id = i]
<1>1. ASSUME Moves PROVE call'[c].pc # "start" /\ \A d \in Callers \ {c} : call'[d] = call[d]
  BY <1>1 DEF Goes, Takes, Told, TypeOK
<1>2. ASSUME NEW i, Outcome(c, i) PROVE Moves
  BY <1>2 DEF Outcome
<1>3. CASE Look(c) \/ Scan(c) \/ Create(c) \/ Begin(c) \/ Clear(c)
  BY <1>1, <1>3 DEF Look, Scan, Create, Begin, Clear, Searching, Owning
<1>4. CASE Recall(c)
  BY <1>1, <1>2, <1>4 DEF Recall
<1>5. CASE Make(c)
  <2>1. CASE call' = [call EXCEPT ![c].id = @ + 1]
    BY <1>5, <2>1 DEF Make, At, TypeOK
  <2>2. CASE Takes(c, call[c].id) \/ Outcome(c, call[c].id)
    BY <1>1, <1>2, <2>2
  <2> QED
    BY <1>5, <2>1, <2>2 DEF Make
<1>6. CASE Reclaim(c) \/ Cleared(c) \/ GiveBack(c) \/ Launch(c) \/ Wait(c) \/ Take(c) \/ Taking(c)
  BY <1>1, <1>6 DEF Reclaim, Cleared, GiveBack, Launch, Wait, Take, Taking, Searching, Owning
<1> QED
  BY <1>3, <1>4, <1>5, <1>6 DEF Caller

\* A caller writes what it asks for into a new record, and leaves the file alone.
LEMMA CallerAsks ==
  ASSUME ClientInv, NEW c \in Callers, Caller(c)
  PROVE  /\ file' = file
         /\ Same \/ \E i \in Ids : Put(i, c)
<1>0. rec \in [Ids -> Record] /\ call[c].id \in 0..(MaxGen + MaxFresh)
  BY Typed DEF ClientInv, Call
<1>1. ASSUME UNCHANGED rec PROVE Same
  BY <1>1 DEF Same
<1>2. CASE \/ Look(c) \/ Scan(c) \/ Recall(c) \/ Begin(c) \/ Clear(c) \/ Launch(c) \/ Wait(c)
  BY <1>1, <1>2 DEF Look, Scan, Recall, Begin, Clear, Launch, Wait
<1>3. CASE Create(c)
  BY <1>3 DEF Create
<1>4. CASE Make(c)
  <2>1. call[c].id \in Ids
    BY <1>4, Numbers DEF Make, ClientInv, PassedOver
  <2> QED
    BY <1>1, <1>4, <2>1 DEF Make
<1>5. CASE Reclaim(c) \/ Cleared(c) \/ GiveBack(c) \/ Take(c) \/ Taking(c)
  <2> DEFINE i == call[c].id
  <2>1. i \in Ids /\ rec[i] \in Record
    BY <1>0, <1>5 DEF Reclaim, Cleared, GiveBack, Take, Taking, At, ClientInv, HasRecord
  <2>2. MayWrite(c, i) => rec[i].state # "absent"
    BY DEF MayWrite, Open, Absent
  <2>3. CASE Reclaim(c) \/ Take(c)
    BY <1>0, <1>1, <2>1, <2>3, ClaimsSame DEF Reclaim, Take
  <2>4. CASE Cleared(c)
    <3> DEFINE new == [rec[i] EXCEPT !.failed = FALSE]
    <3>1. new.what = rec[i].what /\ new.state = rec[i].state
      BY <2>1 DEF Record
    <3>2. Writes(c, i, new)
      BY <2>4 DEF Cleared
    <3> HIDE DEF new
    <3> QED
      BY <1>0, <2>1, <2>2, <2>4, <3>1, <3>2, WritesSame DEF Cleared
  <2>5. CASE GiveBack(c)
    BY <1>0, <2>1, <2>2, <2>5, LetGoSame, WritesSame DEF GiveBack
  <2>6. CASE Taking(c)
    <3> DEFINE new == [rec[i] EXCEPT !.state = "complete"]
    <3>1. new.what = rec[i].what /\ new.state = "complete"
      BY <2>1 DEF Record
    <3>2. Writes(c, i, new)
      BY <2>6 DEF Taking
    <3> HIDE DEF new
    <3> QED
      BY <1>0, <2>1, <2>6, <3>1, <3>2, WritesSame DEF Taking
  <2> QED
    BY <1>5, <2>3, <2>4, <2>5, <2>6
<1> QED
  BY <1>2, <1>3, <1>4, <1>5 DEF Caller

\* A worker puts down what its record is about.
LEMMA WorkerAsks ==
  ASSUME ClientInv, NEW p \in Processes, NEW i \in Ids, Worker(p, i)
  PROVE  /\ call' = call /\ Same
         /\ file' = file \/ (~Absent(i) /\ file' = rec[i].what)
<1>0. rec \in [Ids -> Record] /\ rec[i] \in Record
  BY Typed DEF ClientInv
<1>1. ASSUME UNCHANGED rec PROVE Same
  BY <1>1 DEF Same
<1>2. MayWrite(p, i) => rec[i].state # "absent"
  BY DEF MayWrite, Open, Absent
<1>3. MayWrite(p, i) => LetGo(rec[i]).what = rec[i].what /\ LetGo(rec[i]).state # "absent"
  BY <1>0, <1>2, LetGoSame
<1>4. CASE WorkerClaim(p, i)
  BY <1>0, <1>1, <1>4, ClaimsSame DEF WorkerClaim
<1>5. CASE WorkerPlace(p, i) \/ WorkerFenced(p, i) \/ WorkerAsked(p, i) \/ WorkerLeave(p, i)
  BY <1>1, <1>2, <1>5 DEF WorkerPlace, WorkerFenced, WorkerAsked, WorkerLeave, Absent
<1>6. CASE WorkerRelease(p, i)
  BY <1>0, <1>3, <1>6, WritesSame DEF WorkerRelease
<1>7. CASE WorkerOpen(p, i) \/ WorkerMark(p, i) \/ WorkerHonour(p, i) \/ WorkerFail(p, i)
  <2>1. PICK new :
          Writes(p, i, new) /\ (MayWrite(p, i) => new.what = rec[i].what /\ new.state # "absent")
    <3>1. CASE WorkerOpen(p, i)
      <4> DEFINE n == [rec[i] EXCEPT !.failed = FALSE]
      <4>1. n.what = rec[i].what /\ n.state = rec[i].state /\ Writes(p, i, n)
        BY <1>0, <3>1 DEF Record, WorkerOpen
      <4> HIDE DEF n
      <4> QED
        BY <1>2, <4>1
    <3>2. CASE WorkerMark(p, i)
      <4> DEFINE n == [rec[i] EXCEPT !.state = "transferred", !.failed = FALSE]
      <4>1. n.what = rec[i].what /\ n.state = "transferred" /\ Writes(p, i, n)
        BY <1>0, <3>2 DEF Record, WorkerMark
      <4> HIDE DEF n
      <4> QED
        BY <4>1
    <3>3. CASE WorkerHonour(p, i)
      <4> DEFINE n == [rec[i] EXCEPT !.state = "cancelled", !.failed = FALSE]
      <4>1. n.what = rec[i].what /\ n.state = "cancelled"
        BY <1>0 DEF Record
      <4>2. Writes(p, i, n) \/ Writes(p, i, LetGo(rec[i]))
        BY <3>3 DEF WorkerHonour
      <4> HIDE DEF n
      <4> QED
        BY <1>3, <4>1, <4>2
    <3>4. CASE WorkerFail(p, i)
      <4>1. PICK over \in BOOLEAN :
              Writes(p, i, [LetGo(rec[i]) EXCEPT !.failed = TRUE,
                                                 !.state = IF over THEN "failed" ELSE @])
        BY <3>4 DEF WorkerFail
      <4> DEFINE r == LetGo(rec[i])
                 n == [r EXCEPT !.failed = TRUE, !.state = IF over THEN "failed" ELSE @]
      <4>2. r \in Record
        BY <1>0, LetGoType
      <4> HIDE DEF r
      <4>3. n.what = r.what /\ n.state \in {"failed", r.state}
        BY <4>2 DEF Record
      <4>4. Writes(p, i, n)
        BY <4>1 DEF r
      <4> HIDE DEF n
      <4> QED
        BY <1>3, <4>3, <4>4 DEF r
    <3> QED
      BY <1>7, <3>1, <3>2, <3>3, <3>4
  <2>2. Same
    BY <1>0, <2>1, WritesSame
  <2> QED
    BY <1>7, <2>2 DEF WorkerOpen, WorkerMark, WorkerHonour, WorkerFail
<1> QED
  BY <1>4, <1>5, <1>6, <1>7 DEF Worker

\* Around them: records keep what they are about, the file can only go, and
\* whoever is not told of a crash is where it was.
LEMMA OthersAsk ==
  ASSUME ClientInv,
         \/ \E i \in Ids : Lapse(i)
         \/ \E p \in Processes : Crash(p)
         \/ \E i \in Ids, w \in Wants : SetWant(i, w)
         \/ Remove
  PROVE  /\ Same /\ file' \in {file, None}
         /\ \A c \in Callers : \/ call'[c] = call[c]
                               \/ call'[c].pc = "told" /\ call'[c].said = "crash"
<1>0. rec \in [Ids -> Record] /\ call \in [Callers -> Call]
  BY Typed DEF ClientInv
<1>1. CASE \E i \in Ids : Lapse(i)
  <2>1. PICK i \in Ids : Lapse(i)
    BY <1>1
  <2> DEFINE new == [rec[i] EXCEPT !.live = FALSE, !.owner = None, !.by = None]
  <2>2. rec' = [rec EXCEPT ![i] = new] /\ UNCHANGED <<file, call>>
    BY <2>1 DEF Lapse
  <2>3. new.what = rec[i].what /\ new.state = rec[i].state
    BY <1>0 DEF Record
  <2> HIDE DEF new
  <2> QED
    BY <1>0, <2>2, <2>3 DEF Same
<1>2. CASE \E p \in Processes : Crash(p)
  <2>1. PICK p \in Processes : Crash(p)
    BY <1>2
  <2>2. Same
    <3> SUFFICES ASSUME NEW j \in Ids
                 PROVE  /\ rec'[j].what = rec[j].what
                        /\ rec'[j].state = "absent" <=> rec[j].state = "absent"
      BY DEF Same
    <3>1. rec'[j] = rec[j] \/ rec'[j] = [rec[j] EXCEPT !.owner = None, !.by = None]
      BY <2>1 DEF Crash
    <3> QED
      BY <1>0, <3>1 DEF Record
  <2>3. \A c \in Callers : \/ call'[c] = call[c]
                           \/ call'[c].pc = "told" /\ call'[c].said = "crash"
    <3> SUFFICES ASSUME NEW c \in Callers
                 PROVE  \/ call'[c] = call[c]
                        \/ call'[c].pc = "told" /\ call'[c].said = "crash"
      OBVIOUS
    <3> DEFINE told == [call[c] EXCEPT !.pc = "told", !.said = "crash"]
    <3>1. call'[c] = call[c] \/ call'[c] = told
      BY <2>1 DEF Crash
    <3>2. told.pc = "told" /\ told.said = "crash"
      BY <1>0 DEF Call
    <3> QED
      BY <3>1, <3>2
  <2> QED
    BY <2>1, <2>2, <2>3 DEF Crash
<1>3. CASE \E i \in Ids, w \in Wants : SetWant(i, w)
  BY <1>0, <1>3 DEF SetWant, Same, Record
<1>4. CASE Remove
  BY <1>4 DEF Remove, Same
<1> QED
  BY <1>1, <1>2, <1>3, <1>4

LEMMA AskedStep == ClientInv /\ OnlyAsked /\ [Next]_vars => OnlyAsked'
<1> SUFFICES ASSUME ClientInv, OnlyAsked, [Next]_vars PROVE OnlyAsked'
  OBVIOUS
<1>1. CASE UNCHANGED vars
  BY <1>1 DEF vars, OnlyAsked, Absent, At
<1>2. CASE \E c \in Callers : Caller(c)
  <2>1. PICK c \in Callers : Caller(c)
    BY <1>2
  <2>2. /\ file' = file /\ (Same \/ \E i \in Ids : Put(i, c))
        /\ call'[c].pc # "start" /\ \A d \in Callers \ {c} : call'[d] = call[d]
    BY <2>1, CallerAsks, CallerMoves DEF ClientInv
  <2>3. ASSUME NEW i \in Ids, Put(i, c)
        PROVE  \A j \in Ids : rec'[j].what = Asks[c] \/ rec'[j] = rec[j]
    BY <2>3, Typed DEF Put, ClientInv
  <2>4. \A j \in Ids : rec'[j].state # "absent" => Asked(rec'[j].what)
    BY <2>2, <2>3 DEF Same, OnlyAsked, Absent, Asked
  <2> QED
    BY <2>2, <2>4 DEF OnlyAsked, Absent, At
<1>3. CASE \E p \in Processes, i \in Ids : Worker(p, i)
  <2>1. PICK i \in Ids : /\ call' = call /\ Same
                         /\ file' = file \/ (~Absent(i) /\ file' = rec[i].what)
    BY <1>3, WorkerAsks
  <2>2. file' # None => Asked(file')
    BY <2>1 DEF OnlyAsked
  <2> QED
    BY <2>1, <2>2 DEF OnlyAsked, Absent, At, Same
<1>4. CASE \/ \E i \in Ids : Lapse(i)
           \/ \E p \in Processes : Crash(p)
           \/ \E i \in Ids, w \in Wants : SetWant(i, w)
           \/ Remove
  BY <1>4, OthersAsk DEF OnlyAsked, Absent, At, Same
<1> QED
  BY <1>1, <1>2, <1>3, <1>4 DEF Next

\* At its first look a caller is told of a delivery only if there is a file.
LEMMA FirstLook ==
  ASSUME ClientInv, OnlyAsked, [Next]_vars, NEW c \in Callers, At(c, "start"),
         call'[c].said = "delivered"
  PROVE  file # None
<1>1. call[c].said = "nothing" /\ call \in [Callers -> Call]
  BY Typed DEF OnlyAsked, ClientInv
<1>2. ~UNCHANGED vars
  BY <1>1 DEF vars
<1>3. ~\E p \in Processes, i \in Ids : Worker(p, i)
  BY <1>1, WorkerAsks
<1>4. ~(\/ \E i \in Ids : Lapse(i)
        \/ \E p \in Processes : Crash(p)
        \/ \E i \in Ids, w \in Wants : SetWant(i, w)
        \/ Remove)
  BY <1>1, OthersAsk
<1>5. PICK d \in Callers : Caller(d)
  BY <1>2, <1>3, <1>4 DEF Next
<1>6. d = c
  BY <1>1, <1>5, CallerMoves DEF ClientInv
<1>7. Look(c) \/ Recall(c)
  BY <1>5, <1>6 DEF Caller, At, Scan, Create, Make, Begin, Clear, Reclaim, Cleared, GiveBack,
                    Launch, Wait, Take, Taking
<1>8. ASSUME NEW pc, Goes(c, pc) PROVE FALSE
  BY <1>1, <1>8 DEF Goes, Call
<1>9. CASE Look(c)
  BY <1>8, <1>9 DEF Look, Finished
<1>10. CASE Recall(c)
  <2>1. ASSUME NEW i, Outcome(c, i), file = None PROVE FALSE
    BY <1>1, <2>1 DEF Outcome, Told, Takes, Call
  <2>2. call' # [call EXCEPT ![c].pc = "make", ![c].id = 1]
    BY <1>1 DEF Call
  <2> QED
    BY <1>10, <2>1, <2>2 DEF Recall, Done
<1> QED
  BY <1>7, <1>9, <1>10

(***************************************************************************)
(* As long as everybody asks for the same artifact at a destination,       *)
(* whoever is told at once that the bytes are there (delivered in          *)
(* client.go, scan in resume.go) finds that artifact there at that moment, *)
(* however records, workers, crashes and removals of the file interleave.  *)
(***************************************************************************)
THEOREM TheBytesAreThere ==
  ASSUME \A c, d \in Callers : Asks[c] = Asks[d]
  PROVE  Spec => DeliveredIsThere
<1>1. Init => OnlyAsked
  BY DEF Init, OnlyAsked, Absent, At
<1>2. ClientInv /\ OnlyAsked /\ [Next]_vars =>
        [\A c \in Callers :
           At(c, "start") /\ call'[c].said = "delivered" => file = Asks[c]]_vars
  BY FirstLook DEF OnlyAsked, Asked
<1> QED
  BY <1>1, <1>2, AskedStep, ClientInitial, ClientStep, PTL DEF Spec, DeliveredIsThere
=============================================================================
