--------------------------- MODULE NetworkProofs ---------------------------
(***************************************************************************)
(* Proofs about CostSource and NetworkGate, for every platform, length of  *)
(* the wire, number of changes, disturbances and requests: an open source  *)
(* reports the path as it is, a record that says it waits is not being     *)
(* moved, and a run nobody stopped is no failure of the work.              *)
(***************************************************************************)
EXTENDS NetworkInvariant, SequenceTheorems, TLAPS

LEMMA Bounds ==
  /\ Platforms \subseteq {"linux", "windows", "mac"}
  /\ MaxWire \in Nat /\ MaxWire > 0 /\ MaxChanges \in Nat /\ MaxFaults \in Nat
  /\ Requests \in Nat /\ Requests > 0
BY CostAssumption, RequestsAssumption

LEMMA ClassifyType == \A p \in Paths : Classify(p) \in Costs
BY DEF Paths, Classify, Costs

LEMMA DisturbType ==
  ASSUME CostTypeOK, NEW k, Disturb(k)
  PROVE  /\ faults' \in [left : 0..MaxFaults, seen : SUBSET Kinds]
         /\ faults'.seen = faults.seen \cup {k}
BY Bounds DEF CostTypeOK, Disturb

\* The wire of the type invariant is a bounded sequence of messages.
LEMMA WireType ==
  ASSUME NEW w \in Seq(Message), Len(w) <= MaxWire
  PROVE  w \in UNION {[1..n -> [kind : {"notice", "reply"}, path : Paths]] : n \in 0..MaxWire}
<1>1. Len(w) \in 0..MaxWire /\ w \in [1..Len(w) -> Message]
  BY LenProperties, Bounds
<1> QED
  BY <1>1 DEF Message

\* What is sent is read last.
LEMMA Sent ==
  ASSUME NEW w \in Seq(Message), Len(w) < MaxWire, NEW m \in Message
  PROVE  /\ Append(w, m) \in Seq(Message) /\ Len(Append(w, m)) <= MaxWire
         /\ Append(w, m) # << >>
         /\ Append(w, m)[Len(Append(w, m))] = m
BY AppendProperties, Bounds, LenProperties

\* What is read was sent first; the last message stays last, or is the one read.
LEMMA Read ==
  ASSUME NEW w \in Seq(Message), w # << >>, Len(w) <= MaxWire
  PROVE  /\ Head(w) \in Message
         /\ Tail(w) \in Seq(Message) /\ Len(Tail(w)) <= MaxWire
         /\ Tail(w) # << >> => Tail(w)[Len(Tail(w))] = w[Len(w)]
         /\ Tail(w) = << >> => Head(w) = w[Len(w)]
<1> DEFINE t == Tail(w)
<1>1. /\ Head(w) \in Message /\ t \in Seq(Message) /\ Len(t) = Len(w) - 1
      /\ \A i \in 1 .. Len(t) : t[i] = w[i+1]
  BY HeadTailProperties
<1>2. Len(w) \in Nat /\ Len(w) > 0 /\ MaxWire \in Nat
  BY EmptySeq, Bounds, LenProperties
<1>3. Head(w) = w[1]
  OBVIOUS
<1> HIDE DEF t
<1>4. Len(t) \in Nat /\ (t = << >> <=> Len(t) = 0)
  BY <1>1, EmptySeq, LenProperties
<1>5. t # << >> => t[Len(t)] = w[Len(w)]
  BY <1>1, <1>2, <1>4
<1>6. t = << >> => Len(w) = 1
  BY <1>1, <1>2, <1>4
<1> QED
  BY <1>1, <1>2, <1>3, <1>5, <1>6 DEF t

-----------------------------------------------------------------------------
(* The cost source.                                                         *)

\* What a source is made of.
Source1 == [on : Platforms, at : {"off", "subscribed", "asked", "first", "advised", "second", "open"},
            hub : Costs, read : Paths \cup {None}, alive : BOOLEAN]

LEMMA ClosedType ==
  ASSUME NEW os \in Platforms
  PROVE  Source(os) \in Source1
BY DEF Source, Source1, Costs

LEMMA CostStart == CostInit => CostInv
<1> SUFFICES ASSUME CostInit PROVE CostInv
  OBVIOUS
<1>1. PICK os \in Platforms : src = Source(os)
  BY DEF CostInit
<1>2. << >> \in Seq(Message) /\ Len(<< >>) = 0
  BY EmptySeq
<1>3. wire \in Seq(Message) /\ Len(wire) <= MaxWire
  BY <1>2, Bounds DEF CostInit
<1>4. CostTypeOK
  <2>1. wire \in UNION {[1..n -> [kind : {"notice", "reply"}, path : Paths]] : n \in 0..MaxWire}
    BY <1>3, WireType
  <2>2. src \in Source1
    BY <1>1, ClosedType
  <2>3. late \in [opened : BOOLEAN, got : Costs \cup {None}, hub : Costs \cup {"unavailable"}]
    BY DEF CostInit, Unopened
  <2>4. faults \in [left : 0..MaxFaults, seen : SUBSET Kinds] /\ changes \in 0..MaxChanges
    BY Bounds DEF CostInit
  <2> QED
    BY <2>1, <2>2, <2>3, <2>4 DEF CostInit, CostTypeOK, Source1
<1>5. InOrder
  BY <1>1, <1>3 DEF CostInit, InOrder, Source, Stages, Truthful, Settled
<1> QED
  BY <1>4, <1>5 DEF CostInv

\* Steps that leave the platform's side alone.
LEMMA Elsewhere ==
  ASSUME InOrder, UNCHANGED <<path, wire, src>>
  PROVE  InOrder'
BY DEF InOrder, Truthful, Settled

LEMMA ServeStep ==
  ASSUME CostInv, Serve \/ LateOpened \/ LateNext \/ LateSet
  PROVE  CostInv'
<1>1. UNCHANGED <<path, wire, src, changes, faults>>
  BY DEF Serve, LateOpened, LateNext, LateSet
<1>2. InOrder'
  BY <1>1, Elsewhere DEF CostInv
<1>3. src.hub \in Costs
  BY DEF CostInv, CostTypeOK
<1>4. serve' \in {"start", "direct", "late"}
  BY DEF CostInv, CostTypeOK, Serve, LateOpened, LateNext, LateSet
<1>5. late' \in [opened : BOOLEAN, got : Costs \cup {None}, hub : Costs \cup {"unavailable"}]
  <2>1. CASE Serve
    BY <2>1 DEF CostInv, CostTypeOK, Serve
  <2>2. CASE LateOpened
    BY <2>2 DEF CostInv, CostTypeOK, LateOpened
  <2>3. CASE LateNext
    BY <2>3, <1>3 DEF CostInv, CostTypeOK, LateNext
  <2>4. CASE LateSet
    BY <2>4 DEF CostInv, CostTypeOK, LateSet
  <2> QED
    BY <2>1, <2>2, <2>3, <2>4
<1> QED
  BY <1>1, <1>2, <1>4, <1>5 DEF CostInv, CostTypeOK

\* The platform changes or answers: what it sends is the path as it is.
LEMMA PlatformStep ==
  ASSUME CostInv, PathChanges \/ Answer
  PROVE  CostInv'
<1>0. wire \in Seq(Message) /\ Len(wire) <= MaxWire
  BY DEF CostInv, InOrder
<1>1. CASE PathChanges
  <2>1. PICK p \in Paths : /\ p # path /\ path' = p
          /\ IF Subscribed
             THEN Len(wire) < MaxWire /\ wire' = Append(wire, [kind |-> "notice", path |-> p])
             ELSE UNCHANGED wire
    BY <1>1 DEF PathChanges
  <2>2. changes' \in 0..MaxChanges /\ UNCHANGED <<src, serve, late, faults>>
    BY <1>1, Bounds DEF PathChanges, CostInv, CostTypeOK
  <2>3. CASE Subscribed
    <3> DEFINE m == [kind |-> "notice", path |-> p]
    <3>1. m \in Message /\ m.path = path'
      BY <2>1 DEF Message
    <3>2. /\ wire' \in Seq(Message) /\ Len(wire') <= MaxWire /\ wire' # << >>
          /\ wire'[Len(wire')] = m
      BY <1>0, <2>1, <2>3, <3>1, Sent
    <3>3. src.alive
      BY <2>3 DEF Subscribed
    <3> HIDE DEF m
    <3>4. InOrder'
      BY <2>2, <3>1, <3>2, <3>3 DEF CostInv, InOrder, Truthful, Settled
    <3>5. CostTypeOK'
      BY <2>1, <2>2, <3>2, WireType DEF CostInv, CostTypeOK
    <3> QED
      BY <3>4, <3>5 DEF CostInv
  <2>4. CASE ~Subscribed
    <3>1. ~src.alive
      BY <2>4 DEF Subscribed, CostInv, CostTypeOK, InOrder
    <3>2. wire = << >> /\ UNCHANGED wire
      BY <2>1, <2>4, <3>1 DEF CostInv, InOrder
    <3> QED
      BY <1>0, <2>1, <2>2, <3>1, <3>2 DEF CostInv, InOrder, Truthful, Settled, CostTypeOK
  <2> QED
    BY <2>3, <2>4
<1>2. CASE Answer
  <2> DEFINE m == [kind |-> "reply", path |-> path]
  <2>1. m \in Message /\ m.path = path
    BY DEF Message, CostInv, CostTypeOK
  <2>2. wire' = Append(wire, m) /\ Len(wire) < MaxWire /\ src.alive
        /\ UNCHANGED <<path, changes, src, serve, late, faults>>
    BY <1>2 DEF Answer
  <2> HIDE DEF m
  <2>3. /\ wire' \in Seq(Message) /\ Len(wire') <= MaxWire /\ wire' # << >>
        /\ wire'[Len(wire')] = m
    BY <1>0, <2>1, <2>2, Sent
  <2>4. InOrder'
    BY <2>1, <2>2, <2>3 DEF CostInv, InOrder, Truthful, Settled
  <2>5. CostTypeOK'
    BY <2>2, <2>3, WireType DEF CostInv, CostTypeOK
  <2> QED
    BY <2>4, <2>5 DEF CostInv
<1> QED
  BY <1>1, <1>2

\* A message is applied by the reader, in the order it was sent.
LEMMA ReadStep ==
  ASSUME CostInv, ReadNotice \/ ReadReply
  PROVE  CostInv'
<1> DEFINE m == Head(wire)
<1>0. wire \in Seq(Message) /\ Len(wire) <= MaxWire /\ wire # << >>
  BY DEF CostInv, InOrder, ReadNotice, ReadReply
<1>1. /\ m \in Message /\ wire' \in Seq(Message) /\ Len(wire') <= MaxWire
      /\ wire' # << >> => wire'[Len(wire')] = wire[Len(wire)]
      /\ wire' = << >> => m = wire[Len(wire)]
  BY <1>0, Read DEF ReadNotice, ReadReply
<1>2. /\ src' \in {[src EXCEPT !.hub = Classify(m.path)],
                   [src EXCEPT !.hub = Classify(m.path), !.at = "open"]}
      /\ UNCHANGED <<path, changes, serve, late, faults>>
  <2>1. CASE ReadReply
    BY <2>1 DEF ReadReply
  <2>2. CASE ReadNotice
    <3>1. src = [src EXCEPT !.at = src.at]
      BY DEF CostInv, CostTypeOK
    <3> QED
      BY <2>2, <3>1 DEF ReadNotice, CostInv, CostTypeOK
  <2> QED
    BY <2>1, <2>2
<1> HIDE DEF m
<1>3. Classify(m.path) \in Costs
  BY <1>1, ClassifyType DEF Message
<1>4. src.alive /\ src \in Source1 /\ wire[Len(wire)].path = path
  BY <1>0 DEF CostInv, InOrder, CostTypeOK, Source1
<1>5. /\ src' \in Source1 /\ src'.hub = Classify(m.path) /\ src'.on = src.on
      /\ src'.read = src.read
      /\ src'.alive = src.alive /\ src'.at \in {src.at, "open"}
  BY <1>2, <1>3, <1>4 DEF Source1
<1>6. InOrder'
  BY <1>1, <1>2, <1>4, <1>5 DEF CostInv, InOrder, Stages, Truthful, Settled
<1>7. CostTypeOK'
  BY <1>1, <1>2, <1>5, WireType DEF CostInv, CostTypeOK, Source1
<1> QED
  BY <1>6, <1>7 DEF CostInv

\* Only a second look opens a source by itself, and only Windows takes one.
LEMMA OpenStep ==
  ASSUME CostInv, Open
  PROVE  CostInv'
<1>0. /\ src \in Source1 /\ path \in Paths /\ wire \in Seq(Message) /\ Len(wire) <= MaxWire
      /\ src' # src /\ UNCHANGED <<path, changes, serve, late, faults>>
      /\ Opens
  BY DEF CostInv, CostTypeOK, InOrder, Open, Source1
<1>1. src.on \in {"linux", "windows", "mac"}
  BY <1>0, Bounds DEF Source1
<1>2. Classify(path) \in Costs /\ (src.read \in Paths => Classify(src.read) \in Costs)
  BY <1>0, ClassifyType
<1>3. ASSUME NEW s \in Source1, s.on = src.on, src' = s, wire' = wire,
             s.at \in {"first", "subscribed", "asked", "advised", "second", "open"},
             s.at = "first" => ~s.alive,
             s.at = "open" => src.on = "windows",
             s.at \in {"first", "advised", "second"} => src.on = "windows",
             s.at = "second" => s.read \in Paths,
             src.alive => s.alive
      PROVE  CostInv'
  <2>1. InOrder'
    BY <1>0, <1>3 DEF CostInv, InOrder, Stages, Truthful, Settled
  <2>2. CostTypeOK'
    BY <1>0, <1>3 DEF CostInv, CostTypeOK, Source1
  <2> QED
    BY <2>1, <2>2 DEF CostInv
<1>4. CASE src.on = "linux"
  <2>1. src.at \in Stages
    BY <1>4 DEF CostInv, InOrder
  <2>2. CASE src.at = "off"
    <3> DEFINE s == [src EXCEPT !.at = "subscribed", !.alive = TRUE]
    <3>1. src' = s /\ wire' = wire
      BY <1>0, <1>4, <2>2 DEF Opens
    <3>2. s \in Source1 /\ s.on = src.on /\ s.at = "subscribed" /\ s.alive
      BY <1>0 DEF Source1
    <3> HIDE DEF s
    <3> QED
      BY <3>1, <3>2, <1>3
  <2>3. CASE src.at = "subscribed"
    <3> DEFINE s == [src EXCEPT !.at = "asked"]
    <3>1. src' = s /\ wire' = wire
      BY <1>0, <1>4, <2>3 DEF Opens
    <3>2. s \in Source1 /\ s.on = src.on /\ s.at = "asked" /\ s.alive = src.alive
      BY <1>0 DEF Source1
    <3> HIDE DEF s
    <3> QED
      BY <3>1, <3>2, <1>3
  <2> QED
    BY <1>0, <1>4, <2>1, <2>2, <2>3 DEF Opens, Stages
<1>5. CASE src.on = "mac"
  <2>1. src.at \in Stages
    BY <1>5 DEF CostInv, InOrder
  <2>2. src.at = "off"
    BY <1>0, <1>5, <2>1 DEF Opens, Stages
  <2> DEFINE s == [src EXCEPT !.at = "subscribed", !.alive = TRUE]
             m == [kind |-> "notice", path |-> path]
  <2>3. src' = s /\ wire' = <<m>>
    BY <1>0, <1>5, <2>2 DEF Opens
  <2>4. s \in Source1 /\ s.on = src.on /\ s.at = "subscribed" /\ s.alive
    BY <1>0 DEF Source1
  <2>5. m \in Message /\ m.path = path
    BY <1>0 DEF Message
  <2> HIDE DEF s, m
  <2>6. <<m>> \in Seq(Message) /\ Len(<<m>>) = 1 /\ <<m>> # << >> /\ <<m>>[1] = m
    BY <2>5
  <2>7. InOrder'
    BY <1>0, <1>5, <2>3, <2>4, <2>5, <2>6, Bounds DEF CostInv, InOrder, Stages, Truthful, Settled
  <2>8. wire' \in Seq(Message) /\ Len(wire') <= MaxWire
    BY <2>3, <2>6, Bounds
  <2>9. CostTypeOK'
    BY <1>0, <2>3, <2>4, <2>8, WireType DEF CostInv, CostTypeOK, Source1
  <2> QED
    BY <2>7, <2>9 DEF CostInv
<1>6. CASE src.on = "windows"
  <2>0. wire' = wire
    BY <1>0, <1>6 DEF Opens
  <2>1. CASE src.at = "off"
    <3> DEFINE s == [src EXCEPT !.at = "first", !.hub = Classify(path)]
    <3>1. src' = s
      BY <1>0, <1>6, <2>1 DEF Opens
    <3>2. s \in Source1 /\ s.on = src.on /\ s.at = "first" /\ s.alive = src.alive /\ ~s.alive
      BY <1>0, <1>2, <2>1 DEF Source1, CostInv, InOrder
    <3> HIDE DEF s
    <3> QED
      BY <2>0, <3>1, <3>2, <1>3, <1>6
  <2>2. CASE src.at = "first"
    <3> DEFINE s == [src EXCEPT !.at = "advised", !.alive = TRUE]
    <3>1. src' = s
      BY <1>0, <1>6, <2>2 DEF Opens
    <3>2. s \in Source1 /\ s.on = src.on /\ s.at = "advised" /\ s.alive
      BY <1>0 DEF Source1
    <3> HIDE DEF s
    <3> QED
      BY <2>0, <3>1, <3>2, <1>3, <1>6
  <2>3. CASE src.at = "advised"
    <3> DEFINE s == [src EXCEPT !.at = "second", !.read = path]
    <3>1. src' = s
      BY <1>0, <1>6, <2>3 DEF Opens
    <3>2. s \in Source1 /\ s.on = src.on /\ s.at = "second" /\ s.alive = src.alive /\ s.read = path
      BY <1>0 DEF Source1
    <3> HIDE DEF s
    <3> QED
      BY <2>0, <3>1, <3>2, <1>0, <1>3, <1>6
  <2>4. CASE src.at = "second"
    <3> DEFINE s == [src EXCEPT !.at = "open", !.hub = Classify(src.read), !.read = None]
    <3>1. src' = s
      BY <1>0, <1>6, <2>4 DEF Opens
    <3>2. src.read \in Paths
      BY <2>4 DEF CostInv, InOrder
    <3>3. s \in Source1 /\ s.on = src.on /\ s.at = "open" /\ s.alive = src.alive
      BY <1>0, <1>2, <3>2 DEF Source1
    <3> HIDE DEF s
    <3> QED
      BY <2>0, <3>1, <3>3, <1>3, <1>6
  <2> QED
    BY <1>0, <1>6, <2>1, <2>2, <2>3, <2>4 DEF Opens, Source1
<1> QED
  BY <1>1, <1>4, <1>5, <1>6

\* A source that is given up or whose connection ends says nothing more.
LEMMA ClosedStep ==
  ASSUME CostInv, UNCHANGED <<path, changes>>, wire' = << >>,
         src' = Closed \/ src' = [src EXCEPT !.alive = FALSE],
         faults' \in [left : 0..MaxFaults, seen : SUBSET Kinds],
         serve' \in {"start", "direct", "late"},
         late' = late \/ late' = Unopened
  PROVE  CostInv'
<1>1. src \in Source1 /\ src.on \in Platforms
  BY DEF CostInv, CostTypeOK, Source1
<1>2. wire' \in Seq(Message) /\ Len(wire') <= MaxWire /\ wire' = << >>
  BY EmptySeq, Bounds
<1>3. /\ src' \in Source1 /\ src'.on = src.on /\ ~src'.alive
      /\ src'.at = "off" \/ (src'.at = src.at /\ src'.read = src.read)
  <2>1. CASE src' = Closed
    BY <1>1, <2>1, ClosedType DEF Closed, Source
  <2>2. CASE src' = [src EXCEPT !.alive = FALSE]
    BY <1>1, <2>2 DEF Source1
  <2> QED
    BY <2>1, <2>2
<1>4. InOrder'
  BY <1>2, <1>3 DEF CostInv, InOrder, Stages, Truthful, Settled
<1>5. late' \in [opened : BOOLEAN, got : Costs \cup {None}, hub : Costs \cup {"unavailable"}]
  <2>1. late \in [opened : BOOLEAN, got : Costs \cup {None}, hub : Costs \cup {"unavailable"}]
    BY DEF CostInv, CostTypeOK
  <2>2. Unopened \in [opened : BOOLEAN, got : Costs \cup {None}, hub : Costs \cup {"unavailable"}]
    BY DEF Unopened
  <2> QED
    BY <2>1, <2>2
<1>6. CostTypeOK'
  BY <1>2, <1>3, <1>5, WireType DEF CostInv, CostTypeOK, Source1
<1> QED
  BY <1>4, <1>6 DEF CostInv

LEMMA CostStep ==
  ASSUME CostInv, CostNext
  PROVE  CostInv'
<1>0. CostTypeOK
  BY DEF CostInv
<1>1. CASE BusDies
  <2>1. faults' \in [left : 0..MaxFaults, seen : SUBSET Kinds]
    BY <1>0, <1>1, DisturbType DEF BusDies
  <2> QED
    BY <1>0, <1>1, <2>1, ClosedStep DEF BusDies, CostTypeOK
<1>2. CASE OpenFails
  <2>1. faults' \in [left : 0..MaxFaults, seen : SUBSET Kinds]
    BY <1>0, <1>2, DisturbType DEF OpenFails
  <2> QED
    BY <1>2, <2>1, ClosedStep DEF OpenFails
<1> QED
  BY <1>1, <1>2, PlatformStep, ReadStep, OpenStep, ServeStep DEF CostNext, Reading

-----------------------------------------------------------------------------
(* The run, its gate and the record.                                        *)

RunPCs == {"off", "gate", "mark", "check", "open", "move", "stop", "word", "fail", "honour",
           "put", "release"}
RecType  == [state : States, live : BOOLEAN, want : Wants, word : Words, failed : BOOLEAN]
RunType  == [pc : RunPCs, asked : Wants, left : 0..Requests, word : Words]
GateType == [on : BOOLEAN, tripped : BOOLEAN, seen : Costs \cup {"unavailable"}]

\* What a step of the run, of the person or of the service leaves of the cost.
LEMMA GateCost ==
  ASSUME CostInv, Step \/ Move \/ SourceFails \/ SetWant \/ Restart
  PROVE  CostInv'
<1>0. CostTypeOK
  BY DEF CostInv
<1>1. CASE Step \/ Move
  <2>1. UNCHANGED costVars
    BY <1>1 DEF Step, Adopt, Observe, Gate, GateCancelled, Mark, GateNotices, Check, OpenRequest,
                Cut, Stop, Word, Fail, Honour, Put, Release, Move
  <2>2. InOrder'
    BY <2>1, Elsewhere DEF CostInv, costVars
  <2> QED
    BY <2>1, <2>2 DEF CostInv, CostTypeOK, costVars
<1>2. CASE SourceFails \/ SetWant
  <2>1. faults' \in [left : 0..MaxFaults, seen : SUBSET Kinds]
    BY <1>0, <1>2, DisturbType DEF SourceFails, SetWant
  <2>2. UNCHANGED <<path, changes, wire, src, serve, late>>
    BY <1>2 DEF SourceFails, SetWant
  <2>3. InOrder'
    BY <2>2, Elsewhere DEF CostInv
  <2> QED
    BY <2>1, <2>2, <2>3 DEF CostInv, CostTypeOK
<1>3. CASE Restart
  <2>1. faults' \in [left : 0..MaxFaults, seen : SUBSET Kinds]
    BY <1>0, <1>3, DisturbType DEF Restart
  <2> QED
    BY <1>3, <2>1, ClosedStep DEF Restart
<1> QED
  BY <1>1, <1>2, <1>3

LEMMA CostAlways == Spec => []CostInv
<1>1. Init => CostInv
  BY CostStart DEF Init
<1>2. CostInv /\ [Next]_vars => CostInv'
  <2> SUFFICES ASSUME CostInv, [Next]_vars PROVE CostInv'
    OBVIOUS
  <2>1. CASE UNCHANGED vars
    <3>1. UNCHANGED costVars
      BY <2>1 DEF vars
    <3> QED
      BY <3>1, Elsewhere DEF CostInv, CostTypeOK, costVars
  <2> QED
    BY <2>1, CostStep, GateCost DEF Next
<1> QED
  BY <1>1, <1>2, PTL DEF Spec

(***************************************************************************)
(* An open source reports the path as it is once every notice has been     *)
(* read, on every platform that reads the cost once: no notice that comes  *)
(* while it is opened is lost, and none is undone by an older answer.      *)
(***************************************************************************)
THEOREM NoticesAreKept == Spec => []Truthful
<1>1. CostInv => Truthful
  BY DEF CostInv, InOrder
<1> QED
  BY <1>1, CostAlways, PTL

LEMMA CostReads ==
  ASSUME CostTypeOK
  PROVE  Cost \in Costs \cup {"unavailable"} /\ Notice \in Costs \cup {"unavailable"}
BY DEF CostTypeOK, Cost, Notice

\* The part of GateInv that is about the run, its record and its gate.
RunInv ==
  /\ rec \in RecType /\ run \in RunType /\ gate \in GateType
  /\ UnderWay /\ Unasked /\ WordWhileWaiting

LEMMA GateParts == GateInv <=> CostTypeOK /\ RunInv
BY DEF GateInv, RunInv, TypeOK, RecType, RunType, RunPCs, GateType

LEMMA FreshRun ==
  /\ Idle \in RunType /\ Idle.pc = "off" /\ Idle.asked = "run" /\ Idle.left = Requests
  /\ NoGate \in GateType
BY Bounds DEF Idle, RunType, RunPCs, Wants, Words, NoGate, GateType, Costs

LEMMA GateStart == Init => RunInv
<1> SUFFICES ASSUME Init PROVE RunInv
  OBVIOUS
<1>1. rec \in RecType
  BY DEF Init, RecType, States, Wants, Words
<1> QED
  BY <1>1, FreshRun, Bounds DEF Init, RunInv, UnderWay, Unasked, WordWhileWaiting

\* The run goes on to q, with its record as it was.
LEMMA Advances ==
  ASSUME RunInv, NEW q \in RunPCs, Goes(q), UNCHANGED <<rec, faults>>, gate' \in GateType,
         run.pc \notin {"off", "release"},
         q \in {"off", "gate", "mark", "check", "open", "move"} =>
           run.pc \in {"gate", "mark", "check", "open", "move"},
         q \in {"check", "open", "move", "put"} => rec.word = ""
  PROVE  RunInv'
<1>1. /\ run' \in RunType /\ run'.pc = q /\ run'.left = run.left /\ run'.asked = run.asked
  BY DEF RunInv, RunType, Goes
<1> QED
  BY <1>1 DEF RunInv, UnderWay, Unasked, WordWhileWaiting

\* What one step of the run does to it, as far as RunInv tells.
LEMMA RunStep ==
  ASSUME CostTypeOK, RunInv, Step \/ Move
  PROVE  RunInv'
<1>0. /\ Cost \in Costs \cup {"unavailable"} /\ Notice \in Costs \cup {"unavailable"}
      /\ rec \in RecType /\ run \in RunType /\ gate \in GateType
      /\ UnderWay /\ Unasked /\ WordWhileWaiting
  BY CostReads DEF RunInv
<1>1. faults' = faults
  BY DEF Step, Adopt, Observe, Gate, GateCancelled, Mark, GateNotices, Check, OpenRequest,
         Cut, Stop, Word, Fail, Honour, Put, Release, Move, costVars
<1>2. CASE Adopt
  BY <1>0, <1>1, <1>2, Bounds
  DEF Adopt, At, Goes, RunInv, RecType, RunType, RunPCs, GateType, UnderWay, Unasked, WordWhileWaiting, Orphan, Wants, States, Terminal
<1>3. CASE Observe
  BY <1>0, <1>1, <1>3, Bounds
  DEF Observe, At, Goes, RunInv, RecType, RunType, RunPCs, GateType, UnderWay, Unasked, WordWhileWaiting
<1>4. CASE Gate
  <2>1. CASE Notice \in {"metered", "unavailable"}
    <3>1. /\ run' = [run EXCEPT !.pc = "word", !.word = Notice] /\ UNCHANGED <<rec, gate>>
          /\ run.pc = "gate"
      BY <1>4, <2>1 DEF Gate, At
    <3>2. /\ run' \in RunType /\ run'.pc = "word" /\ run'.asked = run.asked
          /\ run'.left = run.left
      BY <1>0, <2>1, <3>1 DEF RunType, RunPCs, Words
    <3> QED
      BY <1>0, <1>1, <3>1, <3>2 DEF RunInv, UnderWay, Unasked, WordWhileWaiting
  <2>2. CASE Notice \notin {"metered", "unavailable"}
    <3>1. /\ gate' = [on |-> TRUE, tripped |-> FALSE, seen |-> Notice] /\ UNCHANGED rec
          /\ run' = [run EXCEPT !.pc = IF rec.word # "" \/ rec.failed THEN "mark" ELSE "check"]
          /\ run.pc = "gate"
      BY <1>4, <2>2 DEF Gate, At, Goes
    <3>2. /\ run' \in RunType /\ run'.asked = run.asked /\ run'.left = run.left
          /\ run'.pc \in {"mark", "check"} /\ (run'.pc = "check" => rec.word = "")
      BY <1>0, <3>1 DEF RunType, RunPCs
    <3>3. gate' \in GateType
      BY <1>0, <3>1 DEF GateType
    <3> QED
      BY <1>0, <1>1, <3>1, <3>2, <3>3 DEF RunInv, UnderWay, Unasked, WordWhileWaiting
  <2> QED
    BY <2>1, <2>2
<1>5. CASE GateCancelled
  BY <1>0, <1>1, <1>5, Advances DEF GateCancelled, At, RunPCs, RunInv
<1>6. CASE Mark
  <2>1. /\ rec' = [rec EXCEPT !.word = "", !.failed = FALSE] /\ UNCHANGED gate
        /\ run.pc = "mark" /\ run' = [run EXCEPT !.pc = "check"]
    BY <1>6 DEF Mark, At, Goes
  <2>2. /\ rec' \in RecType /\ rec'.state = rec.state /\ rec'.want = rec.want
        /\ rec'.word = ""
    BY <1>0, <2>1 DEF RecType, Words
  <2>3. /\ run' \in RunType /\ run'.pc = "check" /\ run'.left = run.left
        /\ run'.asked = run.asked
    BY <1>0, <2>1 DEF RunType, RunPCs
  <2> QED
    BY <1>0, <1>1, <2>1, <2>2, <2>3 DEF RunInv, UnderWay, Unasked, WordWhileWaiting
<1>7. CASE GateNotices
  BY <1>0, <1>1, <1>7, Bounds
  DEF GateNotices, At, Goes, RunInv, RecType, RunType, RunPCs, GateType, UnderWay, Unasked, WordWhileWaiting
<1>8. CASE Check
  <2>1. gate' \in GateType
    BY <1>0, <1>8 DEF Check, GateType
  <2>2. /\ run.pc = "check" /\ rec.word = "" /\ UNCHANGED <<rec, faults>>
        /\ Goes("stop") \/ Goes("open")
    BY <1>0, <1>1, <1>8 DEF Check, At, WordWhileWaiting
  <2> QED
    BY <2>1, <2>2, Advances DEF RunPCs
<1>9. CASE OpenRequest
  <2>1. /\ run.pc = "open" /\ rec.word = "" /\ UNCHANGED <<rec, faults, gate>>
        /\ Goes("stop") \/ Goes("move")
    BY <1>0, <1>1, <1>9 DEF OpenRequest, At, WordWhileWaiting
  <2> QED
    BY <1>0, <2>1, Advances DEF RunPCs
<1>10. CASE Cut
  <2>1. run.pc = "move" /\ UNCHANGED <<rec, faults, gate>> /\ Goes("stop")
    BY <1>1, <1>10 DEF Cut, At
  <2> QED
    BY <1>0, <2>1, Advances DEF RunPCs
<1>11. CASE Stop
  <2> DEFINE pc == IF run.asked # "run" THEN "honour" ELSE IF gate.tripped THEN "word" ELSE "fail"
  <2>1. /\ run.pc = "stop" /\ UNCHANGED <<rec, gate>>
        /\ run' = [run EXCEPT !.pc = pc, !.word = "metered"]
    BY <1>11 DEF Stop, At
  <2>2. pc \in {"honour", "word", "fail"}
    OBVIOUS
  <2> HIDE DEF pc
  <2>3. run' \in RunType /\ run'.pc = pc /\ run'.asked = run.asked
    BY <1>0, <2>1, <2>2 DEF RunType, RunPCs, Words
  <2> QED
    BY <1>0, <1>1, <2>1, <2>2, <2>3 DEF RunInv, UnderWay, Unasked, WordWhileWaiting
<1>12. CASE Word
  <2>1. /\ rec' = [rec EXCEPT !.word = run.word] /\ UNCHANGED gate
        /\ run' = [run EXCEPT !.pc = "release"] /\ run.pc = "word"
    BY <1>12 DEF Word, At, Goes
  <2>2. /\ rec' \in RecType /\ rec'.state = rec.state /\ rec'.want = rec.want
        /\ rec.state = "running"
    BY <1>0, <2>1 DEF RecType, RunType, UnderWay
  <2>3. run' \in RunType /\ run'.pc = "release" /\ run'.asked = run.asked
    BY <1>0, <2>1 DEF RunType, RunPCs
  <2> QED
    BY <1>0, <1>1, <2>1, <2>2, <2>3 DEF RunInv, UnderWay, Unasked, WordWhileWaiting, Terminal
<1>13. CASE Fail
  BY <1>0, <1>1, <1>13, Bounds
  DEF Fail, At, Goes, RunInv, RecType, RunType, RunPCs, GateType, UnderWay, Unasked, WordWhileWaiting, Words
<1>14. CASE Honour
  BY <1>0, <1>1, <1>14, Bounds
  DEF Honour, At, Goes, RunInv, RecType, RunType, RunPCs, GateType, UnderWay, Unasked, WordWhileWaiting, States, Words, Terminal
<1>15. CASE Put
  BY <1>0, <1>1, <1>15, Bounds
  DEF Put, At, Goes, RunInv, RecType, RunType, RunPCs, GateType, UnderWay, Unasked, WordWhileWaiting, States, Words, Terminal
<1>16. CASE Release
  <2>1. rec' = Released(rec) /\ run' = Idle /\ gate' = NoGate
    BY <1>16 DEF Release
  <2>2. /\ rec' \in RecType /\ rec'.want = rec.want /\ rec'.word = rec.word
        /\ rec'.state \in {rec.state, "pending"}
    BY <1>0, <2>1 DEF RecType, Released, States
  <2> QED
    BY <1>0, <1>1, <2>1, <2>2, FreshRun, Bounds
    DEF RunInv, UnderWay, Unasked, WordWhileWaiting, Terminal
<1>17. CASE Move
  <2> DEFINE left == run.left - 1
             pc   == IF run.left > 1 THEN "check" ELSE IF run.asked # "run" THEN "honour" ELSE "put"
  <2>1. /\ run.pc = "move" /\ UNCHANGED <<rec, gate>>
        /\ run' = [run EXCEPT !.left = left, !.pc = pc]
    BY <1>17 DEF Move, At
  <2>2. run.left \in 0..Requests /\ run.left > 0
    BY <1>0, <2>1 DEF RunType, UnderWay
  <2>3. left \in 0..Requests /\ pc \in {"check", "honour", "put"} /\ (pc = "check" => left > 0)
    BY <2>2, Bounds
  <2> HIDE DEF left, pc
  <2>4. run' \in RunType /\ run'.asked = run.asked /\ run'.pc = pc /\ run'.left = left
    BY <1>0, <2>1, <2>3 DEF RunType, RunPCs
  <2> QED
    BY <1>0, <1>1, <2>1, <2>3, <2>4 DEF RunInv, UnderWay, Unasked, WordWhileWaiting
<1> QED
  BY <1>2, <1>3, <1>4, <1>5, <1>6, <1>7, <1>8, <1>9, <1>10, <1>11, <1>12, <1>13, <1>14, <1>15, <1>16, <1>17 DEF Step

\* A disturbance: a source fails, somebody asks, the service is started again.
LEMMA DisturbedStep ==
  ASSUME CostTypeOK, RunInv, SourceFails \/ SetWant \/ Restart
  PROVE  RunInv'
<1>0. /\ rec \in RecType /\ run \in RunType /\ gate \in GateType
      /\ UnderWay /\ Unasked /\ WordWhileWaiting
  BY DEF RunInv
<1>1. CASE SourceFails
  <2>1. /\ run.pc = "move" /\ run' = [run EXCEPT !.pc = "stop"] /\ UNCHANGED <<rec, gate>>
        /\ faults'.seen = faults.seen \cup {"fail"}
    BY <1>1, DisturbType DEF SourceFails, At, Goes
  <2>2. run' \in RunType /\ run'.pc = "stop" /\ run'.asked = run.asked
    BY <1>0, <2>1 DEF RunType, RunPCs
  <2> QED
    BY <1>0, <2>1, <2>2 DEF RunInv, UnderWay, Unasked, WordWhileWaiting
<1>2. CASE SetWant
  <2>1. PICK w \in Wants : rec' = [rec EXCEPT !.want = w]
    BY <1>2 DEF SetWant
  <2>2. UNCHANGED <<run, gate>> /\ faults'.seen = faults.seen \cup {"ask"}
    BY <1>2, DisturbType DEF SetWant
  <2>3. rec' \in RecType /\ rec'.state = rec.state /\ rec'.word = rec.word
    BY <1>0, <2>1 DEF RecType
  <2> QED
    BY <1>0, <2>2, <2>3 DEF RunInv, UnderWay, Unasked, WordWhileWaiting
<1>3. CASE Restart
  <2>1. run' = Idle /\ gate' = NoGate /\ rec' = [rec EXCEPT !.live = FALSE]
    BY <1>3 DEF Restart
  <2>2. /\ rec' \in RecType /\ rec'.state = rec.state /\ rec'.word = rec.word
        /\ rec'.want = rec.want
    BY <1>0, <2>1 DEF RecType
  <2>3. faults'.seen = faults.seen \cup {"crash"}
    BY <1>3, DisturbType DEF Restart
  <2> QED
    BY <1>0, <2>1, <2>2, <2>3, FreshRun, Bounds DEF RunInv, UnderWay, Unasked, WordWhileWaiting
<1> QED
  BY <1>1, <1>2, <1>3

LEMMA CostLeavesRun ==
  ASSUME CostTypeOK, RunInv, CostNext, UNCHANGED gateVars
  PROVE  RunInv'
<1>1. faults.seen \subseteq faults'.seen
  BY DisturbType DEF CostNext, Reading, PathChanges, Answer, BusDies, ReadNotice, ReadReply,
     Open, OpenFails, Serve, LateOpened, LateNext, LateSet
<1> QED
  BY <1>1 DEF gateVars, RunInv, UnderWay, Unasked, WordWhileWaiting

LEMMA GateAlways == Spec => [](CostTypeOK /\ RunInv)
<1>1. CostInv => CostTypeOK
  BY DEF CostInv
<1>2. CostTypeOK /\ RunInv /\ [Next]_vars => RunInv'
  <2> SUFFICES ASSUME CostTypeOK, RunInv, [Next]_vars PROVE RunInv'
    OBVIOUS
  <2>1. CASE UNCHANGED vars
    BY <2>1 DEF vars, costVars, gateVars, RunInv, UnderWay, Unasked, WordWhileWaiting
  <2> QED
    BY <2>1, RunStep, DisturbedStep, CostLeavesRun DEF Next
<1> QED
  BY <1>1, <1>2, GateStart, CostAlways, PTL DEF Spec

\* The record, the run, the gate and the source are of their types.
THEOREM GateTypes == Spec => []TypeOK
<1>1. CostTypeOK /\ RunInv => TypeOK
  BY GateParts DEF GateInv
<1> QED
  BY <1>1, GateAlways, PTL

(***************************************************************************)
(* A record says that it waits only while nothing is moved for it, and     *)
(* never once it is over: the word is cleared before the next request and  *)
(* by every end of the work, through restarts of the service too.          *)
(***************************************************************************)
THEOREM WordsSpeakOfWaiting == Spec => []WordWhileWaiting
<1>1. RunInv => WordWhileWaiting
  BY DEF RunInv
<1> QED
  BY <1>1, GateAlways, PTL

\* Of the steps that lead to a failure, only a request whose source failed is
\* left when nobody asked for a stop and the path did not trip the gate.
LEMMA Failing ==
  ASSUME CostTypeOK, RunInv, [Next]_vars,
         ~At("fail"), run'.pc = "fail", "ask" \notin faults.seen
  PROVE  ~Stopped
<1>0. /\ run \in RunType /\ run.asked = "run"
  BY DEF RunInv, Unasked
<1>1. CASE Stop
  BY <1>0, <1>1 DEF Stop, Stopped, At, RunType
<1>2. CASE GateCancelled
  BY <1>0, <1>2 DEF GateCancelled
<1>3. ~Stop /\ ~GateCancelled => FALSE
  <2> SUFFICES ASSUME ~Stop, ~GateCancelled PROVE FALSE
    OBVIOUS
  <2>1. run' # run
    BY DEF At
  <2>2. CASE Adopt \/ Observe \/ Gate \/ Mark \/ GateNotices \/ Check \/ OpenRequest \/ Cut
    BY <1>0, <2>1, <2>2
    DEF Adopt, Observe, Gate, Mark, GateNotices, Check, OpenRequest, Cut, At, Goes, RunType
  <2>3. CASE Word \/ Fail \/ Honour \/ Put \/ Release \/ Move
    BY <1>0, <2>1, <2>3, FreshRun DEF Word, Fail, Honour, Put, Release, Move, At, Goes, RunType
  <2>4. CASE SourceFails \/ SetWant \/ Restart
    BY <1>0, <2>1, <2>4, FreshRun DEF SourceFails, SetWant, Restart, At, Goes, RunType
  <2> QED
    BY <2>1, <2>2, <2>3, <2>4 DEF Next, Step, vars, gateVars
<1> QED
  BY <1>1, <1>2, <1>3

(***************************************************************************)
(* Waiting for the path is not a failure: unless somebody asked, a run is  *)
(* recorded as failed only when neither the gate nor the observer of what  *)
(* is wanted had stopped it.                                               *)
(***************************************************************************)
THEOREM WaitingIsNoFailure == Spec => OnlyFailuresFail
<1>1. CostTypeOK /\ RunInv /\ [Next]_vars =>
        [~At("fail") /\ run'.pc = "fail" /\ "ask" \notin faults.seen => ~Stopped]_vars
  BY Failing
<1> QED
  BY <1>1, GateAlways, PTL DEF Spec, OnlyFailuresFail
=============================================================================
