---------------------------- MODULE RunnerProofs ----------------------------
(***************************************************************************)
(* Proofs about Runner, one connection at a time: its type invariant; that *)
(* what the runners deliver is intact; that they keep the promise of       *)
(* Promise; and that what the record claims holds and is not forgotten.    *)
(* All but the first need that an owner that was overtaken touches the     *)
(* file no more (~Overtaken), the last that sources say which version they *)
(* serve and that an owner without a lease does not write.                 *)
(***************************************************************************)
EXTENDS RunnerInvariant, WellFoundedInduction, FiniteSetTheorems, TLAPS

-----------------------------------------------------------------------------
(* The least number of a set.                                               *)

LEMMA LessThan ==
  \E R : IsWellFoundedOn(R, Nat) /\ \A x, y \in Nat : <<y, x>> \in R <=> y < x
<1>1. IsWellFoundedOn(OpToRel(<, Nat), Nat)
  BY NatLessThanWellFounded
<1>2. \A x, y \in Nat : <<y, x>> \in OpToRel(<, Nat) <=> y < x
  BY DEF OpToRel
<1> WITNESS OpToRel(<, Nat)
<1> QED
  BY <1>1, <1>2

LEMMA Least ==
  ASSUME NEW T, T \subseteq Nat, T # {}
  PROVE  \E x \in T : \A y \in T : x <= y
<1>1. PICK R : /\ IsWellFoundedOn(R, Nat)
               /\ \A x, y \in Nat : <<y, x>> \in R <=> y < x
  BY LessThan
<1>2. PICK x \in T : \A y \in T : ~ (<<y, x>> \in R)
  BY <1>1, WFMin
<1>3. ASSUME NEW y \in T PROVE x <= y
  <2>1. x \in Nat /\ y \in Nat /\ ~ (<<y, x>> \in R)
    BY <1>2
  <2>2. ~ (y < x)
    BY <1>1, <2>1
  <2> QED
    BY <2>1, <2>2
<1> QED
  BY <1>3

-----------------------------------------------------------------------------
(* What the operators of the resume plan return.                            *)

LEMMA ChunkType == MaxLen \in Nat \ {0} /\ Chunk \subseteq Nat /\ Size \in Chunk
BY RunnerAssumption DEF Chunk, Size

LEMMA CurrentIn ==
  ASSUME NEW gaps \in SUBSET Gap, gaps # {}
  PROVE  /\ Current(gaps) \in gaps
         /\ \A h \in gaps : Current(gaps).from <= h.from
<1> DEFINE T == {g.from : g \in gaps}
<1>1. T \subseteq Nat /\ T # {}
  BY ChunkType DEF Gap
<1>2. PICK x \in T : \A y \in T : x <= y
  BY <1>1, Least
<1>3. PICK g \in gaps : g.from = x
  OBVIOUS
<1>4. \A h \in gaps : g.from <= h.from
  BY <1>2, <1>3
<1> QED
  BY <1>4 DEF Current

\* Behind a chunk that is not proven, a gap ends before the next proven one.
LEMMA GapEndType ==
  ASSUME NEW have \in SUBSET Chunk, NEW c \in Chunk, c \notin have
  PROVE  GapEnd(have, c) \in 0..MaxLen
<1> DEFINE T == {d \in have : d > c}
<1>1. CASE T = {}
  BY <1>1, ChunkType DEF GapEnd
<1>2. CASE T # {}
  <2>1. PICK d \in T : \A e \in T : d <= e
    BY <1>2, Least, ChunkType
  <2>2. d - 1 \in Chunk /\ d - 1 >= c /\ (d - 1) + 1 \in have
    BY <2>1, ChunkType DEF Chunk
  <2>3. (c..(d - 1)) \cap have = {}
    BY <2>1, ChunkType DEF Chunk
  <2>4. \E e \in Chunk : e >= c /\ e + 1 \in have /\ (c..e) \cap have = {}
    BY <2>2, <2>3
  <2>5. GapEnd(have, c) \in Chunk
    BY <2>1, <2>4 DEF GapEnd
  <2> QED
    BY <2>5 DEF Chunk
<1> QED
  BY <1>1, <1>2

LEMMA GapsForType ==
  ASSUME NEW have \in SUBSET Chunk
  PROVE  GapsFor(have) \subseteq Gap
<1>1. CASE \E c \in have : c > Size
  BY <1>1, ChunkType DEF GapsFor, Gap
<1>2. CASE ~ \E c \in have : c > Size
  <2>1. ASSUME NEW c \in 1..Size, c \notin have
        PROVE  [from |-> c, to |-> GapEnd(have, c)] \in Gap
    BY <2>1, GapEndType, ChunkType DEF Gap, Chunk
  <2> QED
    BY <1>2, <2>1 DEF GapsFor
<1> QED
  BY <1>1, <1>2

\* A plan that is one stream proves a prefix and asks for all that follows.
LEMMA OneStreamPlan ==
  ASSUME NEW have \in SUBSET Chunk, OneStream(have, GapsFor(have))
  PROVE  \E k \in 0..MaxLen :
           have = 1..k /\ GapsFor(have) = {[from |-> k + 1, to |-> 0]}
<1>1. PICK g \in GapsFor(have) : GapsFor(have) = {g} /\ g.to = 0
  BY DEF OneStream
<1>2. PICK c \in 1..(MaxLen + 1) :
        /\ g.from = c /\ c \notin have
        /\ c # 1 => c - 1 \in have
        /\ g = [from |-> c, to |-> g.to]
  <2>1. CASE \E d \in have : d > Size
    BY <1>1, <2>1, ChunkType DEF GapsFor
  <2>2. CASE ~ \E d \in have : d > Size
    BY <1>1, <2>2, ChunkType DEF GapsFor, Chunk
  <2> QED
    BY <2>1, <2>2
<1>3. \A d \in have : 1..d \subseteq have
  BY DEF OneStream, PrefixShaped, Prefix
<1>4. 1..(c - 1) \subseteq have
  BY <1>2, <1>3, ChunkType
<1>5. \A d \in have : d \in 1..(c - 1)
  <2> SUFFICES ASSUME NEW d \in have, d >= c PROVE FALSE
    BY <1>2, ChunkType DEF Chunk
  <2>1. c \in 1..d
    BY <1>2, ChunkType DEF Chunk
  <2> QED
    BY <1>2, <1>3, <2>1
<1>6. have = 1..(c - 1)
  BY <1>4, <1>5
<1>7. c - 1 \in 0..MaxLen /\ (c - 1) + 1 = c
  BY <1>2, ChunkType
<1>8. GapsFor(have) = {[from |-> (c - 1) + 1, to |-> 0]}
  BY <1>1, <1>2, <1>7
<1> QED
  BY <1>6, <1>7, <1>8

-----------------------------------------------------------------------------
(* Types.                                                                   *)

LEMMA EmptyType == Empty \in File /\ Artifact \in File
BY RunnerAssumption DEF Empty, Artifact, File, Content

LEMMA TrimType ==
  ASSUME NEW f \in File, NEW have
  PROVE  TrimTo(f, have) \in File
BY DEF TrimTo, File, Content

LEMMA PCNames ==
  /\ "idle" \in PCs /\ "begin" \in PCs
  /\ "plan" \in PCs /\ "planned" \in PCs
  /\ "hash" \in PCs /\ "gap" \in PCs
  /\ "restart" \in PCs /\ "body" \in PCs
  /\ "end" \in PCs /\ "deliver" \in PCs
  /\ "mark" \in PCs /\ "remove" \in PCs
  /\ "unclaim" \in PCs /\ "fail" \in PCs
  /\ "honour" \in PCs /\ "release" \in PCs
  /\ "take" \in PCs
BY DEF PCs

LEMMA IdleType == Idle \in Owner /\ Sane(Idle)
BY RunnerAssumption DEF Idle, Owner, Sane, PCs, Wants

\* The store's operations map records to records.
LEMMA RecordTypes ==
  ASSUME NEW r \in Record
  PROVE  /\ Claimed(r) \in Record /\ Released(r) \in Record
         /\ Claimed(r).epoch = r.epoch + 1
<1>1. (IF r.state = "pending" THEN "running" ELSE r.state) \in States
  BY DEF Record, States
<1>2. (IF r.state = "running" THEN "pending" ELSE r.state) \in States
  BY DEF Record, States
<1>3. Claimed(r) \in Record /\ Claimed(r).epoch = r.epoch + 1
  <2> DEFINE st == IF r.state = "pending" THEN "running" ELSE r.state
             ep == r.epoch + 1
  <2>1. Claimed(r) = [r EXCEPT !.state = st, !.epoch = ep, !.live = TRUE]
    BY DEF Claimed
  <2>2. st \in States /\ ep \in Nat
    BY <1>1 DEF Record
  <2>3. ep = r.epoch + 1
    OBVIOUS
  <2> HIDE DEF st, ep
  <2>4. Claimed(r) \in Record
    BY <2>1, <2>2 DEF Record
  <2>5. Claimed(r).epoch = ep
    BY <2>1 DEF Record
  <2> QED
    BY <2>3, <2>4, <2>5
<1>4. Released(r) \in Record
  BY <1>2 DEF Record, Released
<1> QED
  BY <1>3, <1>4

\* Memory stays sane when one owner's becomes sane.
LEMMA OwnerStep ==
  ASSUME TypeOK, Memory, NEW o \in Owners, NEW s \in Owner, Sane(s), Becomes(o, s)
  PROVE  /\ own' \in [Owners -> Owner] /\ Memory'
         /\ own'[o] = s /\ \A p \in Owners \ {o} : own'[p] = own[p]
BY DEF TypeOK, Memory, Becomes, Sane

\* A store update applied or refused leaves a record.
LEMMA WriteType ==
  ASSUME TypeOK, NEW o \in Owners, NEW r \in Record, Writes(o, r)
  PROVE  rec' \in Record
BY DEF TypeOK, Writes

LEMMA DisturbType ==
  ASSUME TypeOK, Disturb \/ UNCHANGED faults
  PROVE  faults' \in 0..MaxFaults
BY RunnerAssumption DEF TypeOK, Disturb

\* Bytes are folded into what is proven only in the body of a response.
LEMMA FoldedType ==
  ASSUME TypeOK, Memory, NEW o \in Owners
  PROVE  Folded(o) \in SUBSET Chunk
<1>1. own[o] \in Owner /\ Sane(own[o])
  BY DEF TypeOK, Memory
<1>2. CASE own[o].at = 0
  BY <1>1, <1>2 DEF Folded, Owner
<1>3. CASE own[o].at # 0
  <2>1. Current(own[o].gaps) \in Gap
    BY <1>1, <1>3, CurrentIn DEF Sane, Owner
  <2>2. Current(own[o].gaps).from \in Nat \ {0} /\ own[o].at - 1 \in 0..MaxLen
    BY <1>1, <1>3, <2>1, ChunkType DEF Owner, Gap
  <2> QED
    BY <1>1, <2>2, ChunkType DEF Folded, Owner, Chunk
<1> QED
  BY <1>2, <1>3

LEMMA TypeStepPlan ==
  ASSUME TypeOK, Memory, NEW o \in Owners,
         Claim(o) \/ Begin(o) \/ Trim(o) \/ RecordPlan(o) \/ HashPrefix(o)
  PROVE  TypeOK' /\ Memory'
<1>1. own[o] \in Owner /\ Sane(own[o]) /\ rec \in Record
  BY DEF TypeOK, Memory
<1>2. CASE Claim(o)
  <2> DEFINE s == [Idle EXCEPT !.pc = IF rec.want = "run" THEN "begin" ELSE "honour",
                               !.epoch   = rec.epoch + 1,
                               !.have    = rec.proven,
                               !.seen    = rec.val,
                               !.resumed = rec.proven # {},
                               !.stop    = rec.want]
  <2>1. s \in Owner /\ Sane(s)
    <3> DEFINE pc == IF rec.want = "run" THEN "begin" ELSE "honour"
               resumed == rec.proven # {}
               ep == rec.epoch + 1
    <3>1. /\ pc \in {"begin", "honour"} /\ pc \in PCs /\ resumed \in BOOLEAN
          /\ ep \in Nat /\ ep # 0
      BY <1>1, PCNames DEF Record
    <3>2. s = [Idle EXCEPT !.pc = pc, !.epoch = ep, !.have = rec.proven,
                           !.seen = rec.val, !.resumed = resumed, !.stop = rec.want]
      OBVIOUS
    <3> HIDE DEF s, pc, resumed, ep
    <3>3. s \in Owner
      BY <1>1, <3>1, <3>2, IdleType DEF Owner, Record
    <3>4. Sane(s)
      BY <1>1, <3>1, <3>2, IdleType DEF Owner, Sane, Record, Idle
    <3> QED
      BY <3>3, <3>4
  <2>2. Becomes(o, s) /\ rec' = Claimed(rec) /\ UNCHANGED <<file, disk, final>>
        /\ (Disturb \/ UNCHANGED faults)
    BY <1>2 DEF Claim
  <2> QED
    BY <1>1, <2>1, <2>2, RecordTypes, OwnerStep, DisturbType DEF TypeOK
<1>3. CASE Begin(o)
  <2>1. [own[o] EXCEPT !.pc = "plan"] \in Owner /\ Sane([own[o] EXCEPT !.pc = "plan"])
    BY <1>1, <1>3 DEF Begin, Owner, Sane, PCs
  <2>2. [rec EXCEPT !.failure = FALSE] \in Record
    BY <1>1 DEF Record
  <2> QED
    BY <1>3, <2>1, <2>2, OwnerStep, WriteType DEF Begin, TypeOK
<1>4. CASE Trim(o)
  <2> DEFINE have == Clip(own[o].have, file)
             gaps == GapsFor(have)
             s == [own[o] EXCEPT
                      !.pc = "planned", !.have = have, !.gaps = gaps,
                      !.seen = IF have = {} THEN None ELSE @,
                      !.kept = have # {},
                      !.rolling = OneStream(have, gaps)]
  <2>1. have \in SUBSET Chunk /\ gaps \in SUBSET Gap
    BY <1>1, GapsForType DEF Clip, Owner
  <2>2. OneStream(have, gaps) \in BOOLEAN /\ (have # {}) \in BOOLEAN
    BY DEF OneStream
  <2>3. (IF have = {} THEN None ELSE own[o].seen) \in Versions \cup {None}
    BY <1>1 DEF Owner
  <2>4. own[o].pc = "plan"
    BY <1>4 DEF Trim
  <2>5. s \in Owner
    <3>1. "planned" \in PCs
      BY DEF PCs
    <3>2. s = [own[o] EXCEPT !.pc = "planned", !.have = have, !.gaps = gaps,
                            !.seen = IF have = {} THEN None ELSE own[o].seen,
                            !.kept = (have # {}), !.rolling = OneStream(have, gaps)]
      OBVIOUS
    <3> DEFINE seen == IF have = {} THEN None ELSE own[o].seen
               kept == have # {}
               rolling == OneStream(have, gaps)
    <3>3. s = [own[o] EXCEPT !.pc = "planned", !.have = have, !.gaps = gaps,
                            !.seen = seen, !.kept = kept, !.rolling = rolling]
      BY <3>2
    <3>4. seen \in Versions \cup {None} /\ kept \in BOOLEAN /\ rolling \in BOOLEAN
      BY <2>2, <2>3
    <3> HIDE DEF have, gaps, seen, kept, rolling, s
    <3> QED
      BY <1>1, <2>1, <3>1, <3>3, <3>4 DEF Owner
  <2>6. Sane(s)
    <3> HIDE DEF have, gaps
    <3> QED
      BY <1>1, <2>4 DEF Owner, Sane
  <2> QED
    BY <1>4, <2>5, <2>6, TrimType, OwnerStep DEF Trim, TypeOK
<1>5. CASE RecordPlan(o)
  <2> DEFINE s == [own[o] EXCEPT
                     !.pc = IF own[o].rolling /\ own[o].have # {}
                           THEN "hash" ELSE "gap",
                     !.left = Sources]
             r == [rec EXCEPT !.proven = own[o].have, !.val = own[o].seen]
  <2>1. s \in Owner /\ Sane(s)
    <3> DEFINE pc == IF own[o].rolling /\ own[o].have # {} THEN "hash" ELSE "gap"
    <3>1. /\ pc \in {"hash", "gap"} /\ pc \in PCs
          /\ s = [own[o] EXCEPT !.pc = pc, !.left = Sources]
      BY PCNames
    <3>2. own[o].pc = "planned"
      BY <1>5 DEF RecordPlan
    <3>3. Sources \in 0..Sources
      BY RunnerAssumption
    <3> HIDE DEF s, pc
    <3>4. s \in Owner
      BY <1>1, <3>1, <3>3 DEF Owner
    <3>5. Sane(s)
      BY <1>1, <3>1, <3>2 DEF Owner, Sane
    <3> QED
      BY <3>4, <3>5
  <2>2. r \in Record
    BY <1>1 DEF Owner, Record
  <2>3. Becomes(o, s) /\ (Writes(o, r) \/ UNCHANGED rec)
        /\ UNCHANGED <<file, disk, final, faults>>
    BY <1>5 DEF RecordPlan
  <2> QED
    BY <2>1, <2>2, <2>3, OwnerStep, WriteType DEF TypeOK
<1>6. CASE HashPrefix(o)
  <2> DEFINE b == \A c \in own[o].have : file[c] = Wanted
             s == [own[o] EXCEPT !.pc = "gap", !.clean = b]
             t == [own[o] EXCEPT !.pc = "fail", !.err = "later"]
  <2>1. s \in Owner /\ Sane(s) /\ t \in Owner /\ Sane(t)
    <3>1. b \in BOOLEAN
      OBVIOUS
    <3> HIDE DEF b
    <3> QED
      BY <1>1, <1>6, <3>1 DEF HashPrefix, Owner, Sane, PCs
  <2>2. (Becomes(o, s) \/ Becomes(o, t)) /\ UNCHANGED <<rec, file, disk, final, faults>>
    BY <1>6 DEF HashPrefix
  <2> QED
    BY <2>1, <2>2, OwnerStep DEF TypeOK
<1> QED
  BY <1>2, <1>3, <1>4, <1>5, <1>6

\* The gap being served is one of the plan's, and its response ends in reach.
LEMMA ServedGap ==
  ASSUME NEW s \in Owner, s.gaps # {}, NEW v \in Versions
  PROVE  /\ Current(s.gaps) \in s.gaps /\ Current(s.gaps) \in Gap
         /\ Current(s.gaps).from \in 1..(MaxLen + 1)
         /\ BodyEnd(Current(s.gaps), v) \in 0..MaxLen
         /\ Length[v] \in 1..MaxLen
<1>1. s.gaps \in SUBSET Gap
  BY DEF Owner
<1>2. Current(s.gaps) \in s.gaps /\ Current(s.gaps) \in Gap
  BY <1>1, CurrentIn
<1>3. Length[v] \in 1..MaxLen
  BY RunnerAssumption DEF Chunk
<1> QED
  BY <1>2, <1>3, ChunkType DEF BodyEnd, Gap

LEMMA TypeStepAsk ==
  ASSUME TypeOK, Memory, NEW o \in Owners,
         AskContinues(o) \/ AskRestarts(o) \/ RestartRecord(o) \/ AskFails(o)
  PROVE  TypeOK' /\ Memory'
<1>1. own[o] \in Owner /\ Sane(own[o]) /\ rec \in Record
  BY DEF TypeOK, Memory
<1>2. \A v \in Versions : Observed(v) \in Versions \cup {None}
  BY DEF Observed
<1>3. own[o].left > 0 => own[o].left - 1 \in 0..Sources
  BY <1>1, RunnerAssumption DEF Owner
<1>4. CASE AskContinues(o)
  <2> DEFINE at == Current(own[o].gaps).from
             t(v) == [own[o] EXCEPT !.pc = "body", !.at = at, !.src = v,
                                    !.seen = Observed(v)]
  <2>1. PICK v \in Versions :
          /\ CanAsk(o) /\ Serves(v) /\ Becomes(o, t(v))
          /\ UNCHANGED <<rec, file, disk, final>>
    BY <1>4 DEF AskContinues
  <2>2. at \in 0..(MaxLen + 1) /\ at # 0
    BY <1>1, <2>1, ServedGap, ChunkType DEF CanAsk
  <2>3. t(v) \in Owner /\ Sane(t(v))
    <3> HIDE DEF at
    <3>1. t(v) \in Owner
      BY <1>1, <1>2, <2>2, PCNames DEF Owner
    <3>2. Sane(t(v))
      BY <1>1, <2>1, <2>2 DEF Owner, Sane, CanAsk
    <3> QED
      BY <3>1, <3>2
  <2>4. Disturb \/ UNCHANGED faults
    BY <2>1 DEF Serves
  <2> QED
    BY <2>1, <2>3, <2>4, OwnerStep, DisturbType DEF TypeOK
<1>5. CASE AskRestarts(o)
  <2> DEFINE t(v) == [own[o] EXCEPT !.pc = "restart", !.have = {}, !.seen = None,
                                    !.gaps = {Whole}, !.clean = TRUE,
                                    !.src = v, !.kept = FALSE]
  <2>1. PICK v \in Versions :
          /\ CanAsk(o) /\ (Disturb \/ Serves(v)) /\ Becomes(o, t(v))
          /\ file' = Empty /\ disk' = Empty /\ UNCHANGED <<rec, final>>
    BY <1>5 DEF AskRestarts
  <2>2. {Whole} \in SUBSET Gap
    BY ChunkType DEF Whole, Gap
  <2>3. t(v) \in Owner
    BY <1>1, <2>2, PCNames DEF Owner
  <2>4. Sane(t(v))
    BY <1>1, <2>1 DEF Owner, Sane, CanAsk
  <2>5. Disturb \/ UNCHANGED faults
    BY <2>1 DEF Serves
  <2> QED
    BY <2>1, <2>3, <2>4, <2>5, OwnerStep, DisturbType, EmptyType DEF TypeOK
<1>6. CASE RestartRecord(o)
  <2> DEFINE t == [own[o] EXCEPT !.pc = "body", !.at = 1, !.seen = Observed(own[o].src)]
             u == [own[o] EXCEPT !.pc = "gap", !.src = None,
                                 !.left = own[o].left - 1, !.err = "later"]
             r == [rec EXCEPT !.proven = {}, !.val = None]
  <2>1. own[o].pc = "restart" /\ (Holds(o) => Becomes(o, t)) /\ (~Holds(o) => Becomes(o, u))
        /\ Writes(o, r) /\ UNCHANGED <<file, disk, final, faults>>
    BY <1>6 DEF RestartRecord
  <2>2. t \in Owner /\ Sane(t)
    <3>1. Observed(own[o].src) \in Versions \cup {None} /\ 1 \in 0..(MaxLen + 1)
      BY <1>1, <1>2, <2>1, ChunkType DEF Sane
    <3>2. t \in Owner
      BY <1>1, <3>1, PCNames DEF Owner
    <3>3. Sane(t)
      BY <1>1, <2>1 DEF Owner, Sane
    <3> QED
      BY <3>2, <3>3
  <2>3. u \in Owner /\ Sane(u)
    <3>1. own[o].left - 1 \in 0..Sources
      BY <1>1, <1>3, <2>1 DEF Sane
    <3>2. u \in Owner
      BY <1>1, <3>1, PCNames DEF Owner
    <3>3. Sane(u)
      BY <1>1, <2>1 DEF Owner, Sane
    <3> QED
      BY <3>2, <3>3
  <2>4. r \in Record
    BY <1>1 DEF Record
  <2> QED
    BY <2>1, <2>2, <2>3, <2>4, <1>1, OwnerStep, WriteType DEF TypeOK, Sane
<1>7. CASE AskFails(o)
  <2> DEFINE t(e) == [own[o] EXCEPT !.left = own[o].left - 1, !.err = Worse(own[o].err, e)]
  <2>1. PICK e \in {"later", "no"} :
          CanAsk(o) /\ Disturb /\ Becomes(o, t(e)) /\ UNCHANGED <<rec, file, disk, final>>
    BY <1>7 DEF AskFails
  <2>2. own[o].left - 1 \in 0..Sources
        /\ Worse(own[o].err, e) \in {"none", "later", "no"}
    BY <1>1, <1>3, <2>1 DEF CanAsk, Worse
  <2>3. t(e) \in Owner
    BY <1>1, <2>2 DEF Owner
  <2>4. Sane(t(e))
    BY <1>1, <2>1 DEF Owner, Sane, CanAsk
  <2> QED
    BY <2>1, <2>3, <2>4, OwnerStep, DisturbType DEF TypeOK
<1> QED
  BY <1>4, <1>5, <1>6, <1>7

LEMMA TypeStepBody ==
  ASSUME TypeOK, Memory, NEW o \in Owners,
         \/ Write(o) \/ Report(o) \/ BodyEnds(o) \/ BodyDrops(o)
         \/ NoticeStop(o) \/ GapsDone(o)
  PROVE  TypeOK' /\ Memory'
<1>1. own[o] \in Owner /\ Sane(own[o]) /\ rec \in Record
  BY DEF TypeOK, Memory
<1>2. Folded(o) \in SUBSET Chunk
  BY FoldedType
<1>3. Sources \in 0..Sources /\ 0 \in 0..(MaxLen + 1)
  BY RunnerAssumption
<1>4. CASE Write(o)
  <2> DEFINE clean == own[o].clean /\ own[o].src = Wanted
             t == [own[o] EXCEPT !.at = own[o].at + 1, !.clean = clean]
  <2>1. /\ own[o].pc = "body" /\ own[o].src \in Versions
        /\ own[o].at <= BodyEnd(Current(own[o].gaps), own[o].src)
        /\ file' = [file EXCEPT ![own[o].at] = own[o].src]
        /\ Becomes(o, t) /\ UNCHANGED <<rec, disk, final, faults>>
    BY <1>1, <1>4 DEF Write, Sane
  <2>2. own[o].at + 1 \in 0..(MaxLen + 1) /\ own[o].at + 1 # 0 /\ clean \in BOOLEAN
    <3>1. BodyEnd(Current(own[o].gaps), own[o].src) \in 0..MaxLen
      BY <1>1, <2>1, ServedGap DEF Sane
    <3> QED
      BY <1>1, <2>1, <3>1, ChunkType DEF Owner
  <2>3. t \in Owner /\ Sane(t)
    <3> HIDE DEF clean
    <3>1. t \in Owner
      BY <1>1, <2>2 DEF Owner
    <3>2. Sane(t)
      BY <1>1, <2>1, <2>2 DEF Owner, Sane
    <3> QED
      BY <3>1, <3>2
  <2>4. file' \in File
    BY <2>1 DEF TypeOK, File, Content
  <2> QED
    BY <2>1, <2>3, <2>4, OwnerStep DEF TypeOK
<1>5. CASE Report(o)
  <2> DEFINE t == [own[o] EXCEPT !.have = Folded(o)]
             u == [own[o] EXCEPT !.have = Folded(o), !.stop = rec.want,
                                 !.pc = "end", !.at = 0, !.src = None]
             r == [rec EXCEPT !.proven = Folded(o), !.val = own[o].seen]
  <2>1. /\ own[o].pc = "body" /\ disk' = file /\ Writes(o, r)
        /\ Becomes(o, Idle) \/ Becomes(o, t) \/ Becomes(o, u)
        /\ UNCHANGED <<file, final, faults>>
    BY <1>5 DEF Report
  <2>2. t \in Owner /\ u \in Owner /\ r \in Record
    BY <1>1, <1>2, <1>3, PCNames DEF Owner, Record
  <2>3. Sane(t) /\ Sane(u)
    BY <1>1, <2>1 DEF Owner, Sane
  <2> QED
    BY <2>1, <2>2, <2>3, OwnerStep, WriteType, IdleType DEF TypeOK
<1>6. CASE BodyEnds(o)
  <2> DEFINE gaps == own[o].gaps \ {Current(own[o].gaps)}
             t == [own[o] EXCEPT !.pc = "gap", !.have = Folded(o),
                                 !.gaps = gaps, !.at = 0, !.src = None,
                                 !.left = Sources, !.err = "none"]
  <2>1. /\ own[o].pc = "body" /\ Becomes(o, t) /\ (Disturb \/ UNCHANGED faults)
        /\ UNCHANGED <<rec, file, disk, final>>
    BY <1>6 DEF BodyEnds
  <2>2. gaps \in SUBSET Gap
    BY <1>1 DEF Owner
  <2>3. t \in Owner /\ Sane(t)
    <3> HIDE DEF gaps
    <3>1. t \in Owner
      BY <1>1, <1>2, <1>3, <2>2, PCNames DEF Owner
    <3>2. Sane(t)
      BY <1>1, <2>1 DEF Owner, Sane
    <3> QED
      BY <3>1, <3>2
  <2> QED
    BY <2>1, <2>3, OwnerStep, DisturbType DEF TypeOK
<1>7. CASE BodyDrops(o)
  <2> DEFINE t == [own[o] EXCEPT !.pc = "end", !.have = Folded(o), !.err = "later",
                                 !.at = 0, !.src = None]
             u == [own[o] EXCEPT !.pc = "gap", !.left = own[o].left - 1,
                                 !.err = "later", !.at = 0, !.src = None]
  <2>1. /\ own[o].pc = "body" /\ Disturb /\ (Becomes(o, t) \/ Becomes(o, u))
        /\ UNCHANGED <<rec, file, disk, final>>
    BY <1>7 DEF BodyDrops
  <2>2. own[o].left - 1 \in 0..Sources
    BY <1>1, <2>1, RunnerAssumption DEF Sane, Owner
  <2>3. t \in Owner /\ u \in Owner
    BY <1>1, <1>2, <1>3, <2>2, PCNames DEF Owner
  <2>4. Sane(t) /\ Sane(u)
    BY <1>1, <2>1 DEF Owner, Sane
  <2> QED
    BY <2>1, <2>3, <2>4, OwnerStep, DisturbType DEF TypeOK
<1>8. CASE NoticeStop(o)
  <2> DEFINE t == [own[o] EXCEPT !.pc = "end", !.stop = rec.want,
                                 !.have = Folded(o), !.at = 0, !.src = None]
  <2>1. /\ own[o].pc \in {"gap", "body"} /\ Becomes(o, t)
        /\ UNCHANGED <<rec, file, disk, final, faults>>
    BY <1>8 DEF NoticeStop
  <2>2. t \in Owner
    BY <1>1, <1>2, <1>3, PCNames DEF Owner, Record
  <2>3. Sane(t)
    BY <1>1, <2>1 DEF Owner, Sane
  <2> QED
    BY <2>1, <2>2, <2>3, OwnerStep DEF TypeOK
<1>9. CASE GapsDone(o)
  <2> DEFINE t == [own[o] EXCEPT !.pc = "end"]
  <2>1. /\ own[o].pc = "gap" /\ Becomes(o, t)
        /\ UNCHANGED <<rec, file, disk, final, faults>>
    BY <1>9 DEF GapsDone
  <2>2. t \in Owner /\ Sane(t)
    BY <1>1, <2>1, PCNames DEF Owner, Sane
  <2> QED
    BY <2>1, <2>2, OwnerStep DEF TypeOK
<1> QED
  BY <1>4, <1>5, <1>6, <1>7, <1>8, <1>9

\* Once the transfer ended, an owner's memory changes in where it is and why
\* it stops.
LEMMA MovesType ==
  ASSUME NEW s \in Owner, Sane(s), s.pc \notin {"idle", "body"},
         NEW pc \in PCs \ {"idle", "body", "restart"},
         NEW err \in {"none", "later", "no"}
  PROVE  /\ [s EXCEPT !.pc = pc] \in Owner /\ Sane([s EXCEPT !.pc = pc])
         /\ [s EXCEPT !.pc = pc, !.err = err] \in Owner
         /\ Sane([s EXCEPT !.pc = pc, !.err = err])
<1>1. [s EXCEPT !.pc = pc] \in Owner /\ [s EXCEPT !.pc = pc, !.err = err] \in Owner
  BY DEF Owner
<1>2. Sane([s EXCEPT !.pc = pc]) /\ Sane([s EXCEPT !.pc = pc, !.err = err])
  BY DEF Owner, Sane
<1> QED
  BY <1>1, <1>2

\* Owner o goes on to another place of the end of Run, or is done.
Moves(o) ==
  \E pc \in PCs \ {"idle", "body", "restart"}, err \in {"none", "later", "no"} :
    \/ Becomes(o, Idle)
    \/ Becomes(o, [own[o] EXCEPT !.pc = pc])
    \/ Becomes(o, [own[o] EXCEPT !.pc = pc, !.err = err])

LEMMA MovesStep ==
  ASSUME TypeOK, Memory, NEW o \in Owners,
         own[o].pc \notin {"idle", "body"} \/ Becomes(o, Idle), Moves(o)
  PROVE  own' \in [Owners -> Owner] /\ Memory'
<1>1. CASE Becomes(o, Idle)
  BY <1>1, IdleType, OwnerStep
<1>2. CASE ~Becomes(o, Idle)
  <2>1. own[o] \in Owner /\ Sane(own[o])
    BY DEF TypeOK, Memory
  <2>2. PICK pc \in PCs \ {"idle", "body", "restart"}, err \in {"none", "later", "no"} :
          \/ Becomes(o, [own[o] EXCEPT !.pc = pc])
          \/ Becomes(o, [own[o] EXCEPT !.pc = pc, !.err = err])
    BY <1>2 DEF Moves
  <2> QED
    BY <1>2, <2>1, <2>2, MovesType, OwnerStep
<1> QED
  BY <1>1, <1>2

LEMMA EndMoves ==
  ASSUME NEW o \in Owners, Ending(o)
  PROVE  Moves(o) /\ (own[o].pc \notin {"idle", "body"} \/ Becomes(o, Idle))
<1>1. CASE EndStopped(o)
  BY <1>1 DEF EndStopped, Moves, PCs
<1>2. CASE EndFailed(o)
  BY <1>2 DEF EndFailed, Moves, PCs
<1>3. CASE EndWrongSize(o)
  BY <1>3 DEF EndWrongSize, Moves, PCs
<1>4. CASE EndDigest(o)
  BY <1>4 DEF EndDigest, Moves, PCs
<1>5. CASE Deliver(o)
  BY <1>5 DEF Deliver, Moves, PCs
<1>6. CASE MarkTransferred(o)
  BY <1>6 DEF MarkTransferred, Moves, PCs
<1>7. CASE RemovePartial(o)
  BY <1>7 DEF RemovePartial, Moves, PCs
<1>8. CASE UnclaimBytes(o)
  BY <1>8 DEF UnclaimBytes, Moves, PCs
<1>9. CASE Honour(o)
  BY <1>9 DEF Honour, Moves, PCs
<1>10. CASE RecordFailure(o)
  BY <1>10 DEF RecordFailure, Moves, PCs
<1>11. CASE Release(o) \/ Fence(o)
  BY <1>11 DEF Release, Fence, Moves, PCs
<1> QED
  BY <1>1, <1>2, <1>3, <1>4, <1>5, <1>6, <1>7, <1>8, <1>9, <1>10, <1>11 DEF Ending

LEMMA KeepProvenType ==
  ASSUME NEW r \in Record, NEW have \in SUBSET Chunk, NEW seen \in Versions \cup {None}
  PROVE  KeepProven(r, have, seen) \in Record
<1>1. [r EXCEPT !.proven = Prefix(have), !.val = seen] \in Record
  BY DEF Record, Prefix
<1> QED
  BY <1>1 DEF KeepProven

LEMMA TypeStepEnd ==
  ASSUME TypeOK, Memory, NEW o \in Owners, Ending(o)
  PROVE  TypeOK' /\ Memory'
<1>1. own[o] \in Owner /\ Sane(own[o]) /\ rec \in Record
  BY DEF TypeOK, Memory
<1>2. own[o].have \in SUBSET Chunk /\ own[o].seen \in Versions \cup {None}
  BY <1>1 DEF Owner
<1>3. rec' \in Record
  <2>1. CASE EndStopped(o)
    <3>1. [rec EXCEPT !.proven = own[o].have, !.val = own[o].seen] \in Record
      BY <1>1, <1>2 DEF Record
    <3> QED
      BY <1>1, <2>1, <3>1, WriteType DEF EndStopped
  <2>2. CASE EndFailed(o) \/ EndWrongSize(o)
    BY <1>1, <1>2, <2>2, KeepProvenType, WriteType DEF EndFailed, EndWrongSize
  <2>3. CASE EndDigest(o) \/ Deliver(o) \/ RemovePartial(o) \/ Fence(o)
    BY <1>1, <2>3 DEF EndDigest, Deliver, RemovePartial, Fence
  <2>4. CASE MarkTransferred(o)
    <3>1. 1..Size \in SUBSET Chunk
      BY ChunkType DEF Chunk
    <3>2. [rec EXCEPT !.state = "transferred", !.proven = 1..Size,
                      !.val = own[o].seen, !.failure = FALSE] \in Record
      BY <1>1, <1>2, <3>1 DEF Record, States
    <3> QED
      BY <2>4, <3>2, WriteType DEF MarkTransferred
  <2>5. CASE UnclaimBytes(o)
    <3>1. [rec EXCEPT !.proven = {}, !.val = None] \in Record
      BY <1>1 DEF Record
    <3> QED
      BY <2>5, <3>1, WriteType DEF UnclaimBytes
  <2>6. CASE Honour(o)
    <3>1. [rec EXCEPT !.state = "cancelled", !.failure = FALSE] \in Record
      BY <1>1 DEF Record, States
    <3> QED
      BY <1>1, <2>6, <3>1, WriteType DEF Honour
  <2>7. CASE RecordFailure(o)
    <3> DEFINE st == IF own[o].err = "no" THEN "failed" ELSE rec.state
    <3>1. st \in States
      BY <1>1 DEF Record, States
    <3>2. Writes(o, [rec EXCEPT !.failure = TRUE, !.state = st])
      BY <2>7 DEF RecordFailure
    <3> HIDE DEF st
    <3>3. [rec EXCEPT !.failure = TRUE, !.state = st] \in Record
      BY <1>1, <3>1 DEF Record
    <3> QED
      BY <3>2, <3>3, WriteType
  <2>8. CASE Release(o)
    BY <1>1, <2>8, RecordTypes, WriteType DEF Release
  <2> QED
    BY <2>1, <2>2, <2>3, <2>4, <2>5, <2>6, <2>7, <2>8 DEF Ending
<1>4. file' \in File /\ disk' \in File /\ final' \in File /\ faults' \in 0..MaxFaults
  BY EmptyType
  DEF TypeOK, Ending, EndStopped, EndFailed, EndWrongSize, EndDigest, Deliver,
      MarkTransferred, RemovePartial, UnclaimBytes, Honour, RecordFailure, Release, Fence
<1>5. Moves(o) /\ (own[o].pc \notin {"idle", "body"} \/ Becomes(o, Idle))
  BY EndMoves
<1> QED
  BY <1>3, <1>4, <1>5, MovesStep DEF TypeOK

LEMMA TypeStepTake ==
  ASSUME TypeOK, Memory, NEW o \in Owners, Taking(o)
  PROVE  TypeOK' /\ Memory'
<1>1. rec \in Record
  BY DEF TypeOK
<1>2. CASE TakeClaim(o)
  <2> DEFINE ep == rec.epoch + 1
             s == [Idle EXCEPT !.pc = "take", !.epoch = ep]
  <2>1. ep \in Nat /\ ep # 0
    BY <1>1 DEF Record
  <2>2. Becomes(o, s) /\ rec' = Claimed(rec) /\ UNCHANGED <<file, disk, final, faults>>
    BY <1>2 DEF TakeClaim
  <2>3. s \in Owner /\ Sane(s)
    <3> HIDE DEF ep
    <3> QED
      BY <2>1, IdleType, PCNames DEF Owner, Sane, Idle
  <2> QED
    BY <1>1, <2>2, <2>3, RecordTypes, OwnerStep DEF TypeOK
<1>3. CASE TakeComplete(o)
  <2>1. [rec EXCEPT !.state = "complete"] \in Record
    BY <1>1 DEF Record, States
  <2> QED
    BY <1>3, <2>1, IdleType, OwnerStep, WriteType DEF TakeComplete, TypeOK
<1> QED
  BY <1>2, <1>3 DEF Taking

LEMMA TypeStepEnvironment ==
  ASSUME TypeOK, Memory, Environment
  PROVE  TypeOK' /\ Memory'
<1>1. rec \in Record
  BY DEF TypeOK
<1>2. CASE SetWant
  <2>1. PICK w \in Wants : rec' = [rec EXCEPT !.want = w]
    BY <1>2 DEF SetWant
  <2>2. rec' \in Record
    BY <1>1, <2>1 DEF Record
  <2> QED
    BY <1>2, <2>2, DisturbType DEF SetWant, TypeOK, Memory
<1>3. CASE Lapse \/ LapseDead
  <2>1. rec' = [rec EXCEPT !.live = FALSE]
    BY <1>3 DEF Lapse, LapseDead
  <2>2. rec' \in Record
    BY <1>1, <2>1 DEF Record
  <2> QED
    BY <1>3, <2>2, DisturbType DEF Lapse, LapseDead, TypeOK, Memory
<1>4. CASE PowerLoss
  <2>1. own' \in [Owners -> Owner] /\ Memory'
    BY <1>4, IdleType DEF PowerLoss, Memory
  <2> QED
    BY <1>4, <2>1, DisturbType DEF PowerLoss, TypeOK
<1>5. ASSUME NEW o \in Owners, Crash(o) PROVE TypeOK' /\ Memory'
  BY <1>5, IdleType, OwnerStep, DisturbType DEF Crash, TypeOK
<1> QED
  BY <1>2, <1>3, <1>4, <1>5 DEF Environment

LEMMA TypeInit == Init => TypeOK /\ Memory
<1> SUFFICES ASSUME Init PROVE TypeOK /\ Memory
  OBVIOUS
<1>1. PICK left \in Leftovers :
        /\ rec = [state |-> "pending", epoch |-> 0, live |-> FALSE,
                  want |-> "run", proven |-> left, val |-> None, failure |-> FALSE]
        /\ file = [c \in Chunk |-> IF c \in left THEN Wanted ELSE Hole]
        /\ disk = file
  BY DEF Init
<1>2. left \in SUBSET Chunk
  BY RunnerAssumption, ChunkType DEF Chunk
<1>3. rec \in Record
  BY <1>1, <1>2 DEF Record, States, Wants
<1>4. file \in File /\ disk \in File /\ final \in File
  BY <1>1, EmptyType, RunnerAssumption DEF Init, File, Content
<1>5. own \in [Owners -> Owner] /\ Memory
  BY IdleType DEF Init, Memory
<1>6. faults \in 0..MaxFaults
  BY RunnerAssumption DEF Init
<1> QED
  BY <1>3, <1>4, <1>5, <1>6 DEF TypeOK

LEMMA TypeStep == TypeOK /\ Memory /\ [Next]_vars => TypeOK' /\ Memory'
<1> SUFFICES ASSUME TypeOK, Memory, [Next]_vars PROVE TypeOK' /\ Memory'
  OBVIOUS
<1>1. CASE UNCHANGED vars
  BY <1>1 DEF vars, TypeOK, Memory
<1>2. CASE Environment
  BY <1>2, TypeStepEnvironment
<1>3. ASSUME NEW o \in Owners, Claim(o) \/ Running(o) \/ Taking(o)
      PROVE  TypeOK' /\ Memory'
  BY <1>3, TypeStepPlan, TypeStepAsk, TypeStepBody, TypeStepEnd, TypeStepTake
  DEF Running, Fetching
<1> QED
  BY <1>1, <1>2, <1>3 DEF Next

(***************************************************************************)
(* Every state the runners reach is of its types: in particular every      *)
(* chunk written or claimed lies within the bound, for every plan that     *)
(* planResume makes and every length a source answers with.                *)
(***************************************************************************)
THEOREM TypeCorrect == Spec => []TypeOK
<1>1. Spec => [](TypeOK /\ Memory)
  BY TypeInit, TypeStep, PTL DEF Spec
<1> QED
  BY <1>1, PTL

-----------------------------------------------------------------------------
(***************************************************************************)
(* What the runners deliver is intact: DigestSpeaks, kept by every step of *)
(* an owner to whom it matters (Latest) and by what others may do.         *)
(***************************************************************************)

\* The owner that moved has memory s now.
LEMMA Moved ==
  ASSUME TypeOK, NEW o \in Owners, NEW s, Becomes(o, s)
  PROVE  own'[o] = s /\ \A p \in Owners \ {o} : own'[p] = own[p]
BY DEF TypeOK, Becomes

-----------------------------------------------------------------------------
(* The rolling digest and the file, step by step.                           *)

\* The chunks folded in are those of the file.
LEMMA FoldedStream ==
  ASSUME TypeOK, Memory, NEW o \in Owners, own[o].pc \in {"gap", "body", "end"},
         SingleStream(own[o])
  PROVE  /\ Folded(o) = Streamed(own[o])
         /\ \E k \in 0..MaxLen : Folded(o) = 1..k
         /\ own[o].pc = "body" => own[o].gaps = {Current(own[o].gaps)}
<1>1. own[o] \in Owner /\ Sane(own[o])
  BY DEF TypeOK, Memory
<1>2. PICK k \in 0..MaxLen :
        /\ own[o].have = 1..k
        /\ \/ own[o].gaps = {}
           \/ \E g \in Gap : /\ own[o].gaps = {g} /\ g.to = 0
                             /\ own[o].pc = "body" => g.from <= k + 1
        /\ own[o].pc = "body" => k < own[o].at
  BY DEF SingleStream
<1>3. CASE own[o].pc # "body"
  BY <1>1, <1>2, <1>3 DEF Folded, Streamed, Sane
<1>4. CASE own[o].pc = "body"
  <2>1. own[o].gaps # {} /\ own[o].at # 0 /\ own[o].at \in 0..(MaxLen + 1)
    BY <1>1, <1>4 DEF Sane, Owner
  <2>2. PICK g \in Gap : own[o].gaps = {g} /\ g.from <= k + 1
    BY <1>2, <1>4, <2>1
  <2>3. Current(own[o].gaps) = g
    BY <1>1, <2>1, <2>2, CurrentIn DEF Owner
  <2>4. g.from \in 1..(MaxLen + 1)
    BY DEF Gap
  <2>5. Folded(o) = 1..(own[o].at - 1)
    BY <1>2, <1>4, <2>1, <2>2, <2>3, <2>4, ChunkType DEF Folded
  <2>6. own[o].at - 1 \in 0..MaxLen
    BY <2>1, ChunkType
  <2> QED
    BY <1>4, <2>2, <2>3, <2>5, <2>6 DEF Streamed
<1> QED
  BY <1>3, <1>4

LEMMA SpeaksTrim ==
  ASSUME TypeOK, Memory, NEW o \in Owners, Trim(o)
  PROVE  SpeaksFor(own'[o], file')
<1> DEFINE have == Clip(own[o].have, file)
           gaps == GapsFor(have)
           s == [own[o] EXCEPT
                   !.pc = "planned", !.have = have, !.gaps = gaps,
                   !.seen = IF have = {} THEN None ELSE @,
                   !.kept = have # {},
                   !.rolling = OneStream(have, gaps)]
<1>1. own[o] \in Owner
  BY DEF TypeOK
<1>8. own'[o] = s /\ file' = TrimTo(file, have)
  <2>1. Becomes(o, s) /\ file' = TrimTo(file, have)
    BY DEF Trim
  <2> QED
    BY <2>1, Moved
<1>2. /\ s.pc = "planned" /\ s.have = have /\ s.gaps = GapsFor(have)
      /\ s.rolling = OneStream(have, GapsFor(have))
  BY <1>1 DEF Owner
<1>3. have \in SUBSET Chunk
  BY <1>1 DEF Clip, Owner
<1> HIDE DEF s, have, gaps
<1> SUFFICES ASSUME s.rolling PROVE SpeaksFor(s, file')
  BY <1>8 DEF SpeaksFor
<1>4. PICK k \in 0..MaxLen :
        have = 1..k /\ GapsFor(have) = {[from |-> k + 1, to |-> 0]}
  BY <1>2, <1>3, OneStreamPlan
<1>5. [from |-> k + 1, to |-> 0] \in Gap
  BY ChunkType DEF Gap
<1>6. SingleStream(s)
  BY <1>2, <1>4, <1>5 DEF SingleStream
<1>7. \A c \in Chunk \ have : file'[c] = Hole
  BY <1>8, <1>4, ChunkType DEF TrimTo, Chunk
<1> QED
  BY <1>2, <1>6, <1>7 DEF SpeaksFor, Streamed

LEMMA SpeaksPlan ==
  ASSUME TypeOK, Memory, NEW o \in Owners, SpeaksFor(own[o], file),
         RecordPlan(o) \/ HashPrefix(o)
  PROVE  SpeaksFor(own'[o], file')
<1>1. own[o] \in Owner /\ file' = file
  BY DEF TypeOK, RecordPlan, HashPrefix
<1>2. CASE RecordPlan(o)
  <2> DEFINE s == [own[o] EXCEPT
                     !.pc = IF own[o].rolling /\ own[o].have # {}
                           THEN "hash" ELSE "gap",
                     !.left = Sources]
  <2>3. own'[o] = s /\ own[o].pc = "planned"
    BY <1>2, Moved DEF RecordPlan
  <2>1. /\ s.pc \in {"hash", "gap"} /\ (s.pc = "gap" => ~s.rolling \/ s.have = {})
        /\ s.have = own[o].have /\ s.gaps = own[o].gaps
        /\ s.rolling = own[o].rolling /\ s.clean = own[o].clean
    BY <1>1 DEF Owner
  <2> HIDE DEF s
  <2>2. SpeaksFor(s, file)
    BY <2>3, <2>1 DEF SpeaksFor, SingleStream, Streamed, InStream
  <2> QED
    BY <1>1, <2>3, <2>2
<1>3. CASE HashPrefix(o)
  <2> DEFINE b == \A c \in own[o].have : file[c] = Wanted
             s == [own[o] EXCEPT !.pc = "gap", !.clean = b]
  <2>3. own[o].pc = "hash"
        /\ (own'[o] = s \/ own'[o] = [own[o] EXCEPT !.pc = "fail", !.err = "later"])
    BY <1>3, Moved DEF HashPrefix
  <2>4. CASE own'[o] = [own[o] EXCEPT !.pc = "fail", !.err = "later"]
    BY <1>1, <2>4 DEF Owner, SpeaksFor, InStream
  <2> SUFFICES ASSUME own'[o] = s PROVE SpeaksFor(own'[o], file')
    BY <2>3, <2>4
  <2>1. /\ s.pc = "gap" /\ s.clean = b
        /\ s.have = own[o].have /\ s.gaps = own[o].gaps
        /\ s.rolling = own[o].rolling
    BY <1>1 DEF Owner
  <2> HIDE DEF s
  <2>2. SpeaksFor(s, file)
    BY <2>3, <2>1 DEF SpeaksFor, SingleStream, Streamed, InStream
  <2> QED
    BY <1>1, <2>3, <2>2
<1> QED
  BY <1>2, <1>3

LEMMA SpeaksAsk ==
  ASSUME TypeOK, Memory, NEW o \in Owners, SpeaksFor(own[o], file),
         AskContinues(o) \/ AskRestarts(o) \/ RestartRecord(o) \/ AskFails(o)
  PROVE  SpeaksFor(own'[o], file')
<1>1. own[o] \in Owner /\ Sane(own[o])
  BY DEF TypeOK, Memory
<1>2. CASE AskContinues(o)
  <2> DEFINE at == Current(own[o].gaps).from
             t(v) == [own[o] EXCEPT !.pc = "body", !.at = at, !.src = v,
                                    !.seen = Observed(v)]
  <2>1. PICK v \in Versions : CanAsk(o) /\ Becomes(o, t(v)) /\ file' = file
    BY <1>2 DEF AskContinues
  <2>2. own'[o] = t(v) /\ own[o].pc = "gap" /\ own[o].gaps # {}
    BY <2>1, Moved DEF CanAsk
  <2> DEFINE s == t(v)
  <2>3. /\ s.pc = "body" /\ s.at = at /\ s.have = own[o].have
        /\ s.gaps = own[o].gaps /\ s.rolling = own[o].rolling /\ s.clean = own[o].clean
    BY <1>1 DEF Owner
  <2> HIDE DEF s, t, at
  <2> SUFFICES ASSUME own[o].rolling PROVE SpeaksFor(s, file)
    BY <2>1, <2>2, <2>3 DEF SpeaksFor, s
  <2>4. PICK k \in 0..MaxLen, g \in Gap :
          /\ own[o].have = 1..k /\ own[o].gaps = {g} /\ g.to = 0 /\ g.from = k + 1
    BY <2>2 DEF SpeaksFor, SingleStream, InStream
  <2>5. Current(own[o].gaps) = g
    BY <1>1, <2>2, <2>4, ServedGap, CurrentIn DEF Owner
  <2>6. at = k + 1 /\ k < at /\ 1..(at - 1) = 1..k
    BY <2>4, <2>5, ChunkType DEF at
  <2>7. SingleStream(s) /\ Streamed(s) = own[o].have
    BY <2>3, <2>4, <2>6, ChunkType DEF SingleStream, Streamed
  <2> QED
    BY <2>2, <2>3, <2>7 DEF SpeaksFor, Streamed, InStream
<1>3. CASE AskRestarts(o)
  <2> DEFINE t(v) == [own[o] EXCEPT !.pc = "restart", !.have = {}, !.seen = None,
                                    !.gaps = {Whole}, !.clean = TRUE,
                                    !.src = v, !.kept = FALSE]
  <2>1. PICK v \in Versions : Becomes(o, t(v)) /\ file' = Empty
    BY <1>3 DEF AskRestarts
  <2> DEFINE s == t(v)
  <2>2. own'[o] = s
    BY <2>1, Moved
  <2>3. s.pc = "restart" /\ s.have = {} /\ s.gaps = {Whole}
    BY <1>1 DEF Owner
  <2> HIDE DEF s
  <2>4. Whole \in Gap /\ Whole.to = 0 /\ Whole.from = 0 + 1
    BY ChunkType DEF Whole, Gap
  <2>5. SingleStream(s) /\ Streamed(s) = {}
    BY <2>3, <2>4, ChunkType DEF SingleStream, Streamed
  <2> QED
    BY <2>1, <2>2, <2>5 DEF SpeaksFor, Empty
<1>4. CASE RestartRecord(o)
  <2> DEFINE t == [own[o] EXCEPT !.pc = "body", !.at = 1, !.seen = Observed(own[o].src)]
             u == [own[o] EXCEPT !.pc = "gap", !.src = None,
                                 !.left = own[o].left - 1, !.err = "later"]
             s == own'[o]
  <2>1. own[o].pc = "restart" /\ (own'[o] = t \/ own'[o] = u) /\ file' = file
    BY <1>4, Moved DEF RestartRecord
  <2>2. /\ own[o].have = t.have /\ own[o].gaps = t.gaps /\ own[o].rolling = t.rolling
        /\ own[o].clean = t.clean /\ t.pc = "body" /\ t.at = 1
        /\ own[o].have = u.have /\ own[o].gaps = u.gaps /\ own[o].rolling = u.rolling
        /\ own[o].clean = u.clean /\ u.pc = "gap"
    BY <1>1 DEF Owner
  <2> HIDE DEF t, u
  <2>3. SpeaksFor(u, file)
    BY <2>1, <2>2 DEF SpeaksFor, SingleStream, Streamed, InStream
  <2>4. ASSUME own[o].rolling PROVE SpeaksFor(t, file)
    <3>1. PICK k \in 0..MaxLen :
            /\ own[o].have = 1..k
            /\ own[o].gaps = {} \/ \E g \in Gap : /\ own[o].gaps = {g} /\ g.to = 0
                                                /\ g.from = k + 1
      BY <2>1, <2>4 DEF SpeaksFor, SingleStream, InStream
    <3>2. own[o].have = {}
      BY <1>1, <2>1 DEF Sane
    <3>3. k = 0
      <4>1. 1 \notin 1..k
        BY <3>1, <3>2
      <4> QED
        BY <4>1, ChunkType
    <3>4. SingleStream(t) /\ Streamed(t) = {}
      BY <2>2, <3>1, <3>3, ChunkType DEF SingleStream, Streamed
    <3> QED
      BY <2>1, <2>2, <2>4, <3>2, <3>4 DEF SpeaksFor, Streamed, InStream
  <2>5. ~own[o].rolling => SpeaksFor(t, file)
    BY <2>2 DEF SpeaksFor
  <2> QED
    BY <2>1, <2>3, <2>4, <2>5
<1>5. CASE AskFails(o)
  <2> DEFINE t(e) == [own[o] EXCEPT !.left = own[o].left - 1, !.err = Worse(own[o].err, e)]
  <2>1. PICK e \in {"later", "no"} : Becomes(o, t(e)) /\ file' = file
    BY <1>5 DEF AskFails
  <2> DEFINE s == t(e)
  <2>2. own'[o] = s
    BY <2>1, Moved
  <2>3. /\ s.pc = own[o].pc /\ s.at = own[o].at /\ s.have = own[o].have
        /\ s.gaps = own[o].gaps /\ s.rolling = own[o].rolling /\ s.clean = own[o].clean
    BY <1>1 DEF Owner
  <2> HIDE DEF s
  <2> QED
    BY <2>1, <2>2, <2>3 DEF SpeaksFor, SingleStream, Streamed
<1> QED
  BY <1>2, <1>3, <1>4, <1>5

LEMMA SpeaksWrite ==
  ASSUME TypeOK, Memory, NEW o \in Owners, SpeaksFor(own[o], file), Write(o)
  PROVE  SpeaksFor(own'[o], file')
<1> DEFINE at == own[o].at
           clean == own[o].clean /\ own[o].src = Wanted
           s == [own[o] EXCEPT !.at = at + 1, !.clean = clean]
<1>1. own[o] \in Owner /\ Sane(own[o])
  BY DEF TypeOK, Memory
<1>2. /\ own[o].pc = "body" /\ file' = [file EXCEPT ![at] = own[o].src]
      /\ at <= BodyEnd(Current(own[o].gaps), own[o].src)
  BY DEF Write
<1>3. own'[o] = s
  BY Moved DEF Write
<1>4. at \in Chunk /\ at \in Nat
  <2>1. BodyEnd(Current(own[o].gaps), own[o].src) \in 0..MaxLen
    BY <1>1, <1>2, ServedGap DEF Sane
  <2> QED
    BY <1>1, <1>2, <2>1, ChunkType DEF Owner, Sane, Chunk
<1>5. /\ s.pc = "body" /\ s.at = at + 1 /\ s.have = own[o].have /\ s.gaps = own[o].gaps
      /\ s.rolling = own[o].rolling /\ s.clean = clean
  BY <1>1, <1>2 DEF Owner
<1> HIDE DEF s
<1> SUFFICES ASSUME own[o].rolling PROVE SpeaksFor(s, file')
  BY <1>3, <1>5 DEF SpeaksFor
<1>6. /\ SingleStream(own[o])
      /\ \A c \in Chunk \ (1..(at - 1)) : file[c] = Hole
      /\ own[o].clean => \A c \in 1..(at - 1) : file[c] = Wanted
  BY <1>2 DEF SpeaksFor, Streamed, InStream
<1>7. SingleStream(s)
  <2>1. PICK k \in 0..MaxLen :
          /\ own[o].have = 1..k /\ k < at
          /\ own[o].gaps = {} \/ \E g \in Gap : own[o].gaps = {g} /\ g.to = 0 /\ g.from <= k + 1
    BY <1>2, <1>6 DEF SingleStream
  <2>2. k \in Nat
    BY ChunkType
  <2>3. k < at + 1
    BY <1>4, <2>1, <2>2
  <2> QED
    BY <1>5, <2>1, <2>3 DEF SingleStream
<1>8. Streamed(s) = (1..(at - 1)) \cup {at}
  BY <1>4, <1>5, ChunkType DEF Streamed, Chunk
<1>9. /\ file'[at] = own[o].src
      /\ \A c \in Chunk \ {at} : file'[c] = file[c]
  BY <1>2, <1>4 DEF TypeOK, File
<1>10. \A c \in Chunk \ Streamed(s) : file'[c] = Hole
  BY <1>6, <1>8, <1>9
<1>11. ASSUME clean, NEW c \in Streamed(s) PROVE file'[c] = Wanted
  <2>1. c \in Chunk
    BY <1>4, <1>8, ChunkType DEF Chunk
  <2> QED
    BY <1>6, <1>8, <1>9, <1>11, <2>1
<1> QED
  BY <1>5, <1>7, <1>10, <1>11 DEF SpeaksFor

LEMMA SpeaksBody ==
  ASSUME TypeOK, Memory, NEW o \in Owners, SpeaksFor(own[o], file),
         Report(o) \/ BodyEnds(o) \/ BodyDrops(o) \/ NoticeStop(o) \/ GapsDone(o)
  PROVE  SpeaksFor(own'[o], file')
<1>1. own[o] \in Owner /\ Sane(own[o])
  BY DEF TypeOK, Memory
<1>2. file' = file /\ own[o].pc \in {"gap", "body"}
  BY DEF Report, BodyEnds, BodyDrops, NoticeStop, GapsDone
\* Where bytes are folded in, what the owner answers for stays the same.
<1>3. ASSUME NEW s, own'[o] = s, s.have = Folded(o), s.pc \in {"end", "body", "gap"},
             s.pc = "body" => own[o].pc = "body" /\ s.at = own[o].at,
             s.pc = "gap" => own[o].pc = "body" /\ s.gaps = own[o].gaps \ {Current(own[o].gaps)},
             s.pc # "gap" => s.gaps = own[o].gaps,
             s.rolling = own[o].rolling, s.clean = own[o].clean
      PROVE  SpeaksFor(own'[o], file')
  <2> SUFFICES ASSUME own[o].rolling PROVE SpeaksFor(s, file)
    BY <1>2, <1>3 DEF SpeaksFor
  <2>1. SingleStream(own[o])
    BY <1>2 DEF SpeaksFor, InStream
  <2>2. PICK k \in 0..MaxLen : Folded(o) = 1..k
    BY <1>2, <2>1, FoldedStream
  <2>3. Folded(o) = Streamed(own[o])
    BY <1>2, <2>1, FoldedStream
  <2>4. Streamed(s) = Streamed(own[o])
    BY <1>3, <2>3 DEF Streamed
  <2>5. SingleStream(s)
    <3>1. CASE s.pc = "gap"
      <4>1. s.gaps = {}
        BY <1>3, <2>1, <3>1, FoldedStream
      <4> QED
        BY <1>3, <2>2, <3>1, <4>1 DEF SingleStream
    <3>2. CASE s.pc = "end"
      BY <1>3, <2>1, <2>2, <3>2 DEF SingleStream
    <3>3. CASE s.pc = "body"
      <4>1. own[o].pc = "body" /\ s.at = own[o].at /\ s.gaps = own[o].gaps
        BY <1>3, <3>3
      <4>2. s.at # 0 /\ s.at \in 0..(MaxLen + 1)
        BY <1>1, <4>1 DEF Sane, Owner
      <4>3. s.have = 1..(s.at - 1) /\ s.at - 1 \in 0..MaxLen
        BY <1>3, <2>3, <4>1, <4>2, ChunkType DEF Streamed
      <4>4. PICK j \in 0..MaxLen :
              /\ j < s.at
              /\ s.gaps = {} \/ \E g \in Gap : s.gaps = {g} /\ g.to = 0 /\ g.from <= j + 1
        BY <2>1, <4>1 DEF SingleStream
      <4>5. s.gaps = {} \/ \E g \in Gap : s.gaps = {g} /\ g.to = 0 /\ g.from <= (s.at - 1) + 1
        BY <4>2, <4>4, ChunkType DEF Gap
      <4>6. s.at - 1 < s.at
        BY <4>2
      <4> QED
        BY <3>3, <4>3, <4>5, <4>6 DEF SingleStream
    <3> QED
      BY <1>3, <3>1, <3>2, <3>3
  <2> QED
    BY <1>2, <1>3, <2>4, <2>5 DEF SpeaksFor, InStream
<1>4. CASE Report(o)
  <2> DEFINE t == [own[o] EXCEPT !.have = Folded(o)]
             u == [own[o] EXCEPT !.have = Folded(o), !.stop = rec.want,
                                 !.pc = "end", !.at = 0, !.src = None]
  <2>1. own[o].pc = "body" /\ (own'[o] = Idle \/ own'[o] = t \/ own'[o] = u)
    BY <1>4, Moved DEF Report
  <2>2. /\ t.have = Folded(o) /\ t.pc = own[o].pc /\ t.at = own[o].at /\ t.gaps = own[o].gaps
        /\ t.rolling = own[o].rolling /\ t.clean = own[o].clean
        /\ u.have = Folded(o) /\ u.pc = "end" /\ u.gaps = own[o].gaps
        /\ u.rolling = own[o].rolling /\ u.clean = own[o].clean
    BY <1>1 DEF Owner
  <2>3. SpeaksFor(Idle, file')
    BY DEF SpeaksFor, Idle
  <2> HIDE DEF t, u
  <2> QED
    BY <1>3, <2>1, <2>2, <2>3
<1>5. CASE BodyEnds(o)
  <2> DEFINE gaps == own[o].gaps \ {Current(own[o].gaps)}
             t == [own[o] EXCEPT !.pc = "gap", !.have = Folded(o),
                                 !.gaps = gaps, !.at = 0, !.src = None,
                                 !.left = Sources, !.err = "none"]
  <2>1. own[o].pc = "body" /\ own'[o] = t
    BY <1>5, Moved DEF BodyEnds
  <2>2. /\ t.have = Folded(o) /\ t.pc = "gap" /\ t.gaps = gaps
        /\ t.rolling = own[o].rolling /\ t.clean = own[o].clean
    BY <1>1 DEF Owner
  <2> HIDE DEF t
  <2> QED
    BY <1>3, <2>1, <2>2
<1>6. CASE BodyDrops(o)
  <2> DEFINE t == [own[o] EXCEPT !.pc = "end", !.have = Folded(o), !.err = "later",
                                 !.at = 0, !.src = None]
             u == [own[o] EXCEPT !.pc = "gap", !.left = own[o].left - 1,
                                 !.err = "later", !.at = 0, !.src = None]
             from == Current(own[o].gaps).from
  <2>1. /\ own[o].pc = "body"
        /\ own'[o] = t \/ (own'[o] = u /\ ~(own[o].at > from))
    BY <1>6, Moved DEF BodyDrops
  <2>2. /\ t.have = Folded(o) /\ t.pc = "end" /\ t.gaps = own[o].gaps
        /\ t.rolling = own[o].rolling /\ t.clean = own[o].clean
        /\ u.have = own[o].have /\ u.pc = "gap" /\ u.gaps = own[o].gaps
        /\ u.rolling = own[o].rolling /\ u.clean = own[o].clean
    BY <1>1 DEF Owner
  <2> HIDE DEF t, u, from
  <2>3. CASE own'[o] = t
    BY <1>3, <2>2, <2>3
  \* A response that brought nothing leaves the stream where it was.
  <2>4. ASSUME own[o].rolling, ~(own[o].at > from) PROVE SpeaksFor(u, file)
    <3>1. PICK k \in 0..MaxLen, g \in Gap :
            /\ own[o].have = 1..k /\ own[o].gaps = {g} /\ g.to = 0
            /\ g.from <= k + 1 /\ k < own[o].at
      BY <1>1, <2>1, <2>4 DEF SpeaksFor, SingleStream, InStream, Sane
    <3>2. from = g.from
      BY <1>1, <2>1, <3>1, ServedGap DEF Sane, from
    <3>3. own[o].at \in Nat /\ g.from \in Nat /\ g.from = k + 1 /\ own[o].at = k + 1
      BY <1>1, <2>4, <3>1, <3>2, ChunkType DEF Owner, Gap
    <3>4. Streamed(own[o]) = own[o].have /\ Streamed(u) = own[o].have
      BY <2>1, <2>2, <3>1, <3>3, ChunkType DEF Streamed
    <3>5. SingleStream(u)
      BY <2>2, <3>1, <3>3 DEF SingleStream
    <3> QED
      BY <2>1, <2>2, <2>4, <3>4, <3>5 DEF SpeaksFor, InStream
  <2>5. ~own[o].rolling => SpeaksFor(u, file)
    BY <2>2 DEF SpeaksFor
  <2> QED
    BY <1>2, <2>1, <2>3, <2>4, <2>5
<1>7. CASE NoticeStop(o)
  <2> DEFINE t == [own[o] EXCEPT !.pc = "end", !.stop = rec.want,
                                 !.have = Folded(o), !.at = 0, !.src = None]
  <2>1. own'[o] = t
    BY <1>7, Moved DEF NoticeStop
  <2>2. /\ t.have = Folded(o) /\ t.pc = "end" /\ t.gaps = own[o].gaps
        /\ t.rolling = own[o].rolling /\ t.clean = own[o].clean
    BY <1>1 DEF Owner
  <2> HIDE DEF t
  <2> QED
    BY <1>3, <2>1, <2>2
<1>8. CASE GapsDone(o)
  <2> DEFINE t == [own[o] EXCEPT !.pc = "end"]
  <2>1. own[o].pc = "gap" /\ own'[o] = t
    BY <1>8, Moved DEF GapsDone
  <2>2. /\ t.have = own[o].have /\ t.pc = "end" /\ t.gaps = own[o].gaps
        /\ t.rolling = own[o].rolling /\ t.clean = own[o].clean
    BY <1>1 DEF Owner
  <2>3. Folded(o) = own[o].have
    BY <1>1, <2>1 DEF Folded, Sane
  <2> HIDE DEF t
  <2> QED
    BY <1>3, <2>1, <2>2, <2>3
<1> QED
  BY <1>4, <1>5, <1>6, <1>7, <1>8

-----------------------------------------------------------------------------
(* Who touches what.                                                        *)

\* An owner that was overtaken touches the file no more.
LEMMA TouchesLatest ==
  ASSUME ~Overtaken, NEW o \in Owners, NEW op, MayTouch(o, op)
  PROVE  Latest(o)
BY DEF MayTouch, Holds, Accepts, Latest

LEMMA FilesKept ==
  ASSUME ~Overtaken, NEW o \in Owners, Running(o) \/ Taking(o) \/ Claim(o), ~Latest(o)
  PROVE  file' = file /\ final' = final
<1> USE DEF Running, Fetching, Ending, Taking
<1>1. CASE Claim(o) \/ Begin(o) \/ RecordPlan(o) \/ HashPrefix(o) \/ Taking(o)
  BY <1>1 DEF Claim, Begin, RecordPlan, HashPrefix, TakeClaim, TakeComplete
<1>2. CASE Trim(o) \/ AskRestarts(o) \/ Write(o) \/ Deliver(o) \/ RemovePartial(o)
  BY <1>2, TouchesLatest DEF Trim, AskRestarts, Write, Deliver, RemovePartial
<1>3. CASE AskContinues(o) \/ RestartRecord(o) \/ AskFails(o) \/ Report(o)
           \/ BodyEnds(o) \/ BodyDrops(o) \/ NoticeStop(o) \/ GapsDone(o)
  BY <1>3 DEF AskContinues, RestartRecord, AskFails, Report, BodyEnds, BodyDrops,
              NoticeStop, GapsDone
<1>4. CASE EndStopped(o) \/ EndFailed(o) \/ EndWrongSize(o) \/ EndDigest(o)
           \/ MarkTransferred(o) \/ UnclaimBytes(o) \/ Honour(o)
           \/ RecordFailure(o) \/ Release(o) \/ Fence(o)
  BY <1>4 DEF EndStopped, EndFailed, EndWrongSize, EndDigest, MarkTransferred,
              UnclaimBytes, Honour, RecordFailure, Release, Fence
<1> QED
  BY <1>1, <1>2, <1>3, <1>4

\* A store update keeps the epoch and, but for the writes named, the state.
LEMMA WriteKeeps ==
  ASSUME TypeOK, NEW o \in Owners, NEW r, Writes(o, r), r.epoch = rec.epoch
  PROVE  rec'.epoch = rec.epoch
BY DEF Writes

LEMMA EpochKept ==
  ASSUME TypeOK, Memory, NEW o \in Owners, Running(o) \/ TakeComplete(o)
  PROVE  rec'.epoch = rec.epoch
<1> USE DEF Running, Fetching, Ending
<1>1. rec \in Record
  BY DEF TypeOK
<1>2. \A f, p, v : /\ [rec EXCEPT !.failure = f].epoch = rec.epoch
                  /\ [rec EXCEPT !.proven = p, !.val = v].epoch = rec.epoch
  BY <1>1 DEF Record
<1>3. \A st, p, v, f :
        /\ [rec EXCEPT !.state = st].epoch = rec.epoch
        /\ [rec EXCEPT !.state = st, !.failure = f].epoch = rec.epoch
        /\ [rec EXCEPT !.failure = f, !.state = st].epoch = rec.epoch
        /\ [rec EXCEPT !.state = st, !.proven = p, !.val = v, !.failure = f].epoch
             = rec.epoch
  BY <1>1 DEF Record
<1>4. Released(rec).epoch = rec.epoch
  BY <1>1 DEF Record, Released
<1>5. CASE Begin(o) \/ RecordPlan(o)
  BY <1>2, <1>5, WriteKeeps DEF Begin, RecordPlan
<1>6. CASE \/ Trim(o) \/ HashPrefix(o) \/ AskContinues(o) \/ AskRestarts(o) \/ AskFails(o)
           \/ Write(o) \/ BodyEnds(o) \/ BodyDrops(o) \/ NoticeStop(o) \/ GapsDone(o)
           \/ EndDigest(o) \/ Deliver(o) \/ RemovePartial(o) \/ Fence(o)
  BY <1>6 DEF Trim, HashPrefix, AskContinues, AskRestarts, AskFails, Write, BodyEnds,
              BodyDrops, NoticeStop, GapsDone, EndDigest, Deliver, RemovePartial, Fence
<1>7. CASE RestartRecord(o) \/ Report(o) \/ UnclaimBytes(o)
  BY <1>2, <1>7, WriteKeeps DEF RestartRecord, Report, UnclaimBytes
<1>8. CASE EndStopped(o) \/ EndFailed(o) \/ EndWrongSize(o)
  BY <1>2, <1>8, WriteKeeps DEF EndStopped, EndFailed, EndWrongSize, KeepProven
<1>9. CASE MarkTransferred(o)
  <2> DEFINE r == [rec EXCEPT !.state = "transferred", !.proven = 1..Size,
                              !.val = own[o].seen, !.failure = FALSE]
  <2>1. r.epoch = rec.epoch
    BY <1>1 DEF Record
  <2>2. Writes(o, r)
    BY <1>9 DEF MarkTransferred
  <2> HIDE DEF r
  <2> QED
    BY <2>1, <2>2, WriteKeeps
<1>10. CASE Honour(o) \/ Release(o) \/ TakeComplete(o)
  BY <1>3, <1>4, <1>10, WriteKeeps DEF Honour, Release, TakeComplete
<1>11. CASE RecordFailure(o)
  BY <1>3, <1>11, WriteKeeps DEF RecordFailure
<1> QED
  BY <1>5, <1>6, <1>7, <1>8, <1>9, <1>10, <1>11

\* No action but a claim gives an owner another epoch, and no step before the
\* end of the attempt takes it to the delivery.
LEMMA OwnEpoch ==
  ASSUME TypeOK, Memory, NEW o \in Owners, Running(o) \/ TakeComplete(o)
  PROVE  /\ own'[o].epoch \in {own[o].epoch, 0} /\ own[o].pc # "idle"
         /\ own'[o].pc \in {"deliver", "mark", "take"} => Ending(o)
<1>1. own[o] \in Owner
  BY DEF TypeOK
<1>2. Idle.epoch = 0 /\ Idle.pc = "idle"
  BY DEF Idle
<1> DEFINE Early(t) == t.epoch = own[o].epoch /\ t.pc \notin {"deliver", "mark", "take"}
<1>3. own[o].pc # "idle"
  BY DEF Running, Fetching, Begin, Trim, RecordPlan, HashPrefix, CanAsk, AskContinues,
         AskRestarts, RestartRecord, AskFails, Write, Report, BodyEnds, BodyDrops,
         NoticeStop, GapsDone, Ending, EndStopped, EndFailed, EndWrongSize, EndDigest,
         Deliver, MarkTransferred, RemovePartial, UnclaimBytes, Honour, RecordFailure,
         Release, Fence, TakeComplete
<1> SUFFICES /\ own'[o].epoch \in {own[o].epoch, 0}
             /\ ~Ending(o) => own'[o].pc \notin {"deliver", "mark", "take"}
  BY <1>3
<1>4. CASE Begin(o)
  BY <1>1, <1>4, Moved DEF Begin, Owner
<1>5. CASE Trim(o)
  <2> DEFINE have == Clip(own[o].have, file)
             seen == IF have = {} THEN None ELSE own[o].seen
             rolling == OneStream(have, GapsFor(have))
  <2>1. own'[o] = [own[o] EXCEPT !.pc = "planned", !.have = have,
                                 !.gaps = GapsFor(have), !.seen = seen,
                                 !.kept = have # {}, !.rolling = rolling]
    BY <1>5, Moved DEF Trim
  <2> HIDE DEF seen, rolling, have
  <2> QED
    BY <1>1, <2>1 DEF Owner
<1>6. CASE RecordPlan(o)
  <2> DEFINE pc == IF own[o].rolling /\ own[o].have # {} THEN "hash" ELSE "gap"
  <2>1. own'[o] = [own[o] EXCEPT !.pc = pc, !.left = Sources]
    BY <1>6, Moved DEF RecordPlan
  <2>2. pc \in {"hash", "gap"}
    OBVIOUS
  <2> HIDE DEF pc
  <2> QED
    BY <1>1, <2>1, <2>2 DEF Owner
<1>7. CASE HashPrefix(o)
  <2> DEFINE t(b) == [own[o] EXCEPT !.pc = "gap", !.clean = b]
             u(b) == [own[o] EXCEPT !.pc = "fail", !.err = "later"]
  <2>1. PICK b \in BOOLEAN : own'[o] = t(b) \/ own'[o] = u(b)
    BY <1>7, Moved DEF HashPrefix
  <2>2. Early(t(b)) /\ Early(u(b))
    BY <1>1 DEF Owner
  <2> HIDE DEF t, u
  <2> QED
    BY <1>2, <2>1, <2>2
<1>8. CASE AskContinues(o)
  <2> DEFINE t(v) == [own[o] EXCEPT !.pc = "body", !.at = Current(own[o].gaps).from, !.src = v,
                                    !.seen = Observed(v)]
  <2>1. PICK v \in Versions : own'[o] = t(v)
    BY <1>8, Moved DEF AskContinues
  <2>2. Early(t(v))
    BY <1>1 DEF Owner
  <2> HIDE DEF t
  <2> QED
    BY <1>2, <2>1, <2>2
<1>9. CASE AskRestarts(o)
  <2> DEFINE t(v) == [own[o] EXCEPT !.pc = "restart", !.have = {}, !.seen = None,
                                    !.gaps = {Whole}, !.clean = TRUE,
                                    !.src = v, !.kept = FALSE]
  <2>1. PICK v \in Versions : own'[o] = t(v)
    BY <1>9, Moved DEF AskRestarts
  <2>2. Early(t(v))
    BY <1>1 DEF Owner
  <2> HIDE DEF t
  <2> QED
    BY <1>2, <2>1, <2>2
<1>10. CASE RestartRecord(o)
  <2> DEFINE t == [own[o] EXCEPT !.pc = "body", !.at = 1, !.seen = Observed(own[o].src)]
             u == [own[o] EXCEPT !.pc = "gap", !.src = None,
                                 !.left = own[o].left - 1, !.err = "later"]
  <2>1. own'[o] = t \/ own'[o] = u
    BY <1>10, Moved DEF RestartRecord
  <2>2. Early(t) /\ Early(u)
    BY <1>1 DEF Owner
  <2> HIDE DEF t, u
  <2> QED
    BY <1>2, <2>1, <2>2
<1>11. CASE AskFails(o)
  <2> DEFINE t(e) == [own[o] EXCEPT !.left = own[o].left - 1, !.err = Worse(own[o].err, e)]
  <2>1. PICK e \in {"later", "no"} : own'[o] = t(e)
    BY <1>11, Moved DEF AskFails
  <2>2. Early(t(e))
    BY <1>1, <1>11 DEF AskFails, CanAsk, Owner
  <2> HIDE DEF t
  <2> QED
    BY <1>2, <2>1, <2>2
<1>12. CASE Write(o)
  <2> DEFINE t(b) == [own[o] EXCEPT !.at = own[o].at + 1, !.clean = b]
  <2>1. PICK b \in {own[o].clean /\ own[o].src = Wanted} : own'[o] = t(b)
    BY <1>12, Moved DEF Write
  <2>2. Early(t(b))
    BY <1>1, <1>12 DEF Write, Owner
  <2> HIDE DEF t
  <2> QED
    BY <1>2, <2>1, <2>2
<1>13. CASE Report(o)
  <2> DEFINE t == [own[o] EXCEPT !.have = Folded(o)]
             u == [own[o] EXCEPT !.have = Folded(o), !.stop = rec.want,
                                 !.pc = "end", !.at = 0, !.src = None]
  <2>1. own'[o] = Idle \/ own'[o] = t \/ own'[o] = u
    BY <1>13, Moved DEF Report
  <2>2. Early(t) /\ Early(u)
    BY <1>1, <1>13 DEF Report, Owner
  <2> HIDE DEF t, u
  <2> QED
    BY <1>2, <2>1, <2>2
<1>14. CASE BodyEnds(o)
  <2> DEFINE t == [own[o] EXCEPT !.pc = "gap", !.have = Folded(o),
                                 !.gaps = own[o].gaps \ {Current(own[o].gaps)},
                                 !.at = 0, !.src = None,
                                 !.left = Sources, !.err = "none"]
  <2>1. own'[o] = t
    BY <1>14, Moved DEF BodyEnds
  <2>2. Early(t)
    BY <1>1 DEF Owner
  <2> HIDE DEF t
  <2> QED
    BY <1>2, <2>1, <2>2
<1>15. CASE BodyDrops(o)
  <2> DEFINE t == [own[o] EXCEPT !.pc = "end", !.have = Folded(o), !.err = "later",
                                 !.at = 0, !.src = None]
             u == [own[o] EXCEPT !.pc = "gap", !.left = own[o].left - 1,
                                 !.err = "later", !.at = 0, !.src = None]
  <2>1. own'[o] = t \/ own'[o] = u
    BY <1>15, Moved DEF BodyDrops
  <2>2. Early(t) /\ Early(u)
    BY <1>1 DEF Owner
  <2> HIDE DEF t, u
  <2> QED
    BY <1>2, <2>1, <2>2
<1>16. CASE NoticeStop(o)
  <2> DEFINE t == [own[o] EXCEPT !.pc = "end", !.stop = rec.want,
                                 !.have = Folded(o), !.at = 0, !.src = None]
  <2>1. own'[o] = t
    BY <1>16, Moved DEF NoticeStop
  <2>2. Early(t)
    BY <1>1 DEF Owner
  <2> HIDE DEF t
  <2> QED
    BY <1>2, <2>1, <2>2
<1>17. CASE GapsDone(o)
  <2> DEFINE t == [own[o] EXCEPT !.pc = "end"]
  <2>1. own'[o] = t
    BY <1>17, Moved DEF GapsDone
  <2>2. Early(t)
    BY <1>1 DEF Owner
  <2> HIDE DEF t
  <2> QED
    BY <1>2, <2>1, <2>2
<1>18. CASE Ending(o)
  <2> DEFINE t(pc) == [own[o] EXCEPT !.pc = pc]
             u(pc, err) == [own[o] EXCEPT !.pc = pc, !.err = err]
  <2>3. PICK pc \in PCs, err \in {"none", "later", "no"} :
          Becomes(o, Idle) \/ Becomes(o, t(pc)) \/ Becomes(o, u(pc, err))
    BY <1>18, EndMoves DEF Moves
  <2> HIDE DEF t, u
  <2>1. own'[o] = Idle \/ own'[o] = t(pc) \/ own'[o] = u(pc, err)
    BY <2>3, Moved
  <2> USE DEF t, u
  <2>2. t(pc).epoch = own[o].epoch /\ u(pc, err).epoch = own[o].epoch
    BY <1>1 DEF Owner
  <2> HIDE DEF t, u
  <2> QED
    BY <1>2, <1>18, <2>1, <2>2
<1>19. CASE TakeComplete(o)
  BY <1>2, <1>19, Moved DEF TakeComplete
<1> QED
  BY <1>4, <1>5, <1>6, <1>7, <1>8, <1>9, <1>10, <1>11, <1>12, <1>13, <1>14, <1>15,
     <1>16, <1>17, <1>18, <1>19 DEF Running, Fetching

LEMMA WriteKeepsState ==
  ASSUME TypeOK, NEW o \in Owners, NEW r, Writes(o, r), r.state = rec.state
  PROVE  rec'.state = rec.state
BY DEF Writes

\* Only the latest owner's last write says that the work is delivered.
LEMMA StateKept ==
  ASSUME TypeOK, Memory, NEW o \in Owners, Running(o) \/ TakeComplete(o),
         rec'.state \in {"transferred", "complete"}
  PROVE  \/ rec.state \in {"transferred", "complete"}
         \/ Latest(o) /\ own[o].pc \in {"mark", "take"}
<1>1. rec \in Record
  BY DEF TypeOK
<1>2. \A f, p, v : /\ [rec EXCEPT !.failure = f].state = rec.state
                  /\ [rec EXCEPT !.proven = p, !.val = v].state = rec.state
  BY <1>1 DEF Record
<1>3. \A f, st : /\ [rec EXCEPT !.state = st, !.failure = f].state = st
                /\ [rec EXCEPT !.failure = f, !.state = st].state = st
  BY <1>1 DEF Record
<1>4. Holds(o) => Latest(o)
  BY DEF Holds, Accepts, Latest
<1>5. CASE Begin(o) \/ RecordPlan(o)
  BY <1>2, <1>5, WriteKeepsState DEF Begin, RecordPlan
<1>6. CASE \/ Trim(o) \/ HashPrefix(o) \/ AskContinues(o) \/ AskRestarts(o) \/ AskFails(o)
           \/ Write(o) \/ BodyEnds(o) \/ BodyDrops(o) \/ NoticeStop(o) \/ GapsDone(o)
           \/ EndDigest(o) \/ Deliver(o) \/ RemovePartial(o) \/ Fence(o)
  BY <1>6 DEF Trim, HashPrefix, AskContinues, AskRestarts, AskFails, Write, BodyEnds,
              BodyDrops, NoticeStop, GapsDone, EndDigest, Deliver, RemovePartial, Fence
<1>7. CASE RestartRecord(o) \/ Report(o) \/ UnclaimBytes(o)
  BY <1>2, <1>7, WriteKeepsState DEF RestartRecord, Report, UnclaimBytes
<1>8. CASE EndStopped(o) \/ EndFailed(o) \/ EndWrongSize(o)
  BY <1>2, <1>8, WriteKeepsState DEF EndStopped, EndFailed, EndWrongSize, KeepProven
<1>9. CASE MarkTransferred(o)
  BY <1>4, <1>9 DEF MarkTransferred, Writes
<1>10. CASE Honour(o)
  BY <1>3, <1>10 DEF Honour, Writes
<1>11. CASE RecordFailure(o)
  BY <1>3, <1>11 DEF RecordFailure, Writes
<1>12. CASE Release(o)
  <2>1. Released(rec).state \in {"transferred", "complete"} =>
          rec.state \in {"transferred", "complete"}
    BY <1>1 DEF Record, Released
  <2> QED
    BY <1>12, <2>1 DEF Release, Writes
<1>13. CASE TakeComplete(o)
  BY <1>4, <1>13 DEF TakeComplete, Writes
<1> QED
  BY <1>5, <1>6, <1>7, <1>8, <1>9, <1>10, <1>11, <1>12, <1>13
  DEF Running, Fetching, Ending

\* Only the rename of the partial file changes the destination.
LEMMA FinalMoves ==
  ASSUME NEW o \in Owners, Claim(o) \/ Running(o) \/ Taking(o), ~Deliver(o)
  PROVE  final' = final
<1>1. CASE Claim(o) \/ Begin(o) \/ Trim(o) \/ RecordPlan(o) \/ HashPrefix(o) \/ Taking(o)
  BY <1>1 DEF Claim, Begin, Trim, RecordPlan, HashPrefix, Taking, TakeClaim, TakeComplete
<1>2. CASE Fetching(o)
  BY <1>2 DEF Fetching, AskContinues, AskRestarts, RestartRecord, AskFails, Write, Report,
              BodyEnds, BodyDrops, NoticeStop, GapsDone
<1>3. CASE Ending(o)
  BY <1>3 DEF Ending, EndStopped, EndFailed, EndWrongSize, EndDigest, MarkTransferred,
              RemovePartial, UnclaimBytes, Honour, RecordFailure, Release, Fence
<1> QED
  BY <1>1, <1>2, <1>3 DEF Running

\* The destination gets nothing but the artifact.
LEMMA FinalIntact ==
  ASSUME ~Overtaken, Verified, NEW o \in Owners, Claim(o) \/ Running(o) \/ Taking(o)
  PROVE  final' = final \/ final' = Artifact
<1>1. CASE Deliver(o)
  <2>1. Latest(o) /\ own[o].pc = "deliver"
    BY <1>1, TouchesLatest DEF Deliver
  <2> QED
    BY <1>1, <2>1 DEF Deliver, Verified
<1> QED
  BY <1>1, FinalMoves

\* Owner o goes on at pc, with a reason to stop or not.
Goes(o, pc) ==
  \E err \in {"none", "later", "no"} :
    \/ Becomes(o, [own[o] EXCEPT !.pc = pc])
    \/ Becomes(o, [own[o] EXCEPT !.pc = pc, !.err = err])

LEMMA GoesTo ==
  ASSUME TypeOK, NEW o \in Owners, NEW pc \in PCs, Goes(o, pc)
  PROVE  own'[o].pc = pc
<1> DEFINE t(err) == [own[o] EXCEPT !.pc = pc, !.err = err]
           u == [own[o] EXCEPT !.pc = pc]
<1>1. PICK err \in {"none", "later", "no"} : Becomes(o, u) \/ Becomes(o, t(err))
  BY DEF Goes
<1>2. t(err).pc = pc /\ u.pc = pc
  BY DEF TypeOK, Owner
<1> HIDE DEF t, u
<1> QED
  BY <1>1, <1>2, Moved

\* Where an owner is after a step that ends its attempt.
LEMMA EndLeaves ==
  ASSUME TypeOK, NEW o \in Owners, Ending(o)
  PROVE  /\ own'[o].pc \notin InStream \cup {"take"}
         /\ own'[o].pc = "deliver" => EndDigest(o) /\ Matches(o)
         /\ own'[o].pc = "mark" => Deliver(o) /\ final' = file
<1>1. Becomes(o, Idle) => own'[o].pc = "idle"
  BY Moved DEF Idle
<1>2. CASE EndStopped(o) \/ EndFailed(o) \/ EndWrongSize(o)
  <2>1. Goes(o, "honour") \/ Goes(o, "fail") \/ Becomes(o, Idle)
    BY <1>2 DEF EndStopped, EndFailed, EndWrongSize, Goes
  <2> QED
    BY <1>1, <2>1, GoesTo DEF InStream, PCs
<1>3. CASE EndDigest(o)
  <2>1. (Goes(o, "deliver") /\ Matches(o)) \/ Goes(o, "remove")
    BY <1>3 DEF EndDigest, Goes
  <2> QED
    BY <1>3, <2>1, GoesTo DEF InStream, PCs
<1>4. CASE Deliver(o)
  <2>1. Goes(o, "fail") \/ (Goes(o, "mark") /\ final' = file)
    BY <1>4 DEF Deliver, Goes
  <2> QED
    BY <1>4, <2>1, GoesTo DEF InStream, PCs
<1>5. CASE MarkTransferred(o) \/ RemovePartial(o) \/ UnclaimBytes(o)
  <2>1. Goes(o, "release") \/ Goes(o, "fail") \/ Goes(o, "unclaim")
    BY <1>5 DEF MarkTransferred, RemovePartial, UnclaimBytes, Goes
  <2> QED
    BY <2>1, GoesTo DEF InStream, PCs
<1>6. CASE Honour(o) \/ RecordFailure(o) \/ Release(o) \/ Fence(o)
  <2>1. Goes(o, "release") \/ Becomes(o, Idle)
    BY <1>6 DEF Honour, RecordFailure, Release, Fence, Goes
  <2> QED
    BY <1>1, <2>1, GoesTo DEF InStream, PCs
<1> QED
  BY <1>2, <1>3, <1>4, <1>5, <1>6 DEF Ending

-----------------------------------------------------------------------------
(* The invariant, by who moves.                                             *)

\* The conditions of Verified and RollingIsFile on the memory s of one owner,
\* with partial file f and destination d.
Trusted(s, f, d) ==
  /\ s.pc = "deliver" => f = Artifact
  /\ s.pc \in {"mark", "take"} => d = Artifact
  /\ SpeaksFor(s, f)

LEMMA TrustedAll ==
  Verified /\ RollingIsFile <=>
    \A o \in Owners : Latest(o) => Trusted(own[o], file, final)
BY DEF Verified, RollingIsFile, Trusted

\* A digest that matches says that the file is the artifact.
LEMMA MatchIsArtifact ==
  ASSUME TypeOK, NEW o \in Owners, SpeaksFor(own[o], file), EndDigest(o), Matches(o)
  PROVE  file = Artifact
<1>1. own[o].pc = "end" /\ Prefix(own[o].have) = 1..Size
  BY DEF EndDigest
<1>2. CASE ~own[o].rolling
  BY <1>2 DEF Matches
<1>3. CASE own[o].rolling
  <2>1. /\ SingleStream(own[o]) /\ own[o].clean
        /\ \A c \in Chunk \ own[o].have : file[c] = Hole
        /\ \A c \in own[o].have : file[c] = Wanted
    BY <1>1, <1>3 DEF SpeaksFor, Matches, Streamed, InStream
  <2>2. PICK k \in 0..MaxLen : own[o].have = 1..k
    BY <2>1 DEF SingleStream
  <2>3. Prefix(1..k) = 1..k
    BY <2>2, ChunkType DEF Prefix
  <2>4. own[o].have = 1..Size
    BY <1>1, <2>2, <2>3
  <2>5. \A c \in Chunk : c \in 1..Size <=> c <= Size
    BY ChunkType DEF Chunk
  <2>6. file = [c \in Chunk |-> file[c]]
    BY DEF TypeOK, File
  <2> QED
    BY <2>1, <2>4, <2>5, <2>6 DEF Artifact
<1> QED
  BY <1>2, <1>3

\* The latest owner may be trusted after its own step as before.
LEMMA TrustedMover ==
  ASSUME ~Overtaken, TypeOK, Memory, NEW o \in Owners,
         Trusted(own[o], file, final), Running(o) \/ TakeComplete(o)
  PROVE  Trusted(own'[o], file', final')
<1>1. SpeaksFor(own[o], file)
  BY DEF Trusted
<1>2. CASE Ending(o)
  <2>1. SpeaksFor(own'[o], file')
    BY <1>2, EndLeaves DEF SpeaksFor
  <2>2. own'[o].pc = "deliver" => file' = Artifact
    BY <1>1, <1>2, EndLeaves, MatchIsArtifact DEF EndDigest
  <2>3. own'[o].pc = "mark" => final' = Artifact
    BY <1>2, EndLeaves DEF Deliver, Trusted
  <2> QED
    BY <1>2, <2>1, <2>2, <2>3, EndLeaves DEF Trusted
<1>3. CASE ~Ending(o)
  <2>1. own'[o].pc \notin {"deliver", "mark", "take"}
    BY <1>3, OwnEpoch
  <2>2. CASE Begin(o) \/ TakeComplete(o)
    <3>1. Goes(o, "plan") \/ Becomes(o, Idle)
      BY <2>2 DEF Begin, TakeComplete, Goes
    <3>2. own'[o].pc \in {"plan", "idle"}
      BY <3>1, Moved, GoesTo DEF Idle, PCs
    <3> QED
      BY <3>2 DEF Trusted, SpeaksFor, InStream
  <2>3. CASE Trim(o) \/ RecordPlan(o) \/ HashPrefix(o)
    BY <1>1, <2>1, <2>3, SpeaksTrim, SpeaksPlan DEF Trusted
  <2>4. CASE Fetching(o)
    BY <1>1, <2>1, <2>4, SpeaksAsk, SpeaksWrite, SpeaksBody DEF Trusted, Fetching
  <2> QED
    BY <1>3, <2>2, <2>3, <2>4 DEF Running
<1> QED
  BY <1>2, <1>3

\* Work that is taken delivery of is delivered already.
LEMMA TrustedClaim ==
  ASSUME TypeOK, DeliveredIntact, NEW o \in Owners, Claim(o) \/ TakeClaim(o)
  PROVE  /\ Trusted(own'[o], file', final')
         /\ own'[o].epoch = rec.epoch + 1 /\ rec'.epoch = rec.epoch + 1
         /\ rec'.state \in {"transferred", "complete"} =>
              rec.state \in {"transferred", "complete"}
<1>1. /\ Claimed(rec).epoch = rec.epoch + 1
      /\ Claimed(rec).state \in {"transferred", "complete"} =>
           rec.state \in {"transferred", "complete"}
  BY DEF TypeOK, Record, Claimed
<1>2. rec' = Claimed(rec) /\ file' = file /\ final' = final
  BY DEF Claim, TakeClaim
<1>3. CASE Claim(o)
  <2> DEFINE pc == IF rec.want = "run" THEN "begin" ELSE "honour"
             t == [Idle EXCEPT !.pc = pc, !.epoch = rec.epoch + 1, !.have = rec.proven,
                               !.seen = rec.val, !.resumed = rec.proven # {},
                               !.stop = rec.want]
  <2>1. own'[o] = t
    BY <1>3, Moved DEF Claim
  <2>2. pc \in {"begin", "honour"}
    OBVIOUS
  <2> HIDE DEF pc
  <2>3. t.pc = pc /\ t.epoch = rec.epoch + 1
    BY DEF Idle
  <2> HIDE DEF t
  <2> QED
    BY <1>1, <1>2, <2>1, <2>2, <2>3 DEF Trusted, SpeaksFor, InStream
<1>4. CASE TakeClaim(o)
  <2> DEFINE t == [Idle EXCEPT !.pc = "take", !.epoch = rec.epoch + 1]
  <2>1. own'[o] = t /\ rec.state = "transferred"
    BY <1>4, Moved DEF TakeClaim
  <2>2. t.pc = "take" /\ t.epoch = rec.epoch + 1
    BY DEF Idle
  <2> HIDE DEF t
  <2> QED
    BY <1>1, <1>2, <2>1, <2>2 DEF Trusted, SpeaksFor, InStream, DeliveredIntact
<1> QED
  BY <1>3, <1>4

LEMMA DigestInit == Init => DigestSpeaks
<1> SUFFICES ASSUME Init PROVE DigestSpeaks
  OBVIOUS
<1>1. TypeOK /\ Memory
  BY TypeInit
<1>2. rec.epoch = 0 /\ rec.state = "pending" /\ own = [o \in Owners |-> Idle]
  BY DEF Init
<1>3. Idle.pc = "idle" /\ Idle.epoch = 0
  BY DEF Idle
<1> QED
  BY <1>1, <1>2, <1>3 DEF DigestSpeaks, Epochs, Verified, RollingIsFile, DeliveredIntact,
                          SpeaksFor, InStream

\* A step of one owner leaves the memory of the others alone.
LEMMA OthersKept ==
  ASSUME TypeOK, NEW o \in Owners, Claim(o) \/ Running(o) \/ Taking(o)
  PROVE  \A p \in Owners \ {o} : own'[p] = own[p]
<1>1. \E s : Becomes(o, s)
  <2>1. CASE Claim(o) \/ Taking(o)
    BY <2>1 DEF Claim, Taking, TakeClaim, TakeComplete
  <2>2. CASE Begin(o) \/ Trim(o) \/ RecordPlan(o) \/ HashPrefix(o)
    BY <2>2 DEF Begin, Trim, RecordPlan, HashPrefix
  <2>3. CASE Fetching(o)
    BY <2>3 DEF Fetching, AskContinues, AskRestarts, RestartRecord, AskFails, Write,
                Report, BodyEnds, BodyDrops, NoticeStop, GapsDone
  <2>4. CASE Ending(o)
    BY <2>4, EndMoves DEF Moves
  <2> QED
    BY <2>1, <2>2, <2>3, <2>4 DEF Running
<1> QED
  BY <1>1, Moved

\* One owner moves.
LEMMA DigestStepOwner ==
  ASSUME ~Overtaken, DigestSpeaks, TypeOK', Memory', NEW o \in Owners,
         Claim(o) \/ Running(o) \/ Taking(o)
  PROVE  DigestSpeaks'
<1>1. TypeOK /\ Memory /\ Epochs /\ DeliveredIntact /\ Verified
  BY DEF DigestSpeaks
<1>2. \A p \in Owners : Latest(p) => Trusted(own[p], file, final)
  BY TrustedAll DEF DigestSpeaks
<1>3. \A p \in Owners : own[p] \in Owner /\ Sane(own[p]) /\ Sane(own'[p])
  BY <1>1 DEF TypeOK, Memory
<1>4. rec.epoch \in Nat /\ \A p \in Owners : own[p].epoch \in Nat
  BY <1>1, <1>3 DEF TypeOK, Record, Owner
<1>5. \A p \in Owners \ {o} : own'[p] = own[p]
  BY <1>1, OthersKept
<1>6. final' = final \/ final' = Artifact
  BY <1>1, FinalIntact
<1>7. CASE Claim(o) \/ TakeClaim(o)
  <2>1. /\ Trusted(own'[o], file', final')
        /\ own'[o].epoch = rec.epoch + 1 /\ rec'.epoch = rec.epoch + 1
        /\ rec'.state \in {"transferred", "complete"} =>
             rec.state \in {"transferred", "complete"}
    BY <1>1, <1>7, TrustedClaim
  <2>2. \A p \in Owners \ {o} : own'[p].epoch \in Nat /\ own'[p].epoch <= rec.epoch
    BY <1>1, <1>4, <1>5 DEF Epochs
  <2>3. Epochs'
    BY <1>1, <1>4, <1>5, <2>1, <2>2 DEF Epochs
  <2>4. \A p \in Owners : Latest(p)' => Trusted(own'[p], file', final')
    BY <1>4, <2>1, <2>2 DEF Latest
  <2>5. DeliveredIntact'
    BY <1>1, <1>6, <2>1 DEF DeliveredIntact
  <2> QED
    BY <2>3, <2>4, <2>5 DEF DigestSpeaks, Verified, RollingIsFile, Trusted
<1>8. CASE Running(o) \/ TakeComplete(o)
  <2>1. rec'.epoch = rec.epoch /\ own'[o].epoch \in {own[o].epoch, 0} /\ own[o].pc # "idle"
    BY <1>1, <1>8, EpochKept, OwnEpoch
  <2>2. Epochs'
    BY <1>1, <1>4, <1>5, <2>1 DEF Epochs
  <2>3. ASSUME NEW s, s.pc = "idle" PROVE Trusted(s, file', final')
    BY <2>3 DEF Trusted, SpeaksFor, InStream
  <2>4. Latest(o)' => Trusted(own'[o], file', final')
    <3>1. CASE own'[o].pc = "idle"
      BY <2>3, <3>1
    <3>2. CASE own'[o].pc # "idle"
      <4>1. own'[o].epoch = own[o].epoch
        BY <1>3, <2>1, <3>2 DEF Sane
      <4> QED
        BY <1>1, <1>2, <1>8, <2>1, <4>1, TrustedMover DEF Latest
    <3> QED
      BY <3>1, <3>2
  <2>5. ASSUME NEW p \in Owners \ {o}, Latest(p)'
        PROVE  Trusted(own'[p], file', final')
    <3>1. own'[p] = own[p] /\ Latest(p)
      BY <1>5, <2>1, <2>5 DEF Latest
    <3>2. CASE own[p].pc = "idle"
      BY <2>3, <3>1, <3>2
    <3>3. CASE own[p].pc # "idle"
      <4>1. own[o].epoch # 0 /\ own[p].epoch # 0
        BY <1>3, <2>1, <3>3 DEF Sane
      <4>2. ~Latest(o)
        BY <1>1, <3>1, <4>1 DEF Latest, Epochs
      <4>3. file' = file /\ final' = final
        BY <1>8, <4>2, FilesKept DEF Taking
      <4> QED
        BY <1>2, <3>1, <4>3
    <3> QED
      BY <3>2, <3>3
  <2>6. DeliveredIntact'
    BY <1>1, <1>6, <1>8, StateKept DEF DeliveredIntact, Verified
  <2> QED
    BY <2>2, <2>4, <2>5, <2>6 DEF DigestSpeaks, Verified, RollingIsFile, Trusted
<1> QED
  BY <1>7, <1>8 DEF Taking

\* No disturbance changes who claimed the record, its state or the destination.
LEMMA EnvironmentKeeps ==
  ASSUME TypeOK, Environment
  PROVE  /\ rec'.epoch = rec.epoch /\ rec'.state = rec.state /\ final' = final
         /\ \A o \in Owners : own'[o] = Idle \/ (own'[o] = own[o] /\ file' = file)
<1>1. CASE SetWant \/ Lapse \/ LapseDead
  BY <1>1 DEF TypeOK, Record, SetWant, Lapse, LapseDead
<1>2. CASE PowerLoss
  BY <1>2 DEF PowerLoss
<1>3. ASSUME NEW o \in Owners, Crash(o)
      PROVE  /\ rec' = rec /\ final' = final /\ file' = file
             /\ \A p \in Owners : own'[p] \in {Idle, own[p]}
  BY <1>3, Moved DEF Crash
<1> QED
  BY <1>1, <1>2, <1>3 DEF Environment

LEMMA DigestStepEnvironment ==
  ASSUME DigestSpeaks, TypeOK', Memory', Environment
  PROVE  DigestSpeaks'
<1>1. /\ rec'.epoch = rec.epoch /\ rec'.state = rec.state /\ final' = final
      /\ \A o \in Owners : own'[o] = Idle \/ (own'[o] = own[o] /\ file' = file)
  BY EnvironmentKeeps DEF DigestSpeaks
<1>2. Idle.pc = "idle" /\ Idle.epoch = 0
  BY DEF Idle
<1>3. \A o \in Owners : own[o].epoch \in Nat /\ rec.epoch \in Nat
  BY DEF DigestSpeaks, TypeOK, Owner, Record
<1>4. Epochs'
  BY <1>1, <1>2, <1>3 DEF DigestSpeaks, Epochs
<1>5. Verified' /\ RollingIsFile'
  BY <1>1, <1>2 DEF DigestSpeaks, Verified, RollingIsFile, Latest, SpeaksFor, InStream
<1>6. DeliveredIntact'
  BY <1>1 DEF DigestSpeaks, DeliveredIntact
<1> QED
  BY <1>4, <1>5, <1>6 DEF DigestSpeaks

LEMMA DigestStep ==
  ASSUME ~Overtaken
  PROVE  DigestSpeaks /\ [Next]_vars => DigestSpeaks'
<1> SUFFICES ASSUME DigestSpeaks, [Next]_vars PROVE DigestSpeaks'
  OBVIOUS
<1>1. TypeOK' /\ Memory'
  BY TypeStep DEF DigestSpeaks
<1>2. CASE UNCHANGED vars
  BY <1>1, <1>2 DEF vars, DigestSpeaks, Epochs, Verified, RollingIsFile, DeliveredIntact,
                    Latest
<1> QED
  BY <1>1, <1>2, DigestStepOwner, DigestStepEnvironment DEF Next

(***************************************************************************)
(* The digest decides (Runner.run and deliver): whatever owners, restarts, *)
(* stops, crashes and power losses came before, work reads transferred or  *)
(* complete only when the destination holds the artifact, provided that an *)
(* owner touches the file only while nobody has claimed the record since.  *)
(***************************************************************************)
THEOREM Intact ==
  ASSUME ~Overtaken
  PROVE  Spec => []DeliveredIntact
<1>1. DigestSpeaks => DeliveredIntact
  BY DEF DigestSpeaks
<1> QED
  BY <1>1, DigestInit, DigestStep, PTL DEF Spec

(***************************************************************************)
(* Why it does: at every point of a run the rolling digest of its stream   *)
(* is that of the file, and a digest that was found right is still right.  *)
(***************************************************************************)
THEOREM DigestTellsTheFile ==
  ASSUME ~Overtaken
  PROVE  Spec => []DigestSpeaks
<1> QED
  BY DigestInit, DigestStep, PTL DEF Spec

-----------------------------------------------------------------------------
(***************************************************************************)
(* The runners keep the promise of Promise: the refinement under Status    *)
(* and final = Artifact, where nobody runs a record no sweep would adopt   *)
(* (~ByName).                                                              *)
(***************************************************************************)

\* What a step of owner o does to the state of the record.
LEMMA StateMoves ==
  ASSUME TypeOK, NEW o \in Owners, Running(o) \/ TakeComplete(o)
  PROVE  \/ rec'.state = rec.state
         \/ /\ Holds(o) /\ own[o].pc = "mark" /\ own'[o].pc = "release"
            /\ rec'.state = "transferred"
         \/ /\ Holds(o) /\ own[o].pc \in {"honour", "fail"} /\ own'[o].pc = "release"
            /\ rec'.state \in {"cancelled", "failed"}
         \/ /\ Holds(o) /\ own'[o].pc = "idle"
            /\ rec.state = "running" /\ rec'.state = "pending"
         \/ /\ Holds(o) /\ own[o].pc = "take" /\ own'[o].pc = "idle"
            /\ rec'.state = "complete"
<1>1. rec \in Record /\ Idle.pc = "idle"
  BY DEF TypeOK, Idle
<1>2. \A f, p, v : /\ [rec EXCEPT !.failure = f].state = rec.state
                  /\ [rec EXCEPT !.proven = p, !.val = v].state = rec.state
  BY <1>1 DEF Record
<1>3. \A f, st : /\ [rec EXCEPT !.state = st, !.failure = f].state = st
                /\ [rec EXCEPT !.failure = f, !.state = st].state = st
                /\ [rec EXCEPT !.state = st].state = st
  BY <1>1 DEF Record
<1>4. CASE Begin(o) \/ RecordPlan(o)
  BY <1>2, <1>4, WriteKeepsState DEF Begin, RecordPlan
<1>5. CASE \/ Trim(o) \/ HashPrefix(o) \/ AskContinues(o) \/ AskRestarts(o) \/ AskFails(o)
           \/ Write(o) \/ BodyEnds(o) \/ BodyDrops(o) \/ NoticeStop(o) \/ GapsDone(o)
           \/ EndDigest(o) \/ Deliver(o) \/ RemovePartial(o) \/ Fence(o)
  BY <1>5 DEF Trim, HashPrefix, AskContinues, AskRestarts, AskFails, Write, BodyEnds,
              BodyDrops, NoticeStop, GapsDone, EndDigest, Deliver, RemovePartial, Fence
<1>6. CASE RestartRecord(o) \/ Report(o) \/ UnclaimBytes(o)
  BY <1>2, <1>6, WriteKeepsState DEF RestartRecord, Report, UnclaimBytes
<1>7. CASE EndStopped(o) \/ EndFailed(o) \/ EndWrongSize(o)
  BY <1>2, <1>7, WriteKeepsState DEF EndStopped, EndFailed, EndWrongSize, KeepProven
<1>8. CASE MarkTransferred(o) /\ Holds(o)
  <2> DEFINE r == [rec EXCEPT !.state = "transferred", !.proven = 1..Size,
                              !.val = own[o].seen, !.failure = FALSE]
  <2>1. Goes(o, "release") /\ rec' = r
    BY <1>8 DEF MarkTransferred, Writes, Goes
  <2>2. r.state = "transferred"
    BY <1>1 DEF Record
  <2> QED
    BY <1>8, <2>1, <2>2, GoesTo DEF MarkTransferred, PCs
<1>9. CASE Honour(o) /\ Holds(o)
  <2>1. Goes(o, "release")
    BY <1>9 DEF Honour, Goes
  <2> DEFINE r == [rec EXCEPT !.state = "cancelled", !.failure = FALSE]
  <2>2. own[o].pc = "honour" /\ (rec' = rec \/ rec' = r)
    BY <1>9 DEF Honour, Writes
  <2>3. r.state = "cancelled"
    BY <1>3
  <2> HIDE DEF r
  <2> QED
    BY <1>9, <2>1, <2>2, <2>3, GoesTo DEF PCs
<1>10. CASE RecordFailure(o) /\ Holds(o)
  <2> DEFINE st == IF own[o].err = "no" THEN "failed" ELSE rec.state
             r == [rec EXCEPT !.failure = TRUE, !.state = st]
  <2>1. Goes(o, "release") /\ rec' = r
    BY <1>10 DEF RecordFailure, Writes, Goes
  <2>2. r.state = st
    BY <1>3
  <2> QED
    BY <1>10, <2>1, <2>2, GoesTo DEF RecordFailure, PCs
<1>11. CASE Release(o) /\ Holds(o)
  <2>1. Released(rec).state = IF rec.state = "running" THEN "pending" ELSE rec.state
    BY <1>1 DEF Record, Released
  <2> QED
    BY <1>1, <1>11, <2>1, Moved DEF Release, Writes
<1>12. CASE TakeComplete(o) /\ Holds(o)
  BY <1>1, <1>3, <1>12, Moved DEF TakeComplete, Writes
<1>13. CASE /\ ~Holds(o)
            /\ \/ MarkTransferred(o) \/ Honour(o) \/ RecordFailure(o) \/ Release(o)
               \/ TakeComplete(o)
  BY <1>13 DEF MarkTransferred, Honour, RecordFailure, Release, TakeComplete, Writes
<1> QED
  BY <1>4, <1>5, <1>6, <1>7, <1>8, <1>9, <1>10, <1>11, <1>12, <1>13
  DEF Running, Fetching, Ending

-----------------------------------------------------------------------------
(* Where the record stands while somebody works on it.                      *)

\* The last step of an attempt, and of a takeover, leaves the owner idle.
LEMMA LastStep ==
  ASSUME TypeOK, NEW o \in Owners, Running(o) \/ TakeComplete(o),
         own[o].pc \in {"release", "take"}
  PROVE  own'[o].pc = "idle"
<1>1. Release(o) \/ TakeComplete(o)
  BY DEF Running, Fetching, Begin, Trim, RecordPlan, HashPrefix, CanAsk, AskContinues,
         AskRestarts, RestartRecord, AskFails, Write, Report, BodyEnds, BodyDrops,
         NoticeStop, GapsDone, Ending, EndStopped, EndFailed, EndWrongSize, EndDigest,
         Deliver, MarkTransferred, RemovePartial, UnclaimBytes, Honour, RecordFailure,
         Fence
<1> QED
  BY <1>1, Moved DEF Release, TakeComplete, Idle

\* Only an orphan is claimed to be run, and only delivered work to be taken.
LEMMA OwingClaim ==
  ASSUME ~ByName, TypeOK, NEW o \in Owners, Claim(o) \/ TakeClaim(o)
  PROVE  /\ Claim(o) => /\ rec.state \in {"pending", "running"} /\ rec'.state = "running"
                        /\ own'[o].pc # "take"
         /\ TakeClaim(o) => /\ rec.state = "transferred" /\ rec'.state = "transferred"
                            /\ own'[o].pc = "take"
<1>1. rec' = Claimed(rec) /\ rec \in Record
  BY DEF Claim, TakeClaim, TypeOK
<1>2. Claimed(rec).state = IF rec.state = "pending" THEN "running" ELSE rec.state
  BY <1>1 DEF Claimed, Record
<1>3. ASSUME Claim(o)
      PROVE  rec.state \in {"pending", "running"} /\ own'[o].pc # "take"
  <2> DEFINE pc == IF rec.want = "run" THEN "begin" ELSE "honour"
             t == [Idle EXCEPT !.pc = pc, !.epoch = rec.epoch + 1, !.have = rec.proven,
                               !.seen = rec.val, !.resumed = rec.proven # {},
                               !.stop = rec.want]
  <2>1. own'[o] = t /\ Orphan(rec)
    BY <1>3, Moved DEF Claim, Adopts
  <2>2. pc # "take"
    OBVIOUS
  <2> HIDE DEF pc
  <2>3. t.pc = pc
    BY DEF Idle
  <2> HIDE DEF t
  <2> QED
    BY <2>1, <2>2, <2>3 DEF Orphan
<1>4. ASSUME TakeClaim(o) PROVE rec.state = "transferred" /\ own'[o].pc = "take"
  <2> DEFINE t == [Idle EXCEPT !.pc = "take", !.epoch = rec.epoch + 1]
  <2>1. own'[o] = t /\ rec.state = "transferred"
    BY <1>4, Moved DEF TakeClaim
  <2>2. t.pc = "take"
    BY DEF Idle
  <2> HIDE DEF t
  <2> QED
    BY <2>1, <2>2
<1> QED
  BY <1>1, <1>2, <1>3, <1>4

LEMMA OwingStepOwner ==
  ASSUME ~ByName, ~Overtaken, DigestSpeaks, Owing, Memory', NEW o \in Owners,
         Claim(o) \/ Running(o) \/ Taking(o)
  PROVE  Owing'
<1>1. TypeOK /\ Memory /\ Epochs /\ DeliveredIntact
  BY DEF DigestSpeaks
<1>2. \A p \in Owners : own[p] \in Owner /\ Sane(own[p]) /\ Sane(own'[p])
  BY <1>1 DEF TypeOK, Memory
<1>3. rec.epoch \in Nat /\ \A p \in Owners : own[p].epoch \in Nat
  BY <1>1, <1>2 DEF TypeOK, Record, Owner
<1>4. \A p \in Owners \ {o} : own'[p] = own[p]
  BY <1>1, OthersKept
<1>5. CASE Claim(o) \/ TakeClaim(o)
  <2>1. rec'.epoch = rec.epoch + 1
    BY <1>1, <1>5, TrustedClaim
  <2>2. \A p \in Owners \ {o} : ~Latest(p)'
    BY <1>1, <1>3, <1>4, <2>1 DEF Latest, Epochs
  <2> QED
    BY <1>1, <1>5, <2>2, OwingClaim DEF Owing
<1>6. CASE Running(o) \/ TakeComplete(o)
  <2>1. rec'.epoch = rec.epoch /\ own'[o].epoch \in {own[o].epoch, 0} /\ own[o].pc # "idle"
    BY <1>1, <1>6, EpochKept, OwnEpoch
  <2>2. own'[o].pc # "take"
    BY <1>1, <1>6, OwnEpoch, EndLeaves
  <2>3. ASSUME Latest(o)', own'[o].pc \notin {"idle", "release"}
        PROVE  rec'.state = "running"
    <3>1. own'[o].epoch = own[o].epoch
      BY <1>2, <2>1, <2>3 DEF Sane
    <3>2. Latest(o)
      BY <2>1, <2>3, <3>1 DEF Latest
    <3>3. own[o].pc \notin {"idle", "release", "take"}
      BY <1>1, <1>6, <2>1, <2>3, LastStep
    <3>4. rec.state = "running"
      BY <3>2, <3>3 DEF Owing
    <3> QED
      BY <1>1, <1>6, <2>3, <3>4, StateMoves
  <2>4. ASSUME NEW p \in Owners \ {o}, Latest(p)', own'[p].pc # "idle"
        PROVE  /\ own'[p].pc \notin {"release", "take"} => rec'.state = "running"
               /\ own'[p].pc = "take" => rec'.state = "transferred"
    <3>1. own'[p] = own[p] /\ Latest(p)
      BY <1>4, <2>1, <2>4 DEF Latest
    <3>2. own[o].epoch # 0 /\ own[p].epoch # 0
      BY <1>2, <2>1, <2>4, <3>1 DEF Sane
    <3>3. ~Latest(o)
      BY <1>1, <3>1, <3>2 DEF Latest, Epochs
    <3>4. ~Holds(o)
      BY <3>3 DEF Holds, Accepts, Latest
    <3>5. rec'.state = rec.state
      BY <1>1, <1>6, <3>4, StateMoves
    <3> QED
      BY <2>4, <3>1, <3>5 DEF Owing
  <2> QED
    BY <2>2, <2>3, <2>4 DEF Owing
<1> QED
  BY <1>5, <1>6 DEF Taking

LEMMA OwingStep ==
  ASSUME ~ByName, ~Overtaken
  PROVE  DigestSpeaks /\ Owing /\ [Next]_vars => Owing'
<1> SUFFICES ASSUME DigestSpeaks, Owing, [Next]_vars PROVE Owing'
  OBVIOUS
<1>1. TypeOK /\ Memory'
  BY TypeStep DEF DigestSpeaks
<1>2. CASE UNCHANGED vars
  BY <1>2 DEF vars, Owing, Latest
<1>3. CASE Environment
  <2>1. /\ rec'.epoch = rec.epoch /\ rec'.state = rec.state
        /\ \A o \in Owners : own'[o] \in {Idle, own[o]}
    BY <1>1, <1>3, EnvironmentKeeps
  <2> QED
    BY <2>1 DEF Owing, Latest, Idle
<1> QED
  BY <1>1, <1>2, <1>3, OwingStepOwner DEF Next

-----------------------------------------------------------------------------
(* The refinement.                                                          *)

\* How the state of the record reads as a status.
LEMMA StatusOf ==
  /\ rec.state \in {"pending", "running"} => Status = "owed"
  /\ rec.state = "transferred" => Status = "delivered"
  /\ rec.state = "complete" => Status = "accepted"
  /\ rec.state \in {"failed", "cancelled"} => Status = rec.state
BY DEF Status

LEMMA StatusNext ==
  /\ rec'.state \in {"pending", "running"} => Status' = "owed"
  /\ rec'.state = "transferred" => Status' = "delivered"
  /\ rec'.state = "complete" => Status' = "accepted"
  /\ rec'.state \in {"failed", "cancelled"} => Status' = rec'.state
BY DEF Status

LEMMA PromiseInit == Init => P!Init
<1> SUFFICES ASSUME Init PROVE P!Init
  OBVIOUS
<1>1. rec.state = "pending" /\ final = Empty
  BY DEF Init
<1>2. Status = "owed"
  BY <1>1, TypeInit, StatusOf
<1>3. Empty # Artifact
  <2>1. Size \in Chunk /\ Empty[Size] = Hole
    BY ChunkType DEF Empty
  <2>2. Artifact[Size] = Wanted
    BY <2>1, ChunkType DEF Artifact
  <2> QED
    BY <2>1, <2>2, RunnerAssumption
<1> QED
  BY <1>1, <1>2, <1>3 DEF P!Init

\* A step of one owner is a step of the promise, or none.
LEMMA PromiseStepOwner ==
  ASSUME ~ByName, ~Overtaken, DigestSpeaks, Owing, TypeOK', NEW o \in Owners,
         Claim(o) \/ Running(o) \/ Taking(o)
  PROVE  P!Next \/ UNCHANGED <<Status, final = Artifact>>
<1>1. TypeOK /\ Memory /\ Verified /\ DeliveredIntact
  BY DEF DigestSpeaks
<1>2. CASE Deliver(o)
  <2>1. Latest(o) /\ own[o].pc = "deliver" /\ rec' = rec
    BY <1>2, TouchesLatest DEF Deliver
  <2>2. rec.state = "running"
    BY <2>1 DEF Owing
  <2>3. Status = "owed" /\ Status' = "owed"
    BY <1>1, <2>1, <2>2, StatusOf, StatusNext
  <2> QED
    BY <2>3 DEF P!Next, P!Place
<1>3. CASE ~Deliver(o)
  <2>1. final' = final
    BY <1>3, FinalMoves
  <2>2. CASE Claim(o) \/ TakeClaim(o)
    BY <1>1, <2>1, <2>2, OwingClaim, StatusOf, StatusNext
  <2>3. CASE Running(o) \/ TakeComplete(o)
    <3>1. CASE rec'.state = rec.state
      <4>1. Status' = Status
        BY <3>1 DEF Status
      <4> QED
        BY <2>1, <4>1
    <3>2. CASE Holds(o) /\ own[o].pc = "mark" /\ rec'.state = "transferred"
      <4>1. Latest(o)
        BY <3>2 DEF Holds, Accepts, Latest
      <4>2. rec.state = "running" /\ final = Artifact
        BY <1>1, <3>2, <4>1 DEF Owing, Verified
      <4>3. Status = "owed" /\ Status' = "delivered"
        BY <1>1, <3>2, <4>2, StatusOf, StatusNext
      <4> QED
        BY <2>1, <4>2, <4>3 DEF P!Next, P!Deliver
    <3>3. CASE Holds(o) /\ own[o].pc \in {"honour", "fail"} /\ rec'.state \in {"cancelled", "failed"}
      <4>1. Latest(o)
        BY <3>3 DEF Holds, Accepts, Latest
      <4>2. rec.state = "running"
        BY <3>3, <4>1 DEF Owing
      <4>3. Status = "owed" /\ Status' \in {"failed", "cancelled"}
        BY <1>1, <3>3, <4>2, StatusOf, StatusNext
      <4> QED
        BY <2>1, <4>3 DEF P!Next, P!GiveUp
    <3>4. CASE rec.state = "running" /\ rec'.state = "pending"
      BY <1>1, <2>1, <3>4, StatusOf, StatusNext
    <3>5. CASE Holds(o) /\ own[o].pc = "take" /\ rec'.state = "complete"
      <4>1. Latest(o)
        BY <3>5 DEF Holds, Accepts, Latest
      <4>2. rec.state = "transferred"
        BY <3>5, <4>1 DEF Owing
      <4>3. Status = "delivered" /\ Status' = "accepted"
        BY <1>1, <3>5, <4>2, StatusOf, StatusNext
      <4> QED
        BY <2>1, <4>3 DEF P!Next, P!Accept
    <3> QED
      BY <1>1, <2>3, <3>1, <3>2, <3>3, <3>4, <3>5, StateMoves
  <2> QED
    BY <2>2, <2>3 DEF Taking
<1> QED
  BY <1>2, <1>3

LEMMA PromiseStep ==
  ASSUME ~ByName, ~Overtaken
  PROVE  DigestSpeaks /\ Owing /\ [Next]_vars => [P!Next]_(P!promise)
<1> SUFFICES ASSUME DigestSpeaks, Owing, [Next]_vars
             PROVE  P!Next \/ UNCHANGED <<Status, final = Artifact>>
  BY DEF P!promise
<1>1. TypeOK /\ TypeOK'
  BY TypeStep DEF DigestSpeaks
<1>2. CASE UNCHANGED vars
  BY <1>2 DEF vars, Status
<1>3. CASE Environment
  BY <1>1, <1>3, EnvironmentKeeps DEF Status
<1> QED
  BY <1>1, <1>2, <1>3, PromiseStepOwner DEF Next

(***************************************************************************)
(* The runners keep the promise: work is delivered once, with the artifact *)
(* at its destination, and from then on it is only ever accepted, whatever *)
(* owners, restarts, stops and crashes the record goes through, provided   *)
(* that only orphans are run and that an owner touches the file only while *)
(* nobody has claimed the record since.                                    *)
(***************************************************************************)
THEOREM KeepsPromise ==
  ASSUME ~ByName, ~Overtaken
  PROVE  Spec => PromiseKept
<1>1. Init => DigestSpeaks /\ Owing
  <2>1. Init => Owing
    BY DEF Init, Owing, Idle
  <2> QED
    BY <2>1, DigestInit
<1>2. DigestSpeaks /\ Owing /\ [Next]_vars => DigestSpeaks' /\ Owing'
  BY DigestStep, OwingStep
<1> QED
  BY <1>1, <1>2, PromiseInit, PromiseStep, PTL DEF Spec, PromiseKept, P!Spec

-----------------------------------------------------------------------------
(***************************************************************************)
(* What the record claims is so and is not forgotten: ClaimsAgree, beside  *)
(* DigestSpeaks, through every step.                                       *)
(***************************************************************************)

\* Chunks from the first on, with none left out, are a prefix.
LEMMA DownwardClosed ==
  ASSUME NEW have \in SUBSET Chunk, \A c \in have : 1..c \subseteq have
  PROVE  \E k \in 0..MaxLen : have = 1..k
<1> DEFINE T == {k \in 0..MaxLen : k + 1 \notin have}
<1>1. MaxLen \in T /\ T \subseteq Nat
  BY ChunkType DEF Chunk
<1>2. PICK k \in T : \A j \in T : k <= j
  BY <1>1, Least
<1>3. k \in 0..MaxLen /\ k + 1 \notin have
  OBVIOUS
<1>4. \A c \in have : c \in 1..k
  <2> SUFFICES ASSUME NEW c \in have, c >= k + 1 PROVE FALSE
    BY <1>3, ChunkType DEF Chunk
  <2>1. k + 1 \in 1..c
    BY <1>3, ChunkType DEF Chunk
  <2> QED
    BY <1>3, <2>1
<1>5. \A c \in 1..k : c \in have
  <2> SUFFICES ASSUME NEW c \in 1..k, c \notin have PROVE FALSE
    OBVIOUS
  <2>1. c - 1 \in 0..MaxLen /\ (c - 1) + 1 = c /\ c - 1 < k
    BY <1>3, ChunkType
  <2>2. c - 1 \in T
    BY <2>1
  <2> QED
    BY <1>2, <1>3, <2>1, <2>2
<1>6. have = 1..k
  BY <1>4, <1>5
<1> QED
  BY <1>3, <1>6

\* Behind a prefix there is one open gap, or none.
LEMMA PrefixPlan ==
  ASSUME NEW k \in 0..MaxLen
  PROVE  \/ GapsFor(1..k) = {}
         \/ GapsFor(1..k) = {[from |-> k + 1, to |-> 0]}
<1>1. \A d \in Nat \ {0} : d \notin 1..k /\ (d = 1 \/ d - 1 \in 1..k) => d = k + 1
  BY ChunkType
<1>2. CASE \E c \in 1..k : c > Size
  <2>1. \A d \in 1..(MaxLen + 1) : d \notin 1..k /\ 1..(d - 1) \subseteq 1..k => d = k + 1
    <3> SUFFICES ASSUME NEW d \in 1..(MaxLen + 1), d \notin 1..k, 1..(d - 1) \subseteq 1..k
                 PROVE  d = k + 1
      OBVIOUS
    <3>1. d # 1 => d - 1 \in 1..(d - 1)
      BY ChunkType
    <3> QED
      BY <1>1, <3>1, ChunkType
  <2>2. GapsFor(1..k) \subseteq {[from |-> k + 1, to |-> 0]}
    BY <1>2, <2>1 DEF GapsFor
  <2> QED
    BY <2>2
<1>3. CASE ~ \E c \in 1..k : c > Size
  <2>1. GapEnd(1..k, k + 1) = 0
    BY ChunkType DEF GapEnd
  <2>2. \A d \in 1..Size : d \notin 1..k /\ (d = 1 \/ d - 1 \in 1..k) => d = k + 1
    BY <1>1, ChunkType
  <2>3. GapsFor(1..k) \subseteq {[from |-> k + 1, to |-> 0]}
    BY <1>3, <2>1, <2>2 DEF GapsFor
  <2> QED
    BY <2>3
<1> QED
  BY <1>2, <1>3

LEMMA PrefixOfPrefix ==
  ASSUME NEW k \in 0..MaxLen
  PROVE  Prefix(1..k) = 1..k
BY ChunkType DEF Prefix

-----------------------------------------------------------------------------
(* What a step writes.                                                      *)

\* The record claims p of version v now.
Claims(p, v) == rec'.proven = p /\ rec'.val = v

LEMMA ClaimWritten ==
  ASSUME TypeOK, NEW o \in Owners, Holds(o), NEW p, NEW v,
         Writes(o, [rec EXCEPT !.proven = p, !.val = v])
  PROVE  Claims(p, v)
BY DEF TypeOK, Record, Writes, Claims

\* What becomes of the claim: the writes there are, each of the holder's.
LEMMA ClaimMoves ==
  ASSUME TypeOK, NEW o \in Owners, Running(o) \/ TakeComplete(o)
  PROVE  \/ Claims(rec.proven, rec.val)
         \/ /\ Holds(o)
            /\ \/ RecordPlan(o) /\ Claims(own[o].have, own[o].seen)
               \/ (RestartRecord(o) \/ UnclaimBytes(o)) /\ Claims({}, None)
               \/ Report(o) /\ Claims(Folded(o), own[o].seen)
               \/ EndStopped(o) /\ Claims(own[o].have, own[o].seen)
               \/ /\ EndFailed(o) \/ EndWrongSize(o)
                  /\ ~(Cardinality(rec.proven) >= Cardinality(Prefix(own[o].have)))
                  /\ Claims(Prefix(own[o].have), own[o].seen)
               \/ MarkTransferred(o) /\ Claims(1..Size, own[o].seen)
<1>1. rec \in Record
  BY DEF TypeOK
<1>2. \A st, f : /\ [rec EXCEPT !.failure = f].proven = rec.proven
                /\ [rec EXCEPT !.failure = f].val = rec.val
                /\ [rec EXCEPT !.state = st].proven = rec.proven
                /\ [rec EXCEPT !.state = st].val = rec.val
                /\ [rec EXCEPT !.state = st, !.failure = f].proven = rec.proven
                /\ [rec EXCEPT !.state = st, !.failure = f].val = rec.val
                /\ [rec EXCEPT !.failure = f, !.state = st].proven = rec.proven
                /\ [rec EXCEPT !.failure = f, !.state = st].val = rec.val
  BY <1>1 DEF Record
<1>3. Released(rec).proven = rec.proven /\ Released(rec).val = rec.val
  BY <1>1 DEF Record, Released
<1>4. CASE UNCHANGED rec
  BY <1>4 DEF Claims
<1>5. CASE ~Holds(o)
  <2>1. \A r : Writes(o, r) => rec' = rec
    BY <1>5 DEF Writes
  <2>2. CASE TakeComplete(o) \/ Begin(o) \/ Trim(o) \/ RecordPlan(o) \/ HashPrefix(o)
    BY <1>4, <2>1, <2>2 DEF TakeComplete, Begin, Trim, RecordPlan, HashPrefix
  <2>3. CASE Fetching(o)
    BY <1>4, <2>1, <2>3 DEF Fetching, AskContinues, AskRestarts, RestartRecord, AskFails,
         Write, Report, BodyEnds, BodyDrops, NoticeStop, GapsDone
  <2>4. CASE Ending(o)
    BY <1>4, <2>1, <2>4 DEF Ending, EndStopped, EndFailed, EndWrongSize, EndDigest, Deliver,
         MarkTransferred, RemovePartial, UnclaimBytes, Honour, RecordFailure, Release, Fence
  <2> QED
    BY <2>2, <2>3, <2>4 DEF Running
<1>6. CASE Holds(o)
  <2>1. CASE Begin(o)
    BY <1>2, <1>6, <2>1 DEF Begin, Writes, Claims
  <2>2. CASE RecordPlan(o)
    BY <1>4, <1>6, <2>2, ClaimWritten DEF RecordPlan
  <2>3. CASE RestartRecord(o) \/ UnclaimBytes(o)
    BY <1>6, <2>3, ClaimWritten DEF RestartRecord, UnclaimBytes
  <2>4. CASE Report(o)
    BY <1>6, <2>4, ClaimWritten DEF Report
  <2>5. CASE EndStopped(o)
    BY <1>4, <1>6, <2>5, ClaimWritten DEF EndStopped
  <2>6. CASE EndFailed(o) \/ EndWrongSize(o)
    <3>1. Writes(o, KeepProven(rec, own[o].have, own[o].seen))
      BY <2>6 DEF EndFailed, EndWrongSize
    <3>2. CASE Cardinality(rec.proven) >= Cardinality(Prefix(own[o].have))
      BY <1>4, <3>1, <3>2 DEF KeepProven, Writes
    <3>3. CASE ~(Cardinality(rec.proven) >= Cardinality(Prefix(own[o].have)))
      <4>1. Writes(o, [rec EXCEPT !.proven = Prefix(own[o].have), !.val = own[o].seen])
        BY <3>1, <3>3 DEF KeepProven
      <4> QED
        BY <1>6, <2>6, <3>3, <4>1, ClaimWritten
    <3> QED
      BY <3>2, <3>3
  <2>7. CASE MarkTransferred(o)
    <3> DEFINE r == [rec EXCEPT !.state = "transferred", !.proven = 1..Size,
                                !.val = own[o].seen, !.failure = FALSE]
    <3>1. rec' = r
      BY <1>6, <2>7 DEF MarkTransferred, Writes
    <3>2. r.proven = 1..Size /\ r.val = own[o].seen
      BY <1>1 DEF Record
    <3> QED
      BY <1>6, <2>7, <3>1, <3>2 DEF Claims
  <2>8. CASE Honour(o) \/ TakeComplete(o)
    <3> DEFINE r == [rec EXCEPT !.state = "cancelled", !.failure = FALSE]
               q == [rec EXCEPT !.state = "complete"]
    <3>1. rec' \in {rec, r, q}
      BY <2>8 DEF Honour, TakeComplete, Writes
    <3>2. /\ r.proven = rec.proven /\ r.val = rec.val
          /\ q.proven = rec.proven /\ q.val = rec.val
      BY <1>2
    <3> HIDE DEF r, q
    <3> QED
      BY <3>1, <3>2 DEF Claims
  <2>13. CASE Release(o)
    BY <1>3, <1>6, <2>13 DEF Release, Writes, Claims
  <2>9. CASE RecordFailure(o)
    BY <1>2, <1>6, <2>9 DEF RecordFailure, Writes, Claims
  <2>10. CASE Trim(o) \/ HashPrefix(o)
    BY <1>4, <2>10 DEF Trim, HashPrefix
  <2>11. CASE \/ AskContinues(o) \/ AskRestarts(o) \/ AskFails(o) \/ Write(o) \/ BodyEnds(o)
              \/ BodyDrops(o) \/ NoticeStop(o) \/ GapsDone(o)
    BY <1>4, <2>11 DEF AskContinues, AskRestarts, AskFails, Write, BodyEnds, BodyDrops,
                       NoticeStop, GapsDone
  <2>12. CASE EndDigest(o) \/ Deliver(o) \/ RemovePartial(o) \/ Fence(o)
    BY <1>4, <2>12 DEF EndDigest, Deliver, RemovePartial, Fence
  <2> QED
    BY <2>1, <2>2, <2>3, <2>4, <2>5, <2>6, <2>7, <2>8, <2>9, <2>10, <2>11, <2>12, <2>13
    DEF Running, Fetching, Ending
<1> QED
  BY <1>5, <1>6

\* What becomes of the partial file; a sync makes the disk what the file is.
LEMMA FileMoves ==
  ASSUME NEW o \in Owners, Running(o) \/ Taking(o) \/ Claim(o)
  PROVE  \/ file' = file /\ disk' \in {disk, file}
         \/ Trim(o) \/ Write(o)
         \/ /\ AskRestarts(o) \/ Deliver(o) \/ RemovePartial(o)
            /\ file' = Empty /\ disk' = Empty /\ rec' = rec
<1>1. CASE \/ Claim(o) \/ Begin(o) \/ RecordPlan(o) \/ HashPrefix(o) \/ Taking(o)
  BY <1>1 DEF Claim, Begin, RecordPlan, HashPrefix, Taking, TakeClaim, TakeComplete
<1>2. CASE Fetching(o)
  BY <1>2 DEF Fetching, AskContinues, AskRestarts, RestartRecord, AskFails, Report,
              BodyEnds, BodyDrops, NoticeStop, GapsDone
<1>3. CASE Ending(o)
  BY <1>3 DEF Ending, EndStopped, EndFailed, EndWrongSize, EndDigest, Deliver,
              MarkTransferred, RemovePartial, UnclaimBytes, Honour, RecordFailure, Release,
              Fence
<1> QED
  BY <1>1, <1>2, <1>3 DEF Running

\* An owner that lost the lease writes nothing.
LEMMA RefusedKeeps ==
  ASSUME NEW o \in Owners, Running(o) \/ TakeComplete(o), ~Holds(o)
  PROVE  rec' = rec
<1>1. \A r : Writes(o, r) => rec' = rec
  BY DEF Writes
<1>2. CASE TakeComplete(o) \/ Begin(o) \/ Trim(o) \/ RecordPlan(o) \/ HashPrefix(o)
  BY <1>1, <1>2 DEF TakeComplete, Begin, Trim, RecordPlan, HashPrefix
<1>3. CASE Fetching(o)
  BY <1>1, <1>3 DEF Fetching, AskContinues, AskRestarts, RestartRecord, AskFails,
       Write, Report, BodyEnds, BodyDrops, NoticeStop, GapsDone
<1>4. CASE Ending(o)
  BY <1>1, <1>4 DEF Ending, EndStopped, EndFailed, EndWrongSize, EndDigest, Deliver,
       MarkTransferred, RemovePartial, UnclaimBytes, Honour, RecordFailure, Release, Fence
<1> QED
  BY <1>2, <1>3, <1>4 DEF Running

-----------------------------------------------------------------------------
(* What the owner has is the start of one version, step by step.            *)

\* The conditions of ClaimsAgree on the memory s of one owner.
Agrees(s, r, f) == OfOneVersion(s, f) /\ Abreast(s, r, f)

LEMMA AgreesTrim ==
  ASSUME TypeOK, RecordClaims, VersionOfProven, NEW o \in Owners,
         Agrees(own[o], rec, file), Trim(o)
  PROVE  Agrees(own'[o], rec', file')
<1> DEFINE have == Clip(own[o].have, file)
           s == [own[o] EXCEPT
                   !.pc = "planned", !.have = have, !.gaps = GapsFor(have),
                   !.seen = IF have = {} THEN None ELSE @,
                   !.kept = have # {},
                   !.rolling = OneStream(have, GapsFor(have))]
<1>1. own[o] \in Owner /\ own[o].pc = "plan" /\ rec' = rec
  BY DEF TypeOK, Trim
<1>2. own'[o] = s /\ file' = TrimTo(file, have)
  <2>1. Becomes(o, s) /\ file' = TrimTo(file, have)
    BY DEF Trim
  <2> QED
    BY <2>1, Moved
<1>3. /\ s.pc = "planned" /\ s.have = have /\ s.gaps = GapsFor(have)
      /\ have # {} => s.seen = own[o].seen
  BY <1>1 DEF Owner
<1>4. own[o].have = rec.proven /\ own[o].seen = rec.val
  BY <1>1 DEF Agrees, Abreast
<1>5. PICK n \in 0..MaxLen : rec.proven = 1..n
  BY DEF RecordClaims
<1>6. have = {c \in rec.proven : Reaches(file, c)} /\ have \in SUBSET Chunk
  BY <1>1, <1>4 DEF Clip, Owner
<1>7. \A c \in have : 1..c \subseteq have
  BY <1>5, <1>6, ChunkType DEF Reaches, Chunk
<1>8. PICK k \in 0..MaxLen : have = 1..k
  BY <1>6, <1>7, DownwardClosed
<1> HIDE DEF s, have
<1>9. GapsFor(have) = {} \/ GapsFor(have) = {[from |-> k + 1, to |-> 0]}
  BY <1>8, PrefixPlan
<1>10. [from |-> k + 1, to |-> 0] \in Gap
  BY ChunkType DEF Gap
<1>11. SingleStream(s)
  BY <1>3, <1>8, <1>9, <1>10 DEF SingleStream
<1>12. \A c \in have : file'[c] = file[c]
  BY <1>2, <1>6, ChunkType DEF TrimTo
<1>13. have # {} => rec.val \in Versions /\ rec.val # None
  BY <1>6, RunnerAssumption DEF RecordClaims
<1>14. \A c \in have : file[c] = rec.val
  BY <1>6, <1>13 DEF VersionOfProven
<1>15. OfOneVersion(s, file')
  BY <1>3, <1>4, <1>11, <1>12, <1>13, <1>14 DEF OfOneVersion
<1>16. \A c \in rec.proven \ have : file'[c] = Hole
  <2> SUFFICES ASSUME NEW c \in rec.proven, c \notin have PROVE file'[c] = Hole
    OBVIOUS
  <2>1. c \in Chunk
    BY <1>5, ChunkType DEF Chunk
  <2>2. \A d \in have : ~(d >= c)
    BY <1>8, <2>1, ChunkType DEF Chunk
  <2> QED
    BY <1>2, <2>1, <2>2 DEF TrimTo
<1>17. Abreast(s, rec, file')
  BY <1>3, <1>6, <1>16 DEF Abreast
<1> QED
  BY <1>1, <1>2, <1>15, <1>17 DEF Agrees

LEMMA AgreesPlan ==
  ASSUME TypeOK, NEW o \in Owners, Agrees(own[o], rec, file), RecordPlan(o) \/ HashPrefix(o)
  PROVE  Agrees(own'[o], rec', file')
<1>1. own[o] \in Owner /\ file' = file /\ own[o].pc \in {"planned", "hash"}
  BY DEF TypeOK, RecordPlan, HashPrefix
<1>2. \/ own'[o].pc = "fail"
      \/ /\ own'[o].pc \in {"hash", "gap"} /\ own'[o].have = own[o].have
         /\ own'[o].gaps = own[o].gaps /\ own'[o].seen = own[o].seen
  <2>1. CASE RecordPlan(o)
    <3> DEFINE pc == IF own[o].rolling /\ own[o].have # {} THEN "hash" ELSE "gap"
               s == [own[o] EXCEPT !.pc = pc, !.left = Sources]
    <3>1. own'[o] = s
      BY <2>1, Moved DEF RecordPlan
    <3>2. pc \in {"hash", "gap"}
      OBVIOUS
    <3> HIDE DEF pc
    <3> QED
      BY <1>1, <3>1, <3>2 DEF Owner
  <2>2. CASE HashPrefix(o)
    <3> DEFINE b == \A c \in own[o].have : file[c] = Wanted
               s == [own[o] EXCEPT !.pc = "gap", !.clean = b]
               t == [own[o] EXCEPT !.pc = "fail", !.err = "later"]
    <3>1. own'[o] = s \/ own'[o] = t
      BY <2>2, Moved DEF HashPrefix
    <3> HIDE DEF b
    <3> QED
      BY <1>1, <3>1 DEF Owner
  <2> QED
    BY <2>1, <2>2
<1>3. OfOneVersion(own'[o], file')
  BY <1>1, <1>2 DEF Agrees, OfOneVersion, SingleStream, InStream
<1>4. Abreast(own'[o], rec', file')
  BY <1>2 DEF Abreast
<1> QED
  BY <1>3, <1>4 DEF Agrees

LEMMA AgreesAsk ==
  ASSUME Strong = Versions, TypeOK, Memory, NEW o \in Owners, Agrees(own[o], rec, file),
         AskContinues(o) \/ AskRestarts(o) \/ RestartRecord(o) \/ AskFails(o)
  PROVE  Agrees(own'[o], rec', file')
<1>1. own[o] \in Owner /\ Sane(own[o]) /\ \A v \in Versions : Observed(v) = v
  BY DEF TypeOK, Memory, Observed
<1>2. CASE AskContinues(o)
  <2> DEFINE g == Current(own[o].gaps)
             t(v) == [own[o] EXCEPT !.pc = "body", !.at = g.from, !.src = v,
                                    !.seen = Observed(v)]
  <2>1. PICK v \in Versions : /\ CanAsk(o) /\ Becomes(o, t(v)) /\ file' = file
                              /\ Ranged(g) => own[o].seen \in {None, v}
    BY <1>2 DEF AskContinues
  <2>2. own'[o] = t(v) /\ own[o].pc = "gap" /\ own[o].gaps # {}
    BY <2>1, Moved DEF CanAsk
  <2> DEFINE s == t(v)
  <2>3. /\ s.pc = "body" /\ s.at = g.from /\ s.have = own[o].have
        /\ s.gaps = own[o].gaps /\ s.src = v /\ s.seen = v
    BY <1>1 DEF Owner
  <2> HIDE DEF s, t, g
  <2>4. PICK k \in 0..MaxLen, h \in Gap :
          /\ own[o].have = 1..k /\ own[o].gaps = {h} /\ h.to = 0 /\ h.from = k + 1
    BY <2>2 DEF Agrees, OfOneVersion, SingleStream, InStream
  <2>5. g = h
    BY <1>1, <2>2, <2>4, ServedGap DEF Owner, g
  <2>6. g.from = k + 1 /\ k < g.from /\ 1..(g.from - 1) = 1..k
    BY <2>4, <2>5, ChunkType
  <2>7. SingleStream(s) /\ Streamed(s) = own[o].have
    BY <2>3, <2>4, <2>5, <2>6, ChunkType DEF SingleStream, Streamed
  \* Behind proven bytes the request named their version, and was answered so.
  <2>8. own[o].have # {} => own[o].seen = v
    <3>1. own[o].have # {} => k >= 1
      BY <2>4, ChunkType
    <3>2. own[o].have # {} => Ranged(g)
      BY <2>6, <3>1, ChunkType DEF Ranged
    <3>3. own[o].have # {} => own[o].seen \in Versions
      BY <2>2 DEF Agrees, OfOneVersion, InStream
    <3> QED
      BY <2>1, <3>2, <3>3, RunnerAssumption
  <2>9. \A c \in own[o].have : file[c] = v
    BY <2>2, <2>8 DEF Agrees, OfOneVersion, InStream
  <2>10. OfOneVersion(s, file)
    BY <2>3, <2>7, <2>9 DEF OfOneVersion
  <2>11. Abreast(s, rec', file')
    BY <2>3 DEF Abreast
  <2> QED
    BY <2>1, <2>2, <2>10, <2>11 DEF Agrees, s
<1>3. CASE AskRestarts(o)
  <2> DEFINE t(v) == [own[o] EXCEPT !.pc = "restart", !.have = {}, !.seen = None,
                                    !.gaps = {Whole}, !.clean = TRUE,
                                    !.src = v, !.kept = FALSE]
  <2>1. PICK v \in Versions : Becomes(o, t(v)) /\ file' = Empty
    BY <1>3 DEF AskRestarts
  <2> DEFINE s == t(v)
  <2>2. own'[o] = s
    BY <2>1, Moved
  <2>3. s.pc = "restart" /\ s.have = {} /\ s.gaps = {Whole}
    BY <1>1 DEF Owner
  <2> HIDE DEF s
  <2>4. Whole \in Gap /\ Whole.to = 0 /\ Whole.from = 0 + 1
    BY ChunkType DEF Whole, Gap
  <2>5. SingleStream(s)
    BY <2>3, <2>4, ChunkType DEF SingleStream
  <2> QED
    BY <2>1, <2>2, <2>3, <2>5 DEF Agrees, OfOneVersion, Abreast
<1>4. CASE RestartRecord(o)
  <2> DEFINE t == [own[o] EXCEPT !.pc = "body", !.at = 1, !.seen = Observed(own[o].src)]
             u == [own[o] EXCEPT !.pc = "gap", !.src = None,
                                 !.left = own[o].left - 1, !.err = "later"]
  <2>1. own[o].pc = "restart" /\ (own'[o] = t \/ own'[o] = u) /\ file' = file
    BY <1>4, Moved DEF RestartRecord
  <2>2. /\ own[o].have = t.have /\ own[o].gaps = t.gaps /\ t.pc = "body" /\ t.at = 1
        /\ t.src = own[o].src /\ t.seen = Observed(own[o].src)
        /\ own[o].have = u.have /\ own[o].gaps = u.gaps /\ u.pc = "gap"
    BY <1>1 DEF Owner
  <2> HIDE DEF t, u
  <2>3. own[o].have = {} /\ own[o].src \in Versions
    BY <1>1, <2>1 DEF Sane
  <2>4. PICK k \in 0..MaxLen :
          /\ own[o].have = 1..k
          /\ own[o].gaps = {} \/ \E g \in Gap : /\ own[o].gaps = {g} /\ g.to = 0
                                              /\ g.from = k + 1
    BY <2>1 DEF Agrees, OfOneVersion, SingleStream, InStream
  <2>5. k = 0
    <3>1. 1 \notin 1..k
      BY <2>3, <2>4
    <3> QED
      BY <3>1, ChunkType
  <2>6. SingleStream(t) /\ SingleStream(u) /\ Streamed(t) = {}
    BY <2>2, <2>4, <2>5, ChunkType DEF SingleStream, Streamed
  <2>7. OfOneVersion(t, file) /\ OfOneVersion(u, file)
    BY <1>1, <2>2, <2>3, <2>6 DEF OfOneVersion
  <2>8. Abreast(t, rec', file) /\ Abreast(u, rec', file)
    BY <2>2 DEF Abreast
  <2> QED
    BY <2>1, <2>7, <2>8 DEF Agrees
<1>5. CASE AskFails(o)
  <2> DEFINE t(e) == [own[o] EXCEPT !.left = own[o].left - 1, !.err = Worse(own[o].err, e)]
  <2>1. PICK e \in {"later", "no"} : Becomes(o, t(e)) /\ file' = file /\ CanAsk(o)
    BY <1>5 DEF AskFails
  <2> DEFINE s == t(e)
  <2>2. own'[o] = s /\ own[o].pc = "gap"
    BY <2>1, Moved DEF CanAsk
  <2>3. /\ s.pc = "gap" /\ s.have = own[o].have /\ s.gaps = own[o].gaps
        /\ s.seen = own[o].seen
    BY <1>1, <2>2 DEF Owner
  <2> HIDE DEF s
  <2>4. OfOneVersion(s, file)
    BY <2>2, <2>3 DEF Agrees, OfOneVersion, SingleStream, InStream
  <2>5. Abreast(s, rec', file)
    BY <2>3 DEF Abreast
  <2> QED
    BY <2>1, <2>2, <2>4, <2>5 DEF Agrees
<1> QED
  BY <1>2, <1>3, <1>4, <1>5

LEMMA AgreesWrite ==
  ASSUME TypeOK, Memory, NEW o \in Owners, Agrees(own[o], rec, file), Write(o)
  PROVE  Agrees(own'[o], rec', file')
<1> DEFINE at == own[o].at
           clean == own[o].clean /\ own[o].src = Wanted
           s == [own[o] EXCEPT !.at = at + 1, !.clean = clean]
<1>1. own[o] \in Owner /\ Sane(own[o])
  BY DEF TypeOK, Memory
<1>2. /\ own[o].pc = "body" /\ file' = [file EXCEPT ![at] = own[o].src]
      /\ at <= BodyEnd(Current(own[o].gaps), own[o].src)
  BY DEF Write
<1>3. own'[o] = s
  BY Moved DEF Write
<1>4. at \in Chunk /\ at \in Nat
  <2>1. BodyEnd(Current(own[o].gaps), own[o].src) \in 0..MaxLen
    BY <1>1, <1>2, ServedGap DEF Sane
  <2> QED
    BY <1>1, <1>2, <2>1, ChunkType DEF Owner, Sane, Chunk
<1>5. /\ s.pc = "body" /\ s.at = at + 1 /\ s.have = own[o].have /\ s.gaps = own[o].gaps
      /\ s.seen = own[o].seen /\ s.src = own[o].src
  BY <1>1, <1>2 DEF Owner
<1> HIDE DEF s
<1>6. /\ SingleStream(own[o]) /\ own[o].seen = own[o].src
      /\ own[o].have # {} => own[o].seen \in Versions
      /\ \A c \in 1..(at - 1) : file[c] = own[o].src
  BY <1>2 DEF Agrees, OfOneVersion, Streamed, InStream
<1>7. PICK k \in 0..MaxLen :
        /\ own[o].have = 1..k /\ k < at
        /\ own[o].gaps = {} \/ \E g \in Gap : own[o].gaps = {g} /\ g.to = 0 /\ g.from <= k + 1
  BY <1>2, <1>6 DEF SingleStream
<1>8. k \in Nat /\ k < at + 1
  BY <1>4, <1>7, ChunkType
<1>9. SingleStream(s)
  BY <1>5, <1>7, <1>8 DEF SingleStream
<1>10. Streamed(s) = (1..(at - 1)) \cup {at} /\ own[o].have \subseteq Streamed(s)
  BY <1>4, <1>5, <1>7, <1>8, ChunkType DEF Streamed, Chunk
<1>11. /\ file'[at] = own[o].src
       /\ \A c \in Chunk \ {at} : file'[c] = file[c]
  BY <1>2, <1>4 DEF TypeOK, File
<1>12. \A c \in Streamed(s) : file'[c] = own[o].src
  <2> SUFFICES ASSUME NEW c \in 1..(at - 1) PROVE file'[c] = own[o].src
    BY <1>10, <1>11
  <2>1. c \in Chunk /\ c # at
    BY <1>4, ChunkType DEF Chunk
  <2> QED
    BY <1>6, <1>11, <2>1
<1>13. OfOneVersion(s, file')
  BY <1>5, <1>6, <1>9, <1>10, <1>12 DEF OfOneVersion
<1>14. Abreast(s, rec', file')
  BY <1>5 DEF Abreast
<1> QED
  BY <1>3, <1>13, <1>14 DEF Agrees

\* What the owner folds in is of the version the response carries.
LEMMA FoldedVersion ==
  ASSUME TypeOK, Memory, NEW o \in Owners, Agrees(own[o], rec, file),
         own[o].pc \in {"gap", "body", "end"}
  PROVE  /\ SingleStream(own[o])
         /\ \E k \in 0..MaxLen : Folded(o) = 1..k
         /\ Folded(o) = Streamed(own[o])
         /\ own[o].have \subseteq Folded(o)
         /\ Folded(o) # {} => own[o].seen \in Versions
         /\ \A c \in Folded(o) : file[c] = own[o].seen
<1>1. own[o] \in Owner /\ Sane(own[o])
  BY DEF TypeOK, Memory
<1>2. /\ SingleStream(own[o])
      /\ own[o].have # {} => own[o].seen \in Versions
      /\ \A c \in own[o].have : file[c] = own[o].seen
      /\ own[o].pc = "body" => /\ own[o].seen = own[o].src
                               /\ \A c \in Streamed(own[o]) : file[c] = own[o].src
  BY DEF Agrees, OfOneVersion, InStream
<1>3. Folded(o) = Streamed(own[o]) /\ \E k \in 0..MaxLen : Folded(o) = 1..k
  BY <1>2, FoldedStream
<1>4. own[o].have \subseteq Folded(o)
  BY DEF Folded
<1>5. own[o].pc # "body" => Streamed(own[o]) = own[o].have
  BY DEF Streamed
<1>6. own[o].pc = "body" => own[o].src \in Versions
  BY <1>1 DEF Sane
<1> QED
  BY <1>2, <1>3, <1>4, <1>5, <1>6

LEMMA AgreesBody ==
  ASSUME TypeOK, Memory, NEW o \in Owners, Agrees(own[o], rec, file),
         Report(o) \/ BodyEnds(o) \/ BodyDrops(o) \/ NoticeStop(o) \/ GapsDone(o)
  PROVE  /\ Agrees(own'[o], rec', file')
         /\ own'[o].pc \in {"gap", "body", "end"} => own[o].have \subseteq own'[o].have
<1>1. own[o] \in Owner /\ Sane(own[o])
  BY DEF TypeOK, Memory
<1>2. file' = file /\ own[o].pc \in {"gap", "body"}
  BY DEF Report, BodyEnds, BodyDrops, NoticeStop, GapsDone
<1>3. /\ SingleStream(own[o])
      /\ Folded(o) = Streamed(own[o])
      /\ own[o].have \subseteq Folded(o)
      /\ Folded(o) # {} => own[o].seen \in Versions
      /\ \A c \in Folded(o) : file[c] = own[o].seen
  BY <1>2, FoldedVersion
<1>4. PICK k \in 0..MaxLen : Folded(o) = 1..k
  BY <1>2, FoldedVersion
\* Where bytes are folded in, what the owner answers for stays the same.
<1>5. ASSUME NEW s, own'[o] = s, s.have = Folded(o), s.pc \in {"end", "body", "gap"},
             s.seen = own[o].seen,
             s.pc = "body" => own[o].pc = "body" /\ s.at = own[o].at /\ s.src = own[o].src,
             s.pc = "gap" => own[o].pc = "body" /\ s.gaps = own[o].gaps \ {Current(own[o].gaps)},
             s.pc # "gap" => s.gaps = own[o].gaps
      PROVE  /\ Agrees(own'[o], rec', file')
             /\ own[o].have \subseteq own'[o].have
  <2>1. SingleStream(s)
    <3>1. CASE s.pc = "gap"
      <4>1. s.gaps = {}
        BY <1>3, <1>5, <3>1, FoldedStream
      <4> QED
        BY <1>4, <1>5, <3>1, <4>1 DEF SingleStream
    <3>2. CASE s.pc = "end"
      BY <1>3, <1>4, <1>5, <3>2 DEF SingleStream
    <3>3. CASE s.pc = "body"
      <4>1. own[o].pc = "body" /\ s.at = own[o].at /\ s.gaps = own[o].gaps
        BY <1>5, <3>3
      <4>2. s.at # 0 /\ s.at \in 0..(MaxLen + 1)
        BY <1>1, <4>1 DEF Sane, Owner
      <4>3. s.have = 1..(s.at - 1) /\ s.at - 1 \in 0..MaxLen
        BY <1>3, <1>5, <4>1, <4>2, ChunkType DEF Streamed
      <4>4. PICK j \in 0..MaxLen :
              /\ j < s.at
              /\ s.gaps = {} \/ \E g \in Gap : s.gaps = {g} /\ g.to = 0 /\ g.from <= j + 1
        BY <1>3, <4>1 DEF SingleStream
      <4>5. s.gaps = {} \/ \E g \in Gap : s.gaps = {g} /\ g.to = 0 /\ g.from <= (s.at - 1) + 1
        BY <4>2, <4>4, ChunkType DEF Gap
      <4>6. s.at - 1 < s.at
        BY <4>2
      <4> QED
        BY <3>3, <4>3, <4>5, <4>6 DEF SingleStream
    <3> QED
      BY <1>5, <3>1, <3>2, <3>3
  <2>2. s.pc = "body" => Streamed(s) = Folded(o) /\ s.seen = s.src
    BY <1>2, <1>3, <1>5 DEF Streamed, Agrees, OfOneVersion, InStream
  <2>3. OfOneVersion(s, file)
    BY <1>3, <1>5, <2>1, <2>2 DEF OfOneVersion
  <2>4. Abreast(s, rec', file)
    BY <1>5 DEF Abreast
  <2> QED
    BY <1>2, <1>3, <1>5, <2>3, <2>4 DEF Agrees
<1>6. CASE Report(o)
  <2> DEFINE t == [own[o] EXCEPT !.have = Folded(o)]
             u == [own[o] EXCEPT !.have = Folded(o), !.stop = rec.want,
                                 !.pc = "end", !.at = 0, !.src = None]
  <2>1. own[o].pc = "body" /\ (own'[o] = Idle \/ own'[o] = t \/ own'[o] = u)
    BY <1>6, Moved DEF Report
  <2>2. /\ t.have = Folded(o) /\ t.pc = own[o].pc /\ t.at = own[o].at /\ t.gaps = own[o].gaps
        /\ t.seen = own[o].seen /\ t.src = own[o].src
        /\ u.have = Folded(o) /\ u.pc = "end" /\ u.gaps = own[o].gaps
        /\ u.seen = own[o].seen
    BY <1>1 DEF Owner
  <2>3. Agrees(Idle, rec', file') /\ Idle.pc = "idle"
    BY DEF Agrees, OfOneVersion, Abreast, InStream, Idle
  <2> HIDE DEF t, u
  <2> QED
    BY <1>5, <2>1, <2>2, <2>3
<1>7. CASE BodyEnds(o)
  <2> DEFINE gaps == own[o].gaps \ {Current(own[o].gaps)}
             t == [own[o] EXCEPT !.pc = "gap", !.have = Folded(o),
                                 !.gaps = gaps, !.at = 0, !.src = None,
                                 !.left = Sources, !.err = "none"]
  <2>1. own[o].pc = "body" /\ own'[o] = t
    BY <1>7, Moved DEF BodyEnds
  <2>2. t.have = Folded(o) /\ t.pc = "gap" /\ t.gaps = gaps /\ t.seen = own[o].seen
    BY <1>1 DEF Owner
  <2> HIDE DEF t
  <2> QED
    BY <1>5, <2>1, <2>2
<1>8. CASE BodyDrops(o)
  <2> DEFINE t == [own[o] EXCEPT !.pc = "end", !.have = Folded(o), !.err = "later",
                                 !.at = 0, !.src = None]
             u == [own[o] EXCEPT !.pc = "gap", !.left = own[o].left - 1,
                                 !.err = "later", !.at = 0, !.src = None]
             from == Current(own[o].gaps).from
  <2>1. /\ own[o].pc = "body"
        /\ own'[o] = t \/ (own'[o] = u /\ ~(own[o].at > from))
    BY <1>8, Moved DEF BodyDrops
  <2>2. /\ t.have = Folded(o) /\ t.pc = "end" /\ t.gaps = own[o].gaps
        /\ t.seen = own[o].seen /\ u.seen = own[o].seen
        /\ u.have = own[o].have /\ u.pc = "gap" /\ u.gaps = own[o].gaps
    BY <1>1 DEF Owner
  <2> HIDE DEF t, u, from
  <2>3. CASE own'[o] = t
    BY <1>5, <2>2, <2>3
  \* A response that brought nothing leaves the stream where it was.
  <2>4. CASE own'[o] = u /\ ~(own[o].at > from)
    <3>1. PICK j \in 0..MaxLen, g \in Gap :
            /\ own[o].have = 1..j /\ own[o].gaps = {g} /\ g.to = 0
            /\ g.from <= j + 1 /\ j < own[o].at
      BY <1>1, <1>3, <2>1 DEF SingleStream, Sane
    <3>2. from = g.from
      BY <1>1, <2>1, <3>1, ServedGap DEF Sane, from
    <3>3. g.from = j + 1
      BY <1>1, <2>4, <3>1, <3>2, ChunkType DEF Owner, Gap
    <3>4. SingleStream(u)
      BY <2>2, <3>1, <3>3 DEF SingleStream
    <3>5. OfOneVersion(u, file)
      BY <2>1, <2>2, <3>4 DEF Agrees, OfOneVersion, InStream
    <3>6. Abreast(u, rec', file)
      BY <2>2 DEF Abreast
    <3> QED
      BY <1>2, <2>2, <2>4, <3>5, <3>6 DEF Agrees
  <2> QED
    BY <2>1, <2>3, <2>4
<1>9. CASE NoticeStop(o)
  <2> DEFINE t == [own[o] EXCEPT !.pc = "end", !.stop = rec.want,
                                 !.have = Folded(o), !.at = 0, !.src = None]
  <2>1. own'[o] = t
    BY <1>9, Moved DEF NoticeStop
  <2>2. /\ t.have = Folded(o) /\ t.pc = "end" /\ t.gaps = own[o].gaps
        /\ t.seen = own[o].seen
    BY <1>1 DEF Owner
  <2> HIDE DEF t
  <2> QED
    BY <1>5, <2>1, <2>2
<1>10. CASE GapsDone(o)
  <2> DEFINE t == [own[o] EXCEPT !.pc = "end"]
  <2>1. own[o].pc = "gap" /\ own'[o] = t
    BY <1>10, Moved DEF GapsDone
  <2>2. /\ t.have = own[o].have /\ t.pc = "end" /\ t.gaps = own[o].gaps
        /\ t.seen = own[o].seen
    BY <1>1 DEF Owner
  <2>3. Folded(o) = own[o].have
    BY <1>1, <2>1 DEF Folded, Sane
  <2> HIDE DEF t
  <2> QED
    BY <1>5, <2>1, <2>2, <2>3
<1> QED
  BY <1>6, <1>7, <1>8, <1>9, <1>10

LEMMA GoesSeen ==
  ASSUME TypeOK, NEW o \in Owners, NEW pc, Goes(o, pc)
  PROVE  own'[o].seen = own[o].seen
<1> DEFINE t(err) == [own[o] EXCEPT !.pc = pc, !.err = err]
           u == [own[o] EXCEPT !.pc = pc]
<1>1. PICK err \in {"none", "later", "no"} : Becomes(o, u) \/ Becomes(o, t(err))
  BY DEF Goes
<1>2. t(err).seen = own[o].seen /\ u.seen = own[o].seen
  BY DEF TypeOK, Owner
<1> HIDE DEF t, u
<1> QED
  BY <1>1, <1>2, Moved

LEMMA AgreesEnd ==
  ASSUME TypeOK, Memory, NEW o \in Owners, Agrees(own[o], rec, file), Ending(o)
  PROVE  Agrees(own'[o], rec', file')
<1>1. ASSUME own'[o].pc \in {"idle", "honour", "fail", "release", "remove"}
      PROVE  Agrees(own'[o], rec', file')
  BY <1>1 DEF Agrees, OfOneVersion, Abreast, InStream
<1>2. Becomes(o, Idle) => own'[o].pc = "idle"
  BY Moved DEF Idle
<1>3. CASE \/ EndStopped(o) \/ EndFailed(o) \/ EndWrongSize(o) \/ MarkTransferred(o)
           \/ UnclaimBytes(o) \/ Honour(o) \/ RecordFailure(o) \/ Release(o) \/ Fence(o)
  <2>1. CASE EndStopped(o) \/ EndFailed(o) \/ EndWrongSize(o)
    <3>1. Goes(o, "honour") \/ Goes(o, "fail") \/ Becomes(o, Idle)
      BY <2>1 DEF EndStopped, EndFailed, EndWrongSize, Goes
    <3> QED
      BY <1>1, <1>2, <3>1, GoesTo DEF PCs
  <2>2. CASE MarkTransferred(o) \/ UnclaimBytes(o)
    <3>1. Goes(o, "release") \/ Goes(o, "fail")
      BY <2>2 DEF MarkTransferred, UnclaimBytes, Goes
    <3> QED
      BY <1>1, <3>1, GoesTo DEF PCs
  <2>3. CASE Honour(o) \/ RecordFailure(o) \/ Release(o) \/ Fence(o)
    <3>1. Goes(o, "release") \/ Becomes(o, Idle)
      BY <2>3 DEF Honour, RecordFailure, Release, Fence, Goes
    <3> QED
      BY <1>1, <1>2, <3>1, GoesTo DEF PCs
  <2> QED
    BY <1>3, <2>1, <2>2, <2>3
<1>4. CASE EndDigest(o)
  <2>1. Goes(o, "deliver") \/ Goes(o, "remove")
    BY <1>4 DEF EndDigest, Goes
  <2>2. CASE Goes(o, "remove")
    BY <1>1, <2>2, GoesTo DEF PCs
  <2>3. CASE Goes(o, "deliver")
    <3>1. own'[o].pc = "deliver" /\ own'[o].seen = own[o].seen
      BY <2>3, GoesTo, GoesSeen DEF PCs
    <3>2. own[o].pc = "end" /\ Prefix(own[o].have) = 1..Size
      BY <1>4 DEF EndDigest
    <3>3. SingleStream(own[o]) /\ (own[o].have # {} => own[o].seen \in Versions)
      BY <3>2 DEF Agrees, OfOneVersion, InStream
    <3>4. PICK k \in 0..MaxLen : own[o].have = 1..k
      BY <3>3 DEF SingleStream
    <3>5. 1 \in own[o].have
      BY <3>2, <3>4, PrefixOfPrefix, ChunkType DEF Chunk
    <3> QED
      BY <3>1, <3>3, <3>5 DEF Agrees, OfOneVersion, Abreast, InStream
  <2> QED
    BY <2>1, <2>2, <2>3
<1>5. CASE Deliver(o)
  <2>1. Goes(o, "fail") \/ (Goes(o, "mark") /\ file' = Empty)
    BY <1>5 DEF Deliver, Goes
  <2>2. CASE Goes(o, "fail")
    BY <1>1, <2>2, GoesTo DEF PCs
  <2>3. CASE Goes(o, "mark") /\ file' = Empty
    <3>1. own'[o].pc = "mark" /\ own'[o].seen = own[o].seen
      BY <2>3, GoesTo, GoesSeen DEF PCs
    <3>2. own[o].seen \in Versions
      BY <1>5 DEF Deliver, Agrees, Abreast
    <3> QED
      BY <2>3, <3>1, <3>2 DEF Agrees, OfOneVersion, Abreast, InStream
  <2> QED
    BY <2>1, <2>2, <2>3
<1>6. CASE RemovePartial(o)
  <2>1. Goes(o, "unclaim") /\ file' = Empty
    BY <1>6 DEF RemovePartial, Goes
  <2>2. own'[o].pc = "unclaim"
    BY <2>1, GoesTo DEF PCs
  <2> QED
    BY <2>1, <2>2 DEF Agrees, OfOneVersion, Abreast, InStream
<1> QED
  BY <1>3, <1>4, <1>5, <1>6 DEF Ending

\* The latest owner's memory agrees with the record and the file after its own
\* step as before it.
LEMMA AgreesMover ==
  ASSUME Vouched, TypeOK, Memory, RecordClaims, VersionOfProven, NEW o \in Owners,
         Agrees(own[o], rec, file), Running(o) \/ TakeComplete(o)
  PROVE  Agrees(own'[o], rec', file')
<1>1. CASE TakeComplete(o)
  <2>1. own'[o].pc = "idle"
    BY <1>1, Moved DEF TakeComplete, Idle
  <2> QED
    BY <2>1 DEF Agrees, OfOneVersion, Abreast, InStream
<1>2. CASE Begin(o)
  <2> DEFINE s == [own[o] EXCEPT !.pc = "plan"]
  <2>1. own'[o] = s /\ own[o].pc = "begin"
    BY <1>2, Moved DEF Begin
  <2>2. s.pc = "plan" /\ s.have = own[o].have /\ s.seen = own[o].seen
    BY DEF TypeOK, Owner
  <2>3. rec'.proven = rec.proven /\ rec'.val = rec.val
    BY <1>2 DEF Begin, Writes, TypeOK, Record
  <2> HIDE DEF s
  <2> QED
    BY <2>1, <2>2, <2>3 DEF Agrees, OfOneVersion, Abreast, InStream
<1>3. CASE Trim(o) \/ RecordPlan(o) \/ HashPrefix(o)
  BY <1>3, AgreesTrim, AgreesPlan
<1>4. CASE Fetching(o)
  BY <1>4, AgreesAsk, AgreesWrite, AgreesBody DEF Fetching, Vouched
<1>5. CASE Ending(o)
  BY <1>5, AgreesEnd
<1> QED
  BY <1>1, <1>2, <1>3, <1>4, <1>5 DEF Running

-----------------------------------------------------------------------------
(* The holder has what the record claims.                                   *)

\* Sets of chunks of one size, one in the other, are the same.
LEMMA SameSize ==
  ASSUME NEW k \in 0..MaxLen, NEW have \in SUBSET (1..k), Cardinality(1..k) = Cardinality(have)
  PROVE  have = 1..k
<1>1. IsFiniteSet(1..k)
  BY FS_Interval, ChunkType
<1> QED
  BY <1>1, FS_Subset

\* An owner that stays at work keeps its epoch, and its lease is no fresher.
LEMMA HoldsOn ==
  ASSUME TypeOK, Memory, Memory', NEW o \in Owners, Running(o) \/ TakeComplete(o),
         own'[o].pc # "idle"
  PROVE  own'[o].epoch = own[o].epoch /\ (Holds(o)' => Holds(o))
<1>1. own'[o].epoch \in {own[o].epoch, 0} /\ own'[o].epoch # 0
  BY OwnEpoch DEF Memory, Sane
<1>2. CASE ~Holds(o)
  <2>1. rec' = rec
    BY <1>2, RefusedKeeps
  <2> QED
    BY <1>1, <1>2, <2>1 DEF Holds
<1> QED
  BY <1>1, <1>2

LEMMA ClaimKept ==
  ASSUME TypeOK, Memory, Memory', RecordClaims, NEW o \in Owners,
         Agrees(own[o], rec, file), HasTheClaim(o), Running(o) \/ TakeComplete(o)
  PROVE  HasTheClaim(o)'
<1> SUFFICES ASSUME Holds(o)', own'[o].pc \in {"hash", "gap", "body", "end"}
             PROVE  rec'.proven \subseteq own'[o].have
  BY DEF HasTheClaim
<1>1. Holds(o) /\ own[o] \in Owner /\ rec \in Record
  BY HoldsOn DEF TypeOK
<1>2. own[o].pc \in {"hash", "gap", "body", "end"} => rec.proven \subseteq own[o].have
  BY <1>1 DEF HasTheClaim
<1>3. CASE RecordPlan(o)
  <2>1. own'[o].have = own[o].have
    <3> DEFINE pc == IF own[o].rolling /\ own[o].have # {} THEN "hash" ELSE "gap"
               s == [own[o] EXCEPT !.pc = pc, !.left = Sources]
    <3>1. own'[o] = s
      BY <1>3, Moved DEF RecordPlan
    <3> HIDE DEF pc
    <3> QED
      BY <1>1, <3>1 DEF Owner
  <2>2. CASE Cardinality(rec.proven) # Cardinality(own[o].have)
    <3>1. Claims(own[o].have, own[o].seen)
      BY <1>1, <1>3, <2>2, ClaimWritten DEF RecordPlan
    <3> QED
      BY <2>1, <3>1 DEF Claims
  <2>3. CASE Cardinality(rec.proven) = Cardinality(own[o].have)
    <3>1. rec' = rec /\ own[o].have \subseteq rec.proven
      BY <1>3, <2>3 DEF RecordPlan, Agrees, Abreast
    <3>2. PICK k \in 0..MaxLen : rec.proven = 1..k
      BY DEF RecordClaims
    <3>3. own[o].have = rec.proven
      BY <2>3, <3>1, <3>2, SameSize
    <3> QED
      BY <2>1, <3>1, <3>3
  <2> QED
    BY <2>2, <2>3
<1>4. CASE HashPrefix(o)
  <2> DEFINE b == \A c \in own[o].have : file[c] = Wanted
             s == [own[o] EXCEPT !.pc = "gap", !.clean = b]
             t == [own[o] EXCEPT !.pc = "fail", !.err = "later"]
  <2>1. own[o].pc = "hash" /\ rec' = rec /\ (own'[o] = s \/ own'[o] = t)
    BY <1>4, Moved DEF HashPrefix
  <2>2. s.have = own[o].have /\ t.have = own[o].have
    BY <1>1 DEF Owner
  <2> HIDE DEF b, s, t
  <2> QED
    BY <1>2, <2>1, <2>2
<1>5. CASE AskContinues(o)
  <2> DEFINE t(v) == [own[o] EXCEPT !.pc = "body", !.at = Current(own[o].gaps).from,
                                    !.src = v, !.seen = Observed(v)]
  <2>1. PICK v \in Versions : Becomes(o, t(v)) /\ own[o].pc = "gap" /\ rec' = rec
    BY <1>5 DEF AskContinues, CanAsk
  <2> DEFINE s == t(v)
  <2>2. own'[o] = s
    BY <2>1, Moved
  <2>3. s.have = own[o].have
    BY <1>1 DEF Owner
  <2> HIDE DEF s, t
  <2> QED
    BY <1>2, <2>1, <2>2, <2>3
<1>6. CASE AskRestarts(o)
  <2> DEFINE t(v) == [own[o] EXCEPT !.pc = "restart", !.have = {}, !.seen = None,
                                    !.gaps = {Whole}, !.clean = TRUE,
                                    !.src = v, !.kept = FALSE]
  <2>1. PICK v \in Versions : Becomes(o, t(v))
    BY <1>6 DEF AskRestarts
  <2> DEFINE s == t(v)
  <2>2. own'[o] = s
    BY <2>1, Moved
  <2>3. s.pc = "restart"
    BY <1>1 DEF Owner
  <2> HIDE DEF s, t
  <2> QED
    BY <2>2, <2>3
<1>7. CASE RestartRecord(o)
  <2>1. Claims({}, None)
    BY <1>1, <1>7, ClaimWritten DEF RestartRecord
  <2> QED
    BY <2>1 DEF Claims
<1>8. CASE AskFails(o)
  <2> DEFINE t(e) == [own[o] EXCEPT !.left = own[o].left - 1, !.err = Worse(own[o].err, e)]
  <2>1. PICK e \in {"later", "no"} : Becomes(o, t(e)) /\ own[o].pc = "gap" /\ rec' = rec
    BY <1>8 DEF AskFails, CanAsk
  <2> DEFINE s == t(e)
  <2>2. own'[o] = s
    BY <2>1, Moved
  <2>3. s.have = own[o].have
    BY <1>1 DEF Owner
  <2> HIDE DEF s, t
  <2> QED
    BY <1>2, <2>1, <2>2, <2>3
<1>9. CASE Write(o)
  <2> DEFINE clean == own[o].clean /\ own[o].src = Wanted
             s == [own[o] EXCEPT !.at = own[o].at + 1, !.clean = clean]
  <2>1. own'[o] = s /\ own[o].pc = "body" /\ rec' = rec
    BY <1>9, Moved DEF Write
  <2> HIDE DEF clean
  <2>2. s.have = own[o].have
    BY <1>1 DEF Owner
  <2> HIDE DEF s
  <2> QED
    BY <1>2, <2>1, <2>2
<1>10. CASE Report(o)
  <2> DEFINE t == [own[o] EXCEPT !.have = Folded(o)]
             u == [own[o] EXCEPT !.have = Folded(o), !.stop = rec.want,
                                 !.pc = "end", !.at = 0, !.src = None]
  <2>1. own'[o] = t \/ own'[o] = u
    BY <1>1, <1>10, Moved DEF Report
  <2>2. t.have = Folded(o) /\ u.have = Folded(o)
    BY <1>1 DEF Owner
  <2> HIDE DEF t, u
  <2>3. Claims(Folded(o), own[o].seen)
    BY <1>1, <1>10, ClaimWritten DEF Report
  <2> QED
    BY <2>1, <2>2, <2>3 DEF Claims
<1>11. CASE BodyEnds(o) \/ BodyDrops(o) \/ NoticeStop(o) \/ GapsDone(o)
  <2>1. rec' = rec /\ own[o].pc \in {"gap", "body"}
    BY <1>11 DEF BodyEnds, BodyDrops, NoticeStop, GapsDone
  <2>2. own'[o].pc \in {"gap", "body", "end"} => own[o].have \subseteq own'[o].have
    BY <1>11, AgreesBody
  <2>3. own'[o].pc # "hash"
    <3> DEFINE a == [own[o] EXCEPT !.pc = "gap", !.have = Folded(o),
                                   !.gaps = own[o].gaps \ {Current(own[o].gaps)},
                                   !.at = 0, !.src = None, !.left = Sources,
                                   !.err = "none"]
               b == [own[o] EXCEPT !.pc = "end", !.have = Folded(o), !.err = "later",
                                   !.at = 0, !.src = None]
               c == [own[o] EXCEPT !.pc = "gap", !.left = own[o].left - 1,
                                   !.err = "later", !.at = 0, !.src = None]
               d == [own[o] EXCEPT !.pc = "end", !.stop = rec.want,
                                   !.have = Folded(o), !.at = 0, !.src = None]
               e == [own[o] EXCEPT !.pc = "end"]
    <3>1. own'[o] \in {a, b, c, d, e}
      BY <1>11, Moved DEF BodyEnds, BodyDrops, NoticeStop, GapsDone
    <3>2. /\ a.pc = "gap" /\ b.pc = "end" /\ c.pc = "gap" /\ d.pc = "end" /\ e.pc = "end"
      BY <1>1 DEF Owner
    <3> HIDE DEF a, b, c, d, e
    <3> QED
      BY <3>1, <3>2
  <2> QED
    BY <1>2, <2>1, <2>2, <2>3
<1>12. CASE Ending(o)
  BY <1>12, EndLeaves DEF InStream
<1>13. CASE Begin(o) \/ Trim(o) \/ TakeComplete(o)
  <2>1. CASE Begin(o) \/ TakeComplete(o)
    <3>1. Goes(o, "plan") \/ Becomes(o, Idle)
      BY <2>1 DEF Begin, TakeComplete, Goes
    <3> QED
      BY <3>1, Moved, GoesTo DEF Idle, PCs
  <2>2. CASE Trim(o)
    <3> DEFINE h == Clip(own[o].have, file)
               v == IF h = {} THEN None ELSE own[o].seen
               r == OneStream(h, GapsFor(h))
               k == h # {}
               s == [own[o] EXCEPT !.pc = "planned", !.have = h, !.gaps = GapsFor(h),
                                   !.seen = v, !.kept = k, !.rolling = r]
    <3>1. own'[o] = s
      BY <2>2, Moved DEF Trim
    <3> HIDE DEF h, v, r, k
    <3>2. s.pc = "planned"
      BY <1>1 DEF Owner
    <3> QED
      BY <3>1, <3>2
  <2> QED
    BY <1>13, <2>1, <2>2
<1> QED
  BY <1>3, <1>4, <1>5, <1>6, <1>7, <1>8, <1>9, <1>10, <1>11, <1>12, <1>13
  DEF Running, Fetching

-----------------------------------------------------------------------------
(* The record claims what is so.                                            *)

\* What is claimed lies in the chunks, and chunks hold versions or nothing.
LEMMA ClaimRange ==
  ASSUME TypeOK
  PROVE  /\ rec.proven \subseteq Chunk /\ rec.val \in Versions \cup {None}
         /\ \A c \in Chunk : file[c] \in Content /\ disk[c] \in Content
         /\ \A f, c : c \in Chunk /\ f[c] # Hole => Reaches(f, c)
         /\ \A c : ~Reaches(Empty, c)
         /\ Hole \notin Versions /\ None \notin Versions
<1>1. \A f, c : c \in Chunk /\ f[c] # Hole => Reaches(f, c)
  <2> SUFFICES ASSUME NEW f, NEW c \in Chunk, f[c] # Hole PROVE Reaches(f, c)
    OBVIOUS
  <2>1. c >= c
    BY ChunkType
  <2> QED
    BY <2>1 DEF Reaches
<1> QED
  BY <1>1, RunnerAssumption DEF TypeOK, Record, File, Reaches, Empty

\* The claim stays, and the file with it.
LEMMA ClaimStays ==
  ASSUME TypeOK, RecordClaims, ClaimsHold, file' = file, disk' \in {disk, file},
         Claims(rec.proven, rec.val)
  PROVE  RecordClaims' /\ ClaimsHold'
<1>1. RecordClaims'
  BY DEF RecordClaims, Claims
<1>2. ClaimDurable'
  BY DEF ClaimsHold, ClaimDurable, Claims, Reaches
<1>3. VersionOfProven'
  BY DEF ClaimsHold, VersionOfProven, Claims, Reaches
<1> QED
  BY <1>1, <1>2, <1>3 DEF ClaimsHold

\* Bytes of one version are claimed that are on the disk.
LEMMA ClaimMade ==
  ASSUME TypeOK, RecordClaims, ClaimsHold, file' = file, disk' \in {disk, file},
         NEW p, NEW v, Claims(p, v), \E k \in 0..MaxLen : p = 1..k,
         p # {} => v \in Versions, \A c \in p : file[c] = v,
         disk' = file \/ p \subseteq rec.proven
  PROVE  RecordClaims' /\ ClaimsHold'
<1>1. p \subseteq Chunk
  BY ChunkType DEF Chunk
<1>2. RecordClaims'
  BY DEF RecordClaims, Claims
<1>3. VersionOfProven'
  BY DEF VersionOfProven, Claims
<1>4. ASSUME NEW c \in p PROVE disk'[c] = file[c] /\ file[c] # Hole
  <2>1. file[c] = v /\ file[c] # Hole
    BY ClaimRange
  <2>2. c \in rec.proven => disk[c] = file[c]
    BY <1>1, <2>1, ClaimRange DEF ClaimsHold, ClaimDurable
  <2> QED
    BY <2>1, <2>2
<1>5. ClaimDurable'
  BY <1>4 DEF ClaimDurable, Claims
<1> QED
  BY <1>2, <1>3, <1>5 DEF ClaimsHold

\* A claim of bytes that are not there any more says nothing false.
LEMMA ClaimOfNothing ==
  ASSUME TypeOK, file' = Empty, disk' = Empty,
         \E k \in 0..MaxLen : rec'.proven = 1..k,
         rec'.proven # {} => rec'.val \in Versions
  PROVE  RecordClaims' /\ ClaimsHold'
<1>1. \A c : ~Reaches(file', c)
  BY ClaimRange
<1>2. ClaimDurable' /\ VersionOfProven'
  BY <1>1 DEF ClaimDurable, VersionOfProven
<1>3. \A c \in Chunk : disk'[c] = Hole
  BY DEF Empty
<1> QED
  BY <1>2, <1>3 DEF RecordClaims, ClaimsHold

LEMMA ClaimTrimmed ==
  ASSUME TypeOK, RecordClaims, ClaimsHold, NEW o \in Owners, Trim(o)
  PROVE  RecordClaims' /\ ClaimsHold'
<1> DEFINE have == Clip(own[o].have, file)
<1>1. file' = TrimTo(file, have) /\ disk' = TrimTo(disk, have) /\ rec' = rec
  BY DEF Trim
<1> HIDE DEF have
<1>2. \A c \in Chunk : \/ file'[c] = Hole /\ disk'[c] = Hole /\ \A d \in have : ~(d >= c)
                       \/ file'[c] = file[c] /\ disk'[c] = disk[c]
  BY <1>1 DEF TrimTo
<1>3. RecordClaims'
  BY <1>1, <1>2 DEF RecordClaims
<1>4. ASSUME NEW c \in rec.proven, Reaches(file', c)
      PROVE  Reaches(file, c) /\ file'[c] = file[c] /\ disk'[c] = disk[c]
  <2>1. c \in Chunk
    BY ClaimRange
  <2>2. PICK d \in Chunk : d >= c /\ file'[d] # Hole
    BY <1>4 DEF Reaches
  <2>3. file[d] = file'[d]
    BY <1>2, <2>2
  <2>4. \E e \in have : e >= d
    BY <1>1, <2>2 DEF TrimTo
  <2>5. \E e \in have : e >= c
    <3>1. have \subseteq Nat
      BY ChunkType DEF TypeOK, Owner, Clip, have
    <3> QED
      BY <2>1, <2>2, <2>4, <3>1, ChunkType
  <2> QED
    BY <1>1, <2>1, <2>2, <2>3, <2>5 DEF Reaches, TrimTo
<1>5. ClaimDurable'
  BY <1>1, <1>4 DEF ClaimsHold, ClaimDurable
<1>6. VersionOfProven'
  BY <1>1, <1>4 DEF ClaimsHold, VersionOfProven
<1> QED
  BY <1>3, <1>5, <1>6 DEF ClaimsHold

\* The holder writes behind all that is claimed.
LEMMA ClaimWrittenOver ==
  ASSUME Fenced, TypeOK, Memory, RecordClaims, ClaimsHold, NEW o \in Owners,
         Agrees(own[o], rec, file), HasTheClaim(o), Write(o)
  PROVE  RecordClaims' /\ ClaimsHold'
<1> DEFINE at == own[o].at
<1>1. own[o] \in Owner /\ Sane(own[o])
  BY DEF TypeOK, Memory
<1>2. /\ own[o].pc = "body" /\ file' = [file EXCEPT ![at] = own[o].src]
      /\ disk' = disk /\ rec' = rec /\ MayTouch(o, "write")
  BY DEF Write
<1>3. Holds(o)
  BY <1>2 DEF MayTouch, Fenced
<1>4. own[o].src \in Versions /\ own[o].seen = own[o].src /\ SingleStream(own[o])
      /\ \A c \in own[o].have : file[c] = own[o].seen
  BY <1>1, <1>2 DEF Sane, Agrees, OfOneVersion, InStream
<1>5. rec.proven \subseteq own[o].have
  BY <1>2, <1>3 DEF HasTheClaim
<1>6. at \notin rec.proven
  <2>1. PICK k \in 0..MaxLen : own[o].have = 1..k /\ k < at
    BY <1>2, <1>4 DEF SingleStream
  <2>2. at \in Nat
    BY <1>1 DEF Owner
  <2> QED
    BY <1>5, <2>1, <2>2, ChunkType
<1>7. \A c \in Chunk : file'[c] = IF c = at THEN own[o].src ELSE file[c]
  BY <1>2 DEF TypeOK, File
<1>8. RecordClaims'
  BY <1>2, <1>4, <1>7, ClaimRange DEF RecordClaims
<1>9. ASSUME NEW c \in rec.proven
      PROVE  Reaches(file, c) /\ file'[c] = file[c]
  <2>1. c \in Chunk /\ c # at /\ file[c] # Hole
    BY <1>4, <1>5, <1>6, ClaimRange
  <2> QED
    BY <1>7, <2>1, ClaimRange
<1>10. ClaimDurable'
  BY <1>2, <1>9 DEF ClaimsHold, ClaimDurable
<1>11. VersionOfProven'
  BY <1>2, <1>9 DEF ClaimsHold, VersionOfProven
<1> QED
  BY <1>8, <1>10, <1>11 DEF ClaimsHold

\* Chunks a step makes the record forget are not in the file.
Forgets == \A c \in rec.proven \ rec'.proven : file[c] = Hole

LEMMA ClaimMover ==
  ASSUME Fenced, TypeOK, Memory, RecordClaims, ClaimsHold, NEW o \in Owners,
         Agrees(own[o], rec, file), HasTheClaim(o), Running(o) \/ TakeComplete(o)
  PROVE  RecordClaims' /\ ClaimsHold' /\ Forgets
<1>1. own[o] \in Owner /\ rec \in Record
  BY DEF TypeOK
<1>2. PICK n \in 0..MaxLen : rec.proven = 1..n
  BY DEF RecordClaims
<1>3. CASE Trim(o)
  <2>1. rec' = rec
    BY <1>3 DEF Trim
  <2> QED
    BY <1>3, <2>1, ClaimTrimmed DEF Forgets
<1>4. CASE Write(o)
  <2>1. rec' = rec
    BY <1>4 DEF Write
  <2> QED
    BY <1>4, <2>1, ClaimWrittenOver DEF Forgets
<1>5. CASE file' = Empty /\ disk' = Empty /\ rec' = rec
  BY <1>5, ClaimOfNothing DEF RecordClaims, Forgets
<1>6. CASE file' = file /\ disk' \in {disk, file}
  <2>1. CASE Claims(rec.proven, rec.val)
    BY <1>6, <2>1, ClaimStays DEF Forgets, Claims
  <2>2. CASE RecordPlan(o) /\ Claims(own[o].have, own[o].seen)
    <3>1. own[o].pc = "planned"
      BY <2>2 DEF RecordPlan
    <3>2. /\ own[o].have \subseteq rec.proven
          /\ \A c \in rec.proven \ own[o].have : file[c] = Hole
      BY <3>1 DEF Agrees, Abreast
    <3>3. /\ \E k \in 0..MaxLen : own[o].have = 1..k
          /\ own[o].have # {} => own[o].seen \in Versions
          /\ \A c \in own[o].have : file[c] = own[o].seen
      BY <3>1 DEF Agrees, OfOneVersion, SingleStream, InStream
    <3> QED
      BY <1>6, <2>2, <3>2, <3>3, ClaimMade DEF Forgets, Claims
  <2>3. CASE (RestartRecord(o) \/ UnclaimBytes(o)) /\ Claims({}, None)
    <3>1. file = Empty
      BY <2>3 DEF RestartRecord, UnclaimBytes, Agrees, Abreast
    <3>2. \A c \in Chunk : file[c] = Hole
      BY <3>1 DEF Empty
    <3>3. 1..0 = {} /\ 0 \in 0..MaxLen
      BY ChunkType
    <3>4. RecordClaims' /\ ClaimsHold'
      <4>1. \E k \in 0..MaxLen : {} = 1..k
        BY <3>3
      <4> QED
        BY <1>6, <2>3, <4>1, ClaimMade
    <3> QED
      BY <2>3, <3>2, <3>4, ClaimRange DEF Forgets
  <2>4. CASE /\ Holds(o)
             /\ \/ Report(o) /\ Claims(Folded(o), own[o].seen)
                \/ EndStopped(o) /\ Claims(own[o].have, own[o].seen)
                \/ /\ EndFailed(o) \/ EndWrongSize(o)
                   /\ Claims(Prefix(own[o].have), own[o].seen)
    <3>1. disk' = file /\ own[o].pc \in {"body", "end"}
      BY <2>4 DEF Report, EndStopped, EndFailed, EndWrongSize
    <3>2. rec.proven \subseteq own[o].have
      BY <2>4, <3>1 DEF HasTheClaim
    <3>3. /\ SingleStream(own[o]) /\ \E k \in 0..MaxLen : Folded(o) = 1..k
          /\ own[o].have \subseteq Folded(o)
          /\ Folded(o) # {} => own[o].seen \in Versions
          /\ \A c \in Folded(o) : file[c] = own[o].seen
      BY <3>1, FoldedVersion
    <3>4. \E k \in 0..MaxLen : own[o].have = 1..k
      BY <3>3 DEF SingleStream
    <3>5. Prefix(own[o].have) = own[o].have
      BY <3>4, PrefixOfPrefix
    <3>6. Claims(Folded(o), own[o].seen) \/ Claims(own[o].have, own[o].seen)
      BY <2>4, <3>5
    <3>7. RecordClaims' /\ ClaimsHold'
      <4>1. own[o].have # {} => own[o].seen \in Versions
        BY <3>3
      <4>2. \A c \in own[o].have : file[c] = own[o].seen
        BY <3>3
      <4>3. CASE Claims(Folded(o), own[o].seen)
        BY <1>6, <3>1, <3>3, <4>3, ClaimMade
      <4>4. CASE Claims(own[o].have, own[o].seen)
        BY <1>6, <3>1, <3>4, <4>1, <4>2, <4>4, ClaimMade
      <4> QED
        BY <3>6, <4>3, <4>4
    <3> QED
      BY <3>2, <3>3, <3>6, <3>7 DEF Forgets, Claims
  <2>5. CASE MarkTransferred(o) /\ Claims(1..Size, own[o].seen)
    <3>1. own[o].pc = "mark" /\ disk' = disk
      BY <2>5 DEF MarkTransferred
    <3>2. file = Empty /\ own[o].seen \in Versions
      BY <3>1 DEF Agrees, Abreast
    <3>3. \A c \in Chunk : file[c] = Hole /\ disk[c] = Hole
      BY <3>2 DEF Empty, RecordClaims
    <3>4. disk = Empty
      BY <3>3 DEF TypeOK, File, Empty
    <3>5. Size \in 0..MaxLen
      BY ChunkType DEF Chunk
    <3>6. rec'.proven = 1..Size /\ rec'.val \in Versions
      BY <2>5, <3>2 DEF Claims
    <3>7. RecordClaims' /\ ClaimsHold'
      BY <1>6, <3>1, <3>2, <3>4, <3>5, <3>6, ClaimOfNothing
    <3> QED
      BY <3>3, <3>7, ClaimRange DEF Forgets
  <2> QED
    BY <2>1, <2>2, <2>3, <2>4, <2>5, ClaimMoves
<1> QED
  BY <1>3, <1>4, <1>5, <1>6, FileMoves DEF Taking

-----------------------------------------------------------------------------
(* The invariant, by who moves.                                             *)

LEMMA ClaimsAll ==
  ClaimsAgree <=> /\ RecordClaims /\ ClaimsHold
                  /\ \A o \in Owners :
                       Latest(o) => Agrees(own[o], rec, file) /\ HasTheClaim(o)
BY DEF ClaimsAgree, Agrees

LEMMA IdleAgrees ==
  ASSUME NEW s, s.pc = "idle", NEW r, NEW f
  PROVE  Agrees(s, r, f)
BY DEF Agrees, OfOneVersion, Abreast, InStream

LEMMA ClaimInit == Vouched /\ Init => ClaimsAgree
<1> SUFFICES ASSUME Vouched, Init PROVE ClaimsAgree
  OBVIOUS
<1>1. TypeOK
  BY TypeInit
<1>2. PICK left \in Leftovers :
        /\ rec = [state |-> "pending", epoch |-> 0, live |-> FALSE, want |-> "run",
                  proven |-> left, val |-> None, failure |-> FALSE]
        /\ file = [c \in Chunk |-> IF c \in left THEN Wanted ELSE Hole]
        /\ disk = file
  BY DEF Init
<1>3. left = {} /\ 1..0 = {} /\ 0 \in 0..MaxLen
  BY ChunkType DEF Vouched
<1>4. RecordClaims /\ ClaimsHold
  BY <1>2, <1>3 DEF RecordClaims, ClaimsHold, ClaimDurable, VersionOfProven
<1>5. \A o \in Owners : own[o].pc = "idle"
  BY DEF Init, Idle
<1> QED
  BY <1>4, <1>5, IdleAgrees, ClaimsAll DEF HasTheClaim

\* Who claims the record starts from what it claims.
LEMMA ClaimTaken ==
  ASSUME DigestSpeaks, ClaimsAgree, NEW o \in Owners, Claim(o) \/ TakeClaim(o)
  PROVE  ClaimsAgree' /\ Forgets
<1>1. TypeOK /\ Epochs /\ rec \in Record /\ \A p \in Owners : own[p] \in Owner
  BY DEF DigestSpeaks, TypeOK
<1>2. rec' = Claimed(rec) /\ file' = file /\ disk' = disk
  BY DEF Claim, TakeClaim
<1>3. rec'.epoch = rec.epoch + 1 /\ rec'.proven = rec.proven /\ rec'.val = rec.val
  BY <1>1, <1>2 DEF Record, Claimed
<1>4. RecordClaims' /\ ClaimsHold'
  BY <1>1, <1>2, <1>3, ClaimStays, ClaimsAll DEF Claims
<1>5. \A p \in Owners \ {o} : ~Latest(p)'
  <2> SUFFICES ASSUME NEW p \in Owners \ {o} PROVE ~Latest(p)'
    OBVIOUS
  <2>1. own'[p] = own[p] /\ own[p].epoch <= rec.epoch
    BY <1>1, OthersKept DEF Epochs, Taking
  <2>2. own[p].epoch \in Nat /\ rec.epoch \in Nat
    BY <1>1 DEF Owner, Record
  <2> QED
    BY <1>3, <2>1, <2>2 DEF Latest
<1>6. Agrees(own'[o], rec', file') /\ own'[o].pc \notin {"hash", "gap", "body", "end"}
  <2>1. CASE Claim(o)
    <3> DEFINE pc == IF rec.want = "run" THEN "begin" ELSE "honour"
               b == rec.proven # {}
               t == [Idle EXCEPT !.pc = pc, !.epoch = rec.epoch + 1, !.have = rec.proven,
                                 !.seen = rec.val, !.resumed = b, !.stop = rec.want]
    <3>1. own'[o] = t
      BY <1>1, <2>1, Moved DEF Claim
    <3>2. pc \in {"begin", "honour"}
      OBVIOUS
    <3> HIDE DEF pc, b
    <3>3. t.pc = pc /\ t.have = rec.proven /\ t.seen = rec.val
      BY DEF Idle
    <3> HIDE DEF t
    <3> QED
      BY <1>3, <3>1, <3>2, <3>3 DEF Agrees, OfOneVersion, Abreast, InStream
  <2>2. CASE TakeClaim(o)
    <3> DEFINE t == [Idle EXCEPT !.pc = "take", !.epoch = rec.epoch + 1]
    <3>1. own'[o] = t
      BY <1>1, <2>2, Moved DEF TakeClaim
    <3>2. t.pc = "take"
      BY DEF Idle
    <3> HIDE DEF t
    <3> QED
      BY <3>1, <3>2 DEF Agrees, OfOneVersion, Abreast, InStream
  <2> QED
    BY <2>1, <2>2
<1>7. HasTheClaim(o)'
  BY <1>6 DEF HasTheClaim
<1>8. \A p \in Owners : Latest(p)' => Agrees(own'[p], rec', file') /\ HasTheClaim(p)'
  BY <1>5, <1>6, <1>7
<1> QED
  BY <1>3, <1>4, <1>8 DEF ClaimsAgree, Agrees, Forgets

LEMMA ClaimStepOwner ==
  ASSUME Fenced, Vouched, DigestSpeaks, Memory', ClaimsAgree, NEW o \in Owners,
         Running(o) \/ TakeComplete(o)
  PROVE  ClaimsAgree' /\ Forgets
<1>1. TypeOK /\ Memory /\ Epochs /\ RecordClaims /\ ClaimsHold /\ VersionOfProven /\ ~Overtaken
  BY DEF DigestSpeaks, ClaimsAgree, ClaimsHold, Fenced
<1>2. \A p \in Owners : Latest(p) => Agrees(own[p], rec, file) /\ HasTheClaim(p)
  BY ClaimsAll
<1>3. \A p \in Owners \ {o} : own'[p] = own[p]
  BY <1>1, OthersKept DEF Taking
<1>4. /\ rec'.epoch = rec.epoch /\ own'[o].epoch \in {own[o].epoch, 0}
      /\ own[o].pc # "idle" /\ own[o].epoch # 0
  BY <1>1, EpochKept, OwnEpoch DEF Memory, Sane
<1>5. CASE Latest(o)
  <2>1. RecordClaims' /\ ClaimsHold' /\ Forgets
    BY <1>1, <1>2, <1>5, ClaimMover
  <2>2. Agrees(own'[o], rec', file') /\ HasTheClaim(o)'
    BY <1>1, <1>2, <1>5, AgreesMover, ClaimKept
  <2>3. \A p \in Owners \ {o} : ~Latest(p)'
    BY <1>1, <1>3, <1>4, <1>5 DEF Latest, Epochs
  <2>4. \A p \in Owners : Latest(p)' => Agrees(own'[p], rec', file') /\ HasTheClaim(p)'
    BY <2>2, <2>3
  <2> QED
    BY <2>1, <2>4 DEF ClaimsAgree, Agrees
<1>6. CASE ~Latest(o)
  <2>1. ~Holds(o) /\ \A op : ~MayTouch(o, op)
    BY <1>1, <1>6, TouchesLatest DEF Holds, Accepts, Latest
  <2>2. rec' = rec
    BY <2>1, RefusedKeeps
  <2>3. file' = file /\ disk' \in {disk, file}
    <3>1. ~ (Trim(o) \/ Write(o) \/ AskRestarts(o) \/ Deliver(o) \/ RemovePartial(o))
      BY <2>1 DEF Trim, Write, AskRestarts, Deliver, RemovePartial
    <3> QED
      BY <3>1, FileMoves DEF Taking
  <2>4. RecordClaims' /\ ClaimsHold' /\ Forgets
    BY <1>1, <2>2, <2>3, ClaimStays DEF Claims, Forgets
  <2>5. Latest(o)' => Agrees(own'[o], rec', file') /\ HasTheClaim(o)'
    <3>1. CASE own'[o].pc = "idle"
      BY <3>1, IdleAgrees DEF HasTheClaim
    <3>2. CASE own'[o].pc # "idle"
      BY <1>1, <1>6, <2>2, <3>2, HoldsOn DEF Latest
    <3> QED
      BY <3>1, <3>2
  <2>6. ASSUME NEW p \in Owners \ {o}, Latest(p)'
        PROVE  Agrees(own'[p], rec', file') /\ HasTheClaim(p)'
    <3>1. Latest(p) /\ own'[p] = own[p]
      BY <1>3, <2>2, <2>6 DEF Latest
    <3>2. Agrees(own[p], rec, file) /\ HasTheClaim(p)
      BY <1>2, <3>1
    <3> QED
      BY <2>2, <2>3, <3>1, <3>2 DEF HasTheClaim, Holds
  <2>7. \A p \in Owners : Latest(p)' => Agrees(own'[p], rec', file') /\ HasTheClaim(p)'
    BY <2>5, <2>6
  <2> QED
    BY <2>4, <2>7 DEF ClaimsAgree, Agrees
<1> QED
  BY <1>5, <1>6

\* A power loss takes nothing that is claimed, since that is on the disk.
LEMMA ClaimPowerLoss ==
  ASSUME TypeOK, RecordClaims, ClaimsHold, PowerLoss
  PROVE  RecordClaims' /\ ClaimsHold'
<1>1. PICK f \in File : /\ \A c \in Chunk : f[c] \in {file[c], disk[c]}
                        /\ file' = f /\ disk' = f /\ rec' = rec
  BY DEF PowerLoss
<1>2. RecordClaims'
  BY <1>1 DEF RecordClaims
<1>3. \A c : Reaches(f, c) => Reaches(file, c)
  BY <1>1 DEF Reaches, RecordClaims
<1>4. \A c \in rec.proven : Reaches(f, c) => f[c] = file[c] /\ file[c] # Hole
  BY <1>1, <1>3, ClaimRange DEF ClaimsHold, ClaimDurable
<1>5. ClaimDurable'
  BY <1>1, <1>4 DEF ClaimDurable
<1>6. VersionOfProven'
  BY <1>1, <1>3, <1>4 DEF ClaimsHold, VersionOfProven
<1> QED
  BY <1>2, <1>5, <1>6 DEF ClaimsHold

LEMMA ClaimStepEnvironment ==
  ASSUME DigestSpeaks, ClaimsAgree, Environment
  PROVE  ClaimsAgree' /\ Forgets
<1>1. TypeOK /\ RecordClaims /\ ClaimsHold /\ rec \in Record /\ Idle.pc = "idle"
  BY DEF DigestSpeaks, ClaimsAgree, TypeOK, Idle
<1>2. \A p \in Owners : Latest(p) => Agrees(own[p], rec, file) /\ HasTheClaim(p)
  BY ClaimsAll
<1>3. CASE SetWant \/ Lapse \/ LapseDead
  <2>1. /\ rec'.proven = rec.proven /\ rec'.val = rec.val /\ rec'.epoch = rec.epoch
        /\ rec'.state = rec.state /\ (rec'.live => rec.live)
        /\ file' = file /\ disk' = disk /\ own' = own
    BY <1>1, <1>3 DEF SetWant, Lapse, LapseDead, Record
  <2>2. RecordClaims' /\ ClaimsHold' /\ Forgets
    BY <1>1, <2>1, ClaimStays DEF Claims, Forgets
  <2>3. \A p \in Owners : Latest(p)' => Agrees(own'[p], rec', file') /\ HasTheClaim(p)'
    <3> SUFFICES ASSUME NEW p \in Owners, Latest(p)'
                 PROVE  Agrees(own'[p], rec', file') /\ HasTheClaim(p)'
      OBVIOUS
    <3>1. Agrees(own[p], rec, file) /\ HasTheClaim(p)
      BY <1>2, <2>1 DEF Latest
    <3>2. Agrees(own'[p], rec', file')
      BY <2>1, <3>1 DEF Agrees, Abreast
    <3>3. Holds(p)' => Holds(p)
      BY <2>1 DEF Holds, Accepts
    <3>4. HasTheClaim(p)'
      BY <2>1, <3>1, <3>3 DEF HasTheClaim
    <3> QED
      BY <3>2, <3>4
  <2> QED
    BY <2>2, <2>3 DEF ClaimsAgree, Agrees
<1>4. CASE PowerLoss
  <2>1. rec' = rec /\ \A p \in Owners : own'[p].pc = "idle"
    BY <1>1, <1>4 DEF PowerLoss
  <2>2. RecordClaims' /\ ClaimsHold'
    BY <1>1, <1>4, ClaimPowerLoss
  <2>3. \A p \in Owners : Agrees(own'[p], rec', file') /\ HasTheClaim(p)'
    BY <2>1, IdleAgrees DEF HasTheClaim
  <2> QED
    BY <2>1, <2>2, <2>3 DEF ClaimsAgree, Agrees, Forgets
<1>5. ASSUME NEW o \in Owners, Crash(o) PROVE ClaimsAgree' /\ Forgets
  <2>1. /\ rec' = rec /\ file' = file /\ disk' = disk
        /\ \A p \in Owners : own'[p] = own[p] \/ own'[p].pc = "idle"
    BY <1>1, <1>5, Moved DEF Crash
  <2>2. RecordClaims' /\ ClaimsHold' /\ Forgets
    BY <1>1, <2>1, ClaimStays DEF Claims, Forgets
  <2>3. ASSUME NEW p \in Owners, Latest(p)'
        PROVE  Agrees(own'[p], rec', file') /\ HasTheClaim(p)'
    <3>1. CASE own'[p].pc = "idle"
      BY <3>1, IdleAgrees DEF HasTheClaim
    <3>2. CASE own'[p] = own[p]
      <4>1. Agrees(own[p], rec, file) /\ HasTheClaim(p)
        BY <1>2, <2>1, <2>3, <3>2 DEF Latest
      <4> QED
        BY <2>1, <3>2, <4>1 DEF HasTheClaim, Holds
    <3> QED
      BY <2>1, <3>1, <3>2
  <2> QED
    BY <2>2, <2>3 DEF ClaimsAgree, Agrees
<1> QED
  BY <1>3, <1>4, <1>5 DEF Environment

LEMMA ClaimStep ==
  ASSUME Fenced, Vouched, DigestSpeaks, ClaimsAgree, [Next]_vars
  PROVE  ClaimsAgree' /\ Forgets
<1>1. TypeOK' /\ Memory'
  BY TypeStep DEF DigestSpeaks
<1>2. CASE UNCHANGED vars
  <2>1. RecordClaims' /\ ClaimsHold'
    BY <1>2 DEF vars, ClaimsAgree, RecordClaims, ClaimsHold, ClaimDurable,
                VersionOfProven, Reaches
  <2>2. \A o \in Owners : Latest(o)' => Agrees(own'[o], rec', file') /\ HasTheClaim(o)'
    BY <1>2, ClaimsAll DEF vars, Latest, HasTheClaim, Holds
  <2> QED
    BY <1>2, <2>1, <2>2 DEF vars, ClaimsAgree, Agrees, Forgets
<1>3. ASSUME NEW o \in Owners, Claim(o) \/ Running(o) \/ Taking(o)
      PROVE  ClaimsAgree' /\ Forgets
  BY <1>1, <1>3, ClaimTaken, ClaimStepOwner DEF Taking
<1> QED
  BY <1>2, <1>3, ClaimStepEnvironment DEF Next

(***************************************************************************)
(* A checkpoint can be trusted by whoever resumes from it (RecordPlan,     *)
(* Report, keepProven, restart in runner.go): were the power to go at any  *)
(* moment, what the record claims would be on the disk, and of the version *)
(* it names; an owner that lost its lease, wherever it is, neither claims  *)
(* nor spoils anything, as long as it does not write (Fenced).             *)
(***************************************************************************)
THEOREM CheckpointsHold ==
  ASSUME Fenced, Vouched
  PROVE  Spec => []ClaimsHold
<1>1. DigestSpeaks /\ ClaimsAgree => ClaimsHold
  BY DEF ClaimsAgree
<1>2. Init => DigestSpeaks /\ ClaimsAgree
  BY DigestInit, ClaimInit
<1>3. DigestSpeaks /\ ClaimsAgree /\ [Next]_vars => DigestSpeaks' /\ ClaimsAgree'
  BY DigestStep, ClaimStep DEF Fenced
<1> QED
  BY <1>1, <1>2, <1>3, PTL DEF Spec

(***************************************************************************)
(* Upwards only: no step makes the record forget a chunk that the file     *)
(* still has, whether it replans, restarts, checkpoints, stops or fails.   *)
(***************************************************************************)
THEOREM ProvenStays ==
  ASSUME Fenced, Vouched
  PROVE  Spec => NothingForgotten
<1>1. Init => DigestSpeaks /\ ClaimsAgree
  BY DigestInit, ClaimInit
<1>2. DigestSpeaks /\ ClaimsAgree /\ [Next]_vars => DigestSpeaks' /\ ClaimsAgree'
  BY DigestStep, ClaimStep DEF Fenced
<1>3. DigestSpeaks /\ ClaimsAgree /\ [Next]_vars =>
        [\A c \in rec.proven \ rec'.proven : file[c] = Hole]_rec
  BY ClaimStep DEF Forgets
<1> QED
  BY <1>1, <1>2, <1>3, PTL DEF Spec, NothingForgotten
=============================================================================
