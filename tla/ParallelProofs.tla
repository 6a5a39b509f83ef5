--------------------------- MODULE ParallelProofs ---------------------------
(***************************************************************************)
(* Proofs about ParallelRanges, for every size, plan, number of workers    *)
(* and of disturbances: types, that a claim is synced, that the record     *)
(* only grows, that success means the whole file, that what landed is      *)
(* kept however the transfer ends, and that no byte is fetched twice.      *)
(***************************************************************************)
EXTENDS ParallelInvariant, FiniteSetTheorems, WellFoundedInduction, TLAPS

LEMMA Sizes ==
  /\ Size \in Nat /\ Size > 0 /\ MaxLen \in Nat /\ Size <= MaxLen
  /\ 1 \in Chunk /\ Chunk \subseteq 1..MaxLen
  /\ Sources \in Nat /\ Sources > 0 /\ Budget \in Nat /\ MaxFaults \in Nat
BY ParallelAssumption DEF Chunk

LEMMA CountType ==
  ASSUME NEW S \in SUBSET Chunk
  PROVE  Cardinality(S) \in Nat /\ Cardinality(S) <= Size
<1>1. IsFiniteSet(Chunk) /\ Cardinality(Chunk) = Size
  BY Sizes, FS_Interval DEF Chunk
<1> QED
  BY <1>1, FS_Subset, FS_CardinalityType

\* A disturbance leaves a bounded number of them.
LEMMA DisturbType ==
  ASSUME TypeOK, Disturb
  PROVE  faults' \in 0..MaxFaults
BY Sizes DEF TypeOK, Disturb

LEMMA FreshTypes ==
  /\ Quiet \in [stop : BOOLEAN, failed : BOOLEAN, asked : BOOLEAN]
  /\ Resting \in [pc : {"idle", "sync", "add"}, parts : SUBSET Chunk, failed : BOOLEAN]
  /\ NoKeeper \in [on : BOOLEAN, silent : 0..Budget, fence : {"none", "lease", "stalled"}]
  /\ NoOne \in Connection
BY Sizes DEF Quiet, Resting, NoKeeper, NoOne, Connection

\* Worker w has state s now, the others theirs.
LEMMA GoesTo ==
  ASSUME TypeOK, NEW w \in Workers, NEW s, Goes(w, s)
  PROVE  /\ conn'[w] = s /\ \A v \in Workers \ {w} : conn'[v] = conn[v]
         /\ s \in Connection => conn' \in [Workers -> Connection]
BY DEF TypeOK, Goes

LEMMA TypeInit == Init => TypeOK
<1> SUFFICES ASSUME Init PROVE TypeOK
  OBVIOUS
<1>1. PICK proven \in SUBSET Chunk, tail \in SUBSET ((Size + 1)..MaxLen) :
        /\ rec = [proven |-> proven, live |-> FALSE, want |-> "run"]
        /\ file = proven \cup tail
  BY DEF Init
<1>2. file \in SUBSET (1..MaxLen)
  BY <1>1, Sizes DEF Chunk
<1> QED
  BY <1>1, <1>2, FreshTypes, Sizes DEF Init, TypeOK

LEMMA TypeFeeder == ASSUME TypeOK, Open \/ Feeder PROVE TypeOK'
<1>1. CASE Open
  <2>1. Resumable(rec.proven, file) \in SUBSET Chunk
    BY DEF TypeOK, Resumable
  <2>2. RangesFor(Resumable(rec.proven, file)) \in SUBSET Span
    BY DEF RangesFor
  <2>3. keeper' \in [on : BOOLEAN, silent : 0..Budget, fence : {"none", "lease", "stalled"}]
    BY <1>1, FreshTypes DEF Open
  <2> QED
    BY <1>1, <2>1, <2>2, <2>3, Sizes DEF TypeOK, Open, Trimmed
<1>2. CASE FeedEnds \/ Join \/ StopKeeper \/ Return
  BY <1>2 DEF FeedEnds, Join, StopKeeper, Return, TypeOK, store, Connection
<1>3. CASE Whole
  BY <1>3 DEF Whole, Flushed, TypeOK, Connection
<1>4. CASE KeepProven
  <2>1. have \in SUBSET Chunk
    BY DEF TypeOK
  <2>2. 1..Cardinality(have) \in SUBSET Chunk
    BY <2>1, CountType, Sizes DEF Chunk
  <2>3. rec' \in [proven : SUBSET Chunk, live : BOOLEAN, want : {"run", "pause"}]
    BY <1>4, <2>2 DEF KeepProven, TypeOK
  <2>4. faults' \in 0..MaxFaults
    BY <1>4, DisturbType DEF KeepProven, TypeOK
  <2> QED
    BY <1>4, <2>3, <2>4 DEF KeepProven, TypeOK, Connection
<1>5. CASE Release
  BY <1>5, FreshTypes DEF Release, Forgets, TypeOK
<1> QED
  BY <1>1, <1>2, <1>3, <1>4, <1>5 DEF Feeder

LEMMA TypeWorker == ASSUME TypeOK, NEW w \in Workers, Working1(w) PROVE TypeOK'
<1> DEFINE c == conn[w]
<1>0. c \in Connection /\ Chunks(c) \in SUBSET Chunk
  BY Sizes DEF TypeOK, Connection, Chunks, Chunk
<1>1. CASE Feed(w)
  <2>1. PICK r \in todo :
          /\ todo' = todo \ {r}
          /\ Goes(w, [pc |-> "fetch", from |-> r.from, to |-> r.to, ask |-> r.from,
                      at |-> r.from, reached |-> r.from, left |-> Sources])
    BY <1>1 DEF Feed, Goes
  <2>2. r.from \in Chunk /\ r.to \in Chunk /\ r.from \in 1..(Size + 1)
    BY Sizes DEF TypeOK, Span, Chunk
  <2>3. [pc |-> "fetch", from |-> r.from, to |-> r.to, ask |-> r.from,
         at |-> r.from, reached |-> r.from, left |-> Sources] \in Connection
    BY <2>2, Sizes DEF Connection
  <2> QED
    BY <1>1, <2>1, <2>3, GoesTo DEF Feed, TypeOK, store
<1>2. CASE Arrive(w)
  <2> DEFINE s == [c EXCEPT !.at = @ + 1,
                            !.reached = IF c.at + 1 > @ THEN c.at + 1 ELSE @]
  <2>1. c.at \in Chunk /\ c.at + 1 \in 1..(Size + 1)
    BY <1>0, <1>2, Sizes DEF Arrive, Connection, Chunk
  <2>2. s \in Connection
    BY <1>0, <2>1 DEF Connection
  <2>3. Goes(w, s)
    BY <1>2 DEF Arrive
  <2> HIDE DEF s
  <2>4. conn' \in [Workers -> Connection]
    BY <2>2, <2>3, GoesTo
  <2>5. keeper' \in [on : BOOLEAN, silent : 0..Budget, fence : {"none", "lease", "stalled"}]
    BY <1>2, Sizes DEF Arrive, TypeOK
  <2>6. file' \in SUBSET (1..MaxLen) /\ landed' \in SUBSET Chunk
    BY <1>2, <2>1, Sizes DEF Arrive, TypeOK
  <2> QED
    BY <1>2, <2>4, <2>5, <2>6 DEF Arrive, TypeOK
<1>3. CASE Arrived(w) \/ WorkerStopped(w) \/ WorkerFails(w) \/ SyncRange(w)
  <2>1. [c EXCEPT !.pc = "proved"] \in Connection /\ [c EXCEPT !.pc = "gone"] \in Connection
        /\ [c EXCEPT !.pc = "add"] \in Connection
    BY <1>0 DEF Connection
  <2>2. conn' \in [Workers -> Connection]
    BY <1>3, <2>1, GoesTo DEF Arrived, WorkerStopped, WorkerFails, SyncRange
  <2>3. faults' \in 0..MaxFaults
    BY <1>3, DisturbType DEF Arrived, WorkerStopped, WorkerFails, SyncRange, TypeOK
  <2> QED
    BY <1>3, <2>2, <2>3
       DEF Arrived, WorkerStopped, WorkerFails, SyncRange, Flushed, Failed, TypeOK, store
<1>4. CASE NextSource(w)
  <2> DEFINE s == [c EXCEPT !.ask = AskFrom(c), !.at = AskFrom(c), !.left = @ - 1]
  <2>1. AskFrom(c) \in Chunk /\ AskFrom(c) \in 1..(Size + 1) /\ c.left - 1 \in 0..Sources
    <3>1. /\ c.ask \in 1..Size /\ c.reached \in 1..(Size + 1) /\ c.to \in 1..Size
          /\ c.left \in 0..Sources /\ c.left > 1
      BY <1>0, <1>4 DEF NextSource, Connection, Chunk
    <3> QED
      BY <3>1, Sizes DEF AskFrom, Chunk
  <2>2. s \in Connection
    BY <1>0, <2>1 DEF Connection
  <2>3. Goes(w, s)
    BY <1>4 DEF NextSource
  <2> HIDE DEF s
  <2>4. conn' \in [Workers -> Connection]
    BY <2>2, <2>3, GoesTo
  <2> QED
    BY <1>4, <2>4, DisturbType DEF NextSource, TypeOK, store
<1>7. CASE Prove(w)
  <2>1. Folded(Chunks(c)) \in SUBSET Chunk /\ landed \ Chunks(c) \in SUBSET Chunk
    BY <1>0 DEF Folded, TypeOK
  <2>2. CASE Stored(Folded(Chunks(c))) /\ Goes(w, NoOne) /\ ctx' = Heard(ctx)
    BY <1>7, <2>1, <2>2, FreshTypes DEF Prove, Stored, Goes, Heard, TypeOK
  <2>3. CASE NotStored /\ Goes(w, [c EXCEPT !.pc = "gone"]) /\ ctx' = Failed(ctx)
    <3>1. keeper' \in [on : BOOLEAN, silent : 0..Budget, fence : {"none", "lease", "stalled"}]
          /\ faults' \in 0..MaxFaults /\ rec' = rec
      BY <2>3, DisturbType DEF NotStored, TypeOK
    <3> QED
      BY <1>0, <1>7, <2>1, <2>3, <3>1 DEF Prove, Goes, Failed, TypeOK, Connection
  <2> QED
    BY <1>7, <2>2, <2>3 DEF Prove
<1> QED
  BY <1>1, <1>2, <1>3, <1>4, <1>7 DEF Working1

LEMMA TypeSaver == ASSUME TypeOK, Saver PROVE TypeOK'
<1>1. CASE SaverRead
  <2>1. saver' \in [pc : {"idle", "sync", "add"}, parts : SUBSET Chunk, failed : BOOLEAN]
    BY <1>1 DEF SaverRead, Saved, Resting, TypeOK
  <2>2. pc' \in {pc, "return"}
    BY <1>1 DEF SaverRead, Saved
  <2>3. UNCHANGED <<rec, file, disk, todo, ctx, have, landed, conn, keeper, faults>>
    BY <1>1 DEF SaverRead, store
  <2> QED
    BY <2>1, <2>2, <2>3 DEF TypeOK
<1>2. CASE SaverSync
  <2>1. CASE disk' = Flushed /\ saver' = [saver EXCEPT !.pc = "add"] /\ UNCHANGED <<pc, ctx, faults>>
    BY <1>2, <2>1 DEF SaverSync, Flushed, TypeOK, Connection
  <2>2. CASE /\ Disturb /\ Saved(TRUE) /\ UNCHANGED disk
             /\ ctx' = IF pc = "last" THEN [ctx EXCEPT !.failed = TRUE] ELSE ctx
    BY <1>2, <2>2, DisturbType DEF SaverSync, Saved, Resting, TypeOK, Connection
  <2> QED
    BY <1>2, <2>1, <2>2 DEF SaverSync
<1>3. CASE SaverAdd
  <2> DEFINE got == Folded(Parts(saver))
  <2>1. got \in SUBSET Chunk
    BY DEF Folded, Parts, TypeOK
  <2>2. CASE got = have /\ Saved(FALSE) /\ UNCHANGED <<rec, ctx, keeper, faults>>
    BY <1>3, <2>1, <2>2 DEF SaverAdd, Saved, Resting, TypeOK
  <2>3. CASE Stored(got) /\ Saved(FALSE) /\ ctx' = Heard(ctx)
    BY <1>3, <2>1, <2>3 DEF SaverAdd, Saved, Resting, Stored, Heard, TypeOK
  <2>4. CASE /\ NotStored /\ Saved(TRUE)
             /\ ctx' = [ctx EXCEPT !.stop = @ \/ keeper' # keeper, !.failed = @ \/ pc = "last"]
    <3>1. keeper' \in [on : BOOLEAN, silent : 0..Budget, fence : {"none", "lease", "stalled"}]
          /\ faults' \in 0..MaxFaults /\ rec' = rec
      BY <2>4, DisturbType DEF NotStored, TypeOK
    <3>2. saver' \in [pc : {"idle", "sync", "add"}, parts : SUBSET Chunk, failed : BOOLEAN]
      BY <2>4 DEF Saved, Resting
    <3>3. pc' \in {pc, "return"}
      BY <2>4 DEF Saved
    <3>4. ctx' \in [stop : BOOLEAN, failed : BOOLEAN, asked : BOOLEAN]
      BY <2>4 DEF TypeOK
    <3> QED
      BY <1>3, <2>1, <3>1, <3>2, <3>3, <3>4 DEF SaverAdd, TypeOK
  <2> QED
    BY <1>3, <2>2, <2>3, <2>4 DEF SaverAdd
<1> QED
  BY <1>1, <1>2, <1>3 DEF Saver

LEMMA TypeOthers ==
  ASSUME TypeOK, KeeperTick \/ Watch \/ Environment PROVE TypeOK'
<1>1. CASE KeeperTick
  <2>1. faults' \in 0..MaxFaults
    BY <1>1, DisturbType DEF KeeperTick, TypeOK
  <2>2. keeper' \in [on : BOOLEAN, silent : 0..Budget, fence : {"none", "lease", "stalled"}]
    BY <1>1, Sizes DEF KeeperTick, Renewed, Stalled, TypeOK
  <2>3. ctx' \in [stop : BOOLEAN, failed : BOOLEAN, asked : BOOLEAN]
    BY <1>1 DEF KeeperTick, Heard, TypeOK
  <2> QED
    BY <1>1, <2>1, <2>2, <2>3 DEF KeeperTick, TypeOK, store
<1>2. CASE Watch
  <2>1. ctx' \in [stop : BOOLEAN, failed : BOOLEAN, asked : BOOLEAN]
    BY <1>2 DEF Watch, Heard, TypeOK
  <2>2. UNCHANGED <<rec, file, disk, pc, todo, have, landed, conn, saver, keeper, faults>>
    BY <1>2 DEF Watch, store
  <2> QED
    BY <2>1, <2>2 DEF TypeOK
<1>3. CASE SetWant \/ Lapse
  BY <1>3, DisturbType DEF SetWant, Lapse, TypeOK, Connection
<1>4. CASE Other
  BY <1>4, DisturbType, Sizes DEF Other, TypeOK, Connection
<1>5. CASE Crash
  <2>1. file' \in SUBSET (1..MaxLen) /\ disk' \in SUBSET (1..MaxLen)
    BY <1>5 DEF Crash, TypeOK
  <2>2. faults' \in 0..MaxFaults
    BY <1>5, DisturbType DEF Crash
  <2>3. rec' \in [proven : SUBSET Chunk, live : BOOLEAN, want : {"run", "pause"}]
    BY <1>5 DEF Crash, TypeOK
  <2> QED
    BY <1>5, <2>1, <2>2, <2>3, FreshTypes DEF Crash, Forgets, TypeOK
<1> QED
  BY <1>1, <1>2, <1>3, <1>4, <1>5 DEF Environment

LEMMA TypeStep == TypeOK /\ [Next]_vars => TypeOK'
<1> SUFFICES ASSUME TypeOK, [Next]_vars PROVE TypeOK'
  OBVIOUS
<1>1. CASE UNCHANGED vars
  BY <1>1 DEF vars, store, TypeOK
<1>2. CASE Next
  BY <1>2, TypeFeeder, TypeWorker, TypeSaver, TypeOthers DEF Next
<1> QED
  BY <1>1, <1>2

-----------------------------------------------------------------------------
(* The plan leaves nothing out.                                             *)

LEMMA Least ==
  ASSUME NEW T \in SUBSET Nat, T # {}
  PROVE  \E x \in T : \A y \in T : x <= y
<1> DEFINE R == {ss \in Nat \X Nat : ss[1] < ss[2]}
<1>1. IsWellFoundedOn(R, Nat)
  BY NatLessThanWellFounded DEF OpToRel
<1>2. ASSUME NEW x \in Nat, NEW y \in Nat, <<y, x>> \notin R
      PROVE  x <= y
  <2>1. <<y, x>> \in Nat \X Nat /\ <<y, x>>[1] = y /\ <<y, x>>[2] = x
    OBVIOUS
  <2> QED
    BY <1>2, <2>1
<1> HIDE DEF R
<1>3. \E x \in T : \A y \in T : ~(<<y, x>> \in R)
  BY <1>1, WFMin
<1> QED
  BY <1>2, <1>3

LEMMA Greatest ==
  ASSUME NEW n \in Nat, NEW T \in SUBSET (0..n), T # {}
  PROVE  \E x \in T : \A y \in T : y <= x
<1> DEFINE S == {n - y : y \in T}
<1>1. S \in SUBSET Nat
  <2>1. \A y \in T : n - y \in Nat
    OBVIOUS
  <2> QED
    BY <2>1
<1>2. S # {}
  OBVIOUS
<1>3. PICK m \in S : \A y \in S : m <= y
  <2> HIDE DEF S
  <2> QED
    BY <1>1, <1>2, Least
<1>4. PICK x \in T : m = n - x
  OBVIOUS
<1>5. ASSUME NEW y \in T PROVE y <= x
  <2>1. n - y \in S
    OBVIOUS
  <2>2. n - x <= n - y /\ x \in Int /\ y \in Int
    BY <2>1, <1>3, <1>4
  <2> QED
    BY <2>2
<1> QED
  BY <1>5

\* A chunk that is not proven is in a range of the plan.
LEMMA PlanCovers ==
  ASSUME NEW got \in SUBSET Chunk, NEW k \in Chunk \ got
  PROVE  \E r \in RangesFor(got) : k \in Chunks(r)
<1> DEFINE Starts == {d \in 1..k : d = 1 \/ d - 1 \in got \cup Cuts}
           Ends == {e \in Chunk : k <= e /\ (e = Size \/ e \in Cuts \/ e + 1 \in got)}
<1>0. k \in Nat /\ 1 <= k /\ k <= Size
  BY Sizes DEF Chunk
<1>1. 1 \in Starts /\ Starts \in SUBSET (0..k)
  BY <1>0
<1>2. PICK d \in Starts : \A y \in Starts : y <= d
  <2> HIDE DEF Starts
  <2> QED
    BY <1>0, <1>1, Greatest
<1>3. Size \in Ends /\ Ends \in SUBSET Nat
  BY <1>0, Sizes DEF Chunk
<1>4. PICK e \in Ends : \A y \in Ends : e <= y
  <2> HIDE DEF Ends
  <2> QED
    BY <1>3, Least
<1>5. d \in Chunk /\ e \in Chunk /\ d <= k /\ k <= e
  BY <1>0, Sizes DEF Chunk
<1>6. ASSUME NEW c \in d..e PROVE c \notin got /\ (c < e => c \notin Cuts)
  <2>0. c \in Chunk /\ c \in Nat
    BY <1>5, Sizes DEF Chunk
  <2>1. CASE c < k
    <3>1. c + 1 \in 1..k /\ ~(c + 1 <= d)
      BY <2>0, <2>1, <1>0, <1>5 DEF Chunk
    <3>2. c + 1 \notin Starts
      BY <3>1, <1>2
    <3>3. (c + 1) - 1 = c
      BY <2>0
    <3> QED
      BY <3>1, <3>2, <3>3
  <2>2. CASE c > k
    <3>1. c - 1 \in Chunk /\ k <= c - 1 /\ ~(e <= c - 1) /\ (c - 1) + 1 = c
      BY <2>0, <2>2, <1>0, <1>5, Sizes DEF Chunk
    <3>2. c \notin got
      BY <3>1, <1>4
    <3>3. c < e => c \notin Ends
      BY <2>0, <1>4, <1>5, Sizes DEF Chunk
    <3> QED
      BY <2>0, <2>2, <3>2, <3>3, <1>0
  <2>3. CASE c = k
    <3>1. k < e => k \notin Ends
      BY <1>4, <1>5, <1>0, Sizes DEF Chunk
    <3> QED
      BY <2>3, <3>1, <1>0
  <2> QED
    BY <2>0, <2>1, <2>2, <2>3, <1>0
<1> DEFINE r == [from |-> d, to |-> e]
<1>7. r \in Span /\ r.from = d /\ r.to = e
  <2>1. d <= e
    BY <1>5, <1>0, Sizes DEF Chunk
  <2> QED
    BY <1>5, <2>1 DEF Span
<1>8. Chunks(r) = d..e
  BY <1>7 DEF Chunks
<1>9. d <= e /\ (d = 1 \/ d - 1 \in got \cup Cuts) /\ (e = Size \/ e \in Cuts \/ e + 1 \in got)
  BY <1>5, <1>0, Sizes DEF Chunk
<1> HIDE DEF r
<1>10. r \in RangesFor(got)
  BY <1>6, <1>7, <1>8, <1>9 DEF RangesFor
<1>11. k \in d..e
  BY <1>5, <1>0, Sizes DEF Chunk
<1> QED
  BY <1>8, <1>10, <1>11

-----------------------------------------------------------------------------
(* The ledger, step by step.                                                *)

LEMMA LedgerInit == Init => Ledger
<1> SUFFICES ASSUME Init PROVE Ledger
  OBVIOUS
<1>1. \A w \in Workers : conn[w].pc = "idle"
  BY DEF Init, NoOne
<1>2. rec.proven \subseteq file /\ ~rec.live /\ disk = file
  BY DEF Init
<1>3. Fresh /\ Stops /\ Covered /\ Ended /\ WholeAtSuccess
  BY <1>1, <1>2 DEF Init, Fresh, Stops, Covered, Ended, WholeAtSuccess, NoKeeper, Resting
<1>4. InHand
  BY <1>2 DEF Init, InHand
<1>5. Synced
  BY <1>1, <1>2 DEF Init, Synced, OnFile, Resting
<1> QED
  BY <1>3, <1>4, <1>5 DEF Ledger

\* A refused write means that the lease is gone.
LEMMA Refused ==
  ASSUME ~Transient, NotStored, TypeOK
  PROVE  /\ ~rec.live /\ rec' = rec
         /\ keeper' = keeper \/ (keeper.on /\ keeper.fence = "none" /\ keeper'.on = keeper.on
                                  /\ keeper'.fence = "lease")
BY DEF NotStored, TypeOK

\* Nothing of a run happens between runs.
LEMMA Active ==
  ASSUME TypeOK, Ledger,
         Feeder \/ Saver \/ KeeperTick \/ Watch \/ \E w \in Workers : Working1(w)
  PROVE  pc # "out"
<1> SUFFICES ASSUME pc = "out" PROVE FALSE
  OBVIOUS
<1>1. /\ conn = [w \in Workers |-> NoOne] /\ saver = Resting /\ keeper = NoKeeper
  BY DEF Ledger, Fresh
<1>2. /\ \A w \in Workers : conn[w].pc = "idle"
      /\ saver.pc = "idle" /\ ~keeper.on
  BY <1>1 DEF NoOne, Resting, NoKeeper
<1>3. ASSUME NEW w \in Workers PROVE ~Working1(w)
  BY <1>2 DEF Working1, Feed, Arrive, Arrived, NextSource, WorkerFails, WorkerStopped,
              SyncRange, Prove
<1>4. ~Feeder /\ ~KeeperTick /\ ~Watch
  BY <1>2 DEF Feeder, FeedEnds, Join, StopKeeper, Whole, Return, KeepProven, Release,
              KeeperTick, Watch, Watched
<1>5. ~Saver
  BY <1>2 DEF Saver, SaverRead, SaverSync, SaverAdd
<1> QED
  BY <1>3, <1>4, <1>5

LEMMA LedgerOpen == ASSUME TypeOK, Ledger, Open PROVE Ledger'
<1> DEFINE got == Resumable(rec.proven, file)
<1>1. rec.proven \subseteq disk /\ disk \subseteq file /\ rec.proven \in SUBSET Chunk
  BY DEF Ledger, Synced, TypeOK
<1>2. got = rec.proven
  <2>1. \A c \in rec.proven : c \in file /\ c >= c
    BY <1>1, Sizes DEF Chunk
  <2> QED
    BY <2>1 DEF Resumable
<1>3. /\ landed = {} /\ ctx = Quiet /\ saver = Resting /\ conn = [w \in Workers |-> NoOne]
  BY DEF Open, Ledger, Fresh
<1>4. /\ \A w \in Workers : conn'[w].pc = "idle"
      /\ landed' = {} /\ saver'.pc = "idle"
  BY <1>3 DEF Open, NoOne, Resting
<1>5. /\ rec'.proven = rec.proven /\ have' = rec.proven /\ pc' = "feed"
      /\ file' = file \cap Chunk /\ disk' = disk \cap Chunk
      /\ keeper'.fence = "none" /\ keeper'.on /\ todo' = RangesFor(rec.proven)
  BY <1>2 DEF Open, Trimmed, TypeOK, NoKeeper
<1>6. Fresh' /\ WholeAtSuccess'
  BY <1>5 DEF Fresh, WholeAtSuccess
<1>7. Synced'
  BY <1>1, <1>4, <1>5 DEF Synced, OnFile
<1>8. InHand' /\ Stops' /\ Ended'
  BY <1>4, <1>5 DEF InHand, Stops, Ended
<1>9. Covered'
  BY <1>1, <1>5, PlanCovers DEF Covered
<1> QED
  BY <1>6, <1>7, <1>8, <1>9 DEF Ledger

LEMMA LedgerForgets ==
  ASSUME Forgets, ~rec'.live, rec'.proven \subseteq disk', disk' \subseteq file'
  PROVE  Ledger'
<1>1. /\ \A w \in Workers : conn'[w].pc = "idle"
      /\ landed' = {} /\ have' = {} /\ saver'.pc = "idle" /\ keeper'.fence = "none"
      /\ pc' = "out" /\ ~keeper'.on
  BY DEF Forgets, NoOne, Resting, NoKeeper
<1>2. Fresh'
  BY DEF Forgets, Fresh
<1>3. Synced'
  BY <1>1 DEF Synced, OnFile
<1>4. InHand' /\ Stops' /\ Ended' /\ Covered' /\ WholeAtSuccess'
  BY <1>1 DEF InHand, Stops, Ended, Covered, WholeAtSuccess
<1> QED
  BY <1>2, <1>3, <1>4 DEF Ledger

LEMMA LedgerFeeder == ASSUME ~Transient, TypeOK, Ledger, Feeder PROVE Ledger'
<1>0. pc # "out" /\ Fresh /\ Synced /\ InHand /\ Stops /\ Covered /\ Ended /\ WholeAtSuccess
  BY Active DEF Ledger
<1>1. CASE FeedEnds \/ Join \/ StopKeeper \/ Return
  <2>1. UNCHANGED <<store, todo, ctx, have, landed, conn, saver>>
    BY <1>1 DEF FeedEnds, Join, StopKeeper, Return
  <2>2. pc' # "out" /\ pc' # "whole" /\ keeper'.fence = keeper.fence
    BY <1>1 DEF FeedEnds, Join, StopKeeper, Return, TypeOK
  <2>3. Synced' /\ InHand' /\ Stops' /\ Covered'
    BY <1>0, <2>1, <2>2 DEF Synced, InHand, Stops, Covered, store
  <2>4. Ended'
    BY <1>0, <1>1, <2>1, <2>2
       DEF FeedEnds, Join, StopKeeper, Return, Ended, Busy, TypeOK, store
  <2> QED
    BY <2>2, <2>3, <2>4 DEF Ledger, Fresh, WholeAtSuccess
<1>2. CASE Whole
  <2>1. /\ ~ctx.stop /\ ~ctx.failed /\ pc = "return" /\ pc' = "whole"
        /\ disk' = disk \cup file
    BY <1>2 DEF Whole, Succeeds, Flushed
  <2>2. Chunk \subseteq have
    BY <1>0, <2>1 DEF Covered, Ended
  <2>3. /\ rec.proven = Chunk /\ disk \subseteq file /\ file = Chunk
    BY <1>0, <2>1, <2>2 DEF InHand, Synced, Ended, TypeOK
  <2>4. UNCHANGED <<rec, file, todo, ctx, have, landed, conn, saver, keeper>>
    BY <1>2 DEF Whole
  <2>5. Synced'
    BY <1>0, <2>1, <2>3, <2>4 DEF Synced, OnFile
  <2>6. InHand' /\ Stops' /\ Covered' /\ Ended'
    BY <1>0, <2>1, <2>3, <2>4 DEF InHand, Stops, Covered, Ended
  <2> QED
    BY <2>1, <2>3, <2>4, <2>5, <2>6 DEF Ledger, Fresh, WholeAtSuccess
<1>3. CASE KeepProven
  <2>1. rec.live => have = rec.proven
    BY <1>0 DEF InHand
  <2>2. have \in SUBSET Chunk /\ rec.proven \in SUBSET Chunk
    BY DEF TypeOK
  <2>3. Cardinality(have) \in Nat
    BY <2>2, CountType
  <2>4. rec' = rec
    BY <1>3, <2>1, <2>3 DEF KeepProven
  <2>5. UNCHANGED <<file, disk, todo, ctx, have, landed, conn, saver, keeper>>
        /\ pc = "keep" /\ pc' = "release"
    BY <1>3 DEF KeepProven
  <2>6. Synced' /\ InHand' /\ Stops' /\ Covered' /\ Ended'
    BY <1>0, <2>4, <2>5 DEF Synced, InHand, Stops, Covered, Ended
  <2> QED
    BY <2>5, <2>6 DEF Ledger, Fresh, WholeAtSuccess
<1>4. CASE Release
  <2>1. Forgets /\ ~rec'.live /\ rec'.proven = rec.proven /\ disk' = disk /\ file' = file
    BY <1>4 DEF Release, TypeOK
  <2> QED
    BY <1>0, <2>1, LedgerForgets DEF Synced
<1> QED
  BY <1>1, <1>2, <1>3, <1>4 DEF Feeder

LEMMA OnFileGrows ==
  ASSUME NEW c, NEW f, NEW d, NEW f2, NEW d2, OnFile(c, f, d), f \subseteq f2, d \subseteq d2
  PROVE  OnFile(c, f2, d2)
BY DEF OnFile

\* Only the worker's own state, the context and the silence change.
LEMMA Moves ==
  ASSUME TypeOK, Ledger, NEW w \in Workers, NEW s \in Connection, Goes(w, s),
         pc \in {"feed", "wait"},
         conn[w].pc \in Busy, OnFile(s, file, disk),
         s.from = conn[w].from /\ s.to = conn[w].to,
         s.pc \in Busy \/ (s.pc = "gone" /\ ctx'.stop), ctx.stop => ctx'.stop,
         ctx.failed => ctx'.failed,
         keeper'.fence = keeper.fence, keeper'.on = keeper.on,
         UNCHANGED <<store, pc, todo, have, landed, saver>>
  PROVE  Ledger'
<1>1. conn'[w] = s /\ \A v \in Workers \ {w} : conn'[v] = conn[v]
  BY GoesTo
<1>2. Chunks(s) = Chunks(conn[w])
  BY DEF Chunks
<1>3. Fresh' /\ WholeAtSuccess' /\ InHand'
  BY DEF Fresh, WholeAtSuccess, InHand, Ledger, store, TypeOK
<1>4. Synced'
  BY <1>1 DEF Ledger, Synced, store
<1>5. Stops'
  BY <1>1 DEF Ledger, Stops, Busy
<1>6. Covered'
  BY <1>1, <1>2 DEF Ledger, Covered
<1>7. Ended'
  BY DEF Ledger, Ended, store
<1> QED
  BY <1>3, <1>4, <1>5, <1>6, <1>7 DEF Ledger

\* A worker that works does so while the feeder feeds or waits.
LEMMA AtWork ==
  ASSUME TypeOK, Ledger, NEW w \in Workers, conn[w].pc \in Busy
  PROVE  pc \in {"feed", "wait"}
<1>1. pc # "out"
  <2>1. ASSUME pc = "out" PROVE conn[w] = NoOne
    BY <2>1 DEF Ledger, Fresh
  <2> QED
    BY <2>1 DEF NoOne, Busy
<1> QED
  BY <1>1 DEF Ledger, Ended, TypeOK

LEMMA LedgerFeed ==
  ASSUME TypeOK, Ledger, NEW w \in Workers, Feed(w) PROVE Ledger'
<1>1. PICK r \in todo :
        /\ todo' = todo \ {r}
        /\ Goes(w, [pc |-> "fetch", from |-> r.from, to |-> r.to, ask |-> r.from,
                    at |-> r.from, reached |-> r.from, left |-> Sources])
  BY DEF Feed, Goes
<1>2. r \in Span
  BY DEF TypeOK
<1>3. r.from \in Nat /\ r.to \in Nat /\ r.from <= r.to
  BY <1>2, Sizes DEF Span, Chunk
<1>4. conn'[w] = [pc |-> "fetch", from |-> r.from, to |-> r.to, ask |-> r.from,
                  at |-> r.from, reached |-> r.from, left |-> Sources]
      /\ \A v \in Workers \ {w} : conn'[v] = conn[v]
  BY <1>1, GoesTo
<1>5. /\ pc = "feed" /\ conn[w].pc = "idle"
      /\ UNCHANGED <<store, pc, ctx, have, landed, saver, keeper, faults>>
  BY DEF Feed
<1>6. OnFile(conn'[w], file, disk)
  BY <1>3, <1>4 DEF OnFile
<1>7. Synced'
  BY <1>4, <1>5, <1>6 DEF Ledger, Synced, store
<1>8. Covered'
  <2>1. Chunks(conn'[w]) = Chunks(r) /\ conn'[w].pc \in Busy
    BY <1>4 DEF Chunks, Busy
  <2>2. conn[w].pc \notin Busy
    BY <1>5 DEF Busy
  <2> QED
    BY <1>1, <1>4, <1>5, <2>1, <2>2 DEF Ledger, Covered
<1>9. Fresh' /\ InHand' /\ Stops' /\ Ended' /\ WholeAtSuccess'
  BY <1>4, <1>5 DEF Ledger, Fresh, InHand, Stops, Ended, WholeAtSuccess, store
<1> QED
  BY <1>7, <1>8, <1>9 DEF Ledger

LEMMA LedgerArrive ==
  ASSUME TypeOK, Ledger, NEW w \in Workers, Arrive(w) PROVE Ledger'
<1> DEFINE c == conn[w]
           s == [c EXCEPT !.at = @ + 1,
                          !.reached = IF c.at + 1 > @ THEN c.at + 1 ELSE @]
<1>1. /\ c.pc = "fetch" /\ c.at <= c.to /\ Goes(w, s)
      /\ file' = file \cup {c.at} /\ landed' = landed \cup {c.at}
      /\ keeper' = [keeper EXCEPT !.silent = 0]
      /\ UNCHANGED <<rec, disk, pc, todo, ctx, have, saver, faults>>
  BY DEF Arrive
<1>2. c \in Connection /\ OnFile(c, file, disk)
  BY DEF TypeOK, Ledger, Synced
<1>3. /\ c.at \in Nat /\ c.reached \in Nat /\ c.to \in Nat /\ c.from \in Nat
      /\ c.ask \in Nat /\ c.at \in Chunk
  BY <1>1, <1>2, Sizes DEF Connection, Chunk
<1>4. /\ s.pc = "fetch" /\ s.from = c.from /\ s.to = c.to /\ s.ask = c.ask /\ s.at = c.at + 1
      /\ s.reached = IF c.at + 1 > c.reached THEN c.at + 1 ELSE c.reached
  BY <1>1, <1>2 DEF Connection
<1> HIDE DEF s
<1>5. conn'[w] = s /\ \A v \in Workers \ {w} : conn'[v] = conn[v]
  BY <1>1, GoesTo
<1>6. OnFile(s, file', disk')
  <2>1. s.reached <= s.to + 1 /\ s.at <= s.reached /\ s.ask <= s.at /\ s.from <= s.ask
    BY <1>1, <1>2, <1>3, <1>4 DEF OnFile
  <2>2. ASSUME NEW k \in s.from..(s.reached - 1) PROVE k \in file'
    <3>1. k \in c.from..(c.reached - 1) \/ k = c.at
      BY <1>1, <1>2, <1>3, <1>4 DEF OnFile
    <3> QED
      BY <1>1, <1>2, <3>1 DEF OnFile
  <2> QED
    BY <1>4, <2>1, <2>2 DEF OnFile
<1>7. Synced'
  <2>1. ASSUME NEW v \in Workers \ {w} PROVE OnFile(conn'[v], file', disk')
    <3>1. OnFile(conn[v], file, disk)
      BY DEF Ledger, Synced
    <3> QED
      BY <1>1, <1>5, <3>1, OnFileGrows
  <2> QED
    BY <1>1, <1>5, <1>6, <2>1 DEF Ledger, Synced
<1>8. Covered'
  <2>1. Chunks(s) = Chunks(c)
    BY <1>4 DEF Chunks
  <2> QED
    BY <1>1, <1>4, <1>5, <2>1 DEF Ledger, Covered, Busy
<1>9. pc \in {"feed", "wait"}
  BY <1>1, AtWork DEF Busy
<1>10. Fresh' /\ WholeAtSuccess' /\ InHand'
  BY <1>1, <1>9 DEF Ledger, Fresh, WholeAtSuccess, InHand
<1>11. Stops'
  BY <1>1, <1>4, <1>5 DEF Ledger, Stops, TypeOK
<1>12. Ended'
  BY <1>1, <1>3, <1>9 DEF Ledger, Ended
<1> QED
  BY <1>7, <1>8, <1>10, <1>11, <1>12 DEF Ledger

LEMMA LedgerSyncRange ==
  ASSUME TypeOK, Ledger, NEW w \in Workers, SyncRange(w) PROVE Ledger'
<1> DEFINE s == [conn[w] EXCEPT !.pc = "add"]
<1>1. /\ conn[w].pc = "proved" /\ disk' = disk \cup file /\ Goes(w, s)
      /\ UNCHANGED <<rec, file, pc, todo, ctx, have, landed, saver, keeper, faults>>
  BY DEF SyncRange, Flushed
<1>2. conn[w] \in Connection
  BY DEF TypeOK
<1>3. s.pc = "add" /\ s.from = conn[w].from /\ s.to = conn[w].to
  BY <1>2 DEF Connection
<1> HIDE DEF s
<1>4. conn'[w] = s /\ \A v \in Workers \ {w} : conn'[v] = conn[v]
  BY <1>1, GoesTo
<1>5. Chunks(s) = Chunks(conn[w])
  BY <1>3 DEF Chunks
<1>6. OnFile(s, file', disk')
  BY <1>1, <1>3, <1>5 DEF Ledger, Synced, OnFile
<1>7. Synced'
  <2>1. ASSUME NEW v \in Workers \ {w} PROVE OnFile(conn'[v], file', disk')
    <3>1. OnFile(conn[v], file, disk)
      BY DEF Ledger, Synced
    <3> QED
      BY <1>1, <1>4, <3>1, OnFileGrows
  <2> QED
    BY <1>1, <1>4, <1>6, <2>1 DEF Ledger, Synced
<1>8. Covered'
  BY <1>1, <1>3, <1>4, <1>5 DEF Ledger, Covered, Busy
<1>9. pc \in {"feed", "wait"}
  BY <1>1, AtWork DEF Busy
<1>10. Fresh' /\ WholeAtSuccess' /\ InHand' /\ Stops' /\ Ended'
  BY <1>1, <1>3, <1>4, <1>9 DEF Ledger, Fresh, WholeAtSuccess, InHand, Stops, Ended
<1> QED
  BY <1>7, <1>8, <1>10 DEF Ledger

LEMMA LedgerProve ==
  ASSUME ~Transient, TypeOK, Ledger, NEW w \in Workers, Prove(w) PROVE Ledger'
<1> DEFINE got == have \cup Chunks(conn[w])
           s == [conn[w] EXCEPT !.pc = "gone"]
<1>1. /\ conn[w].pc = "add" /\ have' = got /\ landed' = landed \ Chunks(conn[w])
      /\ \/ Stored(got) /\ Goes(w, NoOne) /\ ctx' = Heard(ctx)
         \/ NotStored /\ Goes(w, s) /\ ctx' = Failed(ctx)
      /\ UNCHANGED <<file, disk, pc, todo, saver>>
  BY DEF Prove, Folded
<1>2. conn[w] \in Connection /\ s.pc = "gone"
  BY DEF TypeOK, Connection
<1> HIDE DEF s
<1>3. got \subseteq disk /\ landed' \subseteq file
  BY <1>1 DEF Ledger, Synced, OnFile
<1>4. pc \in {"feed", "wait"}
  BY <1>1, AtWork DEF Busy
<1>5. CASE Stored(got) /\ Goes(w, NoOne) /\ ctx' = Heard(ctx)
  <2>1. conn'[w].pc = "idle" /\ \A v \in Workers \ {w} : conn'[v] = conn[v]
    BY <1>5, GoesTo DEF NoOne
  <2>2. rec'.proven = got /\ UNCHANGED keeper /\ ctx'.failed = ctx.failed
        /\ (ctx.stop => ctx'.stop)
    BY <1>5 DEF Stored, Heard, TypeOK
  <2>3. Synced'
    BY <1>1, <1>3, <2>1, <2>2 DEF Ledger, Synced, OnFile
  <2>4. Covered'
    BY <1>1, <1>4, <2>1, <2>2 DEF Ledger, Covered
  <2>5. Fresh' /\ InHand' /\ Stops' /\ Ended' /\ WholeAtSuccess'
    BY <1>1, <1>4, <2>1, <2>2 DEF Ledger, Fresh, InHand, Stops, Ended, WholeAtSuccess
  <2> QED
    BY <2>3, <2>4, <2>5 DEF Ledger
<1>6. CASE NotStored /\ Goes(w, s) /\ ctx' = Failed(ctx)
  <2>1. conn'[w].pc = "gone" /\ \A v \in Workers \ {w} : conn'[v] = conn[v]
    BY <1>2, <1>6, GoesTo
  <2>2. ~rec.live /\ rec' = rec /\ ctx'.stop /\ ctx'.failed /\ keeper'.on = keeper.on
    BY <1>6, Refused DEF Failed, TypeOK
  <2>3. Synced'
    BY <1>1, <1>3, <2>1, <2>2 DEF Ledger, Synced, OnFile
  <2>4. Fresh' /\ InHand' /\ Stops' /\ Covered' /\ Ended' /\ WholeAtSuccess'
    BY <1>1, <1>4, <2>1, <2>2
       DEF Ledger, Fresh, InHand, Stops, Covered, Ended, WholeAtSuccess
  <2> QED
    BY <2>3, <2>4 DEF Ledger
<1> QED
  BY <1>1, <1>5, <1>6

LEMMA LedgerWorker ==
  ASSUME ~Transient, TypeOK, Ledger, NEW w \in Workers, Working1(w) PROVE Ledger'
<1> DEFINE c == conn[w]
<1>0. c \in Connection /\ OnFile(c, file, disk)
  BY DEF TypeOK, Ledger, Synced
<1>1. CASE Arrived(w)
  <2> DEFINE s == [c EXCEPT !.pc = "proved"]
  <2>1. /\ s \in Connection /\ s.pc = "proved" /\ s.from = c.from /\ s.to = c.to
    BY <1>0 DEF Connection
  <2>2. c.pc = "fetch" /\ c.at > c.to /\ Goes(w, s)
        /\ UNCHANGED <<store, pc, todo, ctx, have, landed, saver, keeper, faults>>
    BY <1>1 DEF Arrived
  <2> HIDE DEF s
  <2>3. OnFile(s, file, disk)
    <3>1. /\ c.at \in Nat /\ c.reached \in Nat /\ c.to \in Nat /\ c.from \in Nat
      BY <1>0, Sizes DEF Connection, Chunk
    <3>2. Chunks(s) \subseteq c.from..(c.reached - 1)
      BY <1>0, <2>1, <2>2, <3>1 DEF Chunks, OnFile
    <3> QED
      BY <1>0, <2>1, <2>2, <3>2 DEF OnFile
  <2>4. pc \in {"feed", "wait"}
    BY <2>2, AtWork DEF Busy
  <2> QED
    BY <2>1, <2>2, <2>3, <2>4, Moves DEF Busy
<1>2. CASE NextSource(w)
  <2> DEFINE s == [c EXCEPT !.ask = AskFrom(c), !.at = AskFrom(c), !.left = @ - 1]
  <2>1. c.pc = "fetch" /\ c.left > 1 /\ Goes(w, s)
        /\ UNCHANGED <<store, pc, todo, ctx, have, landed, saver, keeper>>
    BY <1>2 DEF NextSource
  <2>2. /\ c.ask \in Nat /\ c.reached \in Nat /\ c.to \in Nat /\ c.from \in Nat /\ c.at \in Nat
        /\ c.ask \in 1..Size /\ c.to \in 1..Size /\ c.left \in 0..Sources
    BY <1>0, Sizes DEF Connection, Chunk
  <2>3. AskFrom(c) \in Chunk /\ AskFrom(c) \in 1..(Size + 1) /\ c.left - 1 \in 0..Sources
        /\ c.from <= AskFrom(c) /\ AskFrom(c) <= c.reached
    BY <1>0, <2>1, <2>2, Sizes DEF AskFrom, OnFile, Chunk
  <2>4. /\ s \in Connection /\ s.pc = "fetch" /\ s.from = c.from /\ s.to = c.to
        /\ s.ask = AskFrom(c) /\ s.at = AskFrom(c) /\ s.reached = c.reached
    BY <1>0, <2>1, <2>3 DEF Connection
  <2> HIDE DEF s
  <2>5. OnFile(s, file, disk)
    BY <1>0, <2>1, <2>2, <2>3, <2>4 DEF OnFile, Chunk
  <2>6. pc \in {"feed", "wait"}
    BY <2>1, AtWork DEF Busy
  <2> QED
    BY <2>1, <2>4, <2>5, <2>6, Moves DEF Busy
<1>3. CASE WorkerFails(w) \/ WorkerStopped(w)
  <2> DEFINE s == [c EXCEPT !.pc = "gone"]
  <2>1. /\ s \in Connection /\ s.pc = "gone" /\ s.from = c.from /\ s.to = c.to
    BY <1>0 DEF Connection
  <2>2. c.pc \in Busy /\ Goes(w, s) /\ ctx'.stop /\ ctx'.failed
        /\ UNCHANGED <<store, pc, todo, have, landed, saver, keeper>>
    BY <1>3 DEF WorkerFails, WorkerStopped, Failed, Busy, TypeOK
  <2> HIDE DEF s
  <2>3. OnFile(s, file, disk)
    BY <2>1 DEF OnFile
  <2>4. pc \in {"feed", "wait"}
    BY <2>2, AtWork
  <2> QED
    BY <2>1, <2>2, <2>3, <2>4, Moves
<1> QED
  BY <1>1, <1>2, <1>3, LedgerFeed, LedgerArrive, LedgerSyncRange, LedgerProve DEF Working1

LEMMA LedgerSaver == ASSUME ~Transient, TypeOK, Ledger, Saver PROVE Ledger'
<1>0. pc # "out"
  BY Active
<1>1. CASE SaverRead
  <2>1. /\ UNCHANGED <<store, todo, ctx, have, landed, conn, keeper, faults>>
        /\ pc \in {"feed", "wait", "last"}
        /\ \/ saver'.pc = "sync" /\ saver'.parts = landed /\ pc' = pc
           \/ saver'.pc = "idle" /\ pc' = IF pc = "last" THEN "return" ELSE pc
    BY <1>1 DEF SaverRead, Saved, Resting
  <2>2. Synced'
    BY <2>1 DEF Ledger, Synced, store
  <2>3. Fresh' /\ InHand' /\ Stops' /\ Covered' /\ Ended' /\ WholeAtSuccess'
    BY <2>1 DEF Ledger, Fresh, InHand, Stops, Covered, Ended, WholeAtSuccess, store
  <2> QED
    BY <2>2, <2>3 DEF Ledger
<1>2. CASE SaverSync
  <2>1. /\ saver.pc = "sync" /\ UNCHANGED <<rec, file, todo, have, landed, conn, keeper>>
        /\ disk' \in {disk, disk \cup file}
        /\ ctx'.stop = ctx.stop /\ (ctx.failed => ctx'.failed)
        /\ \/ saver'.pc = "add" /\ saver'.parts = saver.parts /\ pc' = pc
              /\ disk' = disk \cup file
           \/ saver'.pc = "idle" /\ pc' = IF pc = "last" THEN "return" ELSE pc
    BY <1>2 DEF SaverSync, Saved, Resting, Flushed, TypeOK
  <2>2. disk \subseteq disk' /\ disk' \subseteq file' /\ file' = file
    BY <2>1 DEF Ledger, Synced
  <2>3. Synced'
    <3>1. ASSUME NEW v \in Workers PROVE OnFile(conn'[v], file', disk')
      <4>1. OnFile(conn[v], file, disk)
        BY DEF Ledger, Synced
      <4> QED
        BY <2>1, <2>2, <4>1, OnFileGrows
    <3> QED
      BY <2>1, <2>2, <3>1 DEF Ledger, Synced
  <2>4. pc \notin {"return", "keep", "release", "whole"}
    BY <2>1 DEF Ledger, Ended
  <2>5. Fresh' /\ InHand' /\ Stops' /\ Covered' /\ Ended' /\ WholeAtSuccess'
    BY <1>0, <2>1, <2>4 DEF Ledger, Fresh, InHand, Stops, Covered, Ended, WholeAtSuccess
  <2> QED
    BY <2>3, <2>5 DEF Ledger
<1>3. CASE SaverAdd
  <2> DEFINE got == have \cup saver.parts
  <2>1. /\ saver.pc = "add" /\ have' = got
        /\ \/ got = have /\ Saved(FALSE) /\ UNCHANGED <<rec, ctx, keeper, faults>>
           \/ got # have /\ Stored(got) /\ Saved(FALSE) /\ ctx' = Heard(ctx)
           \/ /\ got # have /\ NotStored /\ Saved(TRUE)
              /\ ctx' = [ctx EXCEPT !.stop = @ \/ keeper' # keeper, !.failed = @ \/ pc = "last"]
        /\ UNCHANGED <<file, disk, todo, landed, conn>>
    BY <1>3 DEF SaverAdd, Folded, Parts
  <2>2. got \subseteq disk
    BY <2>1 DEF Ledger, Synced
  <2>3. pc \notin {"return", "keep", "release", "whole"}
    BY <2>1 DEF Ledger, Ended
  <2>4. saver'.pc = "idle" /\ pc' = IF pc = "last" THEN "return" ELSE pc
    BY <2>1 DEF Saved, Resting
  <2>5. /\ ctx.stop => ctx'.stop
        /\ ctx.failed => ctx'.failed
        /\ rec'.proven \in {rec.proven, got}
        /\ \/ rec'.proven = got /\ keeper' = keeper
           \/ rec' = rec /\ got = have /\ keeper' = keeper
           \/ rec' = rec /\ ~rec.live /\ keeper'.on = keeper.on
    <3>1. CASE got = have /\ Saved(FALSE) /\ UNCHANGED <<rec, ctx, keeper, faults>>
      BY <3>1
    <3>2. CASE Stored(got) /\ Saved(FALSE) /\ ctx' = Heard(ctx)
      BY <3>2 DEF Stored, Heard, TypeOK
    <3>3. CASE /\ NotStored /\ Saved(TRUE)
               /\ ctx' = [ctx EXCEPT !.stop = @ \/ keeper' # keeper, !.failed = @ \/ pc = "last"]
      BY <3>3, Refused DEF TypeOK
    <3> QED
      BY <2>1, <3>1, <3>2, <3>3
  <2>6. Stops'
    <3>1. keeper' # keeper => ctx'.stop
      BY <2>1 DEF Stored, TypeOK
    <3> QED
      BY <2>1, <2>5, <3>1 DEF Ledger, Stops
  <2>7. InHand'
    <3>1. CASE rec'.proven = got
      BY <2>1, <3>1 DEF InHand
    <3>2. CASE rec' = rec /\ got = have
      BY <1>0, <2>1, <2>5, <3>2 DEF Ledger, InHand
    <3>3. CASE rec' = rec /\ ~rec.live
      \* A refused write fences the run, unless the keeper is stopped or fenced already.
      <4>1. got # have => ctx'.stop \/ ctx'.failed
        <5>1. SUFFICES ASSUME got # have, pc # "last" PROVE ctx'.stop
          BY <2>1, <3>3 DEF Stored, TypeOK
        <5>2. keeper.on
          BY <1>0, <2>3, <5>1 DEF Ledger, Ended, Watched, TypeOK
        <5>3. ctx' = [ctx EXCEPT !.stop = @ \/ keeper' # keeper, !.failed = @ \/ pc = "last"]
              /\ NotStored
          BY <2>1, <3>3, <5>1 DEF Stored
        <5>4. CASE keeper.fence = "none"
          <6>1. keeper' = [keeper EXCEPT !.fence = "lease"]
            BY <5>2, <5>3, <5>4 DEF NotStored
          <6>2. keeper'.fence = "lease"
            BY <6>1 DEF TypeOK
          <6>3. keeper' # keeper
            BY <5>4, <6>2
          <6> QED
            BY <5>3, <6>3 DEF TypeOK
        <5>5. CASE keeper.fence # "none"
          BY <5>3, <5>5 DEF Ledger, Stops, TypeOK
        <5> QED
          BY <5>4, <5>5
      <4> QED
        BY <1>0, <2>1, <2>5, <3>3, <4>1 DEF Ledger, InHand
    <3> QED
      BY <2>5, <3>1, <3>2, <3>3
  <2>8. Synced'
    BY <2>1, <2>2, <2>4, <2>5 DEF Ledger, Synced
  <2>9. Fresh' /\ Covered' /\ Ended' /\ WholeAtSuccess'
    BY <1>0, <2>1, <2>3, <2>4, <2>5 DEF Ledger, Fresh, Covered, Ended, WholeAtSuccess
  <2> QED
    BY <2>6, <2>7, <2>8, <2>9 DEF Ledger
<1> QED
  BY <1>1, <1>2, <1>3 DEF Saver

LEMMA LedgerOthers ==
  ASSUME ~Transient, TypeOK, Ledger, KeeperTick \/ Watch \/ Environment PROVE Ledger'
<1>1. CASE KeeperTick
  <2>1. /\ pc # "out" /\ pc # "whole"
        /\ UNCHANGED <<store, pc, todo, have, landed, conn, saver>>
        /\ keeper'.on = keeper.on /\ ctx'.failed = ctx.failed /\ (ctx.stop => ctx'.stop)
        /\ keeper'.fence # keeper.fence => ctx'.stop
    BY <1>1 DEF KeeperTick, Renewed, Heard, Ledger, Ended, TypeOK
  <2>2. Synced'
    BY <2>1 DEF Ledger, Synced, store
  <2>3. Fresh' /\ InHand' /\ Stops' /\ Covered' /\ Ended' /\ WholeAtSuccess'
    BY <2>1 DEF Ledger, Fresh, InHand, Stops, Covered, Ended, WholeAtSuccess, store
  <2> QED
    BY <2>2, <2>3 DEF Ledger
<1>2. CASE Watch
  <2>1. /\ pc # "out" /\ pc # "whole"
        /\ UNCHANGED <<store, pc, todo, have, landed, conn, saver, keeper>>
        /\ ctx'.failed = ctx.failed /\ (ctx.stop => ctx'.stop)
    BY <1>2 DEF Watch, Heard, Watched, TypeOK
  <2>2. Synced'
    BY <2>1 DEF Ledger, Synced, store
  <2>3. Fresh' /\ InHand' /\ Stops' /\ Covered' /\ Ended' /\ WholeAtSuccess'
    BY <2>1 DEF Ledger, Fresh, InHand, Stops, Covered, Ended, WholeAtSuccess, store
  <2> QED
    BY <2>2, <2>3 DEF Ledger
<1>3. CASE SetWant \/ Lapse
  <2>1. /\ rec'.proven = rec.proven /\ (rec'.live => rec.live)
        /\ UNCHANGED <<file, disk, pc, todo, ctx, have, landed, conn, saver, keeper>>
    BY <1>3 DEF SetWant, Lapse, TypeOK
  <2>2. Synced'
    BY <2>1 DEF Ledger, Synced
  <2>3. Fresh' /\ InHand' /\ Stops' /\ Covered' /\ Ended' /\ WholeAtSuccess'
    BY <2>1 DEF Ledger, Fresh, InHand, Stops, Covered, Ended, WholeAtSuccess
  <2> QED
    BY <2>2, <2>3 DEF Ledger
<1>4. CASE Other
  <2>1. PICK k \in Chunk :
          /\ file' = file \cup {k} /\ disk' = disk \cup {k}
          /\ rec' = [rec EXCEPT !.proven = @ \cup {k}]
    BY <1>4 DEF Other
  <2>2. /\ rec'.proven = rec.proven \cup {k} /\ ~rec'.live /\ pc # "out" /\ pc # "whole"
        /\ UNCHANGED <<pc, todo, ctx, have, landed, conn, saver, keeper>>
    BY <1>4, <2>1 DEF Other, TypeOK
  <2>3. Synced'
    <3>1. ASSUME NEW v \in Workers PROVE OnFile(conn'[v], file', disk')
      <4>1. OnFile(conn[v], file, disk)
        BY DEF Ledger, Synced
      <4> QED
        BY <2>1, <2>2, <4>1, OnFileGrows
    <3> QED
      BY <2>1, <2>2, <3>1 DEF Ledger, Synced
  <2>4. Fresh' /\ InHand' /\ Stops' /\ Covered' /\ Ended' /\ WholeAtSuccess'
    BY <2>1, <2>2 DEF Ledger, Fresh, InHand, Stops, Covered, Ended, WholeAtSuccess
  <2> QED
    BY <2>3, <2>4 DEF Ledger
<1>5. CASE Crash
  <2>1. /\ Forgets /\ ~rec'.live /\ rec'.proven = rec.proven
        /\ disk \subseteq disk' /\ disk' \subseteq file'
    BY <1>5 DEF Crash, TypeOK
  <2> QED
    BY <2>1, LedgerForgets DEF Ledger, Synced
<1> QED
  BY <1>1, <1>2, <1>3, <1>4, <1>5 DEF Environment

LEMMA LedgerStep == ~Transient /\ TypeOK /\ Ledger /\ [Next]_vars => Ledger'
<1> SUFFICES ASSUME ~Transient, TypeOK, Ledger, [Next]_vars PROVE Ledger'
  OBVIOUS
<1>1. CASE UNCHANGED vars
  <2>1. Synced'
    BY <1>1 DEF vars, store, Ledger, Synced
  <2>2. Fresh' /\ InHand' /\ Stops' /\ Covered' /\ Ended' /\ WholeAtSuccess'
    BY <1>1 DEF vars, store, Ledger, Fresh, InHand, Stops, Covered, Ended, WholeAtSuccess
  <2> QED
    BY <2>1, <2>2 DEF Ledger
<1>2. CASE Next
  BY <1>2, LedgerOpen, LedgerFeeder, LedgerWorker, LedgerSaver, LedgerOthers DEF Next
<1> QED
  BY <1>1, <1>2

(***************************************************************************)
(* Every variable keeps its type, with any number of workers, sources and  *)
(* disturbances: the states of parallel, the keeper and keepLanded.        *)
(***************************************************************************)
THEOREM ParallelTypes == Spec => []TypeOK
<1>1. Init => TypeOK
  BY TypeInit
<1>2. TypeOK /\ [Next]_vars => TypeOK'
  BY TypeStep
<1> QED
  BY <1>1, <1>2, PTL DEF Spec

\* The inductive invariant: what every goroutine knows agrees.
LEMMA LedgerHolds == ASSUME ~Transient PROVE Spec => []Ledger
<1>1. Init => Ledger
  BY LedgerInit
<1>2. TypeOK /\ Ledger /\ [Next]_vars => Ledger'
  BY LedgerStep
<1> QED
  BY <1>1, <1>2, ParallelTypes, PTL DEF Spec

(***************************************************************************)
(* Durability before the claim, of proved and keepLanded: the record never *)
(* claims a chunk a power loss could take.                                 *)
(***************************************************************************)
THEOREM ClaimsAreSynced == ASSUME ~Transient PROVE Spec => []ClaimSynced
<1>1. Ledger => ClaimSynced
  BY DEF Ledger, Synced, ClaimSynced
<1> QED
  BY <1>1, LedgerHolds, PTL

(***************************************************************************)
(* Runner.parallel without an error means the whole file, recorded and on  *)
(* the disk, whatever stopped, failed or lapsed on the way.                *)
(***************************************************************************)
THEOREM SuccessIsWhole == ASSUME ~Transient PROVE Spec => []WholeAtSuccess
<1>1. Ledger => WholeAtSuccess
  BY DEF Ledger
<1> QED
  BY <1>1, LedgerHolds, PTL

\* No write of the record takes a chunk back.
LEMMA Grows ==
  ASSUME ~Transient, TypeOK, Ledger, [Next]_vars
  PROVE  rec.proven \subseteq rec'.proven
<1>0. rec.live => have = rec.proven
  BY DEF Ledger, InHand
<1>1. CASE UNCHANGED vars
  BY <1>1 DEF vars, store
<1>2. CASE Open \/ KeeperTick \/ Watch
  BY <1>2 DEF Open, KeeperTick, Watch, store, TypeOK
<1>3. CASE Feeder
  <2>1. CASE KeepProven
    <3>1. Cardinality(have) \in Nat
      BY CountType DEF TypeOK
    <3>2. rec' = rec
      BY <1>0, <2>1, <3>1 DEF KeepProven
    <3> QED
      BY <3>2
  <2>2. CASE FeedEnds \/ Join \/ StopKeeper \/ Whole \/ Return \/ Release
    BY <2>2 DEF FeedEnds, Join, StopKeeper, Whole, Return, Release, store, TypeOK
  <2> QED
    BY <1>3, <2>1, <2>2 DEF Feeder
<1>4. CASE Saver
  <2>1. CASE SaverRead \/ SaverSync
    BY <2>1 DEF SaverRead, SaverSync, Disturb, store
  <2>2. CASE SaverAdd
    <3>1. CASE Stored(Folded(Parts(saver)))
      BY <1>0, <3>1 DEF Folded, Stored, TypeOK
    <3>2. CASE rec' = rec
      BY <3>2
    <3> QED
      BY <2>2, <3>1, <3>2 DEF SaverAdd, NotStored
  <2> QED
    BY <1>4, <2>1, <2>2 DEF Saver
<1>5. CASE Environment
  BY <1>5 DEF Environment, SetWant, Lapse, Other, Crash, TypeOK
<1>6. ASSUME NEW w \in Workers, Working1(w) PROVE rec.proven \subseteq rec'.proven
  <2>1. CASE Prove(w)
    BY <1>0, <2>1 DEF Prove, Folded, Stored, NotStored, TypeOK
  <2>2. CASE Feed(w) \/ Arrive(w) \/ Arrived(w) \/ NextSource(w) \/ WorkerFails(w)
             \/ WorkerStopped(w) \/ SyncRange(w)
    BY <2>2 DEF Feed, Arrive, Arrived, NextSource, WorkerFails, WorkerStopped, SyncRange, store
  <2> QED
    BY <1>6, <2>1, <2>2 DEF Working1
<1> QED
  BY <1>1, <1>2, <1>3, <1>4, <1>5, <1>6 DEF Next

(***************************************************************************)
(* A proven chunk stays proven: progress.record, keepLanded, keepProven    *)
(* and another owner only ever add to the record.                          *)
(***************************************************************************)
THEOREM NothingTakenBack == ASSUME ~Transient PROVE Spec => ProvenGrows
<1>1. TypeOK /\ Ledger /\ [Next]_vars => [rec.proven \subseteq rec'.proven]_rec
  BY Grows
<1> QED
  BY <1>1, ParallelTypes, LedgerHolds, PTL DEF Spec, ProvenGrows

\* The steps at which Runner.parallel comes to its end, and those after it.
LEMMA KeptFeeder == ASSUME ~Transient, TypeOK, Ledger, Kept, Feeder PROVE Kept'
<1>1. CASE FeedEnds \/ Join
  BY <1>1 DEF FeedEnds, Join, store, Kept, KeptAtReturn
<1>2. CASE StopKeeper
  BY <1>2 DEF StopKeeper, KeepsLanded, store, TypeOK, Kept, KeptAtReturn
<1>3. CASE Whole \/ Return \/ KeepProven
  <2>1. /\ pc' \notin {"last", "return"} /\ keeper' = keeper
        /\ rec'.live = rec.live
    BY <1>3 DEF Whole, Return, KeepProven, store, TypeOK
  <2> QED
    BY <2>1 DEF Kept, KeptAtReturn
<1>4. CASE Release
  BY <1>4 DEF Release, Forgets, NoKeeper, Kept, KeptAtReturn
<1> QED
  BY <1>1, <1>2, <1>3, <1>4 DEF Feeder

LEMMA KeptSaver == ASSUME ~Transient, TypeOK, Ledger, Kept, Saver PROVE Kept'
<1>0. rec.live => have = rec.proven
  BY DEF Ledger, InHand
<1>1. CASE SaverRead
  BY <1>0, <1>1 DEF SaverRead, Saved, Resting, store, Kept, KeptAtReturn
<1>2. CASE SaverSync
  <2>1. CASE saver' = [saver EXCEPT !.pc = "add"] /\ UNCHANGED pc
    BY <1>2, <2>1 DEF SaverSync, TypeOK, Ledger, Ended, Kept, KeptAtReturn
  <2>2. CASE Saved(TRUE)
    <3>1. saver'.pc = "idle" /\ saver'.failed
      BY <2>2 DEF Saved, Resting
    <3> QED
      BY <1>2, <3>1 DEF SaverSync, Kept, KeptAtReturn
  <2> QED
    BY <1>2, <2>1, <2>2 DEF SaverSync
<1>3. CASE SaverAdd
  <2>1. /\ have' = have \cup saver.parts /\ landed' = landed /\ saver.pc = "add"
        /\ pc' = IF pc = "last" THEN "return" ELSE pc
        /\ saver'.pc = "idle" /\ pc # "return"
    BY <1>3 DEF SaverAdd, Saved, Resting, Folded, Parts, Ledger, Ended
  <2>2. CASE have' = have /\ UNCHANGED <<rec, keeper>>
    BY <1>0, <2>1, <2>2 DEF Kept, KeptAtReturn
  <2>3. CASE Stored(have')
    <3>1. rec'.proven = have' /\ rec'.live /\ rec.live /\ keeper' = keeper
      BY <2>3 DEF Stored, TypeOK
    <3> QED
      BY <2>1, <3>1 DEF Kept, KeptAtReturn
  <2>4. CASE NotStored
    <3>1. ~rec'.live
      BY <2>4 DEF NotStored
    <3> QED
      BY <2>1, <3>1 DEF Kept, KeptAtReturn
  <2> QED
    BY <1>3, <2>1, <2>2, <2>3, <2>4 DEF SaverAdd, Folded, Parts
<1> QED
  BY <1>1, <1>2, <1>3 DEF Saver

\* No worker lands or proves a byte once they were joined.
LEMMA KeptWorker ==
  ASSUME ~Transient, TypeOK, Ledger, Kept, NEW w \in Workers, Working1(w)
  PROVE  Kept'
<1>1. CASE Feed(w)
  BY <1>1 DEF Feed, store, Kept, KeptAtReturn
<1>2. CASE Prove(w)
  <2>1. pc \notin {"last", "return"} /\ pc' = pc
    BY <1>2 DEF Prove, Ledger, Ended, Busy
  <2>2. keeper'.fence = "lease" => ~rec'.live
    <3>1. CASE Stored(Folded(Chunks(conn[w])))
      BY <3>1 DEF Stored, TypeOK, Kept
    <3>2. CASE NotStored
      BY <3>2 DEF NotStored
    <3> QED
      BY <1>2, <3>1, <3>2 DEF Prove
  <2> QED
    BY <2>1, <2>2 DEF Kept, KeptAtReturn
<1>3. CASE \/ Arrive(w) \/ Arrived(w) \/ NextSource(w) \/ WorkerFails(w)
           \/ WorkerStopped(w) \/ SyncRange(w)
  <2>1. conn[w].pc \in Busy
    BY <1>3 DEF Arrive, Arrived, NextSource, WorkerFails, WorkerStopped, SyncRange, Busy
  <2>2. pc \notin {"last", "return"}
    BY <2>1 DEF Ledger, Ended
  <2>3. pc' = pc /\ rec' = rec /\ keeper'.fence = keeper.fence
    BY <1>3 DEF Arrive, Arrived, NextSource, WorkerFails, WorkerStopped, SyncRange, store,
                TypeOK
  <2> QED
    BY <2>2, <2>3 DEF Kept, KeptAtReturn
<1> QED
  BY <1>1, <1>2, <1>3 DEF Working1

LEMMA KeptOthers ==
  ASSUME ~Transient, TypeOK, Ledger, Kept, KeeperTick \/ Watch \/ Environment
  PROVE  Kept'
<1>1. CASE KeeperTick
  <2>1. pc \notin {"last", "return"} /\ pc' = pc /\ rec' = rec
    BY <1>1 DEF KeeperTick, store, Ledger, Ended
  <2>2. keeper'.fence = "lease" => ~rec.live
    BY <1>1 DEF KeeperTick, Renewed, TypeOK
  <2> QED
    BY <2>1, <2>2 DEF Kept, KeptAtReturn
<1>2. CASE Watch
  BY <1>2 DEF Watch, store, Kept, KeptAtReturn
<1>3. CASE SetWant \/ Lapse
  <2>1. /\ rec'.proven = rec.proven /\ (rec'.live => rec.live)
        /\ UNCHANGED <<pc, have, landed, saver, keeper>>
    BY <1>3 DEF SetWant, Lapse, TypeOK
  <2> QED
    BY <2>1 DEF Kept, KeptAtReturn
<1>4. CASE Other
  <2>1. ~rec'.live /\ UNCHANGED <<pc, have, landed, saver, keeper>>
    BY <1>4 DEF Other, TypeOK
  <2> QED
    BY <2>1 DEF Kept, KeptAtReturn
<1>5. CASE Crash
  <2>1. pc' = "out" /\ keeper'.fence = "none"
    BY <1>5 DEF Crash, Forgets, NoKeeper
  <2> QED
    BY <2>1 DEF Kept, KeptAtReturn
<1> QED
  BY <1>1, <1>2, <1>3, <1>4, <1>5 DEF Environment

(***************************************************************************)
(* What landed is kept (keepLanded, and the order of parallel's end:       *)
(* workers, timer, keeper, the last write): however the transfer stops,    *)
(* with any number of workers, the record has every byte that landed.      *)
(***************************************************************************)
THEOREM LandedIsKept == ASSUME ~Transient PROVE Spec => []KeptAtReturn
<1>1. Init => Kept
  BY DEF Init, NoKeeper, Kept, KeptAtReturn
<1>2. TypeOK /\ Ledger /\ Kept /\ [Next]_vars => Kept'
  <2> SUFFICES ASSUME TypeOK, Ledger, Kept, [Next]_vars PROVE Kept'
    OBVIOUS
  <2>1. CASE UNCHANGED vars
    BY <2>1 DEF vars, store, Kept, KeptAtReturn
  <2>2. CASE Open
    BY <2>2 DEF Open, NoKeeper, Kept, KeptAtReturn
  <2> QED
    BY <2>1, <2>2, KeptFeeder, KeptSaver, KeptWorker, KeptOthers DEF Next
<1>3. Kept => KeptAtReturn
  BY DEF Kept
<1> QED
  BY <1>1, <1>2, <1>3, ParallelTypes, LedgerHolds, PTL DEF Spec
-----------------------------------------------------------------------------
(* No byte twice.                                                           *)

LEMMA MeetSymmetric ==
  ASSUME NEW r, NEW s, Meet(r, s)
  PROVE  Meet(s, r)
BY DEF Meet

\* Neither of two ranges of a plan that meet begins or ends before the other.
LEMMA NoneBefore ==
  ASSUME NEW got \in SUBSET Chunk, NEW r \in RangesFor(got), NEW s \in RangesFor(got),
         Meet(r, s)
  PROVE  ~(r.from < s.from) /\ ~(r.to < s.to)
<1>1. PICK k : k \in Chunks(r) /\ k \in Chunks(s)
  BY DEF Meet
<1>2. /\ r.from \in 1..Size /\ r.to \in 1..Size /\ s.from \in 1..Size /\ s.to \in 1..Size
      /\ k \in r.from..r.to /\ k \in s.from..s.to
  BY <1>1 DEF RangesFor, Span, Chunks, Chunk
<1>3. ~(r.from < s.from)
  <2> SUFFICES ASSUME r.from < s.from PROVE FALSE
    OBVIOUS
  <2> DEFINE e == s.from - 1
  <2>1. e \in r.from..r.to /\ e < r.to /\ s.from # 1
    BY <1>2, Sizes
  <2>2. e \in got \cup Cuts
    BY <2>1 DEF RangesFor
  <2> QED
    BY <2>1, <2>2 DEF RangesFor, Chunks
<1>4. ~(r.to < s.to)
  <2> SUFFICES ASSUME r.to < s.to PROVE FALSE
    OBVIOUS
  <2>1. r.to \in s.from..s.to /\ r.to + 1 \in s.from..s.to /\ r.to # Size
    BY <1>2, Sizes
  <2>2. r.to \in Cuts \/ r.to + 1 \in got
    BY <2>1 DEF RangesFor
  <2> QED
    BY <2>1, <2>2 DEF RangesFor, Chunks
<1> QED
  BY <1>3, <1>4

\* The ranges of a plan are disjoint.
LEMMA PlanParts ==
  ASSUME NEW got \in SUBSET Chunk, NEW r \in RangesFor(got), NEW s \in RangesFor(got),
         Meet(r, s)
  PROVE  r = s
<1>1. ~(r.from < s.from) /\ ~(r.to < s.to) /\ ~(s.from < r.from) /\ ~(s.to < r.to)
  BY NoneBefore, MeetSymmetric
<1>2. /\ r \in [from : Chunk, to : Chunk] /\ s \in [from : Chunk, to : Chunk]
      /\ r.from \in 1..Size /\ r.to \in 1..Size /\ s.from \in 1..Size /\ s.to \in 1..Size
  BY DEF RangesFor, Span, Chunk
<1>3. r.from = s.from /\ r.to = s.to
  BY <1>1, <1>2, Sizes
<1> QED
  BY <1>2, <1>3

LEMMA ApartInit == Init => Apart
<1> SUFFICES ASSUME Init PROVE Apart
  OBVIOUS
<1>1. todo = {} /\ landed = {} /\ \A w \in Workers : conn[w].pc = "idle"
  BY DEF Init, NoOne
<1> QED
  BY <1>1 DEF Apart, Held, GoesOn

\* Whoever leaves the workers and what they do alone.
LEMMA ApartLeft ==
  ASSUME Apart, UNCHANGED <<todo, landed, conn>>, pc' = "out" => pc = "out"
  PROVE  Apart'
BY DEF Apart, Held, Meet, GoesOn, Chunks

LEMMA ApartForgets == ASSUME Forgets PROVE Apart'
<1>1. todo' = {} /\ landed' = {} /\ \A w \in Workers : conn'[w].pc = "idle"
  BY DEF Forgets, NoOne
<1> QED
  BY <1>1 DEF Apart, Held, GoesOn

LEMMA ApartOpen == ASSUME TypeOK, Apart, Open PROVE Apart'
<1> DEFINE got == Resumable(rec.proven, file)
<1>1. got \in SUBSET Chunk
  BY DEF TypeOK, Resumable
<1>2. /\ landed' = {} /\ conn' = conn /\ todo' = RangesFor(got) /\ pc' = "feed"
      /\ \A w \in Workers : conn[w].pc = "idle"
  BY DEF Open, Apart, Held
<1>3. \A r, s \in todo' : Meet(r, s) => r = s
  BY <1>1, <1>2, PlanParts
<1> QED
  BY <1>2, <1>3 DEF Apart, Held, Meet, GoesOn

\* A worker that goes on with its range, or ends with it.
LEMMA SameRange ==
  ASSUME TypeOK, Apart, NEW w \in Workers, NEW s \in Connection, Goes(w, s),
         Held(w), s.pc # "idle", s.from = conn[w].from, s.to = conn[w].to,
         UNCHANGED <<pc, todo>>,
         landed \subseteq landed', landed' \subseteq landed \cup Chunks(s),
         GoesOn(s, landed')
  PROVE  Apart'
<1>1. /\ conn'[w] = s /\ \A v \in Workers \ {w} : conn'[v] = conn[v]
  BY GoesTo
<1>2. /\ \A v \in Workers : Chunks(conn'[v]) = Chunks(conn[v])
      /\ \A v \in Workers : conn'[v].pc # "idle" <=> conn[v].pc # "idle"
      /\ Chunks(s) = Chunks(conn[w])
  BY <1>1 DEF Chunks, Held
<1>3. pc # "out"
  BY DEF Apart
<1>4. \A r \in todo' : \A v \in Workers :
        conn'[v].pc # "idle" => Chunks(conn'[v]) \cap Chunks(r) = {}
  BY <1>2 DEF Apart, Held, Meet
<1>5. \A u \in Workers : \A v \in Workers \ {u} :
        conn'[u].pc # "idle" /\ conn'[v].pc # "idle"
          => Chunks(conn'[u]) \cap Chunks(conn'[v]) = {}
  BY <1>2 DEF Apart, Held, Meet
<1>6. \A k \in landed' : \E v \in Workers : conn'[v].pc # "idle" /\ k \in Chunks(conn'[v])
  <2> SUFFICES ASSUME NEW k \in landed'
               PROVE  \E v \in Workers : conn'[v].pc # "idle" /\ k \in Chunks(conn'[v])
    OBVIOUS
  <2>1. CASE k \in landed
    BY <2>1, <1>2 DEF Apart, Held
  <2>2. CASE k \in Chunks(s)
    BY <2>2, <1>1, <1>2 DEF Held
  <2> QED
    BY <2>1, <2>2
<1>7. \A v \in Workers : GoesOn(conn'[v], landed')
  <2> SUFFICES ASSUME NEW v \in Workers PROVE GoesOn(conn'[v], landed')
    OBVIOUS
  <2>1. CASE v = w
    BY <2>1, <1>1
  <2>2. CASE v # w
    <3>1. conn'[v] = conn[v] /\ GoesOn(conn[v], landed)
      BY <2>2, <1>1 DEF Apart
    <3>2. conn[v].pc = "fetch" => landed' \cap Chunks(conn[v]) \subseteq landed
      BY <2>2, <1>2, <1>5, <3>1 DEF Held
    <3> QED
      BY <3>1, <3>2 DEF GoesOn
  <2> QED
    BY <2>1, <2>2
<1>8. \A r, t \in todo' : Chunks(r) \cap Chunks(t) # {} => r = t
  BY DEF Apart, Meet
<1> QED
  BY <1>3, <1>4, <1>5, <1>6, <1>7, <1>8 DEF Apart, Held, Meet, Chunks

\* A range that is handed out leaves the others where they are.
LEMMA ApartFeed == ASSUME TypeOK, Apart, NEW w \in Workers, Feed(w) PROVE Apart'
<1>1. PICK r \in todo :
        /\ todo' = todo \ {r}
        /\ Goes(w, [pc |-> "fetch", from |-> r.from, to |-> r.to, ask |-> r.from,
                    at |-> r.from, reached |-> r.from, left |-> Sources])
  BY DEF Feed, Goes
<1> DEFINE s == [pc |-> "fetch", from |-> r.from, to |-> r.to, ask |-> r.from,
                 at |-> r.from, reached |-> r.from, left |-> Sources]
<1>2. /\ conn'[w] = s /\ \A v \in Workers \ {w} : conn'[v] = conn[v]
      /\ landed' = landed /\ pc' = pc /\ pc = "feed" /\ conn[w].pc = "idle"
  BY <1>1, GoesTo DEF Feed
<1>3. /\ s.pc = "fetch" /\ s.ask = s.from /\ s.at = s.from /\ s.reached = s.from
      /\ Chunks(s) = Chunks(r) /\ s.from \in Nat
  BY Sizes DEF TypeOK, Span, Chunk, Chunks
<1> HIDE DEF s
<1>4. \A v \in Workers \ {w} :
        conn[v].pc # "idle" => Chunks(conn[v]) \cap Chunks(r) = {}
  BY DEF Apart, Held, Meet
<1>5. landed \cap Chunks(s) = {}
  BY <1>2, <1>3, <1>4 DEF Apart, Held
<1>6. \A v \in Workers : GoesOn(conn'[v], landed')
  BY <1>2, <1>3, <1>5 DEF Apart, GoesOn
<1>7. \A q \in todo' : Chunks(q) \cap Chunks(s) = {}
  BY <1>1, <1>3 DEF Apart, Meet
<1>8. \A v \in Workers : conn'[v].pc # "idle" =>
        \A q \in todo' : Chunks(conn'[v]) \cap Chunks(q) = {}
  BY <1>1, <1>2, <1>7 DEF Apart, Held, Meet
<1>9. \A u \in Workers : \A v \in Workers \ {u} :
        conn'[u].pc # "idle" /\ conn'[v].pc # "idle"
          => Chunks(conn'[u]) \cap Chunks(conn'[v]) = {}
  <2> SUFFICES ASSUME NEW u \in Workers, NEW v \in Workers \ {u},
                      conn'[u].pc # "idle", conn'[v].pc # "idle"
               PROVE  Chunks(conn'[u]) \cap Chunks(conn'[v]) = {}
    OBVIOUS
  <2>1. CASE u = w
    BY <2>1, <1>2, <1>3, <1>4
  <2>2. CASE v = w
    BY <2>2, <1>2, <1>3, <1>4
  <2>3. CASE u # w /\ v # w
    BY <2>3, <1>2 DEF Apart, Held, Meet
  <2> QED
    BY <2>1, <2>2, <2>3
<1>10. \A k \in landed' : \E v \in Workers : conn'[v].pc # "idle" /\ k \in Chunks(conn'[v])
  BY <1>2 DEF Apart, Held
<1>11. \A q, t \in todo' : Chunks(q) \cap Chunks(t) # {} => q = t
  BY <1>1 DEF Apart, Meet
<1> QED
  BY <1>2, <1>6, <1>8, <1>9, <1>10, <1>11 DEF Apart, Held, Meet, Chunks

\* A range that is proven is nobody's, and nothing of it counts as landed.
LEMMA ApartProve == ASSUME TypeOK, Apart, NEW w \in Workers, Prove(w) PROVE Apart'
<1> DEFINE s == conn'[w]
<1>1. /\ \A v \in Workers \ {w} : conn'[v] = conn[v]
      /\ s = NoOne \/ s = [conn[w] EXCEPT !.pc = "gone"]
      /\ landed' = landed \ Chunks(conn[w]) /\ pc' = pc /\ todo' = todo
      /\ conn[w].pc = "add"
  BY GoesTo DEF Prove
<1>2. /\ s.pc # "idle" => Chunks(s) = Chunks(conn[w])
      /\ s.pc # "fetch"
  BY <1>1 DEF NoOne, Chunks, TypeOK, Connection
<1> HIDE DEF s
<1>3. pc # "out"
  BY <1>1 DEF Apart, Held
<1>4. \A v \in Workers : GoesOn(conn'[v], landed')
  BY <1>1, <1>2 DEF Apart, GoesOn, s
<1>5. \A v \in Workers : conn'[v].pc # "idle" =>
        conn[v].pc # "idle" /\ Chunks(conn'[v]) = Chunks(conn[v])
  BY <1>1, <1>2 DEF s
<1>6. \A v \in Workers : conn'[v].pc # "idle" =>
        \A q \in todo' : Chunks(conn'[v]) \cap Chunks(q) = {}
  BY <1>1, <1>5 DEF Apart, Held, Meet
<1>7. \A u \in Workers : \A v \in Workers \ {u} :
        conn'[u].pc # "idle" /\ conn'[v].pc # "idle"
          => Chunks(conn'[u]) \cap Chunks(conn'[v]) = {}
  BY <1>5 DEF Apart, Held, Meet
<1>8. \A k \in landed' : \E v \in Workers : conn'[v].pc # "idle" /\ k \in Chunks(conn'[v])
  BY <1>1 DEF Apart, Held
<1>9. \A q, t \in todo' : Chunks(q) \cap Chunks(t) # {} => q = t
  BY <1>1 DEF Apart, Meet
<1> QED
  BY <1>1, <1>3, <1>4, <1>6, <1>7, <1>8, <1>9 DEF Apart, Held, Meet, Chunks

LEMMA ApartWorker ==
  ASSUME TypeOK, Apart, NEW w \in Workers, Working1(w) PROVE Apart'
<1> DEFINE c == conn[w]
<1>0. c \in Connection
  BY DEF TypeOK
<1>1. /\ c.from \in 1..Size /\ c.to \in 1..Size /\ c.ask \in 1..Size
      /\ c.at \in 1..(Size + 1) /\ c.reached \in 1..(Size + 1) /\ c.left \in 0..Sources
  BY <1>0 DEF Connection, Chunk
<1>2. GoesOn(c, landed)
  BY DEF Apart
<1>3. CASE Arrive(w)
  <2> DEFINE top == IF c.at + 1 > c.reached THEN c.at + 1 ELSE c.reached
             s == [c EXCEPT !.at = @ + 1, !.reached = top]
  <2>1. c.pc = "fetch" /\ c.at <= c.to /\ landed' = landed \cup {c.at}
        /\ UNCHANGED <<pc, todo>> /\ Goes(w, s)
    BY <1>3 DEF Arrive
  <2>2. top \in 1..(Size + 1) /\ c.at + 1 \in 1..(Size + 1)
    BY <1>1, <2>1, Sizes
  <2>3. /\ c.from <= c.ask /\ c.ask <= c.at + 1 /\ c.at + 1 <= top
        /\ top <= c.to => c.at + 1 = top /\ c.at = c.reached
    BY <1>1, <1>2, <2>1, Sizes DEF GoesOn
  <2> HIDE DEF top
  <2>4. /\ s \in Connection /\ s.pc = c.pc /\ s.from = c.from /\ s.to = c.to
        /\ s.ask = c.ask /\ s.at = c.at + 1 /\ s.reached = top
    BY <1>0, <2>2 DEF Connection
  <2> HIDE DEF s
  <2>5. c.at \in Chunks(s)
    BY <1>1, <1>2, <2>1, <2>4, Sizes DEF Chunks, GoesOn
  <2>6. top <= c.to => \A k \in landed' \cap Chunks(s) : k < top
    <3> SUFFICES ASSUME top <= c.to, NEW k \in landed' \cap Chunks(s) PROVE k < top
      OBVIOUS
    <3>1. k \in c.from..c.to
      BY <2>4 DEF Chunks
    <3>2. c.reached <= c.to /\ top = c.reached + 1
      BY <1>1, <2>2, <2>3, Sizes
    <3>3. k = c.at \/ k < c.reached
      BY <1>2, <2>1, <3>1, <3>2 DEF GoesOn, Chunks
    <3> QED
      BY <1>1, <2>3, <3>1, <3>2, <3>3
  <2>7. GoesOn(s, landed')
    BY <2>3, <2>4, <2>6 DEF GoesOn
  <2> QED
    BY <2>1, <2>4, <2>5, <2>7, SameRange DEF Held
<1>4. CASE Arrived(w) \/ WorkerStopped(w) \/ WorkerFails(w) \/ SyncRange(w)
  <2>1. PICK p \in {"proved", "gone", "add"} : Goes(w, [c EXCEPT !.pc = p])
    BY <1>4 DEF Arrived, WorkerStopped, WorkerFails, SyncRange
  <2> DEFINE s == [c EXCEPT !.pc = p]
  <2>2. s \in Connection /\ s.pc = p /\ s.from = c.from /\ s.to = c.to
    BY <1>0 DEF Connection
  <2> HIDE DEF s
  <2>3. UNCHANGED <<pc, todo, landed>> /\ c.pc # "idle"
    BY <1>4 DEF Arrived, WorkerStopped, WorkerFails, SyncRange
  <2>4. GoesOn(s, landed')
    BY <2>2 DEF GoesOn
  <2> QED
    BY <2>1, <2>2, <2>3, <2>4, SameRange DEF Held, s
<1>5. CASE NextSource(w)
  <2> DEFINE s == [c EXCEPT !.ask = AskFrom(c), !.at = AskFrom(c), !.left = @ - 1]
  <2>1. /\ c.pc = "fetch" /\ c.left - 1 \in 0..Sources
        /\ Goes(w, s) /\ UNCHANGED <<pc, todo, landed>>
    BY <1>1, <1>5, Sizes DEF NextSource
  <2>2. /\ AskFrom(c) \in 1..Size /\ c.from <= AskFrom(c) /\ AskFrom(c) <= c.reached
        /\ c.reached <= c.to => AskFrom(c) = c.reached
    BY <1>1, <1>2, <2>1, Sizes DEF AskFrom, GoesOn
  <2>3. AskFrom(c) \in 1..(Size + 1)
    BY <2>2, Sizes
  <2>4. /\ s \in Connection /\ s.pc = c.pc /\ s.from = c.from /\ s.to = c.to
        /\ s.ask = AskFrom(c) /\ s.at = AskFrom(c) /\ s.reached = c.reached
    BY <1>0, <2>1, <2>2, <2>3 DEF Connection, Chunk
  <2> HIDE DEF s
  <2>5. GoesOn(s, landed')
    BY <1>2, <2>1, <2>2, <2>4 DEF GoesOn, Chunks
  <2> QED
    BY <2>1, <2>4, <2>5, SameRange DEF Held
<1> QED
  BY <1>3, <1>4, <1>5, ApartFeed, ApartProve DEF Working1

LEMMA ApartStep == TypeOK /\ Apart /\ [Next]_vars => Apart'
<1> SUFFICES ASSUME TypeOK, Apart, [Next]_vars PROVE Apart'
  OBVIOUS
<1>1. CASE UNCHANGED vars
  BY <1>1, ApartLeft DEF vars
<1>2. CASE Open
  BY <1>2, ApartOpen
<1>3. CASE FeedEnds \/ Join \/ StopKeeper \/ Whole \/ Return \/ KeepProven
  BY <1>3, ApartLeft DEF FeedEnds, Join, StopKeeper, Whole, Return, KeepProven
<1>4. CASE Release \/ Crash
  BY <1>4, ApartForgets DEF Release, Crash
<1>5. CASE Saver
  BY <1>5, ApartLeft DEF Saver, SaverRead, SaverSync, SaverAdd, Saved
<1>6. CASE KeeperTick \/ Watch \/ SetWant \/ Lapse \/ Other
  BY <1>6, ApartLeft DEF KeeperTick, Watch, SetWant, Lapse, Other
<1>7. CASE \E w \in Workers : Working1(w)
  BY <1>7, ApartWorker
<1> QED
  BY <1>1, <1>2, <1>3, <1>4, <1>5, <1>6, <1>7 DEF Next, Feeder, Environment

(***************************************************************************)
(* A fallback source is asked only for the rest (fetchRange, DL-R34): for  *)
(* every plan, any number of workers and sources, and through crashes,     *)
(* stops and refused writes alike, no worker writes a landed chunk again   *)
(* unless its whole range had landed and the source went on.               *)
(***************************************************************************)
THEOREM RestOnly == Spec => NoByteTwice
<1>1. TypeOK /\ Apart /\ [Next]_vars =>
        [\A w \in Workers :
           LET c == conn[w]
           IN c.pc = "fetch" /\ c.at <= c.to /\ c.at \in landed /\ conn'[w].at = c.at + 1
                => c.reached > c.to]_conn
  <2> SUFFICES ASSUME TypeOK, Apart, NEW w \in Workers,
                      conn[w].pc = "fetch", conn[w].at <= conn[w].to, conn[w].at \in landed
               PROVE  conn[w].reached > conn[w].to
    OBVIOUS
  <2> DEFINE c == conn[w]
  <2>1. /\ c.from \in 1..Size /\ c.to \in 1..Size /\ c.ask \in 1..Size
        /\ c.at \in 1..(Size + 1) /\ c.reached \in 1..(Size + 1)
    BY DEF TypeOK, Connection, Chunk
  <2>2. GoesOn(c, landed)
    BY DEF Apart
  <2>3. c.at \in Chunks(c)
    BY <2>1, <2>2, Sizes DEF GoesOn, Chunks
  <2> QED
    BY <2>1, <2>2, <2>3, Sizes DEF GoesOn
<1> QED
  BY <1>1, ApartInit, ApartStep, ParallelTypes, PTL DEF Spec, NoByteTwice
=============================================================================
