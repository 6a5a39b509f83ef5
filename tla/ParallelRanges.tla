--------------------------- MODULE ParallelRanges ---------------------------
(***************************************************************************)
(* One download carried out over several connections at once: Runner.      *)
(* parallel of go/parallel.go with the lease keeper of go/keeper.go, from  *)
(* the claim to the moment the whole file is there to be hashed, and over  *)
(* again after every stop, failure, lapse and crash.                       *)
(*                                                                         *)
(* Inside one owner run: the feeder (Runner.parallel itself), a worker per *)
(* connection, the timer that checkpoints what has landed, the keeper that *)
(* renews the lease, and the intent watch.  They share the proven set, the *)
(* landed offsets, the context and the file.  The artifact is a row of     *)
(* chunks, a set of ranges a set of chunks.  Sources hold one version:     *)
(* what happens when they do not is a matter of the digest, see Runner.    *)
(***************************************************************************)
EXTENDS Naturals, FiniteSets

CONSTANTS
  Size,        \* the chunks of the artifact are 1..Size
  MaxLen,      \* a stale file may be that long
  Cuts,        \* chunks after which the plan allows a cut
  Workers,     \* the connections of this owner
  Sources,     \* how many sources serve ranges
  Budget,      \* renewals a silent transfer is given before it is stalled
  Transient,   \* a store write may fail for its own reasons
  MaxFaults    \* how many disturbances a behaviour has, of any kind

Chunk == 1..Size

ASSUME ParallelAssumption ==
  /\ Size \in Nat \ {0} /\ MaxLen \in Nat /\ Size <= MaxLen
  /\ Cuts \subseteq Chunk
  /\ Sources \in Nat \ {0}
  /\ Budget \in Nat
  /\ Transient \in BOOLEAN
  /\ MaxFaults \in Nat

VARIABLES
  rec,     \* the record: proven chunks, whether this lease holds, the intent
  file,    \* the written chunks of the partial file, as a reader sees them
  disk,    \* those a power loss would leave
  pc,      \* where Runner.parallel is
  todo,    \* ranges not yet handed to a worker
  ctx,     \* what the goroutines told one another: stop, failure, intent
  have,    \* progress.have, the proven set
  landed,  \* progress.landed, as the chunks it stands for
  conn,    \* the workers
  saver,   \* keepLanded, run by the timer and once more at the end
  keeper,  \* the lease keeper
  faults   \* disturbances left

store == <<rec, file, disk>>
vars == <<store, pc, todo, ctx, have, landed, conn, saver, keeper, faults>>

-----------------------------------------------------------------------------
(* The plan.                                                                *)

Span == {r \in [from : Chunk, to : Chunk] : r.from <= r.to}

Chunks(r) == r.from..r.to

\* What is missing from have, cut at the plan's boundaries: gaps and rangesOf.
RangesFor(got) ==
  {r \in Span :
     /\ Chunks(r) \cap got = {}
     /\ r.from = 1 \/ r.from - 1 \in got \cup Cuts
     /\ r.to = Size \/ r.to \in Cuts \/ r.to + 1 \in got
     /\ \A c \in Chunks(r) : c < r.to => c \notin Cuts}

\* resumable: the length of the file bounds what a checkpoint may claim.
Resumable(proven, f) == {c \in proven : \E d \in f : d >= c}

\* Mutant: nothing removes a tail behind the artifact.
TrimmedNot(f) == f

Trimmed(f) == f \cap Chunk

-----------------------------------------------------------------------------
(* Local states.                                                            *)

NoOne == [pc |-> "idle", from |-> 1, to |-> 1, ask |-> 1, at |-> 1,
          reached |-> 1, left |-> 0]

Quiet == [stop |-> FALSE, failed |-> FALSE, asked |-> FALSE]

Resting == [pc |-> "idle", parts |-> {}, failed |-> FALSE]

NoKeeper == [on |-> FALSE, silent |-> 0, fence |-> "none"]

\* The watch is joined once Runner.parallel has returned.
Watched == pc \in {"feed", "wait", "quiet", "last", "return"}

\* What a process knows ends with it, and with each run.
Forgets ==
  /\ pc' = "out" /\ todo' = {} /\ have' = {} /\ landed' = {}
  /\ ctx' = Quiet /\ saver' = Resting /\ keeper' = NoKeeper
  /\ conn' = [w \in Workers |-> NoOne]

Disturb == faults > 0 /\ faults' = faults - 1

-----------------------------------------------------------------------------
Init ==
  /\ \E proven \in SUBSET Chunk, tail \in SUBSET ((Size + 1)..MaxLen) :
       /\ rec = [proven |-> proven, live |-> FALSE, want |-> "run"]
       /\ file = proven \cup tail
  /\ disk = file
  /\ pc = "out" /\ todo = {} /\ have = {} /\ landed = {}
  /\ ctx = Quiet /\ saver = Resting /\ keeper = NoKeeper
  /\ conn = [w \in Workers |-> NoOne]
  /\ faults = MaxFaults

\* Claim the record, cut a stale tail, start the keeper, the timer and the
\* workers, and list what is left to fetch.
Open ==
  LET got == Resumable(rec.proven, file)
  IN /\ pc = "out" /\ ~rec.live /\ rec.want = "run"
     /\ rec' = [rec EXCEPT !.live = TRUE]
     /\ file' = Trimmed(file) /\ disk' = Trimmed(disk)
     /\ have' = got /\ todo' = RangesFor(got)
     /\ pc' = "feed" /\ keeper' = [NoKeeper EXCEPT !.on = TRUE]
     /\ UNCHANGED <<ctx, landed, conn, saver, faults>>

-----------------------------------------------------------------------------
(* The feeder.                                                              *)

Feed(w) ==
  /\ pc = "feed" /\ conn[w].pc = "idle"
  /\ \E r \in todo :
       /\ \A s \in todo : r.from <= s.from
       /\ todo' = todo \ {r}
       /\ conn' = [conn EXCEPT ![w] =
                     [pc |-> "fetch", from |-> r.from, to |-> r.to, ask |-> r.from,
                      at |-> r.from, reached |-> r.from, left |-> Sources]]
  /\ UNCHANGED <<store, pc, ctx, have, landed, saver, keeper, faults>>

\* All is handed out, or the context ended: close(work).
FeedEnds ==
  /\ pc = "feed"
  /\ todo = {} \/ ctx.stop
  /\ pc' = "wait"
  /\ UNCHANGED <<store, todo, ctx, have, landed, conn, saver, keeper, faults>>

Join ==
  /\ pc = "wait"
  /\ \A w \in Workers : conn[w].pc \in {"idle", "gone"}
  /\ pc' = "quiet"
  /\ UNCHANGED <<store, todo, ctx, have, landed, conn, saver, keeper, faults>>

\* Mutant: a stalled transfer keeps nothing of what a stop cut off.
KeepsUnlessStopped == keeper.fence = "none"

KeepsLanded == keeper.fence # "lease"

\* The timer has stopped; the context is read and the keeper stopped.  What a
\* stop cut off is kept, unless the store has refused this epoch.
StopKeeper ==
  /\ pc = "quiet" /\ saver.pc = "idle"
  /\ keeper' = [keeper EXCEPT !.on = FALSE]
  /\ pc' = IF KeepsLanded THEN "last" ELSE "return"
  /\ UNCHANGED <<store, todo, ctx, have, landed, conn, saver, faults>>

-----------------------------------------------------------------------------
(* progress.record: one write of the proven set, under the lock.            *)

Stored(next) ==
  /\ rec.live
  /\ rec' = [rec EXCEPT !.proven = next]
  /\ UNCHANGED <<keeper, faults>>

\* Mutant: a checkpoint names the newest bytes only.
FoldedNew(got) == got

Folded(got) == have \cup got

\* Refused, which fences this owner, or broken by the store's own trouble.
NotStored ==
  /\ \/ /\ ~rec.live
        /\ keeper' = IF keeper.on /\ keeper.fence = "none"
                     THEN [keeper EXCEPT !.fence = "lease"] ELSE keeper
        /\ UNCHANGED faults
     \/ Transient /\ Disturb /\ UNCHANGED keeper
  /\ UNCHANGED rec

\* The record a write or a renewal brings back says what is wanted.
Heard(c) ==
  IF rec.want = "run" THEN c ELSE [c EXCEPT !.stop = TRUE, !.asked = TRUE]

\* A worker's error: posted to fail, and the others are stopped.
Failed(c) == [c EXCEPT !.stop = TRUE, !.failed = TRUE]

-----------------------------------------------------------------------------
(* A worker: fetchRange over the sources, then proved.                      *)

Goes(w, s) == conn' = [conn EXCEPT ![w] = s]

\* A chunk is written at its own offset, reported as landed, and beats.
Arrive(w) ==
  LET c == conn[w]
  IN /\ c.pc = "fetch" /\ c.at <= c.to
     /\ file' = file \cup {c.at}
     /\ landed' = landed \cup {c.at}
     /\ Goes(w, [c EXCEPT !.at = @ + 1,
                          !.reached = IF c.at + 1 > @ THEN c.at + 1 ELSE @])
     /\ keeper' = [keeper EXCEPT !.silent = 0]
     /\ UNCHANGED <<rec, disk, pc, todo, ctx, have, saver, faults>>

Arrived(w) ==
  /\ conn[w].pc = "fetch" /\ conn[w].at > conn[w].to
  /\ Goes(w, [conn[w] EXCEPT !.pc = "proved"])
  /\ UNCHANGED <<store, pc, todo, ctx, have, landed, saver, keeper, faults>>

\* Mutant: the next source is asked for the range from its start.
AskAgain(c) == c.ask

\* The next source is asked only for the rest.  A source that overran has
\* landed the whole range, and the next one is asked for it again.
AskFrom(c) == IF c.reached > c.ask /\ c.reached <= c.to THEN c.reached ELSE c.ask

\* A source fails part way, or sends more than was asked for.
NextSource(w) ==
  LET c == conn[w]
  IN /\ c.pc = "fetch" /\ c.left > 1 /\ ~ctx.stop
     /\ Disturb
     /\ Goes(w, [c EXCEPT !.ask = AskFrom(c), !.at = AskFrom(c), !.left = @ - 1])
     /\ UNCHANGED <<store, pc, todo, ctx, have, landed, saver, keeper>>

\* The last source failed, the network gate closed, or a sync did.
WorkerFails(w) ==
  /\ conn[w].pc \in {"fetch", "proved"}
  /\ Disturb
  /\ Goes(w, [conn[w] EXCEPT !.pc = "gone"])
  /\ ctx' = Failed(ctx)
  /\ UNCHANGED <<store, pc, todo, have, landed, saver, keeper>>

\* A request ends when its context does.
WorkerStopped(w) ==
  /\ conn[w].pc = "fetch" /\ ctx.stop
  /\ Goes(w, [conn[w] EXCEPT !.pc = "gone"])
  /\ ctx' = Failed(ctx)
  /\ UNCHANGED <<store, pc, todo, have, landed, saver, keeper, faults>>

\* fsync of the whole file.
Flushed == disk \cup file

SyncRange(w) ==
  /\ conn[w].pc = "proved"
  /\ disk' = Flushed
  /\ Goes(w, [conn[w] EXCEPT !.pc = "add"])
  /\ UNCHANGED <<rec, file, pc, todo, ctx, have, landed, saver, keeper, faults>>

Prove(w) ==
  LET got == Folded(Chunks(conn[w]))
  IN /\ conn[w].pc = "add"
     /\ have' = got
     /\ landed' = landed \ Chunks(conn[w])
     /\ \/ Stored(got) /\ Goes(w, NoOne) /\ ctx' = Heard(ctx)
        \/ NotStored /\ Goes(w, [conn[w] EXCEPT !.pc = "gone"]) /\ ctx' = Failed(ctx)
     /\ UNCHANGED <<file, disk, pc, todo, saver>>

-----------------------------------------------------------------------------
(* keepLanded: on the timer while the transfer is open, and once more when  *)
(* it ends.  The end of that last one is the end of Runner.parallel.        *)

\* Mutant: the landed offsets are read after the sync.
PartsNow(s) == landed

Parts(s) == s.parts

Saved(failure) ==
  /\ saver' = [Resting EXCEPT !.failed = failure]
  /\ pc' = IF pc = "last" THEN "return" ELSE pc

SaverRead ==
  /\ pc \in {"feed", "wait", "last"} /\ saver.pc = "idle"
  /\ IF landed # {}
     THEN saver' = [Resting EXCEPT !.pc = "sync", !.parts = landed] /\ UNCHANGED pc
     ELSE Saved(FALSE)
  /\ UNCHANGED <<store, todo, ctx, have, landed, conn, keeper, faults>>

SaverSync ==
  /\ saver.pc = "sync"
  /\ \/ /\ disk' = Flushed
        /\ saver' = [saver EXCEPT !.pc = "add"]
        /\ UNCHANGED <<pc, ctx, faults>>
     \/ /\ Disturb
        /\ Saved(TRUE)
        /\ ctx' = IF pc = "last" THEN [ctx EXCEPT !.failed = TRUE] ELSE ctx
        /\ UNCHANGED disk
  /\ UNCHANGED <<rec, file, todo, have, landed, conn, keeper>>

\* An error of the last one ends the run with it; the timer's is dropped.
SaverAdd ==
  LET got == Folded(Parts(saver))
  IN /\ saver.pc = "add"
     /\ have' = got
     /\ \/ /\ got = have
           /\ Saved(FALSE)
           /\ UNCHANGED <<rec, ctx, keeper, faults>>
        \/ /\ got # have /\ Stored(got)
           /\ Saved(FALSE)
           /\ ctx' = Heard(ctx)
        \/ /\ got # have /\ NotStored
           /\ Saved(TRUE)
           /\ ctx' = [ctx EXCEPT !.stop = @ \/ keeper' # keeper,
                                 !.failed = @ \/ pc = "last"]
     /\ UNCHANGED <<file, disk, todo, landed, conn>>

-----------------------------------------------------------------------------
(* The keeper and the intent watch.                                         *)

\* Mutant: a renewal counts as a beat.
RenewedAsBeat(k) == [k EXCEPT !.silent = 0]

Renewed(k) == [k EXCEPT !.silent = @ + 1]

Stalled == keeper.silent >= Budget

\* The timer of the keeper.  It sets the fence down and then ends the context,
\* one step here: the fence is read once the keeper has exited.
KeeperTick ==
  /\ keeper.on /\ keeper.fence = "none"
  /\ \/ /\ Stalled
        /\ keeper' = [keeper EXCEPT !.fence = "stalled"]
        /\ ctx' = [ctx EXCEPT !.stop = TRUE]
        /\ UNCHANGED faults
     \/ /\ ~Stalled /\ ~rec.live
        /\ keeper' = [keeper EXCEPT !.fence = "lease"]
        /\ ctx' = [ctx EXCEPT !.stop = TRUE]
        /\ UNCHANGED faults
     \/ /\ ~Stalled /\ rec.live
        /\ keeper' = Renewed(keeper)
        /\ ctx' = Heard(ctx)
        /\ UNCHANGED faults
     \/ /\ ~Stalled /\ Transient /\ Disturb
        /\ keeper' = Renewed(keeper)
        /\ UNCHANGED ctx
  /\ UNCHANGED <<store, pc, todo, have, landed, conn, saver>>

Watch ==
  /\ Watched
  /\ ctx' = IF rec.live THEN Heard(ctx) ELSE [ctx EXCEPT !.stop = TRUE]
  /\ ctx' # ctx
  /\ UNCHANGED <<store, pc, todo, have, landed, conn, saver, keeper, faults>>

-----------------------------------------------------------------------------
(* The end of the run.                                                      *)

Succeeds == keeper.fence = "none" /\ ~ctx.failed /\ ~ctx.stop

\* Every range is proven: flush, and go on to the digest.
Whole ==
  /\ pc = "return" /\ Succeeds
  /\ disk' = Flushed
  /\ pc' = "whole"
  /\ UNCHANGED <<rec, file, todo, ctx, have, landed, conn, saver, keeper, faults>>

\* Somebody asked for the stop, or it is a failure.
Return ==
  /\ pc = "return" /\ ~Succeeds
  /\ pc' = IF ctx.asked THEN "release" ELSE "keep"
  /\ UNCHANGED <<store, todo, ctx, have, landed, conn, saver, keeper, faults>>

\* Runner.keepProven, given the number of proven chunks as a prefix.
KeepProven ==
  LET prefix == 1..Cardinality(have)
  IN /\ pc = "keep"
     /\ \/ /\ rec' = IF rec.live /\ Cardinality(rec.proven) < Cardinality(have)
                     THEN [rec EXCEPT !.proven = prefix] ELSE rec
           /\ UNCHANGED faults
        \/ Transient /\ Disturb /\ UNCHANGED rec
     /\ pc' = "release"
     /\ UNCHANGED <<file, disk, todo, ctx, have, landed, conn, saver, keeper>>

Release ==
  /\ pc = "release"
  /\ rec' = [rec EXCEPT !.live = FALSE]
  /\ Forgets
  /\ UNCHANGED <<file, disk, faults>>

-----------------------------------------------------------------------------
(* The environment.                                                         *)

SetWant ==
  /\ Disturb
  /\ \E want \in {"run", "pause"} : rec' = [rec EXCEPT !.want = want]
  /\ UNCHANGED <<file, disk, pc, todo, ctx, have, landed, conn, saver, keeper>>

Lapse ==
  /\ rec.live /\ pc # "whole"
  /\ Disturb
  /\ rec' = [rec EXCEPT !.live = FALSE]
  /\ UNCHANGED <<file, disk, pc, todo, ctx, have, landed, conn, saver, keeper>>

\* Another owner, which claimed after the lapse, proves a chunk.
Other ==
  /\ ~rec.live /\ pc \notin {"out", "whole"}
  /\ Disturb
  /\ \E c \in Chunk :
       /\ file' = file \cup {c}
       /\ disk' = disk \cup {c}
       /\ rec' = [rec EXCEPT !.proven = @ \cup {c}]
  /\ UNCHANGED <<pc, todo, ctx, have, landed, conn, saver, keeper>>

\* The process is gone, its lease lapses before the next claim; a power loss
\* takes some of the chunks that were not flushed with it.
Crash ==
  /\ pc \notin {"out", "whole"}
  /\ Disturb
  /\ \E f \in SUBSET file : disk \subseteq f /\ file' = f /\ disk' = f
  /\ rec' = [rec EXCEPT !.live = FALSE]
  /\ Forgets

-----------------------------------------------------------------------------
Working1(w) ==
  \/ Feed(w) \/ Arrive(w) \/ Arrived(w) \/ NextSource(w) \/ WorkerFails(w)
  \/ WorkerStopped(w) \/ SyncRange(w) \/ Prove(w)

Feeder == FeedEnds \/ Join \/ StopKeeper \/ Whole \/ Return \/ KeepProven \/ Release

Saver == SaverRead \/ SaverSync \/ SaverAdd

Environment == SetWant \/ Lapse \/ Other \/ Crash

Next ==
  \/ Open \/ Feeder \/ Saver \/ KeeperTick \/ Watch \/ Environment
  \/ \E w \in Workers : Working1(w)

Spec == Init /\ [][Next]_vars

(***************************************************************************)
(* Go runs every goroutine; a request whose context ended returns.  A      *)
(* source owes nothing, not even the end of a body.                        *)
(***************************************************************************)
Fairness ==
  /\ WF_vars(Feeder) /\ WF_vars(SaverSync \/ SaverAdd)
  /\ WF_vars(pc = "last" /\ SaverRead)
  /\ WF_vars(KeeperTick)
  /\ \A w \in Workers :
       WF_vars(Feed(w)) /\ WF_vars(WorkerStopped(w)) /\ WF_vars(SyncRange(w) \/ Prove(w))

FairSpec == Spec /\ Fairness

-----------------------------------------------------------------------------
(* Properties.                                                              *)

Connection ==
  [pc : {"idle", "fetch", "proved", "add", "gone"}, from : Chunk, to : Chunk,
   ask : Chunk, at : 1..(Size + 1), reached : 1..(Size + 1), left : 0..Sources]

TypeOK ==
  /\ rec \in [proven : SUBSET Chunk, live : BOOLEAN, want : {"run", "pause"}]
  /\ file \in SUBSET (1..MaxLen) /\ disk \in SUBSET (1..MaxLen)
  /\ pc \in {"out", "feed", "wait", "quiet", "last", "return", "keep", "release", "whole"}
  /\ todo \in SUBSET Span
  /\ ctx \in [stop : BOOLEAN, failed : BOOLEAN, asked : BOOLEAN]
  /\ have \in SUBSET Chunk /\ landed \in SUBSET Chunk
  /\ conn \in [Workers -> Connection]
  /\ saver \in [pc : {"idle", "sync", "add"}, parts : SUBSET Chunk, failed : BOOLEAN]
  /\ keeper \in [on : BOOLEAN, silent : 0..Budget, fence : {"none", "lease", "stalled"}]
  /\ faults \in 0..MaxFaults

(***************************************************************************)
(* Durability before the claim (progress.proved, keepLanded): whichever    *)
(* workers and timer wrote the record last, a chunk it claims is on the    *)
(* disk, so a power loss leaves a successor nothing to trust in vain.      *)
(***************************************************************************)
ClaimSynced == rec.proven \subseteq disk

(***************************************************************************)
(* Workers, timer, stops, failures, crashes and another owner share one    *)
(* record, and no write of any of them takes a proven chunk back.          *)
(***************************************************************************)
ProvenGrows == [][rec.proven \subseteq rec'.proven]_rec

(***************************************************************************)
(* Runner.parallel returns without an error only when every range of the   *)
(* artifact is written, flushed and recorded, with nothing behind it: no   *)
(* range was dropped by a feeder that broke off or a worker that ended.    *)
(***************************************************************************)
WholeAtSuccess ==
  pc = "whole" => rec.proven = Chunk /\ file = Chunk /\ disk = Chunk

(***************************************************************************)
(* A range fetched in parallel keeps what it landed (DL-R34): however the  *)
(* transfer stops, while the lease holds and the last keepLanded reports   *)
(* no error, the record has every byte that had landed.                    *)
(***************************************************************************)
KeptAtReturn ==
  pc = "return" /\ rec.live /\ ~saver.failed => landed \cup have \subseteq rec.proven

(***************************************************************************)
(* A fallback source in the same run is asked only for the rest (DL-R34):  *)
(* a chunk that has landed is written again only after its whole range     *)
(* had landed and the source went on (ErrOverrun).                         *)
(***************************************************************************)
NoByteTwice ==
  [][\A w \in Workers :
       LET c == conn[w]
       IN c.pc = "fetch" /\ c.at <= c.to /\ c.at \in landed /\ conn'[w].at = c.at + 1
            => c.reached > c.to]_conn

(***************************************************************************)
(* Runner.parallel returns, even when every source goes silent for good:   *)
(* the keeper gives a silent transfer up, a worker that fails stops the    *)
(* others, and the feeder is never left with nobody to hand a range to.    *)
(***************************************************************************)
Returns == pc = "feed" ~> pc \in {"out", "whole"}
=============================================================================
