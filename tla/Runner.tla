------------------------------- MODULE Runner -------------------------------
(***************************************************************************)
(* One download carried out by Runner.Run over one connection at a time:   *)
(* the path of go/runner.go from the claim to the delivery, with the       *)
(* resume plan, the checkpoints, the restart when a source holds another   *)
(* artifact, the rolling digest, the intent watch and the fence.           *)
(*                                                                         *)
(* Several owners (processes, machines) share one record and one partial   *)
(* file.  An owner's steps are split wherever it touches the store, the    *)
(* file or the network, so that crashes, lapses and other owners come      *)
(* between.  The artifact is a row of chunks; the content of a chunk is    *)
(* the version of the artifact it came from, since all a digest tells is   *)
(* whether every byte is the wanted version's.                             *)
(***************************************************************************)
EXTENDS JobStore, FiniteSets

CONSTANTS
  Owners,      \* runners that may work on the record
  Versions,    \* the artifacts a source may hold under the same locator
  Wanted,      \* the version the declared digest and size name
  Length,      \* how many chunks each version has
  MaxLen,      \* a bound of every length
  Strong,      \* versions served with a strong validator (ETag or date)
  Sources,     \* how many sources the spec lists
  Hole,        \* content of a chunk no byte was written to
  None,        \* no validator, no response
  MaxFaults,   \* how many disturbances a behaviour has, of any kind
  AfterLapse,  \* file operations an owner may still do once its lease lapsed
  Overtaken,   \* it does them even when another owner has taken over
  ByName,      \* a client may run a record no sweep would adopt
  EndsMismatch,\* Runner.Terminal is httpTerminal (the service profile)
  Leftovers    \* chunks an earlier, parallel transfer may have proven

FileOps == {"trim", "write", "restart", "deliver", "remove"}
Chunk == 1..MaxLen
Size  == Length[Wanted]

ASSUME RunnerAssumption ==
  /\ MaxLen \in Nat \ {0}
  /\ Length \in [Versions -> Chunk]
  /\ Wanted \in Versions
  /\ Strong \subseteq Versions
  /\ Sources \in Nat \ {0}
  /\ Hole \notin Versions /\ None \notin Versions
  /\ MaxFaults \in Nat
  /\ AfterLapse \subseteq FileOps
  /\ Overtaken \in BOOLEAN /\ ByName \in BOOLEAN /\ EndsMismatch \in BOOLEAN
  /\ Leftovers \subseteq SUBSET (1..Size)

VARIABLES
  rec,     \* the record in the store
  file,    \* the partial file, as a reader sees it
  disk,    \* the partial file, as a power loss would leave it
  final,   \* the file at the destination
  own,     \* what each owner has in memory
  faults   \* disturbances left

vars == <<rec, file, disk, final, own, faults>>

Content  == Versions \cup {Hole}
File     == [Chunk -> Content]
Empty    == [c \in Chunk |-> Hole]
Artifact == [c \in Chunk |-> IF c <= Size THEN Wanted ELSE Hole]

-----------------------------------------------------------------------------
(* The resume plan: go/resumepoint.go and go/ranges.go over chunks.         *)

\* Chunk c lies within the length of file f.
Reaches(f, c) == \E d \in Chunk : d >= c /\ f[d] # Hole

\* A file can refute a claim by its length and never confirm one.
Clip(have, f) == {c \in have : Reaches(f, c)}

\* Mutant: the tail nothing vouches for stays in the file.
TrimNothing(f, have) == f

\* Cut a file back to the highest proven chunk.
TrimTo(f, have) ==
  [c \in Chunk |-> IF \E d \in have : d >= c THEN f[c] ELSE Hole]

\* The leading run of proven chunks.
Prefix(have) == {c \in have : 1..c \subseteq have}

PrefixShaped(have) == have = Prefix(have)

(***************************************************************************)
(* The requests still to make.  A gap runs to a chunk, or has to = 0 and   *)
(* is open.  A proven set past the declared size cannot be divided into    *)
(* gaps; the source is asked for everything after the prefix.              *)
(***************************************************************************)
GapEnd(have, c) ==
  IF \E d \in have : d > c
  THEN CHOOSE e \in Chunk : e >= c /\ e + 1 \in have /\ (c..e) \cap have = {}
  ELSE 0

GapsFor(have) ==
  IF \E c \in have : c > Size
  THEN {[from |-> c, to |-> 0] :
          c \in {d \in 1..(MaxLen + 1) : d \notin have /\ 1..(d - 1) \subseteq have}}
  ELSE {[from |-> c, to |-> GapEnd(have, c)] :
          c \in {d \in 1..Size : d \notin have /\ (d = 1 \/ d - 1 \in have)}}

OneStream(have, gaps) ==
  /\ PrefixShaped(have)
  /\ \E g \in gaps : gaps = {g} /\ g.to = 0

-----------------------------------------------------------------------------
(* What an owner keeps in memory during one Run.                            *)

Gap == [from : 1..(MaxLen + 1), to : 0..MaxLen]

Idle ==
  [pc      |-> "idle",  \* where it is in Run
   epoch   |-> 0,       \* the epoch of its claim
   have    |-> {},      \* proven: the plan's Have, then what it folded in
   seen    |-> None,    \* validators the next request presents
   gaps    |-> {},      \* the plan's gaps not yet served
   rolling |-> FALSE,   \* the digest is taken as bytes are written
   clean   |-> TRUE,    \* the rolling hash has absorbed wanted bytes only
   at      |-> 0,       \* the next chunk the response writes
   src     |-> None,    \* the version the response carries
   left    |-> 0,       \* sources not yet tried for this gap
   resumed |-> FALSE,   \* the record had proven bytes at the claim
   kept    |-> FALSE,   \* (history) this file still holds resumed bytes
   stop    |-> "run",   \* the intent it noticed
   err     |-> "none"]  \* why it stops: "later" is not now, "no" is final

PCs == {"idle", "begin", "plan", "planned", "hash", "gap", "restart", "body",
        "end", "deliver", "mark", "remove", "unclaim", "fail", "honour",
        "release", "take"}

Owner ==
  [pc : PCs, epoch : Nat, have : SUBSET Chunk, seen : Versions \cup {None},
   gaps : SUBSET Gap, rolling : BOOLEAN, clean : BOOLEAN,
   at : 0..(MaxLen + 1), src : Versions \cup {None}, left : 0..Sources,
   resumed : BOOLEAN, kept : BOOLEAN, stop : Wants,
   err : {"none", "later", "no"}]

Record ==
  [state : States, epoch : Nat, live : BOOLEAN, want : Wants,
   proven : SUBSET Chunk, val : Versions \cup {None}, failure : BOOLEAN]

\* The holder of the lease is the owner the store still accepts writes from.
Holds(o) == Accepts(rec, own[o].epoch)

\* No owner has claimed the record since o did; its lease may have lapsed.
Latest(o) == rec.epoch = own[o].epoch

\* Nothing asks the store before the file is touched, so an owner whose lease
\* lapsed may still do what AfterLapse lists: while nobody has taken over,
\* or (Overtaken) even then.
MayTouch(o, op) ==
  \/ Holds(o)
  \/ op \in AfterLapse /\ (Overtaken \/ Latest(o))

\* Owner o moves to local state s.
Becomes(o, s) == own' = [own EXCEPT ![o] = s]

\* A store update by o: applied while the store accepts it, else refused.
Writes(o, r) == rec' = IF Holds(o) THEN r ELSE rec

Disturb == faults > 0 /\ faults' = faults - 1

-----------------------------------------------------------------------------
Init ==
  /\ \E left \in Leftovers :
       /\ rec = [state |-> "pending", epoch |-> 0, live |-> FALSE,
                 want |-> "run", proven |-> left, val |-> None,
                 failure |-> FALSE]
       /\ file = [c \in Chunk |-> IF c \in left THEN Wanted ELSE Hole]
       /\ disk = file
  /\ final = Empty
  /\ own = [o \in Owners |-> Idle]
  /\ faults = MaxFaults

-----------------------------------------------------------------------------
(* Runner.Run up to the transfer.                                           *)

\* Adopt runs every orphan it is offered.  What it passes over for now (the
\* backoff of a failure, a metered path, another machine's sink, a record in a
\* delegate's hands) is left to a later sweep or another runner.
Adopts == Orphan(rec)

\* Claim, by a sweep (Adopt) or by name.  A stop asked for before the start
\* is honoured at once.
Claim(o) ==
  /\ own[o].pc = "idle"
  /\ Claimable(rec)
  /\ \/ Adopts /\ UNCHANGED faults
     \/ ~Adopts /\ ByName /\ Disturb
  /\ rec' = Claimed(rec)
  /\ Becomes(o, [Idle EXCEPT !.pc = IF rec.want = "run" THEN "begin" ELSE "honour",
                             !.epoch   = rec.epoch + 1,
                             !.have    = rec.proven,
                             !.seen    = rec.val,
                             !.resumed = rec.proven # {},
                             !.stop    = rec.want])
  /\ UNCHANGED <<file, disk, final>>

\* This attempt is the last one now; an earlier failure no longer counts.
Begin(o) ==
  /\ own[o].pc = "begin"
  /\ rec.failure => Holds(o)
  /\ Writes(o, [rec EXCEPT !.failure = FALSE])
  /\ Becomes(o, [own[o] EXCEPT !.pc = "plan"])
  /\ UNCHANGED <<file, disk, final, faults>>

\* Plan from the record as claimed and the file as it is, and cut the file.
\* Nothing here asks whether the lease is still held.
Trim(o) ==
  LET have == Clip(own[o].have, file)
      gaps == GapsFor(have)
  IN /\ own[o].pc = "plan"
     /\ MayTouch(o, "trim")
     /\ file' = TrimTo(file, have)
     /\ disk' = TrimTo(disk, have)
     /\ Becomes(o, [own[o] EXCEPT
                      !.pc = "planned", !.have = have, !.gaps = gaps,
                      !.seen = IF have = {} THEN None ELSE @,
                      !.kept = have # {},
                      !.rolling = OneStream(have, gaps)])
     /\ UNCHANGED <<rec, final, faults>>

\* Record what the plan kept, if that is less than the record says.  The
\* answer of the store is not looked at.
RecordPlan(o) ==
  /\ own[o].pc = "planned"
  /\ IF Cardinality(rec.proven) # Cardinality(own[o].have)
     THEN Writes(o, [rec EXCEPT !.proven = own[o].have, !.val = own[o].seen])
     ELSE UNCHANGED rec
  /\ Becomes(o, [own[o] EXCEPT
                   !.pc = IF own[o].rolling /\ own[o].have # {}
                         THEN "hash" ELSE "gap",
                   !.left = Sources])
  /\ UNCHANGED <<file, disk, final, faults>>

\* Rebuild the rolling hash over the prefix that is kept.
HashPrefix(o) ==
  /\ own[o].pc = "hash"
  /\ IF \A c \in own[o].have : Reaches(file, c)
     THEN Becomes(o, [own[o] EXCEPT !.pc = "gap",
                        !.clean = \A c \in own[o].have : file[c] = Wanted])
     ELSE Becomes(o, [own[o] EXCEPT !.pc = "fail", !.err = "later"])
  /\ UNCHANGED <<rec, file, disk, final, faults>>

-----------------------------------------------------------------------------
(* Runner.fetch: one gap, source after source.                              *)

\* The gap being fetched is the first one left.
Current(gaps) == CHOOSE g \in gaps : \A h \in gaps : g.from <= h.from

\* Mutant: only a bounded request presents validators.
RangedIfBounded(g) == g.to # 0

Ranged(g) == g.from > 1 \/ g.to # 0

Whole == [from |-> 1, to |-> 0]

\* The last chunk the response to gap g carries, from a source holding v.
BodyEnd(g, v) == IF g.to # 0 /\ g.to < Length[v] THEN g.to ELSE Length[v]

\* Mutant: a checkpoint says only what this response brought.
FoldedAlone(o) ==
  IF own[o].at = 0 THEN own[o].have
  ELSE Current(own[o].gaps).from..(own[o].at - 1)

\* Mutant: the chunk about to be written is claimed as well.
FoldedPast(o) ==
  own[o].have \cup (IF own[o].at = 0 THEN {}
                    ELSE Current(own[o].gaps).from..own[o].at)

\* What the owner has proven once the bytes of this response are folded in.
Folded(o) ==
  own[o].have \cup (IF own[o].at = 0 THEN {}
                    ELSE Current(own[o].gaps).from..(own[o].at - 1))

\* What a response says about the version it serves.
Observed(v) == IF v \in Strong THEN v ELSE None

\* An answer carrying another version than the wanted one is a disturbance.
Serves(v) == IF v = Wanted THEN UNCHANGED faults ELSE Disturb

CanAsk(o) ==
  /\ own[o].pc = "gap" /\ own[o].gaps # {}
  /\ own[o].left > 0 /\ own[o].stop = "run"

\* The source sends the bytes of the gap: it was asked for the whole
\* artifact, or holds the version If-Range names, or none was named.
AskContinues(o) ==
  LET g == Current(own[o].gaps) IN
  \E v \in Versions :
    /\ CanAsk(o)
    /\ g.from <= Length[v]
    /\ Ranged(g) => own[o].seen \in {None, v}
    /\ Serves(v)
    /\ Becomes(o, [own[o] EXCEPT !.pc = "body", !.at = g.from, !.src = v,
                                 !.seen = Observed(v)])
    /\ UNCHANGED <<rec, file, disk, final>>

\* The source answers a ranged request with the whole artifact: it holds
\* another version, is too short for the range, or serves no ranges at all.
\* Request.Restart empties the file and forgets what came before.
AskRestarts(o) ==
  LET g == Current(own[o].gaps) IN
  \E v \in Versions :
    /\ CanAsk(o)
    /\ Ranged(g)
    /\ MayTouch(o, "restart")
    /\ IF own[o].seen \in {None, v} /\ g.from <= Length[v]
       THEN Disturb ELSE Serves(v)
    /\ file' = Empty
    /\ disk' = Empty
    /\ Becomes(o, [own[o] EXCEPT !.pc = "restart", !.have = {}, !.seen = None,
                                 !.gaps = {Whole}, !.clean = TRUE,
                                 !.src = v, !.kept = FALSE])
    /\ UNCHANGED <<rec, final>>

\* The end of restart: the record gives the bytes up too.  A refused write
\* fails this source, and the next one is asked for the whole artifact.
RestartRecord(o) ==
  /\ own[o].pc = "restart"
  /\ Writes(o, [rec EXCEPT !.proven = {}, !.val = None])
  /\ Becomes(o, IF Holds(o)
                THEN [own[o] EXCEPT !.pc = "body", !.at = 1,
                                    !.seen = Observed(own[o].src)]
                ELSE [own[o] EXCEPT !.pc = "gap", !.src = None,
                                    !.left = @ - 1, !.err = "later"])
  /\ UNCHANGED <<file, disk, final, faults>>

\* Of the sources that failed, a retryable answer outranks a refusal.
Worse(old, new) == IF old = "later" THEN old ELSE new

\* The source fails before a byte: dropped, or refused for good (404, 401).
AskFails(o) ==
  \E e \in {"later", "no"} :
    /\ CanAsk(o)
    /\ Disturb
    /\ Becomes(o, [own[o] EXCEPT !.left = @ - 1, !.err = Worse(@, e)])
    /\ UNCHANGED <<rec, file, disk, final>>

\* A chunk lands in the file, and in the hash.
Write(o) ==
  LET at == own[o].at IN
  /\ own[o].pc = "body"
  /\ at <= BodyEnd(Current(own[o].gaps), own[o].src)
  /\ MayTouch(o, "write")
  /\ file' = [file EXCEPT ![at] = own[o].src]
  /\ Becomes(o, [own[o] EXCEPT !.at = at + 1,
                               !.clean = @ /\ own[o].src = Wanted])
  /\ UNCHANGED <<rec, disk, final, faults>>

\* A checkpoint, by bytes or by time: sync, then claim what was synced.  A
\* refused write is the fence; the answer also carries the intent.
Report(o) ==
  /\ own[o].pc = "body"
  /\ Folded(o) # own[o].have
  /\ disk' = file
  /\ Writes(o, [rec EXCEPT !.proven = Folded(o), !.val = own[o].seen])
  /\ Becomes(o, IF ~Holds(o) THEN Idle
                ELSE IF rec.want = "run"
                     THEN [own[o] EXCEPT !.have = Folded(o)]
                     ELSE [own[o] EXCEPT !.have = Folded(o), !.stop = rec.want,
                                         !.pc = "end", !.at = 0, !.src = None])
  /\ UNCHANGED <<file, final, faults>>

\* The response ends without an error: at its last chunk, or early from a
\* source that frames no length.  The next gap follows; after a restart
\* there is none.
BodyEnds(o) ==
  LET g == Current(own[o].gaps) IN
  /\ own[o].pc = "body"
  /\ IF own[o].at > BodyEnd(g, own[o].src) THEN UNCHANGED faults ELSE Disturb
  /\ Becomes(o, [own[o] EXCEPT !.pc = "gap", !.have = Folded(o),
                               !.gaps = @ \ {g}, !.at = 0, !.src = None,
                               !.left = Sources, !.err = "none"])
  /\ UNCHANGED <<rec, file, disk, final>>

\* The response breaks off.  One that brought bytes stops the attempt, so
\* that no other source writes over a hole; one that brought none does not.
BodyDrops(o) ==
  /\ own[o].pc = "body"
  /\ Disturb
  /\ Becomes(o,
       IF own[o].at > Current(own[o].gaps).from
       THEN [own[o] EXCEPT !.pc = "end", !.have = Folded(o), !.err = "later",
                           !.at = 0, !.src = None]
       ELSE [own[o] EXCEPT !.pc = "gap", !.left = @ - 1, !.err = "later",
                           !.at = 0, !.src = None])
  /\ UNCHANGED <<rec, file, disk, final>>

\* The intent watch (every 750 ms) sees a stop asked for and cancels.
NoticeStop(o) ==
  /\ own[o].pc \in {"gap", "body"}
  /\ Holds(o)
  /\ rec.want # "run"
  /\ Becomes(o, [own[o] EXCEPT !.pc = "end", !.stop = rec.want,
                               !.have = Folded(o), !.at = 0, !.src = None])
  /\ UNCHANGED <<rec, file, disk, final, faults>>

\* Every gap is served, or every source failed.
GapsDone(o) ==
  /\ own[o].pc = "gap"
  /\ own[o].gaps = {} \/ own[o].left = 0
  /\ Becomes(o, [own[o] EXCEPT !.pc = "end"])
  /\ UNCHANGED <<rec, file, disk, final, faults>>

-----------------------------------------------------------------------------
(* After the transfer: sync, then one of four endings.                      *)

\* Runner.keepProven: upwards only, counted in proven chunks.
KeepProven(r, have, seen) ==
  IF Cardinality(r.proven) >= Cardinality(Prefix(have))
  THEN r ELSE [r EXCEPT !.proven = Prefix(have), !.val = seen]

\* Somebody asked for a stop.  If that is what ended the transfer, all that
\* is proven is checkpointed first; a refused checkpoint is the fence.
EndStopped(o) ==
  LET cancelled == own[o].gaps # {} /\ own[o].left > 0 IN
  /\ own[o].pc = "end" /\ own[o].stop # "run"
  /\ disk' = file
  /\ IF cancelled
     THEN Writes(o, [rec EXCEPT !.proven = own[o].have, !.val = own[o].seen])
     ELSE UNCHANGED rec
  /\ Becomes(o, IF cancelled => Holds(o)
                THEN [own[o] EXCEPT !.pc = "honour"] ELSE Idle)
  /\ UNCHANGED <<file, final, faults>>

\* The transfer failed.
EndFailed(o) ==
  /\ own[o].pc = "end" /\ own[o].stop = "run" /\ own[o].err # "none"
  /\ disk' = file
  /\ Writes(o, KeepProven(rec, own[o].have, own[o].seen))
  /\ Becomes(o, [own[o] EXCEPT !.pc = "fail"])
  /\ UNCHANGED <<file, final, faults>>

\* It ended with the wrong number of bytes: too few, or too many.
EndWrongSize(o) ==
  LET got == Prefix(own[o].have) IN
  /\ own[o].pc = "end" /\ own[o].stop = "run" /\ own[o].err = "none"
  /\ got # 1..Size
  /\ disk' = file
  /\ Writes(o, KeepProven(rec, own[o].have, own[o].seen))
  /\ Becomes(o, [own[o] EXCEPT
                   !.pc = "fail",
                   !.err = IF EndsMismatch /\ 1..Size \subseteq got
                           THEN "no" ELSE "later"])
  /\ UNCHANGED <<file, final, faults>>

\* Mutant: the rolling hash speaks for a file whose holes were filled.
MatchesRolling(o) == own[o].clean

\* The digest: of the bytes as they passed through when the plan was one
\* stream, else of the finished file.
Matches(o) == IF own[o].rolling THEN own[o].clean ELSE file = Artifact

EndDigest(o) ==
  /\ own[o].pc = "end" /\ own[o].stop = "run" /\ own[o].err = "none"
  /\ Prefix(own[o].have) = 1..Size
  /\ disk' = file
  /\ Becomes(o, [own[o] EXCEPT !.pc = IF Matches(o) THEN "deliver" ELSE "remove"])
  /\ UNCHANGED <<rec, file, final, faults>>

\* deliver: rename the partial into place.  Without a partial it fails.
Deliver(o) ==
  /\ own[o].pc = "deliver"
  /\ MayTouch(o, "deliver")
  /\ IF file = Empty
     THEN /\ Becomes(o, [own[o] EXCEPT !.pc = "fail", !.err = "later"])
          /\ UNCHANGED <<file, disk, final>>
     ELSE /\ final' = file
          /\ file' = Empty
          /\ disk' = Empty
          /\ Becomes(o, [own[o] EXCEPT !.pc = "mark"])
  /\ UNCHANGED <<rec, faults>>

\* Transferred, not complete.
MarkTransferred(o) ==
  /\ own[o].pc = "mark"
  /\ Writes(o, [rec EXCEPT !.state = "transferred", !.proven = 1..Size,
                           !.val = own[o].seen, !.failure = FALSE])
  /\ Becomes(o, [own[o] EXCEPT !.pc = IF Holds(o) THEN "release" ELSE "fail",
                               !.err = "later"])
  /\ UNCHANGED <<file, disk, final, faults>>

\* Bytes that failed the digest are not kept.
RemovePartial(o) ==
  /\ own[o].pc = "remove"
  /\ MayTouch(o, "remove")
  /\ file' = Empty
  /\ disk' = Empty
  /\ Becomes(o, [own[o] EXCEPT !.pc = "unclaim"])
  /\ UNCHANGED <<rec, final, faults>>

\* Nor is the record's claim to them.  A mismatch over resumed bytes is
\* retried from zero; over fetched bytes the service profile ends it.
UnclaimBytes(o) ==
  /\ own[o].pc = "unclaim"
  /\ Writes(o, [rec EXCEPT !.proven = {}, !.val = None])
  /\ Becomes(o, [own[o] EXCEPT
                   !.pc = "fail",
                   !.err = IF EndsMismatch /\ ~own[o].resumed
                           THEN "no" ELSE "later"])
  /\ UNCHANGED <<file, disk, final, faults>>

-----------------------------------------------------------------------------
(* The end of Runner.Run.                                                   *)

\* Mutant: a paused owner sits on its lease.
HonourHolding(o) ==
  /\ own[o].pc = "honour" /\ own[o].stop = "cancel"
  /\ Writes(o, [rec EXCEPT !.state = "cancelled", !.failure = FALSE])
  /\ Becomes(o, [own[o] EXCEPT !.pc = "release"])
  /\ UNCHANGED <<file, disk, final, faults>>

\* honour: a cancel is written, a pause only lets the lease go.
Honour(o) ==
  /\ own[o].pc = "honour"
  /\ IF own[o].stop = "cancel"
     THEN Writes(o, [rec EXCEPT !.state = "cancelled", !.failure = FALSE])
     ELSE UNCHANGED rec
  /\ Becomes(o, [own[o] EXCEPT !.pc = "release"])
  /\ UNCHANGED <<file, disk, final, faults>>

\* Record why, and whether this is over.
RecordFailure(o) ==
  /\ own[o].pc = "fail"
  /\ Writes(o, [rec EXCEPT !.failure = TRUE,
                           !.state = IF own[o].err = "no" THEN "failed" ELSE @])
  /\ Becomes(o, [own[o] EXCEPT !.pc = "release"])
  /\ UNCHANGED <<file, disk, final, faults>>

Release(o) ==
  /\ own[o].pc = "release"
  /\ Writes(o, Released(rec))
  /\ Becomes(o, Idle)
  /\ UNCHANGED <<file, disk, final, faults>>

\* The owner finds its lease gone: the intent watch, a keeper's renewal or a
\* refused checkpoint.  Run's own last writes are refused as well.
Fence(o) ==
  /\ own[o].pc \in {"begin", "plan", "planned", "hash", "gap", "restart",
                    "body", "end", "deliver", "remove"}
  /\ ~Holds(o)
  /\ Becomes(o, Idle)
  /\ UNCHANGED <<rec, file, disk, final, faults>>

-----------------------------------------------------------------------------
(* Runner.TakeDelivery and TakeDeliveryAll.                                 *)

\* The destination has the recorded size, or is gone, consumed by its reader.
LooksDelivered ==
  \/ final = Empty
  \/ Reaches(final, Size) /\ \A c \in Chunk : c > Size => final[c] = Hole

TakeClaim(o) ==
  /\ own[o].pc = "idle"
  /\ rec.state = "transferred" /\ LooksDelivered
  /\ Claimable(rec)
  /\ rec' = Claimed(rec)
  /\ Becomes(o, [Idle EXCEPT !.pc = "take", !.epoch = rec.epoch + 1])
  /\ UNCHANGED <<file, disk, final, faults>>

TakeComplete(o) ==
  /\ own[o].pc = "take"
  /\ Writes(o, [rec EXCEPT !.state = "complete"])
  /\ Becomes(o, Idle)
  /\ UNCHANGED <<file, disk, final, faults>>

-----------------------------------------------------------------------------
(* The environment.                                                         *)

\* Somebody writes the intent, on any record that is not finished.
SetWant ==
  /\ ~Terminal(rec.state)
  /\ Disturb
  /\ \E w \in Wants \ {rec.want} : rec' = [rec EXCEPT !.want = w]
  /\ UNCHANGED <<file, disk, final, own>>

\* The lease of a working owner runs out: a suspended machine, a silent
\* source (nothing renews during Fetch but its own reports), a slow probe.
Lapse ==
  /\ rec.live /\ \E o \in Owners : own[o].pc # "idle" /\ Holds(o)
  /\ Disturb
  /\ rec' = [rec EXCEPT !.live = FALSE]
  /\ UNCHANGED <<file, disk, final, own>>

\* The lease of an owner that is gone runs out.
LapseDead ==
  /\ rec.live /\ \A o \in Owners : own[o].pc # "idle" => ~Holds(o)
  /\ rec' = [rec EXCEPT !.live = FALSE]
  /\ UNCHANGED <<file, disk, final, own, faults>>

\* A process dies; what it wrote stays in the file.
Crash(o) ==
  /\ own[o].pc # "idle"
  /\ Disturb
  /\ Becomes(o, Idle)
  /\ UNCHANGED <<rec, file, disk, final>>

\* The machine dies: every chunk written since the last sync is back to
\* what the disk had, or not.
PowerLoss ==
  /\ Disturb
  /\ \E f \in File :
       /\ \A c \in Chunk : f[c] \in {file[c], disk[c]}
       /\ file' = f
       /\ disk' = f
  /\ own' = [o \in Owners |-> Idle]
  /\ UNCHANGED <<rec, final>>

-----------------------------------------------------------------------------
Fetching(o) ==
  \/ AskContinues(o) \/ AskRestarts(o) \/ RestartRecord(o) \/ AskFails(o)
  \/ Write(o) \/ Report(o) \/ BodyEnds(o) \/ BodyDrops(o)
  \/ NoticeStop(o) \/ GapsDone(o)

Ending(o) ==
  \/ EndStopped(o) \/ EndFailed(o) \/ EndWrongSize(o) \/ EndDigest(o)
  \/ Deliver(o) \/ MarkTransferred(o) \/ RemovePartial(o) \/ UnclaimBytes(o)
  \/ Honour(o) \/ RecordFailure(o) \/ Release(o) \/ Fence(o)

Running(o) ==
  Begin(o) \/ Trim(o) \/ RecordPlan(o) \/ HashPrefix(o) \/ Fetching(o) \/ Ending(o)

Taking(o) == TakeClaim(o) \/ TakeComplete(o)

Environment == SetWant \/ Lapse \/ LapseDead \/ PowerLoss \/ \E o \in Owners : Crash(o)

Next == Environment \/ \E o \in Owners : Claim(o) \/ Running(o) \/ Taking(o)

Spec == Init /\ [][Next]_vars

(***************************************************************************)
(* A supervisor sweeps every second and on every change of the store       *)
(* (serve/execution.go), so an orphan is claimed in the end and finished   *)
(* work is taken delivery of; Go runs the goroutines of a live process;    *)
(* time passes for the lease of a dead one.  Nothing is assumed of the     *)
(* environment but that its disturbances end (MaxFaults).                  *)
(***************************************************************************)
Fairness ==
  /\ WF_vars(\E o \in Owners : Claim(o))
  /\ WF_vars(\E o \in Owners : TakeClaim(o))
  /\ \A o \in Owners : WF_vars(Running(o)) /\ WF_vars(TakeComplete(o))
  /\ WF_vars(LapseDead)

FairSpec == Spec /\ Fairness

-----------------------------------------------------------------------------
(* Properties.                                                              *)

TypeOK ==
  /\ rec \in Record
  /\ file \in File /\ disk \in File /\ final \in File
  /\ own \in [Owners -> Owner]
  /\ faults \in 0..MaxFaults

(***************************************************************************)
(* The digest decides: work reads transferred or complete only when the    *)
(* file at the destination is, byte for byte, the artifact the digest      *)
(* names, whichever owners, restarts, stops and crashes came before.       *)
(***************************************************************************)
DeliveredIntact == rec.state \in {"transferred", "complete"} => final = Artifact

(***************************************************************************)
(* Durability before the claim: at every moment, were the power to go, a   *)
(* chunk the record claims and the file is long enough to hold would be    *)
(* on the disk with the content it has now.                                *)
(***************************************************************************)
ClaimDurable ==
  \A c \in rec.proven : Reaches(file, c) => disk[c] = file[c] /\ file[c] # Hole

(***************************************************************************)
(* A checkpoint says which version its bytes came from: every claimed      *)
(* chunk still in the file is of the version the recorded validators name, *)
(* so an If-Range resume continues that version and no other.  It needs    *)
(* every source to serve a strong validator.                               *)
(***************************************************************************)
VersionOfProven ==
  rec.val # None =>
    \A c \in rec.proven : Reaches(file, c) => file[c] = rec.val

\* A checkpoint can be trusted by whoever resumes from it: its bytes survive a
\* power loss, and they are of the version its validators name.
ClaimsHold == ClaimDurable /\ VersionOfProven

(***************************************************************************)
(* Upwards only: the record forgets a proven chunk only once the file no   *)
(* longer holds it (a restart, a failed digest, a shortened file).         *)
(***************************************************************************)
NothingForgotten ==
  [][\A c \in rec.proven \ rec'.proven : file[c] = Hole]_rec

(***************************************************************************)
(* The whole of it implements what a download promises: once delivered,    *)
(* the artifact stays at its destination and the work can only be          *)
(* accepted, never fail or be cancelled.  It is claimed of records that    *)
(* only sweeps and requesters act on (ByName is FALSE).                    *)
(***************************************************************************)
Status ==
  CASE rec.state \in {"pending", "running"} -> "owed"
    [] rec.state = "transferred" -> "delivered"
    [] rec.state = "complete" -> "accepted"
    [] OTHER -> rec.state

P == INSTANCE Promise WITH status <- Status, arrived <- (final = Artifact)

PromiseKept == P!Spec

(***************************************************************************)
(* Work somebody wants is finished: while the intent is to run, the        *)
(* download ends complete or failed, whoever has to take it over.          *)
(***************************************************************************)
Finishes == rec.want = "run" ~> (Terminal(rec.state) \/ rec.want # "run")

(***************************************************************************)
(* A stop is honoured: a cancelled download ends, and one that stays       *)
(* paused ends up with nobody holding its lease for good, even when the    *)
(* owner that should have honoured the stop died in between.               *)
(***************************************************************************)
CancelHonoured ==
  rec.want = "cancel" ~> (Terminal(rec.state) \/ rec.want # "cancel")

PauseHonoured == <>[](rec.want = "pause") => <>[](~rec.live)

\* Whatever was asked of a download last is done in the end, also when nobody
\* was working on it or its owner died.
IntentHonoured == CancelHonoured /\ PauseHonoured
=============================================================================
