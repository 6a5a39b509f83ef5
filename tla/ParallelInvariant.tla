-------------------------- MODULE ParallelInvariant --------------------------
(***************************************************************************)
(* Why a claim of ParallelRanges is synced and its success means the whole *)
(* file: the invariant ParallelProofs shows to be inductive, as long as    *)
(* the store refuses only what it must (~Transient); and why no byte is    *)
(* fetched twice (Apart), whatever the store does.                         *)
(***************************************************************************)
EXTENDS ParallelRanges

\* Between runs a process knows nothing, and holds nothing.
Fresh ==
  pc = "out" =>
    /\ ~rec.live /\ todo = {} /\ have = {} /\ landed = {}
    /\ ctx = Quiet /\ saver = Resting /\ keeper = NoKeeper
    /\ conn = [w \in Workers |-> NoOne]

\* What worker c reports as written is in file f, and flushed to d once synced.
OnFile(c, f, d) ==
  /\ c.pc = "fetch" =>
       /\ c.from <= c.ask /\ c.ask <= c.at /\ c.at <= c.reached /\ c.reached <= c.to + 1
       /\ c.from..(c.reached - 1) \subseteq f
  /\ c.pc = "proved" => Chunks(c) \subseteq f
  /\ c.pc = "add" => Chunks(c) \subseteq d

Synced ==
  /\ rec.proven \subseteq disk /\ have \subseteq disk /\ disk \subseteq file
  /\ landed \subseteq file
  /\ saver.pc = "sync" => saver.parts \subseteq file
  /\ saver.pc = "add" => saver.parts \subseteq disk
  /\ \A w \in Workers : OnFile(conn[w], file, disk)

\* While the lease holds, the record says what the proven set does; a run
\* nothing has disturbed yet has recorded what it proved.
InHand ==
  /\ rec.live => have = rec.proven
  /\ pc # "out" /\ ~ctx.stop /\ ~ctx.failed => have \subseteq rec.proven

\* An ended worker and a fence have stopped the run.
Stops ==
  /\ \A w \in Workers : conn[w].pc = "gone" => ctx.stop
  /\ keeper.fence # "none" => ctx.stop

Busy == {"fetch", "proved", "add"}

\* Until the run is stopped, every chunk is proven, to do, or being done.
Covered ==
  pc # "out" /\ ~ctx.stop =>
    \A k \in Chunk :
      \/ k \in have
      \/ \E r \in todo : k \in Chunks(r)
      \/ \E w \in Workers : conn[w].pc \in Busy /\ k \in Chunks(conn[w])

\* Who has ended at which point of Runner.parallel.
Ended ==
  /\ pc \notin {"out", "feed"} /\ ~ctx.stop => todo = {}
  /\ pc \in {"quiet", "last", "return", "keep", "release", "whole"} =>
       \A w \in Workers : conn[w].pc \notin Busy
  /\ pc \in {"return", "keep", "release", "whole"} => saver.pc = "idle"
  /\ keeper.on <=> pc \in {"feed", "wait", "quiet"}
  /\ pc # "out" => file \subseteq Chunk

(***************************************************************************)
(* The proven set, the record, the disk and the work left agree at every   *)
(* point of every interleaving.                                            *)
(***************************************************************************)
Ledger ==
  Fresh /\ Synced /\ InHand /\ Stops /\ Covered /\ Ended /\ WholeAtSuccess

\* Why what landed is kept: a fence set down by the store is final, and the
\* last keepLanded reads the landed set after the last worker has ended.
Kept ==
  /\ keeper.fence = "lease" => ~rec.live
  /\ pc = "last" /\ saver.pc # "idle" => landed \subseteq saver.parts
  /\ KeptAtReturn

\* Why no byte is fetched twice: ranges in hand and to do are disjoint, what
\* landed is in the range of a worker that has it in hand or had it when it
\* ended, and a worker whose range is not whole goes on where it broke off.
Held(w) == conn[w].pc # "idle"

Meet(r, s) == Chunks(r) \cap Chunks(s) # {}

GoesOn(c, got) ==
  c.pc = "fetch" =>
    /\ c.from <= c.ask /\ c.ask <= c.at /\ c.at <= c.reached
    /\ c.reached <= c.to =>
         c.at = c.reached /\ \A k \in got \cap Chunks(c) : k < c.reached

Apart ==
  /\ pc = "out" => landed = {} /\ \A w \in Workers : ~Held(w)
  /\ \A r, s \in todo : Meet(r, s) => r = s
  /\ \A w \in Workers : Held(w) =>
       /\ \A r \in todo : ~Meet(conn[w], r)
       /\ \A v \in Workers \ {w} : Held(v) => ~Meet(conn[w], conn[v])
  /\ \A k \in landed : \E w \in Workers : Held(w) /\ k \in Chunks(conn[w])
  /\ \A w \in Workers : GoesOn(conn[w], landed)
=============================================================================
