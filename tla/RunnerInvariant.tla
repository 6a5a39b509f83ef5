-------------------------- MODULE RunnerInvariant --------------------------
(***************************************************************************)
(* Why what is delivered is intact, and what a record claims is so: the    *)
(* invariants RunnerProofs shows to be inductive.  They are kept in a      *)
(* module of their own so that TLC can check them before they are proved.  *)
(***************************************************************************)
EXTENDS Runner

Working(o) == own[o].pc # "idle"

\* What TypeOK does not say of an owner's memory.
Sane(s) ==
  /\ s.pc = "idle" <=> s.epoch = 0
  /\ s.pc = "body" <=> s.at # 0
  /\ s.pc \in {"body", "restart"} =>
       s.gaps # {} /\ s.src \in Versions /\ s.left > 0
  /\ s.pc = "restart" => s.have = {}

Memory == \A o \in Owners : Sane(own[o])

\* No two owners have one epoch, and none has a later one than the record.
Epochs ==
  \A o \in Owners :
    /\ own[o].epoch <= rec.epoch
    /\ \A p \in Owners \ {o} : own[o].epoch = own[p].epoch => own[o].epoch = 0

\* Between the digest and the record that says so, nobody else touches what
\* the latest owner verified.
Verified ==
  \A o \in Owners :
    Latest(o) =>
      /\ own[o].pc = "deliver" => file = Artifact
      /\ own[o].pc \in {"mark", "take"} => final = Artifact

InStream == {"planned", "hash", "gap", "restart", "body", "end"}

\* The chunks of the file that memory s answers for.
Streamed(s) == IF s.pc = "body" THEN 1..(s.at - 1) ELSE s.have

\* A single stream has one open gap left, right behind what is proven, or
\* none; in the body of a response the proven part has grown into the gap.
SingleStream(s) ==
  \E k \in 0..MaxLen :
    /\ s.have = 1..k
    /\ \/ s.gaps = {}
       \/ \E g \in Gap :
            /\ s.gaps = {g} /\ g.to = 0
            /\ s.pc \in {"planned", "hash", "gap", "restart"} => g.from = k + 1
            /\ s.pc = "body" => g.from <= k + 1
    /\ s.pc = "body" => k < s.at

\* The rolling digest speaks for the file: it took in the bytes of the file,
\* all of them and in their order.
SpeaksFor(s, f) ==
  s.rolling /\ s.pc \in InStream =>
    /\ SingleStream(s)
    /\ \A c \in Chunk \ Streamed(s) : f[c] = Hole
    /\ (s.clean /\ s.pc \notin {"planned", "hash"}) =>
         \A c \in Streamed(s) : f[c] = Wanted

RollingIsFile == \A o \in Owners : Latest(o) => SpeaksFor(own[o], file)

(***************************************************************************)
(* The digest stands for the delivered file, through every interleaving of *)
(* owners: the invariant behind DeliveredIntact.                           *)
(***************************************************************************)
DigestSpeaks ==
  TypeOK /\ Memory /\ Epochs /\ Verified /\ RollingIsFile /\ DeliveredIntact

-----------------------------------------------------------------------------
(* What the record claims.                                                  *)

\* An owner whose lease lapsed writes no more, nor touches the file in any other
\* way once it was overtaken.
Fenced == "write" \notin AfterLapse /\ ~Overtaken

\* Every source says which version it serves, and nothing was proven before.
Vouched == Strong = Versions /\ Leftovers \subseteq {{}}

\* The record claims the start of one version, and nothing on the disk is longer
\* than what a reader of the file sees.
RecordClaims ==
  /\ \E k \in 0..MaxLen : rec.proven = 1..k
  /\ rec.proven # {} => rec.val \in Versions
  /\ \A c \in Chunk : file[c] = Hole => disk[c] = Hole

\* What memory s calls proven is the start of the version its next request names.
OfOneVersion(s, f) ==
  s.pc \in InStream =>
    /\ SingleStream(s)
    /\ s.have # {} => s.seen \in Versions
    /\ \A c \in s.have : f[c] = s.seen
    /\ s.pc = "body" => s.seen = s.src /\ \A c \in Streamed(s) : f[c] = s.src

\* How the record r stands to memory s on the way to a write.
Abreast(s, r, f) ==
  /\ s.pc \in {"begin", "plan"} => s.have = r.proven /\ s.seen = r.val
  /\ s.pc = "planned" =>
       s.have \subseteq r.proven /\ \A c \in r.proven \ s.have : f[c] = Hole
  /\ s.pc \in {"restart", "mark", "unclaim"} => f = Empty
  /\ s.pc \in {"deliver", "mark"} => s.seen \in Versions

\* An owner the store accepts writes from has all that the record claims.
HasTheClaim(o) ==
  Holds(o) /\ own[o].pc \in {"hash", "gap", "body", "end"} => rec.proven \subseteq own[o].have

(***************************************************************************)
(* The invariant behind ClaimsHold and NothingForgotten: the record and    *)
(* the memory of its latest owner speak of the same prefix of one version. *)
(***************************************************************************)
ClaimsAgree ==
  /\ RecordClaims /\ ClaimsHold
  /\ \A o \in Owners :
       Latest(o) => /\ OfOneVersion(own[o], file)
                    /\ Abreast(own[o], rec, file)
                    /\ HasTheClaim(o)

-----------------------------------------------------------------------------
\* Where the record stands while somebody works on it, when nobody runs a
\* record that no sweep would adopt.
Owing ==
  \A o \in Owners :
    Latest(o) =>
      /\ own[o].pc \notin {"idle", "release", "take"} => rec.state = "running"
      /\ own[o].pc = "take" => rec.state = "transferred"
=============================================================================
