------------------------------ MODULE JobStore ------------------------------
(***************************************************************************)
(* The record protocol of the job layer, as this repository uses it.       *)
(*                                                                         *)
(* The store itself is another repository (abstraction-job), so what its   *)
(* operations do is read off their callers in go/ and off the scenarios in *)
(* testdata/scenarios (lease.txt, orphans.txt, intent.txt).  A record is   *)
(* any TLA+ record with at least the fields                                *)
(*   state : one of States      epoch : how often it has been claimed      *)
(*   live  : the lease is held and has not lapsed                          *)
(*   want  : the intent, which anybody may write without an epoch          *)
(* and each operation maps the record before to the record after.          *)
(***************************************************************************)
EXTENDS Naturals

States == {"pending", "running", "transferred", "complete", "failed", "cancelled"}
Wants  == {"run", "pause", "cancel"}

\* A finished record accepts no claim and no write (job.State.Terminal).
Terminal(s) == s \in {"complete", "failed", "cancelled"}

(***************************************************************************)
(* Store.Claim.  A restarted process has a name of its own, so the one     *)
(* exception the store makes, an owner re-claiming its own live lease,     *)
(* never arises between the owners modelled here.                          *)
(***************************************************************************)
Claimable(r) == ~Terminal(r.state) /\ ~r.live

Claimed(r) ==
  [r EXCEPT !.state = IF @ = "pending" THEN "running" ELSE @,
            !.epoch = @ + 1,
            !.live  = TRUE]

(***************************************************************************)
(* Store.Update, Store.Renew and Store.Release present an epoch.  They are *)
(* refused for a stale epoch, for a lapsed lease (whoever held it last)    *)
(* and for a finished record.                                              *)
(***************************************************************************)
Accepts(r, e) == r.live /\ r.epoch = e /\ ~Terminal(r.state)

Released(r) ==
  [r EXCEPT !.state = IF @ = "running" THEN "pending" ELSE @,
            !.live  = FALSE]

\* Mutants: a sweep that is offered delivered work, one that never gets the
\* work of a dead owner, and one that passes over any work asked to stop.
OrphanDelivered(r) == ~r.live /\ ~Terminal(r.state) /\ r.want # "pause"
OrphanPending(r)   == ~r.live /\ r.state = "pending" /\ r.want # "pause"
OrphanWanted(r)    == ~r.live /\ r.state \in {"pending", "running"} /\ r.want = "run"

(***************************************************************************)
(* Store.Orphans: pending work nobody paused, and running work whose owner *)
(* let its lease lapse, paused or not: the next owner carries the pause    *)
(* out.  A transferred record is never one.                                *)
(***************************************************************************)
Orphan(r) ==
  /\ ~r.live
  /\ \/ r.state = "pending" /\ r.want # "pause"
     \/ r.state = "running"
=============================================================================
