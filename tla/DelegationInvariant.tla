------------------------ MODULE DelegationInvariant ------------------------
(***************************************************************************)
(* Why work handed out is never lost, done twice or delivered bad: the     *)
(* invariants DelegationProofs shows to be inductive.  They are kept in a  *)
(* module of their own so that TLC can check them before they are proved.  *)
(***************************************************************************)
EXTENDS Delegation

Alone == \A s, t \in Supervisors : s = t

\* Nobody claims the record under a process that works on it.
Orderly == Alone \/ ~Stalls

\* Nor does anybody ask about a handoff another process is making.
Undivided == Alone \/ (~Stalls /\ ~Overlap)

\* Every system can say later what it did with a request.
Answering == Systems \subseteq Locators

\* Between a claim and the end of what it was made for.
Handing == {"start", "locate", "unhand", "handle"}
Polled  == {"running", "suspended", "failed", "gone", "lied", "transferred"}
Acting  == Polled \cup {"settle", "stranded", "verify", "mark", "honour", "cancel"}
AtHome  == {"local", "asked", "placed"}
Holders == Handing \cup Acting \cup AtHome \cup {"offer", "release", "take"}

Holding(s) == own[s].pc \in Holders

-----------------------------------------------------------------------------
(* Memory: no hypothesis on the processes.                                  *)

IsDelegation(d) == d.sys \in Systems /\ d.ext \in Handles \cup {Request}

RecordShape == Delegated(rec) => IsDelegation(rec.deleg)

\* What a process at each point holds in memory.
Shape(o) ==
  /\ o.cur => o.pc \in Holders
  /\ o.pc \in Handing => o.sys \in Systems
  /\ o.pc = "handle" => o.ext \in Handles
  /\ o.pc \in {"ask", "tell", "claim"} \cup Acting => IsDelegation(o.seen)
  /\ o.pc = "ask" => o.said \in {"settle", "poll"}
  /\ o.pc = "claim" => o.said \in Polled \cup {"settle", "stranded", "honour"}
  /\ o.pc \in {"ask", "claim"} /\ o.said = "settle" => o.seen.ext = Request
  /\ o.pc = "settle" => o.seen.ext = Request
  /\ \/ o.pc \in {"ask", "claim"} /\ o.said \in Polled \cup {"poll", "honour"}
     \/ o.pc \in Polled \cup {"tell", "verify", "mark", "honour", "cancel"}
     => o.seen.ext \in Handles
  /\ \/ o.pc = "claim" /\ o.said \in Polled
     \/ o.pc \in Polled \cup {"verify", "mark"}
     => o.ext = o.seen.ext

\* One claim is the last, and what its process saw of the record is still so.
LastClaim ==
  \A s \in Supervisors :
    own[s].cur => /\ \A t \in Supervisors : own[t].cur => s = t
                  /\ own[s].pc \in Acting => rec.deleg = own[s].seen

\* A handle somebody has was given out, and stays so.
GivenOut ==
  \A e \in Handles :
    ext[e].st = "none" => Unheld(e)

Memory ==
  RecordShape /\ (\A s \in Supervisors : Shape(own[s])) /\ LastClaim /\ GivenOut

-----------------------------------------------------------------------------
(* Custody of the record, where a process is alone or does not stall.       *)

\* Who works on the record holds the last claim of it, and the lease too if
\* leases do not lapse under those who work.
Kept ==
  \A s \in Supervisors :
    Holding(s) =>
      /\ own[s].cur
      /\ ~Stalls => rec.live /\ rec.holder = s /\ ~Terminal(rec.state)

-----------------------------------------------------------------------------
(* What is at the destination.                                              *)

Destination ==
  \A s \in Supervisors :
    /\ own[s].pc \in {"ask", "claim"} => own[s].state # "transferred"
    /\ \/ own[s].pc = "ask" /\ own[s].said = "poll"
       \/ own[s].pc = "claim" /\ own[s].said \in Polled
       => own[s].state \in {"pending", "running"}
    /\ own[s].pc \in {"transferred", "verify", "mark"} => rec.state = "running"
    /\ own[s].pc \in {"verify", "mark"} => final \in {"good", "bad"}
    /\ own[s].pc = "mark" => own[s].said = final
    /\ own[s].pc = "placed" => final = "good"
    /\ own[s].pc = "take" => rec.state = "transferred"

-----------------------------------------------------------------------------
(* Where the external jobs are, when every system can be asked.             *)

NoneActive == \A e \in Handles : ~Active(e)
OnlyActive(h) == \A e \in Handles : Active(e) => e = h

\* The record leads to every job that is still there.
Found ==
  \A e \in Handles :
    Active(e) => rec.deleg.sys = ext[e].sys /\ rec.deleg.ext \in {e, Request}

OneActive == \A e \in Handles : Active(e) => OnlyActive(e)

\* A process that asked about a handoff nobody settled, and since when nobody
\* claimed, has the record as it is, and nobody works on it.
Undisturbed ==
  \A s \in Supervisors :
    own[s].pc \in {"ask", "claim"} /\ own[s].said = "settle" /\ own[s].fresh =>
      rec.deleg = own[s].seen /\ \A t \in Supervisors : ~Holding(t)

\* What a process knows of the jobs it handed out, asked about or stopped.
Knows(o) ==
  /\ o.pc = "offer" => ~Delegated(rec)
  /\ o.pc \in Handing => rec.deleg = HandedTo(o.sys, Request)
  /\ o.pc \in {"start", "unhand"} => NoneActive
  /\ o.pc = "handle" => OnlyActive(o.ext)
  /\ \/ o.pc = "settle"
     \/ o.pc = "claim" /\ o.said = "settle" /\ o.fresh
     => OnlyActive(o.ext)

\* What was answered of a job that is over stays true of it.
Stopping(o) ==
  /\ \/ o.pc = "claim" /\ o.said \in {"failed", "gone"}
     \/ o.pc \in {"failed", "gone", "verify", "mark"}
     => ~Active(o.ext)
  /\ o.pc = "cancel" => ~Active(o.seen.ext)

Jobs ==
  /\ \A s \in Supervisors : Stopping(own[s])
  /\ ~faults.leaked => /\ Found /\ OneActive /\ Undisturbed
                       /\ \A s \in Supervisors : Knows(own[s])

-----------------------------------------------------------------------------
(* What one process alone knows besides.                                    *)

AtWork == rec.state \in {"pending", "running"}

Solitary ==
  /\ \A s \in Supervisors :
       /\ own[s].pc \in {"listed", "orphan", "offer"} \cup AtHome => ~Delegated(rec) /\ AtWork
       /\ own[s].pc \in Handing \cup Acting => AtWork
  /\ ~AtWork => NoneActive
=============================================================================
