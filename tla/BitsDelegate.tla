---------------------------- MODULE BitsDelegate ----------------------------
(***************************************************************************)
(* The delegate that is Windows BITS (go/bits/bits.go): one record, the    *)
(* queue of the service, and the PowerShell script each call runs.         *)
(*                                                                         *)
(* A script is a process of its own.  It is killed when its call's clock   *)
(* runs out, between any two cmdlets; when the caller dies instead, nobody *)
(* is left to kill it.  Which call a supervisor makes, and what it does    *)
(* with the answer, is module Delegation; here it is a claim, one or two   *)
(* calls, and a write.  Available is asked once and answered yes: a        *)
(* process it refused never registers the delegator (bits/register.go).    *)
(***************************************************************************)
EXTENDS Disturbances, FiniteSets

CONSTANTS
  Agents,  \* processes that sweep the store
  Jobs,    \* jobs the queue has room for: a bound on Starts
  Request, \* the record's id
  None

\* What a script prints where it prints no handle.
Words == {"error", "gone", "ok", "failed", "transferred", "suspended", "running"}

\* BITS names its jobs with GUIDs: no word is one.
ASSUME BitsAssumption ==
  /\ MaxFaults \in Nat
  /\ Request \notin Jobs /\ None \notin Jobs \cup Agents /\ Request # None
  /\ Words \cap (Jobs \cup {None}) = {}

VARIABLES
  rec,    \* the record: handle, state, intent, who holds the lease
  job,    \* the state BITS shows for each job of the request
  dest,   \* the file at the destination is there in full
  agent,  \* what each process is doing
  script, \* the script it started: what it does, for which job, how far
  svc     \* the service answers

vars == <<rec, job, dest, agent, script, svc, faults>>

Idle == [pc |-> "idle", id |-> None, ans |-> None]
Off  == [verb |-> None, at |-> "off", id |-> None, ans |-> None]

At(a, pc)    == agent[a].pc = pc
Become(a, r) == agent' = [agent EXCEPT ![a] = r]
Goes(a, pc)  == Become(a, [agent[a] EXCEPT !.pc = pc])
MayWrite(a)  == rec.holder = a

\* The call is over; its lease, if it is still held, goes back.
Writes(a, r) ==
  /\ rec' = IF MayWrite(a) THEN [r EXCEPT !.holder = None] ELSE rec
  /\ Become(a, Idle)

TakenBack(r) == [r EXCEPT !.ext = None]

-----------------------------------------------------------------------------
(* The service.                                                             *)

\* A job BITS will go on with, or holds the file of.
Active(j) == job[j] \in {"suspended", "transferring", "transienterror", "transferred"}

Queued(j) == job[j] \notin {"none", "gone"}

\* Bytes move, a network goes and comes back, a job is suspended by a logoff,
\* fails, is cancelled by somebody else, or leaves with the whole queue.
Transfer(j) ==
  /\ svc
  /\ \/ job[j] = "transferring" /\ job' = [job EXCEPT ![j] = "transferred"] /\ Calm
     \/ job[j] = "transienterror" /\ job' = [job EXCEPT ![j] = "transferring"] /\ Calm
  /\ UNCHANGED <<rec, dest, agent, script, svc>>

Trouble(j) ==
  /\ \/ job[j] = "transferring" /\ Disturb("network") /\ job' = [job EXCEPT ![j] = "transienterror"]
     \/ job[j] = "transferring" /\ Disturb("logoff") /\ job' = [job EXCEPT ![j] = "suspended"]
     \/ job[j] = "transferring" /\ Disturb("fail") /\ job' = [job EXCEPT ![j] = "error"]
     \/ Active(j) /\ Disturb("reap") /\ job' = [job EXCEPT ![j] = "gone"]
  /\ UNCHANGED <<rec, dest, agent, script, svc>>

ServiceStops  == svc /\ Disturb("service") /\ svc' = FALSE
                 /\ UNCHANGED <<rec, job, dest, agent, script>>
ServiceStarts == ~svc /\ svc' = TRUE /\ UNCHANGED <<rec, job, dest, agent, script, faults>>

-----------------------------------------------------------------------------
(* Delegator.run: a script, its cmdlets and its answer.                     *)

Run(a, verb, id) ==
  script' = [script EXCEPT ![a] = [Off EXCEPT !.verb = verb, !.at = "begin", !.id = id]]

Calls(a, verb, id) ==
  /\ Run(a, verb, id)
  /\ Become(a, [agent[a] EXCEPT !.pc = verb, !.id = id])

Prints(a, ans) == script' = [script EXCEPT ![a].at = "print", ![a].ans = ans]

\* stateOf, and Status.Suspended beside it.
StateOf(st) ==
  CASE st \in {"error", "cancelled"} -> "failed"
    [] st = "transferred"            -> "transferred"
    [] st = "suspended"              -> "suspended"
    [] OTHER                         -> "running"

\* Start-BitsTransfer -Suspended, with the request as the job's description.
Create(a) ==
  /\ script[a].verb = "start" /\ script[a].at = "begin"
  /\ IF svc
     THEN \E j \in Jobs :
            /\ job[j] = "none"
            /\ job' = [job EXCEPT ![j] = "suspended"]
            /\ script' = [script EXCEPT ![a].at = "resume", ![a].id = j]
     ELSE Prints(a, "error") /\ UNCHANGED job
  /\ UNCHANGED <<rec, dest, agent, svc, faults>>

\* Resume-BitsTransfer; when it is refused the job is removed and the error
\* goes on.
ResumeNew(a) ==
  /\ script[a].at = "resume"
  /\ \/ /\ svc /\ Calm
        /\ job' = [job EXCEPT ![script[a].id] = IF @ = "suspended" THEN "transferring" ELSE @]
        /\ Prints(a, script[a].id)
     \/ /\ IF svc THEN Disturb("refused") ELSE Calm
        /\ script' = [script EXCEPT ![a].at = "remove"] /\ UNCHANGED job
  /\ UNCHANGED <<rec, dest, agent, svc>>

RemoveNew(a) ==
  /\ script[a].at = "remove"
  /\ job' = IF svc THEN [job EXCEPT ![script[a].id] = "gone"] ELSE job
  /\ Prints(a, "error")
  /\ UNCHANGED <<rec, dest, agent, svc, faults>>

\* Mutant: a job that does not move is not the one.
FindMoving(a) ==
  /\ script[a].verb = "locate" /\ script[a].at = "begin"
  /\ LET found == {j \in Jobs : Queued(j) /\ job[j] # "suspended"} IN
     \/ ~svc /\ Prints(a, "error")
     \/ svc /\ found = {} /\ Prints(a, "gone")
     \/ svc /\ \E j \in found : Prints(a, j)
  /\ UNCHANGED <<rec, job, dest, agent, svc, faults>>

\* Get-BitsTransfer by description: the first of what is found, whatever its
\* state.
Find(a) ==
  /\ script[a].verb = "locate" /\ script[a].at = "begin"
  /\ LET found == {j \in Jobs : Queued(j)} IN
     \/ ~svc /\ Prints(a, "error")
     \/ svc /\ found = {} /\ Prints(a, "gone")
     \/ svc /\ \E j \in found : Prints(a, j)
  /\ UNCHANGED <<rec, job, dest, agent, svc, faults>>

\* Mutant: any error of Get-BitsTransfer means there is no such job.
ShowWide(a) ==
  /\ script[a].verb = "poll" /\ script[a].at = "begin"
  /\ Prints(a, IF ~svc THEN "gone"
               ELSE IF Queued(script[a].id) THEN StateOf(job[script[a].id]) ELSE "gone")
  /\ UNCHANGED <<rec, job, dest, agent, svc, faults>>

\* Only the one error that says so means that there is no such job.
Show(a) ==
  /\ script[a].verb = "poll" /\ script[a].at = "begin"
  /\ Prints(a, IF ~svc THEN "error"
               ELSE IF Queued(script[a].id) THEN StateOf(job[script[a].id]) ELSE "gone")
  /\ UNCHANGED <<rec, job, dest, agent, svc, faults>>

\* Complete-BitsTransfer: the file is the caller's and the job leaves the queue.
\* What is completed before it was transferred leaves no file.
Complete(a) ==
  /\ script[a].verb = "finalize" /\ script[a].at = "begin"
  /\ IF svc /\ Queued(script[a].id)
     THEN /\ dest' = (dest \/ job[script[a].id] = "transferred")
          /\ job' = [job EXCEPT ![script[a].id] = "gone"]
          /\ Prints(a, "ok")
     ELSE Prints(a, "error") /\ UNCHANGED <<job, dest>>
  /\ UNCHANGED <<rec, agent, svc, faults>>

\* Remove-BitsTransfer deletes what was fetched; a job that is not there is a
\* success.
Remove(a) ==
  /\ script[a].verb = "abandon" /\ script[a].at = "begin"
  /\ job' = IF svc THEN [job EXCEPT ![script[a].id] = "gone"] ELSE job
  /\ Prints(a, IF svc THEN "ok" ELSE "error")
  /\ UNCHANGED <<rec, dest, agent, svc, faults>>

\* Suspend- and Resume-BitsTransfer: a job that is not there is as suspended as
\* it will ever be.
SetPaused(a) ==
  /\ script[a].verb \in {"suspend", "resume"} /\ script[a].at = "begin"
  /\ LET paused == script[a].verb = "suspend"
         from == IF paused THEN {"transferring", "transienterror"} ELSE {"suspended"}
     IN  job' = [job EXCEPT ![script[a].id] =
                   IF svc /\ @ \in from THEN IF paused THEN "suspended" ELSE "transferring" ELSE @]
  /\ Prints(a, IF svc THEN "ok" ELSE "error")
  /\ UNCHANGED <<rec, dest, agent, svc, faults>>

\* What a script prints for a caller that died is read by nobody.
Answer(a) ==
  /\ script[a].at = "print"
  /\ script' = [script EXCEPT ![a] = Off]
  /\ IF At(a, "dead") THEN Become(a, Idle)
     ELSE Become(a, [agent[a] EXCEPT !.ans = script[a].ans])
  /\ UNCHANGED <<rec, job, dest, svc, faults>>

\* The clock of the call kills the script wherever it is.
TimedOut(a) ==
  /\ script[a].at # "off" /\ ~At(a, "dead") /\ Disturb("timeout")
  /\ script' = [script EXCEPT ![a] = Off]
  /\ Become(a, [agent[a] EXCEPT !.ans = "error"])
  /\ UNCHANGED <<rec, job, dest, svc>>

Script(a) ==
  \/ Create(a) \/ ResumeNew(a) \/ RemoveNew(a) \/ Find(a) \/ Show(a) \/ Complete(a)
  \/ Remove(a) \/ SetPaused(a) \/ Answer(a)

-----------------------------------------------------------------------------
(* A supervisor: what it calls, and what it does with the answer.           *)

Business ==
  IF rec.state # "open" THEN "nothing"
  ELSE IF rec.ext = Request THEN "locate"
  ELSE IF rec.ext \in Jobs THEN CASE rec.want = "run"   -> "poll"
                                  [] rec.want = "pause" -> "suspend"
                                  [] OTHER              -> "abandon"
  ELSE IF rec.want = "run" THEN "start" ELSE "nothing"

\* The handoff is on the record before the work is handed over.
Take(a) ==
  /\ At(a, "idle") /\ rec.holder = None /\ Business # "nothing"
  /\ rec' = [rec EXCEPT !.holder = a, !.ext = IF @ = None THEN Request ELSE @]
  /\ Calls(a, Business, IF rec.ext \in Jobs THEN rec.ext ELSE None)
  /\ UNCHANGED <<job, dest, svc, faults>>

Told(a, pc) == At(a, pc) /\ agent[a].ans # None

\* Mutant: a Start without an answer was refused.
StartRefused(a) ==
  /\ Told(a, "start")
  /\ Writes(a, IF agent[a].ans = "error" THEN TakenBack(rec)
               ELSE [rec EXCEPT !.ext = agent[a].ans])
  /\ UNCHANGED <<job, dest, script, svc, faults>>

\* A Start without an answer is asked about at once.
Started(a) ==
  /\ Told(a, "start")
  /\ IF agent[a].ans = "error"
     THEN /\ Run(a, "locate", None) /\ UNCHANGED rec
          /\ Become(a, [Idle EXCEPT !.pc = "locate"])
     ELSE Writes(a, [rec EXCEPT !.ext = agent[a].ans]) /\ UNCHANGED script
  /\ UNCHANGED <<job, dest, svc, faults>>

\* An empty answer takes the work back; an error leaves the handoff unsettled.
Located(a) ==
  /\ Told(a, "locate")
  /\ Writes(a, CASE agent[a].ans = "error" -> rec
                 [] agent[a].ans = "gone"  -> TakenBack(rec)
                 [] OTHER                  -> [rec EXCEPT !.ext = agent[a].ans])
  /\ UNCHANGED <<job, dest, script, svc, faults>>

\* Mutant: suspended work is left to whoever suspended it.
PolledAlone(a) ==
  /\ Told(a, "poll")
  /\ IF agent[a].ans = "transferred"
     THEN /\ Run(a, "finalize", agent[a].id) /\ UNCHANGED rec
          /\ Become(a, [agent[a] EXCEPT !.pc = "finalize", !.ans = None])
     ELSE /\ Writes(a, IF agent[a].ans \in {"failed", "gone"} THEN TakenBack(rec) ELSE rec)
          /\ UNCHANGED script
  /\ UNCHANGED <<job, dest, svc, faults>>

\* Failed or gone: the work is ours again, and the job is left as it is.
Polled(a) ==
  /\ Told(a, "poll")
  /\ LET says == agent[a].ans IN
     \/ says \in {"failed", "gone"} /\ Writes(a, TakenBack(rec)) /\ UNCHANGED script
     \/ says \in {"running", "error"} /\ Writes(a, rec) /\ UNCHANGED script
     \/ /\ says \in {"suspended", "transferred"} /\ UNCHANGED rec
        /\ LET next == IF says = "suspended" THEN "resume" ELSE "finalize" IN
           /\ Run(a, next, agent[a].id)
           /\ Become(a, [agent[a] EXCEPT !.pc = next, !.ans = None])
  /\ UNCHANGED <<job, dest, svc, faults>>

\* The destination is hashed before the record says delivered; a call that
\* failed leaves the record to the next sweep.
Finalized(a) ==
  /\ Told(a, "finalize")
  /\ Writes(a, CASE agent[a].ans = "error" -> rec
                 [] agent[a].ans = "ok" /\ dest -> [rec EXCEPT !.state = "delivered"]
                 [] OTHER -> TakenBack(rec))
  /\ UNCHANGED <<job, dest, script, svc, faults>>

\* Suspend, Resume and Abandon: only a cancel changes the record.
Changed(a) ==
  /\ Told(a, "suspend") \/ Told(a, "resume") \/ Told(a, "abandon")
  /\ Writes(a, IF At(a, "abandon") /\ agent[a].ans = "ok"
               THEN [rec EXCEPT !.state = "cancelled", !.ext = None] ELSE rec)
  /\ UNCHANGED <<job, dest, script, svc, faults>>

Step(a) ==
  Take(a) \/ Started(a) \/ Located(a) \/ Polled(a) \/ Finalized(a) \/ Changed(a)

\* A process dies; its lease lapses later, and its script may go on alone.
Crash(a) ==
  /\ ~At(a, "idle") /\ ~At(a, "dead")
  /\ \/ Disturb("crash") /\ script' = [script EXCEPT ![a] = Off] /\ Become(a, Idle)
     \/ Disturb("orphan") /\ script[a].at # "off" /\ UNCHANGED script /\ Goes(a, "dead")
  /\ rec' = IF MayWrite(a) THEN [rec EXCEPT !.holder = None] ELSE rec
  /\ UNCHANGED <<job, dest, svc>>

SetWant ==
  /\ rec.state = "open" /\ Disturb("ask")
  /\ \E w \in {"run", "pause", "cancel"} \ {rec.want} : rec' = [rec EXCEPT !.want = w]
  /\ UNCHANGED <<job, dest, agent, script, svc>>

Init ==
  /\ rec = [ext |-> None, state |-> "open", want |-> "run", holder |-> None]
  /\ job = [j \in Jobs |-> "none"] /\ dest = FALSE
  /\ agent = [a \in Agents |-> Idle] /\ script = [a \in Agents |-> Off]
  /\ svc = TRUE /\ faults = [left |-> MaxFaults, seen |-> {}]

Next ==
  \/ \E a \in Agents : Step(a) \/ Script(a) \/ TimedOut(a) \/ Crash(a)
  \/ \E j \in Jobs : Transfer(j) \/ Trouble(j)
  \/ SetWant \/ ServiceStops \/ ServiceStarts

Spec == Init /\ [][Next]_vars

\* Sweeps are made for ever, scripts end, the service is started on demand and
\* moves the bytes of what it holds.
FairSpec ==
  /\ Spec
  /\ \A a \in Agents : WF_vars(Step(a)) /\ WF_vars(Script(a))
  /\ \A j \in Jobs : WF_vars(Transfer(j))
  /\ WF_vars(ServiceStarts)
-----------------------------------------------------------------------------
TypeOK ==
  /\ rec \in [ext : Jobs \cup {Request, None}, state : {"open", "delivered", "cancelled"},
              want : {"run", "pause", "cancel"}, holder : Agents \cup {None}]
  /\ job \in [Jobs -> {"none", "suspended", "transferring", "transienterror", "transferred",
                       "error", "gone"}]
  /\ dest \in BOOLEAN /\ svc \in BOOLEAN
  /\ faults \in [left : 0..MaxFaults, seen : SUBSET Kinds]

\* Locate's answer is to be relied on: no script outlived its caller, and no job
\* of the request stays in the queue failed.
Findable == faults.seen \cap {"orphan", "fail"} = {}

\* The queue never holds two jobs for one request: a script that died between
\* creating a job and saying so has its job found by Locate.
OneForRequest ==
  Findable => \A i, j \in Jobs : Active(i) /\ Active(j) => i = j

\* A job of the queue is on the record, or the record says that there may be one:
\* none is left to the 90-day reaper.
NoneForgotten ==
  Findable /\ rec.ext # Request => \A j \in Jobs : Active(j) => rec.ext = j

\* The queue and the record agree: one job, and the record leads to it.
OneKnownJob == TypeOK /\ OneForRequest /\ NoneForgotten

\* A handle is given up only when its job can do nothing more: an outage of the
\* service or of the network takes no job off the record.
HandleKept ==
  [][rec.ext \in Jobs /\ rec'.ext # rec.ext => ~Active(rec.ext)]_vars

\* A job wanted for good is delivered, whatever its scripts and the service went
\* through, a job left suspended by a dead script included.
Delivers ==
  <>[](rec.want = "run") => <>(rec.state \in {"delivered", "cancelled"})
=============================================================================
