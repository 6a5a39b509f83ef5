----------------------------- MODULE BitsProofs -----------------------------
(***************************************************************************)
(* Proofs about the BITS delegator, for any processes, any queue and any   *)
(* disturbances: a handle leaves the record only when its job can do       *)
(* nothing more, and where Locate can be relied on the queue holds one job *)
(* and the record leads to it.                                             *)
(***************************************************************************)
EXTENDS BitsInvariant, TLAPS

Record == [ext : Jobs \cup {Request, None}, state : {"open", "delivered", "cancelled"},
           want : {"run", "pause", "cancel"}, holder : Agents \cup {None}]
States == {"none", "suspended", "transferring", "transienterror", "transferred", "error", "gone"}

LEMMA Typed ==
  ASSUME Ranges
  PROVE  /\ rec \in Record /\ job \in [Jobs -> States] /\ dest \in BOOLEAN
         /\ agent \in [Agents -> Call] /\ script \in [Agents -> Cmdlet]
BY DEF Ranges, TypeOK, Record, States

-----------------------------------------------------------------------------
(* The queue.                                                               *)

\* A job that was there was there, and one that is done for stays so.
Aged == \A j \in Jobs : (Given(j) => Given(j)') /\ (Spent(j) => Spent(j)')

Fewer == \A j \in Jobs : Active(j)' => Active(j)

\* A job's state is set, to what none of its former states forbids.
LEMMA Set ==
  ASSUME job \in [Jobs -> States], NEW j, NEW st, job' = [job EXCEPT ![j] = st], st \in States,
         j \in Jobs => st # "none" /\ (job[j] \in {"gone", "error"} => st \in {"gone", "error"})
  PROVE  /\ Aged /\ job' \in [Jobs -> States]
         /\ (j \in Jobs /\ st \notin {"gone", "error"} => Active(j)) => Fewer
<1>1. ASSUME NEW k \in Jobs
      PROVE  job'[k] = IF k = j THEN st ELSE job[k]
  OBVIOUS
<1>2. Aged /\ job' \in [Jobs -> States]
  BY <1>1 DEF Aged, Given, Spent
<1>3. ASSUME j \in Jobs /\ st \notin {"gone", "error"} => Active(j)
      PROVE  Fewer
  BY <1>1, <1>3 DEF Fewer, Active
<1> QED
  BY <1>2, <1>3

LEMMA Same ==
  ASSUME UNCHANGED job
  PROVE  Aged /\ Fewer
BY DEF Aged, Fewer, Given, Spent, Active

\* What a script does to the queue.
LEMMA ScriptMoves ==
  ASSUME Agreed, NEW a \in Agents, Script(a)
  PROVE  Aged /\ job' \in [Jobs -> States] /\ (~Create(a) => Fewer)
<1>1. job \in [Jobs -> States] /\ Scripted(a) /\ script[a] \in Cmdlet
  BY Typed DEF Agreed
<1>2. CASE Create(a)
  <2>1. CASE UNCHANGED job
    BY <1>1, <1>2, <2>1, Same
  <2>2. CASE ~UNCHANGED job
    <3>1. PICK j \in Jobs : job[j] = "none" /\ job' = [job EXCEPT ![j] = "suspended"]
      BY <1>2, <2>2 DEF Create
    <3> QED
      BY <1>1, <1>2, <3>1, Set DEF States
  <2> QED
    BY <2>1, <2>2
<1>3. CASE ResumeNew(a)
  <2>1. \/ UNCHANGED job
        \/ job' = [job EXCEPT ![script[a].id] =
                     IF job[script[a].id] = "suspended" THEN "transferring" ELSE @]
    BY <1>3 DEF ResumeNew
  <2>2. Given(script[a].id)
    BY <1>1, <1>3 DEF ResumeNew, Scripted
  <2> QED
    BY <1>1, <2>1, <2>2, Same, Set DEF States, Given, Active
<1>4. CASE RemoveNew(a) \/ Remove(a) \/ Complete(a)
  <2>1. UNCHANGED job \/ job' = [job EXCEPT ![script[a].id] = "gone"]
    BY <1>4 DEF RemoveNew, Remove, Complete
  <2> QED
    BY <1>1, <2>1, Same, Set DEF States
<1>5. CASE SetPaused(a)
  <2>1. Given(script[a].id)
    BY <1>1, <1>5 DEF SetPaused, Scripted, Handling
  <2>2. \/ UNCHANGED job
        \/ /\ job[script[a].id] \in {"transferring", "transienterror"}
           /\ job' = [job EXCEPT ![script[a].id] = "suspended"]
        \/ /\ job[script[a].id] = "suspended"
           /\ job' = [job EXCEPT ![script[a].id] = "transferring"]
    BY <1>1, <1>5, <2>1 DEF SetPaused, Given
  <2> QED
    BY <1>1, <2>1, <2>2, Same, Set DEF States, Given, Active
<1>6. CASE Find(a) \/ Show(a) \/ Answer(a)
  BY <1>1, <1>6, Same DEF Find, Show, Answer
<1> QED
  BY <1>2, <1>3, <1>4, <1>5, <1>6 DEF Script

\* What else happens to it.
LEMMA QueueMoves ==
  ASSUME Agreed, NEW j \in Jobs, Transfer(j) \/ Trouble(j)
  PROVE  Aged /\ Fewer /\ job' \in [Jobs -> States]
<1>1. job \in [Jobs -> States]
  BY Typed DEF Agreed
<1>2. \E st \in States : /\ Active(j) /\ st # "none" /\ job' = [job EXCEPT ![j] = st]
  BY DEF Transfer, Trouble, Active, States
<1> QED
  BY <1>1, <1>2, Set DEF Active

-----------------------------------------------------------------------------
(* A script and its caller.                                                 *)

\* What stays true of an answer.
LEMMA Lasting ==
  ASSUME Aged, NEW verb, NEW id, NEW ans, Holds(verb, id, ans)
  PROVE  Holds(verb, id, ans)'
BY DEF Aged, Holds, Given, Spent

LEMMA StillCalled ==
  ASSUME Agreed, Aged, NEW a \in Agents, agent'[a] = agent[a]
  PROVE  Called(a)'
<1>1. Called(a)
  BY DEF Agreed
<1>2. agent[a].ans # None => Holds(agent[a].pc, agent[a].id, agent[a].ans)'
  BY <1>1, Lasting DEF Called
<1> QED
  BY <1>1, <1>2 DEF Called, Aged, Given, Holds, Spent

\* A process that does not step keeps what it knows.
LEMMA Bystander ==
  ASSUME Agreed, Aged, NEW b \in Agents, agent'[b] = agent[b], script'[b] = script[b],
         rec'.holder = b => rec.holder = b /\ rec'.ext = rec.ext /\ rec'.state = rec.state
  PROVE  Heard(b)' /\ Scripted(b)' /\ Called(b)' /\ Held(b)'
<1>1. Heard(b) /\ Scripted(b) /\ Called(b) /\ Held(b)
  BY DEF Agreed
<1>2. Heard(b)'
  BY <1>1 DEF Heard, At
<1>3. Scripted(b)'
  <2>1. script[b].at = "print" => Holds(script[b].verb, script[b].id, script[b].ans)'
    BY <1>1, Lasting DEF Scripted
  <2> QED
    BY <1>1, <2>1 DEF Scripted, Aged, Given, Holds, Spent
<1>4. Called(b)'
  BY StillCalled
<1>5. Held(b)'
  BY <1>1 DEF Held, MayWrite
<1> QED
  BY <1>2, <1>3, <1>4, <1>5

\* A script that says something.
LEMMA Printing ==
  ASSUME Agreed, Aged, NEW a \in Agents, NEW ans \in Jobs \cup Words, Prints(a, ans),
         script[a].at # "off", Holds(script[a].verb, script[a].id, ans)',
         UNCHANGED <<rec, agent>>
  PROVE  /\ Heard(a)' /\ Scripted(a)' /\ Called(a)' /\ Held(a)'
         /\ script' \in [Agents -> Cmdlet]
<1>1. /\ script \in [Agents -> Cmdlet] /\ ans # None
      /\ Heard(a) /\ Scripted(a) /\ Called(a) /\ Held(a)
  BY Typed, BitsAssumption DEF Agreed
<1>2. /\ script'[a].at = "print" /\ script'[a].ans = ans /\ script'[a].verb = script[a].verb
      /\ script'[a].id = script[a].id /\ script' \in [Agents -> Cmdlet]
  BY <1>1 DEF Prints, Cmdlet
<1>3. Heard(a)'
  BY <1>1, <1>2 DEF Heard, At
<1>4. Scripted(a)'
  <2>1. script[a].verb \in Handling => Given(script[a].id)'
    BY <1>1, <1>2 DEF Scripted, Aged, Given
  <2>2. (script[a].at = "print" => script[a].ans # None
           /\ Holds(script[a].verb, script[a].id, script[a].ans))'
    BY <1>1, <1>2 DEF Holds, Given, Spent
  <2> QED
    BY <1>2, <2>1, <2>2 DEF Scripted, Given
<1>5. Called(a)'
  BY StillCalled
<1>6. Held(a)'
  BY <1>1 DEF Held, MayWrite
<1> QED
  BY <1>2, <1>3, <1>4, <1>5, <1>6

\* A process that is through: it is idle, and what it leaves behind is a script
\* it does not hear, or none.
LEMMA Rested ==
  ASSUME Agreed, NEW a \in Agents, Become(a, Idle), script'[a].at = "off", rec'.holder # a
  PROVE  /\ Heard(a)' /\ Scripted(a)' /\ Called(a)' /\ Held(a)'
         /\ agent' \in [Agents -> Call]
<1>1. agent \in [Agents -> Call] /\ Idle \in Call
  BY Typed DEF Agreed, Idle, Call
<1>2. agent'[a] = Idle /\ agent' \in [Agents -> Call]
  BY <1>1 DEF Become
<1> QED
  BY <1>1, <1>2 DEF Idle, Heard, Scripted, Called, Held, At, MayWrite, Handling, Verbs

\* A call: a new script and a caller waiting for it.
LEMMA Calling ==
  ASSUME Agreed, Aged, NEW a \in Agents, NEW verb \in Verbs, NEW id \in Jobs \cup {None},
         Run(a, verb, id),
         agent'[a].pc = verb, agent'[a].id = id, agent'[a].ans = None,
         verb \in Handling => Given(id)',
         rec'.holder = a =>
           /\ rec'.state = "open" /\ (verb \in {"start", "locate"} => rec'.ext = Request)
           /\ verb \in Handling => rec'.ext = id
  PROVE  /\ Heard(a)' /\ Scripted(a)' /\ Called(a)' /\ Held(a)'
         /\ script' \in [Agents -> Cmdlet]
<1>1. /\ script \in [Agents -> Cmdlet]
      /\ [Off EXCEPT !.verb = verb, !.at = "begin", !.id = id] \in Cmdlet
  BY Typed DEF Agreed, Cmdlet, Off
<1>2. /\ script'[a].verb = verb /\ script'[a].at = "begin" /\ script'[a].id = id
      /\ script' \in [Agents -> Cmdlet]
  BY <1>1 DEF Run, Off
<1>3. verb \notin {"idle", "dead"}
  BY DEF Verbs, Handling
<1> QED
  BY <1>2, <1>3 DEF Heard, Scripted, Called, Held, At, MayWrite, Given

\* What a process and its script are after a step of the script.
Fit(a) == Heard(a) /\ Scripted(a) /\ Called(a) /\ Held(a)

LEMMA AtCall ==
  ASSUME Agreed, NEW a \in Agents
  PROVE  /\ Fit(a) /\ agent[a] \in Call /\ script[a] \in Cmdlet
         /\ agent \in [Agents -> Call] /\ script \in [Agents -> Cmdlet]
BY Typed DEF Agreed, Fit

LEMMA NoWord ==
  ASSUME NEW w \in Words
  PROVE  w \notin Jobs /\ w # None
BY BitsAssumption

LEMMA Answered ==
  ASSUME NEW st
  PROVE  /\ StateOf(st) \in {"failed", "transferred", "suspended", "running"}
         /\ StateOf(st) = "failed" => st \in {"error", "cancelled"}
BY DEF StateOf

LEMMA ScriptStarts ==
  ASSUME Agreed, NEW a \in Agents, Create(a) \/ ResumeNew(a) \/ RemoveNew(a)
  PROVE  Fit(a)' /\ script' \in [Agents -> Cmdlet]
<1>1. Aged
  BY ScriptMoves DEF Script
<1>2. Fit(a) /\ script[a] \in Cmdlet /\ script \in [Agents -> Cmdlet] /\ job \in [Jobs -> States]
  BY AtCall, Typed DEF Agreed
<1>3. UNCHANGED <<rec, agent>> /\ script[a].verb = "start" /\ script[a].at # "off"
  BY <1>2 DEF Create, ResumeNew, RemoveNew, Fit, Scripted
<1>4. ASSUME Prints(a, "error")
      PROVE  Fit(a)' /\ script' \in [Agents -> Cmdlet]
  <2>1. script'[a].verb = "start"
    BY <1>2, <1>3, <1>4 DEF Prints
  <2>2. Holds(script[a].verb, script[a].id, "error")'
    BY <2>1, NoWord DEF Holds, Handling, Words
  <2> QED
    BY <1>1, <1>3, <1>4, <2>2, Printing DEF Fit, Words
<1>5. CASE Create(a)
  <2>1. CASE Prints(a, "error")
    BY <1>4, <2>1
  <2>2. CASE ~Prints(a, "error")
    <3>1. PICK j \in Jobs : /\ job' = [job EXCEPT ![j] = "suspended"]
                            /\ script' = [script EXCEPT ![a].at = "resume", ![a].id = j]
      BY <1>5, <2>2 DEF Create
    <3>2. /\ script'[a].at = "resume" /\ script'[a].id = j /\ script'[a].verb = "start"
          /\ script'[a].ans = script[a].ans /\ script' \in [Agents -> Cmdlet]
      BY <1>2, <1>3, <3>1 DEF Cmdlet
    <3>3. Scripted(a)'
      BY <1>2, <3>1, <3>2 DEF Scripted, Given, Handling
    <3>4. Heard(a)'
      BY <1>2, <1>3, <3>2 DEF Fit, Heard, At, Handling
    <3>5. Called(a)'
      BY <1>1, <1>3, StillCalled
    <3>6. Held(a)'
      BY <1>2, <1>3 DEF Fit, Held, MayWrite
    <3> QED
      BY <3>2, <3>3, <3>4, <3>5, <3>6 DEF Fit
  <2> QED
    BY <2>1, <2>2
<1>6. CASE ResumeNew(a)
  <2>1. CASE Prints(a, script[a].id)
    <3>1. Given(script[a].id)
      BY <1>2, <1>6 DEF ResumeNew, Fit, Scripted
    <3>2. script'[a].verb = "start" /\ script'[a].id = script[a].id
      BY <1>2, <1>3, <2>1 DEF Prints
    <3>3. \A id : Given(id) => Holds("start", script[a].id, id)'
      BY <1>1, <3>2 DEF Holds, Handling, Aged, Given
    <3>4. PICK id : id = script[a].id
      OBVIOUS
    <3>5. Holds(script[a].verb, script[a].id, id)'
      BY <3>1, <3>2, <3>3, <3>4 DEF Holds, Given, Spent
    <3> QED
      BY <1>1, <1>3, <2>1, <3>1, <3>4, <3>5, Printing DEF Fit, Given
  <2>2. CASE ~Prints(a, script[a].id)
    <3>1. script' = [script EXCEPT ![a].at = "remove"] /\ UNCHANGED job
      BY <1>6, <2>2 DEF ResumeNew
    <3>2. /\ script'[a].at = "remove" /\ script'[a].id = script[a].id
          /\ script'[a].verb = "start"
          /\ script'[a].ans = script[a].ans /\ script' \in [Agents -> Cmdlet]
      BY <1>2, <1>3, <3>1 DEF Cmdlet
    <3>3. Scripted(a)'
      BY <1>2, <1>6, <3>1, <3>2 DEF ResumeNew, Fit, Scripted, Given, Handling
    <3>4. Heard(a)'
      BY <1>2, <1>3, <3>2 DEF Fit, Heard, At, Handling
    <3>5. Called(a)'
      BY <1>1, <1>3, StillCalled
    <3>6. Held(a)'
      BY <1>2, <1>3 DEF Fit, Held, MayWrite
    <3> QED
      BY <3>2, <3>3, <3>4, <3>5, <3>6 DEF Fit
  <2> QED
    BY <2>1, <2>2
<1>7. CASE RemoveNew(a)
  BY <1>4, <1>7 DEF RemoveNew
<1> QED
  BY <1>5, <1>6, <1>7

\* What a script that asks or changes prints, and that it is true.
LEMMA ScriptTells ==
  ASSUME Agreed, NEW a \in Agents,
         Find(a) \/ Show(a) \/ Complete(a) \/ Remove(a) \/ SetPaused(a)
  PROVE  Fit(a)' /\ script' \in [Agents -> Cmdlet]
<1>1. Aged
  BY ScriptMoves DEF Script
<1>2. Fit(a) /\ script[a] \in Cmdlet /\ script \in [Agents -> Cmdlet] /\ job \in [Jobs -> States]
  BY AtCall, Typed DEF Agreed
<1>3. UNCHANGED <<rec, agent>> /\ script[a].at = "begin"
  BY DEF Find, Show, Complete, Remove, SetPaused
<1>4. ASSUME NEW ans \in Jobs \cup Words, Prints(a, ans),
             script'[a].verb = script[a].verb /\ script'[a].id = script[a].id
               => Holds(script[a].verb, script[a].id, ans)'
      PROVE  Fit(a)' /\ script' \in [Agents -> Cmdlet]
  <2>1. script'[a].verb = script[a].verb /\ script'[a].id = script[a].id
    BY <1>2, <1>4 DEF Prints
  <2> QED
    BY <1>1, <1>3, <1>4, <2>1, Printing DEF Fit
<1>5. CASE Find(a)
  <2>1. PICK ans \in Jobs \cup {"error", "gone"} : Prints(a, ans) /\ (ans \in Jobs => Queued(ans))
    BY <1>5, NoWord DEF Find, Words
  <2>2. script'[a].verb = "locate" => Holds(script[a].verb, script[a].id, ans)'
    BY <1>2, <1>5, <2>1, NoWord DEF Find, Holds, Handling, Given, Queued, Words
  <2> QED
    BY <1>4, <1>5, <2>1, <2>2 DEF Find, Words
<1>6. CASE Show(a)
  <2>1. PICK ans \in Words : /\ Prints(a, ans)
                             /\ ans \in {"gone", "failed"} => job[script[a].id] \in {"none", "gone", "error"}
    <3> DEFINE says == IF ~svc THEN "error"
                       ELSE IF Queued(script[a].id) THEN StateOf(job[script[a].id]) ELSE "gone"
    <3>1. Prints(a, says)
      BY <1>6 DEF Show
    <3>2. says \in Words
      BY Answered DEF Words
    <3>3. says \in {"gone", "failed"} => job[script[a].id] \in {"none", "gone", "error"}
      <4>1. job[script[a].id] # "cancelled"
        BY <1>2, <1>6 DEF Show, Fit, Scripted, Handling, Given, States
      <4> QED
        BY <4>1, Answered DEF Queued
    <3> QED
      BY <3>1, <3>2, <3>3
  <2>2. Given(script[a].id)
    BY <1>2, <1>6 DEF Show, Fit, Scripted, Handling
  <2>3. script'[a].verb = "poll" /\ script'[a].id = script[a].id
          => Holds(script[a].verb, script[a].id, ans)'
    BY <1>6, <2>1, <2>2, NoWord DEF Show, Holds, Given, Spent
  <2> QED
    BY <1>4, <1>6, <2>1, <2>3 DEF Show
<1>7. CASE Complete(a) \/ Remove(a) \/ SetPaused(a)
  <2>1. Given(script[a].id)
    BY <1>2, <1>7 DEF Complete, Remove, SetPaused, Fit, Scripted, Handling
  <2>2. \/ Prints(a, "error")
        \/ /\ Prints(a, "ok")
           /\ script[a].verb \in {"suspend", "resume"} \/ job' = [job EXCEPT ![script[a].id] = "gone"]
    BY <1>7 DEF Complete, Remove, SetPaused
  <2>3. script[a].verb \in {"finalize", "abandon", "suspend", "resume"}
    BY <1>7 DEF Complete, Remove, SetPaused
  <2>4. CASE Prints(a, "error")
    <3>1. script'[a].verb = script[a].verb => Holds(script[a].verb, script[a].id, "error")'
      BY <2>3, NoWord DEF Holds, Words
    <3> QED
      BY <1>4, <2>4, <3>1 DEF Words
  <2>5. CASE Prints(a, "ok") /\ ~Prints(a, "error")
    <3>1. script'[a].verb = script[a].verb /\ script'[a].id = script[a].id
            => Holds(script[a].verb, script[a].id, "ok")'
      BY <1>2, <2>1, <2>2, <2>3, <2>5, NoWord DEF Holds, Given, Spent, Words
    <3> QED
      BY <1>4, <2>5, <3>1 DEF Words
  <2> QED
    BY <2>2, <2>4, <2>5
<1> QED
  BY <1>5, <1>6, <1>7

-----------------------------------------------------------------------------
(* A process between its calls.                                             *)

LEMMA Answering ==
  ASSUME Agreed, NEW a \in Agents, Answer(a) \/ TimedOut(a)
  PROVE  Fit(a)' /\ script' \in [Agents -> Cmdlet] /\ agent' \in [Agents -> Call]
<1>1. Aged /\ UNCHANGED <<rec, job>>
  BY Same DEF Answer, TimedOut
<1>2. /\ Fit(a) /\ script[a] \in Cmdlet /\ script \in [Agents -> Cmdlet]
      /\ agent \in [Agents -> Call] /\ agent[a] \in Call /\ Off \in Cmdlet /\ Off.at = "off"
  BY AtCall DEF Off, Cmdlet
<1>3. script' = [script EXCEPT ![a] = Off] /\ script[a].at # "off"
  BY DEF Answer, TimedOut
<1>4. script'[a].at = "off" /\ script' \in [Agents -> Cmdlet]
  BY <1>2, <1>3
<1>5. CASE At(a, "dead")
  <2>1. Become(a, Idle) /\ rec.holder # a
    BY <1>2, <1>5 DEF Answer, TimedOut, Fit, Held, MayWrite, At, Verbs, Handling
  <2> QED
    BY <1>1, <1>4, <2>1, Rested DEF Fit
<1>6. CASE ~At(a, "dead")
  <2>1. PICK ans \in Jobs \cup Words :
          /\ agent' = [agent EXCEPT ![a] = [agent[a] EXCEPT !.ans = ans]]
          /\ Holds(script[a].verb, script[a].id, ans)
    <3>1. CASE Answer(a)
      BY <1>2, <1>6, <3>1 DEF Answer, Become, Fit, Scripted, Cmdlet
    <3>2. CASE TimedOut(a)
      <4>1. Holds(script[a].verb, script[a].id, "error")
        BY NoWord DEF Holds, Words
      <4> QED
        BY <3>2, <4>1 DEF TimedOut, Become, Words
    <3> QED
      BY <3>1, <3>2
  <2>2. agent[a].pc = script[a].verb /\ agent[a].pc \in Verbs
        /\ (agent[a].pc \in Handling => agent[a].id = script[a].id)
    BY <1>2, <1>3, <1>6 DEF Fit, Heard
  <2>3. /\ agent'[a].pc = agent[a].pc /\ agent'[a].id = agent[a].id /\ agent'[a].ans = ans
        /\ agent' \in [Agents -> Call]
    BY <1>2, <2>1 DEF Call
  <2>4. ans # None
    BY BitsAssumption
  <2>5. Heard(a)' /\ Scripted(a)' /\ Held(a)'
    BY <1>1, <1>2, <1>4, <2>2, <2>3, <2>4
       DEF Fit, Heard, Scripted, Held, MayWrite, At, Verbs, Handling
  <2>6. Called(a)'
    <3>1. Holds(agent[a].pc, agent[a].id, ans)
      BY <2>1, <2>2 DEF Holds, Verbs, Handling
    <3>2. (agent[a].pc \in Handling => Given(agent[a].id))'
      BY <1>1, <1>2, <2>3 DEF Fit, Called, Given
    <3>3. Holds(agent[a].pc, agent[a].id, agent[a].ans)'
      BY <1>1, <2>3, <3>1 DEF Holds, Given, Spent
    <3> QED
      BY <3>2, <3>3 DEF Called
  <2> QED
    BY <1>4, <2>3, <2>5, <2>6 DEF Fit
<1> QED
  BY <1>5, <1>6

\* What a write leaves, and who may still write after it.
LEMMA Written ==
  ASSUME Agreed, NEW a \in Agents, NEW r \in Record, Writes(a, r), script'[a].at = "off",
         r.ext \in Jobs => Given(r.ext), UNCHANGED job
  PROVE  /\ Fit(a)' /\ agent' \in [Agents -> Call] /\ rec' \in Record
         /\ rec'.holder # a /\ (rec'.ext \in Jobs => Given(rec'.ext))
         /\ \A b \in Agents : rec'.holder = b => UNCHANGED rec
<1>1. rec \in Record /\ a # None
  BY Typed, BitsAssumption DEF Agreed
<1>2. /\ rec' \in Record /\ rec'.holder # a
      /\ \A b \in Agents : rec'.holder = b => UNCHANGED rec
      /\ rec'.ext \in {rec.ext, r.ext}
  BY <1>1, BitsAssumption DEF Writes, MayWrite, Record
<1>3. Become(a, Idle)
  BY DEF Writes
<1> QED
  BY <1>2, <1>3, Rested DEF Agreed, Fit

\* A process that heard an answer has no script.
LEMMA Quiet ==
  ASSUME Agreed, NEW a \in Agents, NEW pc, Told(a, pc), pc \in Verbs
  PROVE  script[a].at = "off" /\ Called(a) /\ agent[a].pc = pc /\ agent[a] \in Call
         /\ Holds(pc, agent[a].id, agent[a].ans)
<1>1. pc # "dead" /\ Fit(a) /\ agent[a] \in Call
  BY AtCall DEF Verbs, Handling
<1> QED
  BY <1>1 DEF Fit, Heard, Called, Told, At

\* What a step of a process keeps of the record and of itself.
Kept(a) ==
  /\ Fit(a)' /\ agent' \in [Agents -> Call] /\ script' \in [Agents -> Cmdlet]
  /\ rec' \in Record /\ (rec'.ext \in Jobs => Given(rec'.ext))
  /\ \A b \in Agents \ {a} : rec'.holder = b => UNCHANGED rec

LEMMA Taking ==
  ASSUME Agreed, NEW a \in Agents, Take(a)
  PROVE  Kept(a)
<1>1. /\ rec \in Record /\ agent[a] \in Call /\ agent \in [Agents -> Call] /\ UNCHANGED job
      /\ script \in [Agents -> Cmdlet]
  BY Typed DEF Agreed, Take
<1>2. rec.state = "open" /\ Business \in Verbs
  BY DEF Take, Business, Verbs, Handling
<1>3. (Business \in Handling <=> rec.ext \in Jobs) /\ Request \notin Jobs
  BY <1>1, <1>2, BitsAssumption DEF Take, Business, Handling, Record
<1>4. rec' = [rec EXCEPT !.holder = a, !.ext = IF rec.ext = None THEN Request ELSE rec.ext]
  BY DEF Take
<1>5. /\ rec' \in Record /\ rec'.state = "open" /\ rec'.holder = a
      /\ rec'.ext = IF rec.ext = None THEN Request ELSE rec.ext
  BY <1>1, <1>2, <1>4 DEF Record
<1>6. PICK id : id = IF rec.ext \in Jobs THEN rec.ext ELSE None
  OBVIOUS
<1>7. agent[a].ans = None
  BY DEF Agreed, Heard, Take
<1>8. /\ id \in Jobs \cup {None} /\ Run(a, Business, id)
      /\ agent'[a].pc = Business /\ agent'[a].id = id /\ agent'[a].ans = None
      /\ agent' \in [Agents -> Call]
  <2>1. /\ Run(a, Business, id)
        /\ agent' = [agent EXCEPT ![a] = [agent[a] EXCEPT !.pc = Business, !.id = id]]
    BY <1>6 DEF Take, Calls, Become
  <2> QED
    BY <1>1, <1>2, <1>6, <1>7, <2>1 DEF Call
<1>9. ASSUME rec.ext \in Jobs
      PROVE  Given(rec.ext) /\ id = rec.ext /\ rec'.ext = rec.ext
  BY <1>5, <1>6, <1>9, BitsAssumption DEF Agreed
<1>10. \A e : Given(e) => Given(e)'
  BY <1>1 DEF Given
<1>11. Business \in {"start", "locate"} => rec'.ext = Request
  BY <1>1, <1>2, <1>5, BitsAssumption DEF Take, Business, Record
<1>12. Business \in Handling => Given(id)' /\ rec'.ext = id
  <2>1. Business \in Handling => Given(id)
    BY <1>3, <1>9
  <2> QED
    BY <1>3, <1>9, <1>10, <2>1
<1>13. Fit(a)' /\ agent' \in [Agents -> Call] /\ script' \in [Agents -> Cmdlet]
  BY <1>1, <1>2, <1>5, <1>8, <1>11, <1>12, Calling, Same DEF Fit
<1>14. rec'.ext \in Jobs => Given(rec'.ext)
  BY <1>1, <1>5, <1>9, BitsAssumption DEF Record
<1> QED
  BY <1>5, <1>13, <1>14 DEF Kept

\* A step from a call that was answered.
LEMMA Deciding ==
  ASSUME Agreed, NEW a \in Agents,
         Started(a) \/ Located(a) \/ Polled(a) \/ Finalized(a) \/ Changed(a)
  PROVE  Kept(a)
<1>1. /\ rec \in Record /\ agent[a] \in Call /\ agent \in [Agents -> Call] /\ UNCHANGED job
      /\ script \in [Agents -> Cmdlet] /\ Fit(a) /\ Aged
      /\ (rec.ext \in Jobs => Given(rec.ext))
  <2>1. UNCHANGED job
    BY DEF Started, Located, Polled, Finalized, Changed
  <2> QED
    BY <2>1, Typed, AtCall, Same DEF Agreed
<1>2. ASSUME NEW r \in Record, Writes(a, r), UNCHANGED script, script[a].at = "off",
             r.ext \in Jobs => Given(r.ext)
      PROVE  Kept(a)
  <2>1. script'[a].at = "off" /\ script' \in [Agents -> Cmdlet]
    BY <1>1, <1>2
  <2> QED
    BY <1>1, <1>2, <2>1, Written DEF Kept
<1>3. /\ TakenBack(rec) \in Record /\ TakenBack(rec).ext = None
      /\ None \notin Jobs
  BY <1>1, BitsAssumption DEF TakenBack, Record
<1>4. ASSUME NEW e \in Jobs
      PROVE  [rec EXCEPT !.ext = e] \in Record /\ [rec EXCEPT !.ext = e].ext = e
  BY <1>1 DEF Record
<1>5. CASE Started(a)
  <2>1. /\ script[a].at = "off" /\ agent[a].pc = "start"
        /\ Holds("start", agent[a].id, agent[a].ans) /\ agent[a].ans # None
    BY <1>5, Quiet DEF Started, Told, Verbs, Handling
  <2>2. CASE agent[a].ans = "error"
    <3>1. /\ Run(a, "locate", None) /\ UNCHANGED rec
          /\ Become(a, [Idle EXCEPT !.pc = "locate"])
      BY <1>5, <2>2 DEF Started
    <3>2. /\ agent'[a].pc = "locate" /\ agent'[a].id = None /\ agent'[a].ans = None
          /\ agent' \in [Agents -> Call]
      BY <1>1, <3>1 DEF Become, Idle, Call, Verbs, Handling
    <3>3. rec.holder = a => rec.state = "open" /\ rec.ext = Request
      BY <1>1, <2>1 DEF Fit, Held, MayWrite
    <3>4. Fit(a)' /\ script' \in [Agents -> Cmdlet]
      BY <1>1, <3>1, <3>2, <3>3, Calling DEF Fit, Verbs, Handling
    <3> QED
      BY <1>1, <3>1, <3>2, <3>4 DEF Kept, Given
  <2>3. CASE agent[a].ans # "error"
    <3>1. agent[a].ans \in Jobs /\ Given(agent[a].ans)
      BY <2>1, <2>3 DEF Holds
    <3>2. Writes(a, [rec EXCEPT !.ext = agent[a].ans]) /\ UNCHANGED script
      BY <1>5, <2>3 DEF Started
    <3> QED
      BY <1>2, <1>4, <2>1, <3>1, <3>2
  <2> QED
    BY <2>2, <2>3
<1>6. CASE Located(a)
  <2>1. /\ script[a].at = "off" /\ UNCHANGED script
        /\ Holds("locate", agent[a].id, agent[a].ans) /\ agent[a].ans # None
    BY <1>6, Quiet DEF Located, Told, Verbs, Handling
  <2>2. CASE agent[a].ans \in Jobs
    <3>1. Writes(a, [rec EXCEPT !.ext = agent[a].ans]) /\ Given(agent[a].ans)
      BY <1>6, <2>1, <2>2, NoWord DEF Located, Holds, Words
    <3> QED
      BY <1>2, <1>4, <2>1, <2>2, <3>1
  <2>3. CASE agent[a].ans \in {"error", "gone"}
    <3>1. Writes(a, rec) \/ Writes(a, TakenBack(rec))
      BY <1>6, <2>3 DEF Located
    <3> QED
      BY <1>1, <1>2, <1>3, <2>1, <3>1
  <2> QED
    BY <2>1, <2>2, <2>3 DEF Holds, Handling
<1>7. CASE Polled(a)
  <2>1. /\ script[a].at = "off" /\ agent[a].pc = "poll"
    BY <1>7, Quiet DEF Polled, Told, Verbs, Handling
  <2>2. CASE (Writes(a, TakenBack(rec)) \/ Writes(a, rec)) /\ UNCHANGED script
    BY <1>1, <1>2, <1>3, <2>1, <2>2
  <2>3. CASE \E next \in {"resume", "finalize"} :
               /\ Run(a, next, agent[a].id) /\ UNCHANGED rec
               /\ Become(a, [agent[a] EXCEPT !.pc = next, !.ans = None])
    <3>1. PICK next \in {"resume", "finalize"} :
               /\ Run(a, next, agent[a].id) /\ UNCHANGED rec
               /\ Become(a, [agent[a] EXCEPT !.pc = next, !.ans = None])
      BY <2>3
    <3>2. /\ agent'[a].pc = next /\ agent'[a].id = agent[a].id /\ agent'[a].ans = None
          /\ agent' \in [Agents -> Call]
      BY <1>1, <3>1 DEF Become, Call, Verbs, Handling
    <3>3. Given(agent[a].id) /\ (rec.holder = a => rec.state = "open" /\ rec.ext = agent[a].id)
      BY <1>1, <2>1 DEF Fit, Called, Held, MayWrite, Handling
    <3>4. PICK id : id = agent[a].id
      OBVIOUS
    <3>5. Given(id)' /\ id \in Jobs
      BY <1>1, <3>3, <3>4 DEF Given
    <3>6. Fit(a)' /\ script' \in [Agents -> Cmdlet]
      BY <1>1, <3>1, <3>2, <3>3, <3>4, <3>5, Calling DEF Fit, Verbs, Handling
    <3> QED
      BY <1>1, <3>1, <3>2, <3>6 DEF Kept, Given
  <2> QED
    BY <1>7, <2>2, <2>3 DEF Polled
<1>8. CASE Finalized(a) \/ Changed(a)
  <2>1. script[a].at = "off" /\ UNCHANGED script
    BY <1>8, Quiet DEF Finalized, Changed, Told, Verbs, Handling
  <2>2. PICK r : /\ Writes(a, r)
                 /\ \/ r = rec \/ r = TakenBack(rec)
                    \/ r = [rec EXCEPT !.state = "delivered"]
                    \/ r = [rec EXCEPT !.state = "cancelled", !.ext = None]
    BY <1>8 DEF Finalized, Changed
  <2>3. r \in Record /\ r.ext \in {rec.ext, None}
    BY <1>1, <1>3, <2>2 DEF Record
  <2> QED
    BY <1>1, <1>2, <1>3, <2>1, <2>2, <2>3
<1> QED
  BY <1>5, <1>6, <1>7, <1>8

LEMMA Dying ==
  ASSUME Agreed, NEW a \in Agents, Crash(a)
  PROVE  Kept(a)
<1>1. /\ rec \in Record /\ agent[a] \in Call /\ agent \in [Agents -> Call] /\ UNCHANGED job
      /\ script \in [Agents -> Cmdlet] /\ Fit(a) /\ Aged /\ Off \in Cmdlet /\ Off.at = "off"
      /\ (rec.ext \in Jobs => Given(rec.ext))
  <2>1. UNCHANGED job
    BY DEF Crash
  <2> QED
    BY <2>1, Typed, AtCall, Same DEF Agreed, Off, Cmdlet
<1>2. rec' = IF rec.holder = a THEN [rec EXCEPT !.holder = None] ELSE rec
  BY DEF Crash, MayWrite
<1>3. /\ rec' \in Record /\ rec'.ext = rec.ext /\ rec'.holder # a
      /\ \A b \in Agents : rec'.holder = b => UNCHANGED rec
  BY <1>1, <1>2, BitsAssumption DEF Record
<1>4. rec'.ext \in Jobs => Given(rec'.ext)
  BY <1>1, <1>3
<1>5. CASE script' = [script EXCEPT ![a] = Off] /\ Become(a, Idle)
  <2>1. script'[a].at = "off" /\ script' \in [Agents -> Cmdlet]
    BY <1>1, <1>5
  <2> QED
    BY <1>3, <1>4, <1>5, <2>1, Rested DEF Kept, Fit
<1>6. CASE script[a].at # "off" /\ UNCHANGED script /\ Goes(a, "dead")
  <2>1. agent'[a].pc = "dead" /\ agent'[a].id = agent[a].id /\ agent'[a].ans = None
        /\ agent' \in [Agents -> Call]
    BY <1>1, <1>6 DEF Goes, Become, Call, Crash, Fit, Heard
  <2>2. Heard(a)'
    BY <1>1, <1>6, <2>1 DEF Fit, Heard, At
  <2>3. Scripted(a)'
    BY <1>1, <1>6 DEF Fit, Scripted, Given, Holds, Spent
  <2>4. Called(a)' /\ Held(a)'
    BY <1>3, <2>1 DEF Called, Held, MayWrite, Handling
  <2> QED
    BY <1>1, <1>3, <1>4, <1>6, <2>1, <2>2, <2>3, <2>4 DEF Kept, Fit
<1> QED
  BY <1>5, <1>6 DEF Crash

\* A step of one process leaves what every other knows true.
LEMMA OneSteps ==
  ASSUME Agreed, NEW a \in Agents, Step(a) \/ Script(a) \/ TimedOut(a) \/ Crash(a)
  PROVE  /\ Aged /\ Kept(a)
         /\ \A b \in Agents \ {a} : agent'[b] = agent[b] /\ script'[b] = script[b]
<1>1. agent \in [Agents -> Call] /\ script \in [Agents -> Cmdlet] /\ rec \in Record
  BY Typed DEF Agreed
<1>2. Aged
  <2>1. CASE Script(a)
    BY <2>1, ScriptMoves
  <2>2. CASE Step(a) \/ TimedOut(a) \/ Crash(a)
    <3>1. UNCHANGED job
      BY <2>2 DEF Step, Take, Started, Located, Polled, Finalized, Changed, TimedOut, Crash
    <3> QED
      BY <3>1, Same
  <2> QED
    BY <2>1, <2>2
<1>3. Kept(a)
  <2>1. CASE Step(a)
    BY <2>1, Taking, Deciding DEF Step
  <2>2. CASE Crash(a)
    BY <2>2, Dying
  <2>3. CASE Script(a) \/ TimedOut(a)
    <3>1. UNCHANGED rec
      BY <2>3 DEF Script, Create, ResumeNew, RemoveNew, Find, Show, Complete, Remove, SetPaused,
                  Answer, TimedOut
    <3>2. Fit(a)' /\ script' \in [Agents -> Cmdlet] /\ agent' \in [Agents -> Call]
      <4>1. CASE Answer(a) \/ TimedOut(a)
        BY <4>1, Answering
      <4>2. CASE Script(a) /\ ~Answer(a)
        <5>1. UNCHANGED agent
          BY <4>2 DEF Script, Create, ResumeNew, RemoveNew, Find, Show, Complete, Remove, SetPaused
        <5> QED
          BY <1>1, <4>2, <5>1, ScriptStarts, ScriptTells DEF Script
      <4> QED
        BY <2>3, <4>1, <4>2
    <3>3. rec'.ext \in Jobs => Given(rec'.ext)
      BY <1>2, <3>1 DEF Agreed, Aged, Given
    <3> QED
      BY <1>1, <3>1, <3>2, <3>3 DEF Kept
  <2> QED
    BY <2>1, <2>2, <2>3
<1>4. ASSUME NEW b \in Agents \ {a}
      PROVE  agent'[b] = agent[b] /\ script'[b] = script[b]
  <2>1. CASE Step(a)
    BY <1>1, <2>1 DEF Step, Take, Started, Located, Polled, Finalized, Changed, Calls, Run, Become,
                 Writes
  <2>2. CASE Script(a)
    BY <1>1, <2>2 DEF Script, Create, ResumeNew, RemoveNew, Find, Show, Complete, Remove, SetPaused,
                 Answer, Prints, Become
  <2>3. CASE TimedOut(a) \/ Crash(a)
    BY <1>1, <2>3 DEF TimedOut, Crash, Become, Goes
  <2> QED
    BY <2>1, <2>2, <2>3
<1> QED
  BY <1>2, <1>3, <1>4

-----------------------------------------------------------------------------
(* What every process knows is true, always.                                *)

\* Disturbances are counted, and none is forgotten.
LEMMA Counting ==
  ASSUME Ranges, Next
  PROVE  faults' \in [left : 0..MaxFaults, seen : SUBSET Kinds] /\ faults.seen \subseteq faults'.seen
<1>1. faults \in [left : 0..MaxFaults, seen : SUBSET Kinds]
  BY DEF Ranges, TypeOK
<1>2. Calm \/ (\E k \in Kinds : Disturb(k))
  <2>1. ASSUME NEW k, Disturb(k)
        PROVE  k \in Kinds
    BY <2>1 DEF Disturb
  <2>2. ASSUME NEW a \in Agents, Step(a)
        PROVE  Calm
    BY <2>2 DEF Step, Take, Started, Located, Polled, Finalized, Changed, Calm
  <2>3. ASSUME NEW a \in Agents, Script(a)
        PROVE  Calm \/ Disturb("refused")
    BY <2>3 DEF Script, Create, ResumeNew, RemoveNew, Find, Show, Complete, Remove, SetPaused,
                Answer, Calm
  <2>4. ASSUME NEW a \in Agents, TimedOut(a) \/ Crash(a)
        PROVE  Disturb("timeout") \/ Disturb("crash") \/ Disturb("orphan")
    BY <2>4 DEF TimedOut, Crash
  <2>5. ASSUME NEW j \in Jobs, Transfer(j) \/ Trouble(j)
        PROVE  Calm \/ Disturb("network") \/ Disturb("logoff") \/ Disturb("fail") \/ Disturb("reap")
    BY <2>5 DEF Transfer, Trouble
  <2>6. ASSUME SetWant \/ ServiceStops \/ ServiceStarts
        PROVE  Calm \/ Disturb("ask") \/ Disturb("service")
    BY <2>6 DEF SetWant, ServiceStops, ServiceStarts, Calm
  <2> QED
    BY <2>1, <2>2, <2>3, <2>4, <2>5, <2>6 DEF Next
<1>3. CASE Calm
  BY <1>1, <1>3 DEF Calm
<1>4. ASSUME NEW k \in Kinds, Disturb(k)
      PROVE  /\ faults' \in [left : 0..MaxFaults, seen : SUBSET Kinds]
             /\ faults.seen \subseteq faults'.seen
  <2>1. /\ faults.left \in 0..MaxFaults /\ faults.left > 0 /\ faults.seen \in SUBSET Kinds
        /\ faults' = [left |-> faults.left - 1, seen |-> faults.seen \cup {k}]
    BY <1>1, <1>4 DEF Disturb
  <2>2. faults.left - 1 \in 0..MaxFaults
    BY <2>1, BitsAssumption
  <2> QED
    BY <2>1, <2>2
<1> QED
  BY <1>2, <1>3, <1>4

\* What everything that is not a process changes.
Outside == (\E j \in Jobs : Transfer(j) \/ Trouble(j)) \/ SetWant \/ ServiceStops \/ ServiceStarts

LEMMA OutsideSteps ==
  ASSUME Agreed, Outside
  PROVE  /\ Aged /\ Fewer /\ job' \in [Jobs -> States] /\ UNCHANGED <<dest, agent, script>>
         /\ rec' \in Record /\ rec'.ext = rec.ext /\ rec'.state = rec.state
         /\ rec'.holder = rec.holder
<1>1. rec \in Record /\ job \in [Jobs -> States]
  BY Typed DEF Agreed
<1>2. CASE \E j \in Jobs : Transfer(j) \/ Trouble(j)
  <2>1. UNCHANGED <<rec, dest, agent, script>>
    BY <1>2 DEF Transfer, Trouble
  <2> QED
    BY <1>1, <1>2, <2>1, QueueMoves
<1>3. CASE SetWant
  <2>1. UNCHANGED <<job, dest, agent, script>> /\ \E w \in {"run", "pause", "cancel"} : rec' = [rec EXCEPT !.want = w]
    BY <1>3 DEF SetWant
  <2> QED
    BY <1>1, <2>1, Same DEF Record
<1>4. CASE ServiceStops \/ ServiceStarts
  <2>1. UNCHANGED <<rec, job, dest, agent, script>>
    BY <1>4 DEF ServiceStops, ServiceStarts
  <2> QED
    BY <1>1, <2>1, Same
<1> QED
  BY <1>2, <1>3, <1>4 DEF Outside

LEMMA Bools ==
  ASSUME Agreed, Next
  PROVE  dest' \in BOOLEAN /\ svc' \in BOOLEAN
<1>1. dest \in BOOLEAN /\ svc \in BOOLEAN
  BY DEF Agreed, Ranges, TypeOK
<1>2. ASSUME NEW a \in Agents, Step(a) \/ Script(a) \/ TimedOut(a) \/ Crash(a)
      PROVE  svc' = svc /\ dest' \in BOOLEAN
  BY <1>1, <1>2 DEF Step, Take, Started, Located, Polled, Finalized, Changed, Script, Create,
     ResumeNew, RemoveNew, Find, Show, Complete, Remove, SetPaused, Answer, TimedOut, Crash
<1>3. ASSUME (\E j \in Jobs : Transfer(j) \/ Trouble(j)) \/ SetWant \/ ServiceStops \/ ServiceStarts
      PROVE  svc' \in BOOLEAN /\ dest' = dest
  BY <1>1, <1>3 DEF Transfer, Trouble, SetWant, ServiceStops, ServiceStarts
<1> QED
  BY <1>1, <1>2, <1>3 DEF Next

LEMMA NextParts ==
  Next <=> Outside \/ \E a \in Agents : Step(a) \/ Script(a) \/ TimedOut(a) \/ Crash(a)
BY DEF Next, Outside

LEMMA AgreedBegins == Init => IInv
<1> SUFFICES ASSUME Init
             PROVE  IInv
  OBVIOUS
<1>1. /\ rec = [ext |-> None, state |-> "open", want |-> "run", holder |-> None]
      /\ job = [j \in Jobs |-> "none"] /\ dest = FALSE
      /\ agent = [a \in Agents |-> Idle] /\ script = [a \in Agents |-> Off]
      /\ svc = TRUE /\ faults = [left |-> MaxFaults, seen |-> {}]
  BY DEF Init
<1>2. Ranges
  <2>1. Idle \in Call /\ Off \in Cmdlet
    BY DEF Call, Cmdlet, Idle, Off
  <2>2. rec \in Record /\ job \in [Jobs -> States]
    BY <1>1 DEF Record, States
  <2>3. MaxFaults \in 0..MaxFaults
    BY BitsAssumption
  <2>4. faults \in [left : 0..MaxFaults, seen : SUBSET Kinds]
    BY <1>1, <2>3
  <2> QED
    BY <1>1, <2>1, <2>2, <2>4 DEF Ranges, TypeOK, Record, States
<1>3. ASSUME NEW a \in Agents
      PROVE  /\ Heard(a) /\ Scripted(a) /\ Called(a) /\ Held(a) /\ agent[a] = Idle
             /\ script[a].at = "off" /\ At(a, "idle")
  BY <1>1, BitsAssumption DEF Heard, Scripted, Called, Held, At, MayWrite, Idle, Off, Handling, Verbs
<1>4. \A j \in Jobs : ~Active(j) /\ job[j] # "error"
  BY <1>1 DEF Active
<1>5. Agreed
  BY <1>1, <1>2, <1>3, BitsAssumption DEF Agreed
<1>6. Attended /\ Unfailed
  BY <1>3, <1>4 DEF Attended, Unfailed, At
<1>7. Sole
  BY <1>3, <1>4 DEF Sole, Single, Only, Idle
<1> QED
  BY <1>5, <1>6, <1>7 DEF IInv

LEMMA AgreedStep ==
  ASSUME Agreed, Next
  PROVE  Agreed'
<1>1. faults' \in [left : 0..MaxFaults, seen : SUBSET Kinds] /\ dest' \in BOOLEAN /\ svc' \in BOOLEAN
  BY Counting, Bools DEF Agreed
<1>2. job \in [Jobs -> States] /\ agent \in [Agents -> Call] /\ script \in [Agents -> Cmdlet]
  BY Typed DEF Agreed
<1>3. ASSUME NEW a \in Agents, Step(a) \/ Script(a) \/ TimedOut(a) \/ Crash(a)
      PROVE  Agreed'
  <2>1. Aged /\ Kept(a)
    BY <1>3, OneSteps
  <2>2. job' \in [Jobs -> States]
    <3>1. CASE Script(a)
      BY <3>1, ScriptMoves
    <3>2. CASE Step(a) \/ TimedOut(a) \/ Crash(a)
      BY <1>2, <3>2 DEF Step, Take, Started, Located, Polled, Finalized, Changed, TimedOut, Crash
    <3> QED
      BY <1>3, <3>1, <3>2
  <2>3. ASSUME NEW b \in Agents
        PROVE  Heard(b)' /\ Scripted(b)' /\ Called(b)' /\ Held(b)'
    <3>1. CASE b = a
      BY <2>1, <3>1 DEF Kept, Fit
    <3>2. CASE b # a
      <4>1. agent'[b] = agent[b] /\ script'[b] = script[b]
        BY <1>3, <3>2, OneSteps
      <4>2. rec'.holder = b => rec.holder = b /\ rec'.ext = rec.ext /\ rec'.state = rec.state
        BY <2>1, <3>2 DEF Kept
      <4> QED
        BY <2>1, <4>1, <4>2, Bystander
    <3> QED
      BY <3>1, <3>2
  <2>4. (rec.ext \in Jobs => Given(rec.ext))'
    BY <2>1 DEF Kept, Aged, Given
  <2>5. Ranges'
    BY <1>1, <2>1, <2>2 DEF Ranges, TypeOK, Kept, Record, States
  <2> QED
    BY <2>3, <2>4, <2>5 DEF Agreed
<1>4. CASE Outside
  <2>1. /\ Aged /\ job' \in [Jobs -> States] /\ UNCHANGED <<dest, agent, script>>
        /\ rec' \in Record /\ rec'.ext = rec.ext /\ rec'.state = rec.state
        /\ rec'.holder = rec.holder
    BY <1>4, OutsideSteps
  <2>2. ASSUME NEW b \in Agents
        PROVE  Heard(b)' /\ Scripted(b)' /\ Called(b)' /\ Held(b)'
    BY <2>1, Bystander
  <2>3. (rec.ext \in Jobs => Given(rec.ext))'
    BY <2>1 DEF Agreed, Aged, Given
  <2>4. Ranges'
    BY <1>1, <1>2, <2>1 DEF Ranges, TypeOK, Record, States
  <2> QED
    BY <2>2, <2>3, <2>4 DEF Agreed
<1> QED
  BY <1>3, <1>4, NextParts

-----------------------------------------------------------------------------
(* Where Locate is to be relied on.                                         *)

\* Only Trouble leaves a job failed, and tells.
LEMMA UnfailedStep ==
  ASSUME IInv, Next
  PROVE  Unfailed'
<1>1. SUFFICES ASSUME "fail" \notin faults'.seen, NEW j \in Jobs
               PROVE  job'[j] # "error"
  BY DEF Unfailed
<1>2. /\ job \in [Jobs -> States] /\ job[j] # "error"
      /\ \A a \in Agents : Scripted(a)
  BY <1>1, Counting, Typed DEF IInv, Agreed, Unfailed
<1>3. ASSUME NEW a \in Agents, Step(a) \/ TimedOut(a) \/ Crash(a)
      PROVE  UNCHANGED job
  BY <1>3 DEF Step, Take, Started, Located, Polled, Finalized, Changed, TimedOut, Crash
<1>4. ASSUME NEW a \in Agents, Script(a)
      PROVE  job'[j] # "error"
  BY <1>2, <1>4 DEF Script, Create, ResumeNew, RemoveNew, Find, Show, Complete, Remove, SetPaused, Answer
<1>5. ASSUME NEW k \in Jobs, Transfer(k) \/ Trouble(k)
      PROVE  job'[j] # "error"
  <2>1. ~Disturb("fail")
    <3>1. SUFFICES ASSUME Disturb("fail")
                   PROVE  FALSE
      OBVIOUS
    <3>2. faults'.seen = faults.seen \cup {"fail"}
      BY <3>1 DEF Disturb
    <3> QED
      BY <1>1, <3>2
  <2> QED
    BY <1>2, <1>5, <2>1 DEF Transfer, Trouble
<1>6. ASSUME SetWant \/ ServiceStops \/ ServiceStarts
      PROVE  UNCHANGED job
  BY <1>6 DEF SetWant, ServiceStops, ServiceStarts
<1> QED
  BY <1>2, <1>3, <1>4, <1>5, <1>6 DEF Next

\* While nothing outlives its caller, a call has the lease.
LEMMA AttendedStep ==
  ASSUME IInv, Next
  PROVE  Attended'
<1>1. SUFFICES ASSUME "orphan" \notin faults'.seen, NEW b \in Agents
               PROVE  (~At(b, "dead") /\ (~At(b, "idle") => MayWrite(b)))'
  BY DEF Attended
<1>2. /\ agent \in [Agents -> Call] /\ rec \in Record /\ None \notin Agents
      /\ \A a \in Agents : ~At(a, "dead") /\ (~At(a, "idle") => rec.holder = a)
  BY <1>1, Counting, Typed, BitsAssumption DEF IInv, Agreed, Attended, MayWrite
<1>3. CASE Outside
  <2>1. UNCHANGED agent /\ rec'.holder = rec.holder
    BY <1>3, OutsideSteps DEF IInv
  <2> QED
    BY <1>2, <2>1 DEF At, MayWrite
<1>4. ASSUME NEW a \in Agents, Step(a) \/ Script(a) \/ TimedOut(a) \/ Crash(a)
      PROVE  (~At(b, "dead") /\ (~At(b, "idle") => MayWrite(b)))'
  <2>1. ASSUME NEW c \in Agents \ {a}
        PROVE  agent'[c] = agent[c]
    BY <1>4, OneSteps DEF IInv
  <2>2. ASSUME Become(a, Idle), rec' = rec \/ rec.holder = a
        PROVE  (~At(b, "dead") /\ (~At(b, "idle") => MayWrite(b)))'
    <3>1. agent'[a].pc = "idle"
      BY <1>2, <2>2 DEF Become, Idle
    <3> QED
      BY <1>2, <2>1, <2>2, <3>1 DEF At, MayWrite
  <2>3. ASSUME rec' = rec, agent'[a].pc \notin {"idle", "dead"}, agent[a].pc # "idle"
        PROVE  (~At(b, "dead") /\ (~At(b, "idle") => MayWrite(b)))'
    BY <1>2, <2>1, <2>3 DEF At, MayWrite
  <2>4. CASE Take(a)
    <3>1. rec.holder = None /\ rec'.holder = a /\ agent'[a].pc = Business
      BY <1>2, <2>4 DEF Take, Calls, Become, Record, Call
    <3>2. Business \notin {"idle", "dead"}
      BY DEF Business
    <3> QED
      BY <1>2, <2>1, <3>1, <3>2 DEF At, MayWrite
  <2>5. ASSUME NEW r, Writes(a, r)
        PROVE  (~At(b, "dead") /\ (~At(b, "idle") => MayWrite(b)))'
    BY <2>2, <2>5 DEF Writes, MayWrite
  <2>6. CASE Started(a)
    <3>1. (\E r : Writes(a, r)) \/ (rec' = rec /\ Become(a, [Idle EXCEPT !.pc = "locate"]))
      BY <2>6 DEF Started
    <3>2. CASE rec' = rec /\ Become(a, [Idle EXCEPT !.pc = "locate"])
      <4>1. agent'[a].pc = "locate"
        BY <1>2, <3>2 DEF Become, Idle
      <4> QED
        BY <2>3, <2>6, <3>2, <4>1 DEF Started, Told, At
    <3> QED
      BY <2>5, <3>1, <3>2
  <2>7. CASE Polled(a)
    <3>1. \/ \E r : Writes(a, r)
          \/ \E next \in {"resume", "finalize"} :
               rec' = rec /\ Become(a, [agent[a] EXCEPT !.pc = next, !.ans = None])
      BY <2>7 DEF Polled
    <3>2. ASSUME NEW next \in {"resume", "finalize"},
                 rec' = rec, Become(a, [agent[a] EXCEPT !.pc = next, !.ans = None])
          PROVE  (~At(b, "dead") /\ (~At(b, "idle") => MayWrite(b)))'
      <4>1. agent'[a].pc = next
        BY <1>2, <3>2 DEF Become, Call
      <4> QED
        BY <2>3, <2>7, <3>2, <4>1 DEF Polled, Told, At
    <3> QED
      BY <2>5, <3>1, <3>2
  <2>8. CASE Located(a) \/ Finalized(a) \/ Changed(a)
    <3>1. \E r : Writes(a, r)
      BY <2>8 DEF Located, Finalized, Changed
    <3> QED
      BY <2>5, <3>1
  <2>9. CASE Script(a) \/ TimedOut(a)
    <3>1. rec' = rec
      BY <2>9 DEF Script, Create, ResumeNew, RemoveNew, Find, Show, Complete, Remove, SetPaused,
                  Answer, TimedOut
    <3>2. agent'[a].pc = agent[a].pc
      BY <1>2, <2>9 DEF Script, Create, ResumeNew, RemoveNew, Find, Show, Complete, Remove, SetPaused,
                  Answer, TimedOut, Become, Call
    <3> QED
      BY <1>2, <2>1, <3>1, <3>2 DEF At, MayWrite
  <2>10. CASE Crash(a)
    <3>1. ~Disturb("orphan")
      <4>1. SUFFICES ASSUME Disturb("orphan")
                     PROVE  FALSE
        OBVIOUS
      <4>2. faults'.seen = faults.seen \cup {"orphan"}
        BY <4>1 DEF Disturb
      <4> QED
        BY <1>1, <4>2
    <3>2. Become(a, Idle) /\ (rec' = rec \/ rec.holder = a)
      BY <2>10, <3>1 DEF Crash, MayWrite
    <3> QED
      BY <2>2, <3>2
  <2> QED
    BY <1>4, <2>4, <2>6, <2>7, <2>8, <2>9, <2>10 DEF Step
<1> QED
  BY <1>3, <1>4, NextParts

LEMMA FewerLeft ==
  ASSUME Fewer
  PROVE  /\ Single => Single'
         /\ Empty => Empty'
         /\ \A e : Only(e) => \A j \in Jobs : Active(j)' => j = e
BY DEF Fewer, Single, Empty, Only

\* What the queue holds when no job of it failed.
LEMMA Queue ==
  ASSUME IInv, Findable, NEW j \in Jobs
  PROVE  Queued(j) <=> Active(j)
<1>1. job[j] \in States /\ job[j] # "error"
  BY Typed DEF IInv, Agreed, Unfailed, Findable
<1> QED
  BY <1>1 DEF Queued, Active, States

\* Whoever is not the holder has nothing running and heard nothing.
LEMMA Bystanding ==
  ASSUME IInv, Findable, NEW b \in Agents, ~MayWrite(b)
  PROVE  script[b].at = "off" /\ agent[b].ans = None /\ At(b, "idle")
<1>1. At(b, "idle") /\ ~At(b, "dead") /\ Heard(b)
  BY DEF IInv, Findable, Attended, Agreed
<1> QED
  BY <1>1 DEF Heard, At, Verbs, Handling

\* What a process contributes to Sole.
Says(a) ==
  /\ script[a].at = "begin" /\ script[a].verb = "start" => Empty
  /\ script[a].at \in {"resume", "remove"} => Only(script[a].id)
  /\ script[a].at = "print" => Answers(script[a].verb, script[a].ans)
  /\ agent[a].ans # None => Answers(agent[a].pc, agent[a].ans)

\* Where jobs only become fewer, what was said of the queue stays true.
LEMMA StillSaid ==
  ASSUME Fewer, NEW a \in Agents, Says(a)
  PROVE  /\ script'[a] = script[a] /\ agent'[a] = agent[a] => Says(a)'
         /\ script'[a].at = "off" /\ agent'[a].ans = None => Says(a)'
         /\ script'[a] = script[a] /\ agent'[a].ans = None => Says(a)'
<1>1. /\ \A e : Only(e) => \A j \in Jobs : Active(j)' => j = e
      /\ Empty => Empty'
  BY FewerLeft
<1>2. ASSUME script'[a] = script[a]
      PROVE  /\ (script[a].at = "begin" /\ script[a].verb = "start" => Empty)'
             /\ (script[a].at \in {"resume", "remove"} => Only(script[a].id))'
             /\ (script[a].at = "print" => Answers(script[a].verb, script[a].ans))'
  BY <1>1, <1>2 DEF Says, Answers, Only
<1>3. ASSUME agent'[a] = agent[a]
      PROVE  (agent[a].ans # None => Answers(agent[a].pc, agent[a].ans))'
  BY <1>1, <1>3 DEF Says, Answers, Only
<1> QED
  BY <1>2, <1>3 DEF Says

LEMMA SoleParts ==
  Sole <=> Single /\ (rec.ext # Request => Only(rec.ext)) /\ \A a \in Agents : Says(a)
BY DEF Sole, Says

\* A script of the holder.
LEMMA SoleScript ==
  ASSUME IInv, Findable, Sole, NEW a \in Agents, Script(a) \/ TimedOut(a)
  PROVE  Single' /\ (rec.ext # Request => Only(rec.ext))' /\ Says(a)'
<1>1. /\ Fit(a) /\ agent \in [Agents -> Call] /\ script \in [Agents -> Cmdlet]
      /\ job \in [Jobs -> States] /\ UNCHANGED rec /\ Says(a) /\ script[a] \in Cmdlet
      /\ agent[a] \in Call
  <2>1. UNCHANGED rec
    BY DEF Script, Create, ResumeNew, RemoveNew, Find, Show, Complete, Remove, SetPaused,
           Answer, TimedOut
  <2> QED
    BY <2>1, AtCall, Typed, SoleParts DEF IInv, Agreed
<1>2. script[a].at # "off"
  BY <1>1 DEF Script, Create, ResumeNew, RemoveNew, Find, Show, Complete, Remove, SetPaused,
         Answer, TimedOut
<1>3. agent[a].ans = None /\ agent[a].pc = script[a].verb /\ MayWrite(a)
  BY <1>1, <1>2, Bystanding DEF Fit, Heard, IInv, Attended, Findable
<1>4. CASE Create(a) /\ ~UNCHANGED job
  <2>1. PICK j \in Jobs : /\ job[j] = "none" /\ job' = [job EXCEPT ![j] = "suspended"]
                          /\ script' = [script EXCEPT ![a].at = "resume", ![a].id = j]
                          /\ UNCHANGED agent
    BY <1>4 DEF Create
  <2>2. Empty /\ script'[a].at = "resume" /\ script'[a].id = j /\ rec.ext = Request
    BY <1>1, <1>3, <1>4, <2>1 DEF Says, Create, Fit, Held, Cmdlet
  <2>3. \A k \in Jobs : Active(k)' => k = j
    BY <1>1, <2>1, <2>2 DEF Empty, Active
  <2>4. Only(script[a].id)' /\ Single'
    BY <2>2, <2>3 DEF Only, Single
  <2> QED
    BY <1>1, <1>3, <2>1, <2>2, <2>4 DEF Says
<1>5. CASE ~(Create(a) /\ ~UNCHANGED job)
  <2>1. Fewer
    <3>1. CASE Create(a) \/ TimedOut(a)
      BY <1>5, <3>1, Same DEF TimedOut
    <3>2. CASE Script(a) /\ ~Create(a)
      BY <3>2, ScriptMoves DEF IInv
    <3> QED
      BY <3>1, <3>2
  <2>2. Single' /\ (rec.ext # Request => Only(rec.ext))'
    BY <1>1, <2>1, FewerLeft, SoleParts DEF Only
  <2> SUFFICES Says(a)'
    BY <2>2
  <2>3. ASSUME NEW ans, Prints(a, ans), UNCHANGED agent,
               script[a].verb \in {"start", "locate"} /\ ans \in Jobs
                 => \A j \in Jobs : Active(j)' => j = ans,
               script[a].verb = "locate" /\ ans = "gone" => Empty'
        PROVE  Says(a)'
    <3>1. script'[a].at = "print" /\ script'[a].ans = ans /\ script'[a].verb = script[a].verb
      BY <1>1, <2>3 DEF Prints, Cmdlet
    <3> QED
      BY <1>3, <2>3, <3>1 DEF Says, Answers, Only
  <2>4. ASSUME NEW ans \in Words \ {"gone"}, Prints(a, ans), UNCHANGED agent
        PROVE  Says(a)'
    BY <2>3, <2>4, NoWord
  <2>5. CASE Create(a)
    <3>1. CASE Prints(a, "error")
      BY <2>4, <2>5, <3>1 DEF Create, Words
    <3>2. CASE ~Prints(a, "error")
      <4>1. PICK j \in Jobs : job[j] = "none" /\ job' = [job EXCEPT ![j] = "suspended"]
        BY <2>5, <3>2 DEF Create
      <4> QED
        BY <1>1, <1>5, <2>5, <4>1
    <3> QED
      BY <3>1, <3>2
  <2>6. CASE ResumeNew(a)
    <3>1. Only(script[a].id) /\ script[a].verb = "start" /\ UNCHANGED agent
      BY <1>1, <2>6 DEF ResumeNew, Says, Fit, Scripted
    <3>2. CASE Prints(a, script[a].id)
      <4>1. PICK id : id = script[a].id
        OBVIOUS
      <4>2. \A j \in Jobs : Active(j)' => j = id
        BY <2>1, <3>1, <4>1, FewerLeft
      <4> QED
        BY <2>3, <3>1, <3>2, <4>1, <4>2
    <3>3. CASE script' = [script EXCEPT ![a].at = "remove"]
      <4>1. script'[a].at = "remove" /\ script'[a].id = script[a].id
        BY <1>1, <3>3 DEF Cmdlet
      <4> QED
        BY <1>3, <2>1, <3>1, <4>1, FewerLeft DEF Says, Only
    <3> QED
      BY <2>6, <3>2, <3>3 DEF ResumeNew
  <2>7. CASE Find(a)
    <3>1. UNCHANGED <<agent, job>> /\ script[a].verb = "locate"
      BY <2>7 DEF Find
    <3>2. CASE Prints(a, "error")
      BY <2>4, <3>1, <3>2 DEF Words
    <3>3. CASE (\A j \in Jobs : ~Queued(j)) /\ Prints(a, "gone")
      <4>1. Empty'
        BY <3>1, <3>3, Queue DEF Empty, Active
      <4> QED
        BY <2>3, <3>1, <3>3, <4>1, NoWord DEF Words
    <3>4. ASSUME NEW j \in Jobs, Queued(j), Prints(a, j)
          PROVE  Says(a)'
      <4>1. \A k \in Jobs : Active(k)' => k = j
        BY <3>1, <3>4, Queue, SoleParts DEF Single, Active
      <4>2. j # "gone"
        BY NoWord DEF Words
      <4> QED
        BY <2>3, <3>1, <3>4, <4>1, <4>2
    <3> QED
      BY <2>7, <3>2, <3>3, <3>4 DEF Find
  <2>8. CASE Show(a)
    <3>1. PICK ans : Prints(a, ans) /\ UNCHANGED agent /\ script[a].verb = "poll"
      BY <2>8 DEF Show
    <3> QED
      BY <2>3, <3>1
  <2>9. CASE RemoveNew(a) \/ Complete(a) \/ Remove(a) \/ SetPaused(a)
    <3>1. UNCHANGED agent /\ (Prints(a, "error") \/ Prints(a, "ok"))
      BY <2>9 DEF RemoveNew, Complete, Remove, SetPaused
    <3> QED
      BY <2>4, <3>1 DEF Words
  <2>10. CASE Answer(a) \/ TimedOut(a)
    <3>1. script'[a].at = "off" /\ UNCHANGED job
      BY <1>1, <2>10 DEF Answer, TimedOut, Off
    <3>2. CASE agent'[a].ans = None
      BY <1>1, <2>1, <3>1, <3>2, StillSaid
    <3>3. CASE agent'[a].ans = "error"
      BY <3>1, <3>3, NoWord DEF Says, Answers, Words
    <3>4. CASE agent'[a].ans = script[a].ans /\ agent'[a].pc = agent[a].pc /\ script[a].at = "print"
      <4>1. Answers(script[a].verb, script[a].ans)
        BY <1>1, <3>4 DEF Says
      <4>2. Answers(agent[a].pc, agent[a].ans)'
        BY <1>3, <2>1, <3>4, <4>1, FewerLeft DEF Answers, Only
      <4> QED
        BY <3>1, <4>2 DEF Says
    <3> QED
      BY <1>1, <2>10, <3>2, <3>3, <3>4 DEF Answer, TimedOut, Become, Idle, Call
  <2> QED
    BY <2>5, <2>6, <2>7, <2>8, <2>9, <2>10 DEF Script
<1> QED
  BY <1>4, <1>5

\* A step of the holder, or the claim that makes it one.
LEMMA SoleStep ==
  ASSUME IInv, Findable, Sole, NEW a \in Agents, Step(a)
  PROVE  Single' /\ (rec.ext # Request => Only(rec.ext))' /\ Says(a)'
<1>1. /\ Fit(a) /\ agent \in [Agents -> Call] /\ script \in [Agents -> Cmdlet]
      /\ rec \in Record /\ UNCHANGED job /\ Says(a) /\ agent[a] \in Call
      /\ None \notin Jobs /\ Request \notin Jobs /\ Request # None
  <2>1. UNCHANGED job
    BY DEF Step, Take, Started, Located, Polled, Finalized, Changed
  <2> QED
    BY <2>1, AtCall, Typed, SoleParts, BitsAssumption DEF IInv, Agreed
<1>2. /\ Fewer /\ Single'
      /\ \A e : Only(e) => \A j \in Jobs : Active(j)' => j = e
  BY <1>1, Same, FewerLeft, SoleParts
<1>3. ASSUME rec'.ext # Request => Only(rec'.ext)
      PROVE  (rec.ext # Request => Only(rec.ext))'
  BY <1>2, <1>3 DEF Only
<1>4. CASE Take(a)
  <2>1. /\ rec'.ext = IF rec.ext = None THEN Request ELSE rec.ext
        /\ script'[a].at = "begin" /\ script'[a].verb = Business
        /\ agent'[a].ans = agent[a].ans /\ agent[a].ans = None
    BY <1>1, <1>4 DEF Take, Calls, Run, Become, Record, Off, Fit, Heard, Call
  <2>2. (script[a].at = "begin" /\ script[a].verb = "start" => Empty)'
    <3>1. ASSUME Business = "start"
          PROVE  Empty'
      <4>1. rec.ext = None
        BY <1>1, <3>1 DEF Business, Record
      <4> QED
        BY <1>1, <1>2, <4>1, SoleParts DEF Only, Empty
    <3> QED
      BY <2>1, <3>1
  <2>3. rec'.ext # Request => Only(rec'.ext)
    BY <1>1, <2>1, SoleParts
  <2> QED
    BY <1>2, <1>3, <2>1, <2>2, <2>3 DEF Says
<1>5. CASE ~Take(a)
  <2>1. MayWrite(a)
    BY <1>1, <1>5, Bystanding DEF Step, Started, Located, Polled, Finalized, Changed, Told, At
  <2>2. ASSUME NEW r \in Record, Writes(a, r), UNCHANGED script, r.ext # Request => Only(r.ext),
               script[a].at = "off"
        PROVE  Single' /\ (rec.ext # Request => Only(rec.ext))' /\ Says(a)'
    <3>1. rec'.ext = r.ext /\ agent'[a].ans = None
      BY <1>1, <2>1, <2>2 DEF Writes, Become, Idle, Record
    <3>2. Says(a)'
      BY <1>1, <1>2, <2>2, <3>1, StillSaid
    <3> QED
      BY <1>2, <1>3, <2>2, <3>1, <3>2
  <2>3. /\ TakenBack(rec) \in Record /\ TakenBack(rec).ext = None
        /\ (rec.ext # Request => Only(rec.ext))
        /\ \A e \in Jobs : [rec EXCEPT !.ext = e] \in Record /\ [rec EXCEPT !.ext = e].ext = e
    BY <1>1, SoleParts DEF TakenBack, Record
  <2>4. ASSUME NEW verb \in {"resume", "finalize", "locate"}, NEW id, Run(a, verb, id), UNCHANGED rec,
               agent'[a].ans = None
        PROVE  Single' /\ (rec.ext # Request => Only(rec.ext))' /\ Says(a)'
    <3>1. script'[a].at = "begin" /\ script'[a].verb = verb
      BY <1>1, <2>4 DEF Run, Off
    <3>2. Says(a)'
      BY <2>4, <3>1 DEF Says
    <3> QED
      BY <1>2, <1>3, <2>3, <2>4, <3>2
  <2>5. CASE Started(a)
    <3>1. /\ script[a].at = "off" /\ agent[a].pc = "start"
          /\ Holds("start", agent[a].id, agent[a].ans) /\ agent[a].ans # None
      BY <2>5, Quiet DEF IInv, Started, Told, Verbs, Handling
    <3>2. CASE agent[a].ans = "error"
      <4>1. Run(a, "locate", None) /\ UNCHANGED rec /\ agent'[a].ans = None
        BY <1>1, <2>5, <3>2 DEF Started, Become, Idle
      <4> QED
        BY <2>4, <4>1
    <3>3. CASE agent[a].ans # "error"
      <4>1. agent[a].ans \in Jobs /\ Only(agent[a].ans)
        BY <1>1, <3>1, <3>3 DEF Holds, Says, Answers
      <4>2. Writes(a, [rec EXCEPT !.ext = agent[a].ans]) /\ UNCHANGED script
        BY <2>5, <3>3 DEF Started
      <4> QED
        BY <2>2, <2>3, <3>1, <4>1, <4>2
    <3> QED
      BY <3>2, <3>3
  <2>6. CASE Located(a)
    <3>1. /\ script[a].at = "off" /\ agent[a].pc = "locate" /\ UNCHANGED script
          /\ Holds("locate", agent[a].id, agent[a].ans) /\ agent[a].ans # None
      BY <2>6, Quiet DEF IInv, Located, Told, Verbs, Handling
    <3>2. CASE agent[a].ans \in Jobs
      <4>1. Writes(a, [rec EXCEPT !.ext = agent[a].ans]) /\ Only(agent[a].ans)
        BY <1>1, <2>6, <3>1, <3>2, NoWord DEF Located, Says, Answers, Words
      <4> QED
        BY <2>2, <2>3, <3>1, <3>2, <4>1
    <3>3. CASE agent[a].ans = "gone"
      <4>1. Writes(a, TakenBack(rec)) /\ Empty
        BY <1>1, <2>6, <3>1, <3>3 DEF Located, Says, Answers
      <4>2. Only(None)
        BY <4>1 DEF Empty, Only
      <4> QED
        BY <2>2, <2>3, <3>1, <4>1, <4>2
    <3>4. CASE agent[a].ans = "error"
      <4>1. Writes(a, rec)
        BY <2>6, <3>4 DEF Located
      <4> QED
        BY <1>1, <2>2, <2>3, <3>1, <4>1
    <3> QED
      BY <3>1, <3>2, <3>3, <3>4 DEF Holds, Handling
  <2>7. ASSUME Spent(agent[a].id), agent[a].pc \in Handling
        PROVE  Only(None)
    <3>1. rec.ext = agent[a].id
      BY <1>1, <2>1, <2>7 DEF Fit, Held
    <3> QED
      BY <1>1, <2>3, <2>7, <3>1 DEF Only, Spent, Active
  <2>8. CASE Polled(a)
    <3>1. /\ script[a].at = "off" /\ agent[a].pc = "poll"
          /\ Holds("poll", agent[a].id, agent[a].ans)
      BY <2>8, Quiet DEF IInv, Polled, Told, Verbs, Handling
    <3>2. CASE agent[a].ans \in {"failed", "gone"} /\ Writes(a, TakenBack(rec)) /\ UNCHANGED script
      <4>1. Only(None)
        BY <2>7, <3>1, <3>2 DEF Holds, Handling
      <4> QED
        BY <2>2, <2>3, <3>1, <3>2, <4>1
    <3>3. CASE Writes(a, rec) /\ UNCHANGED script
      BY <1>1, <2>2, <2>3, <3>1, <3>3
    <3>4. ASSUME NEW next \in {"resume", "finalize"}, UNCHANGED rec, Run(a, next, agent[a].id),
                 Become(a, [agent[a] EXCEPT !.pc = next, !.ans = None])
          PROVE  Single' /\ (rec.ext # Request => Only(rec.ext))' /\ Says(a)'
      <4>1. agent'[a].ans = None
        BY <1>1, <3>4 DEF Become, Call
      <4> QED
        BY <2>4, <3>4, <4>1
    <3> QED
      BY <2>8, <3>2, <3>3, <3>4 DEF Polled
  <2>9. CASE Finalized(a)
    <3>1. /\ script[a].at = "off" /\ agent[a].pc = "finalize" /\ UNCHANGED script
          /\ Holds("finalize", agent[a].id, agent[a].ans)
      BY <2>9, Quiet DEF IInv, Finalized, Told, Verbs, Handling
    <3>2. CASE Writes(a, rec) \/ Writes(a, [rec EXCEPT !.state = "delivered"])
      <4>1. [rec EXCEPT !.state = "delivered"] \in Record
            /\ [rec EXCEPT !.state = "delivered"].ext = rec.ext
        BY <1>1 DEF Record
      <4> QED
        BY <1>1, <2>2, <2>3, <3>1, <3>2, <4>1
    <3>3. CASE agent[a].ans # "error" /\ Writes(a, TakenBack(rec))
      <4>1. Only(None)
        BY <2>7, <3>1, <3>3 DEF Holds, Handling
      <4> QED
        BY <2>2, <2>3, <3>1, <3>3, <4>1
    <3> QED
      BY <2>9, <3>2, <3>3 DEF Finalized
  <2>10. CASE Changed(a)
    <3>1. script[a].at = "off" /\ UNCHANGED script
      BY <2>10, Quiet DEF IInv, Changed, Told, Verbs, Handling
    <3>2. CASE Writes(a, rec)
      BY <1>1, <2>2, <2>3, <3>1, <3>2
    <3>3. CASE ~Writes(a, rec)
      <4>1. /\ agent[a].pc = "abandon" /\ agent[a].ans = "ok"
            /\ Writes(a, [rec EXCEPT !.state = "cancelled", !.ext = None])
        BY <2>10, <3>3 DEF Changed, At
      <4>2. Spent(agent[a].id)
        BY <1>1, <4>1, NoWord DEF Fit, Called, Holds, Words
      <4>3. Only(None)
        BY <2>7, <4>1, <4>2 DEF Handling
      <4>4. /\ [rec EXCEPT !.state = "cancelled", !.ext = None] \in Record
            /\ [rec EXCEPT !.state = "cancelled", !.ext = None].ext = None
        BY <1>1 DEF Record
      <4> QED
        BY <2>2, <3>1, <4>1, <4>3, <4>4
    <3> QED
      BY <3>2, <3>3
  <2> QED
    BY <1>5, <2>5, <2>6, <2>8, <2>9, <2>10 DEF Step
<1> QED
  BY <1>4, <1>5

LEMMA SoleNext ==
  ASSUME IInv, Next, Findable'
  PROVE  Findable /\ Sole'
<1>1. Findable
  BY Counting DEF IInv, Agreed, Findable
<1>2. Sole /\ Single /\ (rec.ext # Request => Only(rec.ext)) /\ \A a \in Agents : Says(a)
  BY <1>1, SoleParts DEF IInv
<1>3. CASE Outside
  <2>1. Fewer /\ UNCHANGED <<agent, script>> /\ rec'.ext = rec.ext
    BY <1>3, OutsideSteps DEF IInv
  <2>2. Single' /\ (rec.ext # Request => Only(rec.ext))'
    BY <1>2, <2>1, FewerLeft DEF Only
  <2>3. \A a \in Agents : Says(a)'
    BY <1>2, <2>1, StillSaid
  <2> QED
    BY <1>1, <2>2, <2>3 DEF Sole, Says
<1>4. ASSUME NEW a \in Agents, Step(a) \/ Script(a) \/ TimedOut(a) \/ Crash(a)
      PROVE  Sole'
  <2>1. Single' /\ (rec.ext # Request => Only(rec.ext))' /\ Says(a)'
    <3>1. CASE Crash(a)
      <4>1. ~Disturb("orphan")
        <5>1. SUFFICES ASSUME Disturb("orphan")
                       PROVE  FALSE
          OBVIOUS
        <5>2. faults'.seen = faults.seen \cup {"orphan"}
          BY <5>1 DEF Disturb
        <5> QED
          BY <5>2 DEF Findable
      <4>2. /\ script' = [script EXCEPT ![a] = Off] /\ Become(a, Idle) /\ UNCHANGED job
            /\ rec' = IF MayWrite(a) THEN [rec EXCEPT !.holder = None] ELSE rec
        BY <3>1, <4>1 DEF Crash
      <4>3. rec'.ext = rec.ext /\ script'[a].at = "off" /\ agent'[a].ans = None
        BY <4>2, Typed DEF IInv, Agreed, Record, Off, Idle, Become
      <4>4. Single' /\ (rec.ext # Request => Only(rec.ext))'
        BY <1>2, <4>2, <4>3, Same, FewerLeft DEF Only
      <4> QED
        BY <1>2, <4>2, <4>3, <4>4, Same, StillSaid
    <3> QED
      BY <1>1, <1>2, <1>4, <3>1, SoleStep, SoleScript
  <2>2. ASSUME NEW b \in Agents \ {a}
        PROVE  Says(b)'
    <3>1. agent'[b] = agent[b] /\ script'[b] = script[b]
      BY <1>4, OneSteps DEF IInv
    <3>2. ~MayWrite(b)
      <4>1. CASE Take(a)
        BY <4>1, BitsAssumption DEF Take, MayWrite
      <4>2. CASE ~Take(a)
        <5>1. ~At(a, "idle")
          <6>1. script[a].at = "off" => agent[a].ans # None \/ ~At(a, "idle")
            BY <1>4, <4>2 DEF Step, Started, Located, Polled, Finalized, Changed, Told, Script, Create,
               ResumeNew, RemoveNew, Find, Show, Complete, Remove, SetPaused, Answer, TimedOut, Crash
          <6> QED
            BY <1>1, <6>1 DEF IInv, Agreed, Heard, Attended, Findable, At, Verbs, Handling
        <5>2. MayWrite(a)
          BY <1>1, <5>1 DEF IInv, Attended, Findable
        <5> QED
          BY <5>2 DEF MayWrite
      <4> QED
        BY <4>1, <4>2
    <3>3. script[b].at = "off" /\ agent[b].ans = None
      BY <1>1, <3>2, Bystanding
    <3> QED
      BY <3>1, <3>3 DEF Says
  <2> QED
    BY <2>1, <2>2 DEF Sole, Says
<1> QED
  BY <1>1, <1>3, <1>4, NextParts

-----------------------------------------------------------------------------
(* The theorems.                                                            *)

LEMMA Inductive == IInv /\ [Next]_vars => IInv'
<1> SUFFICES ASSUME IInv, [Next]_vars
             PROVE  IInv'
  OBVIOUS
<1>1. CASE Next
  BY <1>1, AgreedStep, AttendedStep, UnfailedStep, SoleNext DEF IInv
<1>2. CASE UNCHANGED vars
  BY <1>2 DEF vars, IInv, Agreed, Ranges, TypeOK, Heard, Scripted, Called, Held, Given, Holds, Spent,
     Attended, Unfailed, Findable, Sole, Single, Only, Empty, Answers, At, MayWrite, Active
<1> QED
  BY <1>1, <1>2

(***************************************************************************)
(* The queue and the record agree (bits.go, Start, Locate and Finalize):   *)
(* where no script outlives its caller and no failed job is found instead, *)
(* the queue holds one job of the request at most, and the record names it *)
(* or says that there may be one.                                          *)
(***************************************************************************)
THEOREM Agreement == Spec => []OneKnownJob
<1>1. IInv => OneKnownJob
  BY DEF IInv, Agreed, Ranges, Sole, Single, Only, OneKnownJob, OneForRequest, NoneForgotten
<1> QED
  BY <1>1, AgreedBegins, Inductive, PTL DEF Spec

(***************************************************************************)
(* A handle leaves the record only when its job does not move any more,    *)
(* whatever was killed, orphaned, stopped or failed on the way (bits.go,   *)
(* Poll: only the one error that says so means that there is no job).      *)
(***************************************************************************)
THEOREM HandlesKept == Spec => HandleKept
<1>1. ASSUME IInv, [Next]_vars, rec.ext \in Jobs, rec'.ext # rec.ext
      PROVE  ~Active(rec.ext)
  <2>1. /\ rec \in Record /\ Agreed /\ Request \notin Jobs /\ None \notin Jobs
    BY <1>1, Typed, BitsAssumption DEF IInv, Agreed
  <2>2. ASSUME NEW a \in Agents, MayWrite(a), agent[a].pc \in Handling, Spent(agent[a].id)
        PROVE  ~Active(rec.ext)
    BY <2>1, <2>2 DEF Agreed, Held, Spent, Active
  <2>3. ~Outside /\ ~UNCHANGED vars
    BY <1>1, <2>1, OutsideSteps DEF vars
  <2>4. PICK a \in Agents : Step(a) \/ Script(a) \/ TimedOut(a) \/ Crash(a)
    BY <1>1, <2>3, NextParts
  <2>5. ~Script(a) /\ ~TimedOut(a) /\ ~Crash(a) /\ ~Take(a)
    BY <1>1, <2>1 DEF Script, Create, ResumeNew, RemoveNew, Find, Show, Complete, Remove, SetPaused,
       Answer, TimedOut, Crash, Take, Record
  <2>6. MayWrite(a)
    BY <1>1, <2>4, <2>5 DEF Step, Started, Located, Polled, Finalized, Changed, Writes
  <2>7. Called(a) /\ Held(a)
    BY <2>1 DEF Agreed
  <2>8. ~Started(a) /\ ~Located(a)
    BY <1>1, <2>1, <2>6, <2>7 DEF Started, Located, Told, At, Held
  <2>9. agent[a].pc \in Handling /\ Spent(agent[a].id)
    <3>1. CASE Polled(a)
      <4>1. agent[a].pc = "poll" /\ agent[a].ans \in {"failed", "gone"}
        BY <1>1, <2>6, <3>1, <2>1 DEF Polled, Told, At, Writes, Record
      <4> QED
        BY <2>7, <4>1, NoWord DEF Called, Holds, Handling, Words
    <3>2. CASE Finalized(a) \/ Changed(a)
      <4>1. /\ agent[a].pc \in {"finalize", "abandon"}
            /\ agent[a].ans # "error" /\ agent[a].ans # None
        BY <1>1, <2>1, <2>6, <3>2 DEF Finalized, Changed, Told, At, Writes, Record
      <4> QED
        BY <2>7, <4>1 DEF Called, Holds, Handling
    <3> QED
      BY <2>4, <2>5, <2>8, <3>1, <3>2 DEF Step
  <2> QED
    BY <2>2, <2>6, <2>9
<1> QED
  BY <1>1, AgreedBegins, Inductive, PTL DEF Spec, HandleKept
=============================================================================
