------------------------------- MODULE Client -------------------------------
(***************************************************************************)
(* The client an application holds (go/client.go, go/resume.go,            *)
(* go/handle.go): Submit, ResumeOrSubmit and Deliver, called at the same   *)
(* time by several callers in several processes for one destination, and   *)
(* the workers runHere starts for them.  The transfer a worker makes is    *)
(* module Runner's subject; here it is one step that puts the file down.   *)
(*                                                                         *)
(* Steps are split at every call of the store and at every use of the      *)
(* client's own set of running jobs.  A claim is known by who made it: a   *)
(* caller clearing an old failure, or the worker of a process.  All        *)
(* claims of a process are made under one owner name, so the store lets    *)
(* one take over another.                                                  *)
(***************************************************************************)
EXTENDS JobStore, FiniteSets

CONSTANTS
  Callers,     \* goroutines of applications
  Processes,
  In,          \* In[c]: the process of caller c
  Resuming,    \* callers that use ResumeOrSubmit; the others use Submit
  Artifacts,   \* files, all of one size
  Asks,        \* Asks[c]: the artifact c wants at the destination
  MaxGen,      \* records one destination may wear out (512 in the code)
  MaxFresh,    \* records Submit may make
  MaxFaults,
  Kinds,       \* the disturbances: "crash", "fail", "pause", "cancel", "remove"
  None

ASSUME ClientAssumption ==
  /\ In \in [Callers -> Processes] /\ Resuming \subseteq Callers
  /\ Asks \in [Callers -> Artifacts] /\ None \notin Artifacts \cup Callers \cup Processes
  /\ Callers \cap Processes = {}
  /\ MaxGen \in Nat \ {0} /\ MaxFresh \in Nat /\ MaxFaults \in Nat
  /\ Kinds \subseteq {"crash", "fail", "pause", "cancel", "remove"}

VARIABLES
  rec,      \* the records, by id; the first MaxGen ids belong to the destination
  file,     \* the artifact at the destination, or None
  running,  \* running[p]: client.running, the jobs process p has a worker for
  work,     \* work[p][i]: where that worker is
  call,     \* where each caller is and what it was told
  faults

vars == <<rec, file, running, work, call, faults>>

Ids == 1..(MaxGen + MaxFresh)
OfDestination == 1..MaxGen

Absent(i)   == rec[i].state = "absent"
Open(i)     == ~Absent(i) /\ ~Terminal(rec[i].state)
Arrived(i)  == rec[i].state \in {"transferred", "complete"}

Disturb(k) == k \in Kinds /\ faults > 0 /\ faults' = faults - 1

-----------------------------------------------------------------------------
(* The store.  A token is a caller or a process (its worker).               *)

MayClaim(p, i) == Open(i) /\ (rec[i].live => rec[i].owner = p)

Claims(t, p, i) ==
  rec' = [rec EXCEPT ![i].state = IF @ = "pending" THEN "running" ELSE @,
                     ![i].live = TRUE, ![i].owner = p, ![i].by = t]

MayWrite(t, i) == Open(i) /\ rec[i].live /\ rec[i].by = t

Writes(t, i, new) == rec' = IF MayWrite(t, i) THEN [rec EXCEPT ![i] = new] ELSE rec

LetGo(r) == [r EXCEPT !.live = FALSE, !.owner = None, !.by = None,
                          !.state = IF @ = "running" THEN "pending" ELSE @]

Put(i, c) ==
  rec' = [rec EXCEPT ![i] = [state |-> "pending", live |-> FALSE, owner |-> None, by |-> None,
                             failed |-> FALSE, want |-> "run", what |-> Asks[c]]]

-----------------------------------------------------------------------------
(* Callers.                                                                 *)

At(c, pc)      == call[c].pc = pc
Goes(c, pc)    == call' = [call EXCEPT ![c].pc = pc]
Takes(c, i)    == call' = [call EXCEPT ![c].pc = "begin", ![c].id = i]
Told(c, i, w)  == call' = [call EXCEPT ![c].pc = "told", ![c].id = i, ![c].said = w]

\* Mutant: the record is believed without a look at the file.
FinishedBelieved(c) == {i \in Ids : Arrived(i) /\ rec[i].what = Asks[c]}

\* The finished records of the very bytes asked for, at this destination and
\* still of their size (proven): the file itself is not read.
Finished(c) == {i \in Ids : Arrived(i) /\ rec[i].what = Asks[c] /\ file # None}

\* Submit, delivered: bytes already at the destination are not work at all.
Look(c) ==
  /\ c \notin Resuming /\ At(c, "start")
  /\ IF Finished(c) = {} THEN Goes(c, "scan")
     ELSE \E i \in Finished(c) : Told(c, i, "delivered")
  /\ UNCHANGED <<rec, file, running, work, faults>>

\* Submit, inFlight: unfinished work for the same source and destination.
InFlight(c) == {i \in Ids : Open(i) /\ rec[i].what = Asks[c]}

Scan(c) ==
  /\ At(c, "scan")
  /\ IF InFlight(c) = {} THEN Goes(c, "create")
     ELSE \E i \in InFlight(c) : Takes(c, i)
  /\ UNCHANGED <<rec, file, running, work, faults>>

\* Submit makes a record under a name of its own.
Create(c) ==
  /\ At(c, "create")
  /\ \E i \in Ids \ OfDestination :
       Absent(i) /\ Put(i, c) /\ Takes(c, i)
  /\ UNCHANGED <<file, running, work, faults>>

\* What an unfinished record of this destination means for the call.
Outcome(c, i) ==
  IF rec[i].state = "transferred" /\ file # None THEN Told(c, i, "delivered")
  ELSE IF rec[i].want = "pause" THEN Told(c, i, "paused")
  ELSE Takes(c, i)

\* The destination's records that matter: unfinished ones, and complete ones
\* whose file is there.
Live == {i \in Ids : Open(i)}
Done == {i \in Ids : rec[i].state = "complete" /\ file # None}

\* ResumeOrSubmit, its scan.
Recall(c) ==
  /\ c \in Resuming /\ At(c, "start")
  /\ IF Live # {} THEN \E i \in Live : Outcome(c, i)
     ELSE IF Done # {} THEN \E i \in Done : Told(c, i, "delivered")
     ELSE call' = [call EXCEPT ![c].pc = "make", ![c].id = 1]
  /\ UNCHANGED <<rec, file, running, work, faults>>

\* Mutant: a name whose record somebody is at work on is passed over as well.
SpentOrHeld(i) == ~Open(i) \/ rec[i].live
\* A record that has ended keeps its name and stops nobody.
Spent(i) == ~Open(i)

\* The store refuses to make an id twice, whatever became of its record.
Taken(i) == ~Absent(i)

\* There is a further generation to try.
More(i) == i < MaxGen

\* claimDestination, one generation: the loser of a race continues the
\* winner's record, and spent records are passed over.
Make(c) ==
  /\ At(c, "make")
  /\ LET i == call[c].id IN
     IF ~Taken(i) THEN Put(i, c) /\ Takes(c, i)
     ELSE /\ UNCHANGED rec
          /\ IF ~Spent(i) THEN Outcome(c, i)
             ELSE More(i) /\ call' = [call EXCEPT ![c].id = @ + 1]
  /\ UNCHANGED <<file, running, work, faults>>

\* begin: a client that works the job already does nothing more.
Begin(c) ==
  /\ At(c, "begin")
  /\ Goes(c, IF call[c].id \in running[In[c]] THEN "wait" ELSE "clear")
  /\ UNCHANGED <<rec, file, running, work, faults>>

\* clearLastError, its Load.
Clear(c) ==
  /\ At(c, "clear")
  /\ Goes(c, IF rec[call[c].id].failed THEN "reclaim" ELSE "launch")
  /\ UNCHANGED <<rec, file, running, work, faults>>

Reclaim(c) ==
  /\ At(c, "reclaim")
  /\ IF MayClaim(In[c], call[c].id)
     THEN Claims(c, In[c], call[c].id) /\ Goes(c, "cleared")
     ELSE UNCHANGED rec /\ Goes(c, "launch")
  /\ UNCHANGED <<file, running, work, faults>>

Cleared(c) ==
  /\ At(c, "cleared")
  /\ Writes(c, call[c].id, [rec[call[c].id] EXCEPT !.failed = FALSE])
  /\ Goes(c, "giveback")
  /\ UNCHANGED <<file, running, work, faults>>

GiveBack(c) ==
  /\ At(c, "giveback")
  /\ Writes(c, call[c].id, LetGo(rec[call[c].id]))
  /\ Goes(c, "launch")
  /\ UNCHANGED <<file, running, work, faults>>

\* startHere: one worker per job for this client.
Free(p, i) == i \notin running[p]

Launch(c) ==
  /\ At(c, "launch")
  /\ LET p == In[c]  i == call[c].id IN
     IF Free(p, i)
     THEN /\ running' = [running EXCEPT ![p] = @ \cup {i}]
          /\ work' = [work EXCEPT ![p][i] = "claim"]
     ELSE UNCHANGED <<running, work>>
  /\ Goes(c, "wait")
  /\ UNCHANGED <<rec, file, faults>>

\* Nothing of any process moves this record, nor will before the watch calls it
\* quiet: twice the length of a lease.
Quiet(i) ==
  /\ \A p \in Processes : work[p][i] = "off"
  /\ \A c \in Callers : call[c].id = i =>
       call[c].pc \in {"start", "scan", "make", "create", "wait", "take", "told"}

FreeToClaim(i) == Open(i) /\ ~rec[i].live

\* Mutant: a record that reads running is taken to be worked on.
UnattendedPending(i) == Open(i) /\ ~rec[i].live /\ rec[i].state = "pending"
\* Nothing is working this job right now.
Unattended(i) == FreeToClaim(i)

\* An attempt that failed and let go ends this request.
Ended(i) == rec[i].failed /\ FreeToClaim(i)

\* Deliver, after each notice of the subscription.
Wait(c) ==
  /\ At(c, "wait")
  /\ LET i == call[c].id IN
     \/ rec[i].state = "transferred" /\ Goes(c, "take")
     \/ rec[i].state = "failed" /\ Told(c, i, "failure")
     \/ Terminal(rec[i].state) /\ rec[i].state # "failed"
        /\ Told(c, i, IF rec[i].state = "complete" THEN "delivered" ELSE "cancelled")
     \/ rec[i].state # "transferred" /\ Open(i) /\ Ended(i) /\ Told(c, i, "failure")
     \/ rec[i].state # "transferred" /\ Open(i) /\ ~Ended(i) /\ Quiet(i) /\ Unattended(i)
        /\ Told(c, i, "nobody")
  /\ UNCHANGED <<rec, file, running, work, faults>>

\* TakeDelivery; a refused claim is somebody else taking it.
Take(c) ==
  /\ At(c, "take")
  /\ LET i == call[c].id IN
     IF rec[i].state = "transferred" /\ MayClaim(In[c], i)
     THEN Claims(c, In[c], i) /\ Goes(c, "taking")
     ELSE UNCHANGED rec /\ Told(c, i, "delivered")
  /\ UNCHANGED <<file, running, work, faults>>

Taking(c) ==
  /\ At(c, "taking")
  /\ Writes(c, call[c].id, [rec[call[c].id] EXCEPT !.state = "complete"])
  /\ Told(c, call[c].id, "delivered")
  /\ UNCHANGED <<file, running, work, faults>>

-----------------------------------------------------------------------------
(* runHere: the worker of process p for job i.                              *)

Works(p, i, pc) == work' = [work EXCEPT ![p][i] = pc]
Is(p, i, pc)    == work[p][i] = pc

\* Run claims whatever the record has become.  Held by another owner, it tries
\* again for as long as a dead owner could hold the lease.
WorkerClaim(p, i) ==
  /\ Is(p, i, "claim")
  /\ IF MayClaim(p, i)
     THEN /\ Claims(p, p, i)
          /\ Works(p, i, IF rec[i].want = "run" THEN "open" ELSE "honour")
     ELSE /\ UNCHANGED rec
          /\ \/ ~Open(i) \/ rec[i].state = "transferred"
             \/ \E q \in Processes \ {p} : ~Is(q, i, "off") /\ ~Is(q, i, "claim")
          /\ Works(p, i, "leave")
  /\ UNCHANGED <<file, running, call, faults>>

\* An earlier attempt's failure no longer describes this one.
WorkerOpen(p, i) ==
  /\ Is(p, i, "open")
  /\ Writes(p, i, [rec[i] EXCEPT !.failed = FALSE])
  /\ Works(p, i, IF MayWrite(p, i) THEN "move" ELSE "leave")
  /\ UNCHANGED <<file, running, call, faults>>

WorkerPlace(p, i) ==
  /\ Is(p, i, "move") /\ MayWrite(p, i)
  /\ file' = rec[i].what
  /\ Works(p, i, "placed")
  /\ UNCHANGED <<rec, running, call, faults>>

WorkerFenced(p, i) ==
  /\ Is(p, i, "move") /\ ~MayWrite(p, i)
  /\ Works(p, i, "leave")
  /\ UNCHANGED <<rec, file, running, call, faults>>

WorkerAsked(p, i) ==
  /\ Is(p, i, "move") /\ rec[i].want # "run"
  /\ Works(p, i, "honour")
  /\ UNCHANGED <<rec, file, running, call, faults>>

WorkerHonour(p, i) ==
  /\ Is(p, i, "honour")
  /\ Writes(p, i, IF rec[i].want = "cancel" THEN [rec[i] EXCEPT !.state = "cancelled", !.failed = FALSE]
                  ELSE LetGo(rec[i]))
  /\ Works(p, i, "leave")
  /\ UNCHANGED <<file, running, call, faults>>

WorkerFail(p, i) ==
  /\ Is(p, i, "move") /\ Disturb("fail")
  /\ \E over \in BOOLEAN :
       Writes(p, i, [LetGo(rec[i]) EXCEPT !.failed = TRUE,
                                              !.state = IF over THEN "failed" ELSE @])
  /\ Works(p, i, "leave")
  /\ UNCHANGED <<file, running, call>>

WorkerMark(p, i) ==
  /\ Is(p, i, "placed")
  /\ Writes(p, i, [rec[i] EXCEPT !.state = "transferred", !.failed = FALSE])
  /\ Works(p, i, "release")
  /\ UNCHANGED <<file, running, call, faults>>

WorkerRelease(p, i) ==
  /\ Is(p, i, "release")
  /\ Writes(p, i, LetGo(rec[i]))
  /\ Works(p, i, "leave")
  /\ UNCHANGED <<file, running, call, faults>>

\* Mutant: the job stays in the set if its record is still open.
WorkerLeavesEnded(p, i) ==
  /\ Is(p, i, "leave")
  /\ running' = [running EXCEPT ![p] = IF Open(i) THEN @ ELSE @ \ {i}]
  /\ Works(p, i, "off")
  /\ UNCHANGED <<rec, file, call, faults>>

\* The deferred delete.
WorkerLeave(p, i) ==
  /\ Is(p, i, "leave")
  /\ running' = [running EXCEPT ![p] = @ \ {i}]
  /\ Works(p, i, "off")
  /\ UNCHANGED <<rec, file, call, faults>>

-----------------------------------------------------------------------------
(* Around them.                                                             *)

\* A lease nobody stands behind any more passes its end.
Lapse(i) ==
  /\ rec[i].live
  /\ rec[i].by \in Processes => Is(rec[i].by, i, "off")
  /\ rec[i].by \in Callers => call[rec[i].by].pc = "told"
  /\ rec' = [rec EXCEPT ![i].live = FALSE, ![i].owner = None, ![i].by = None]
  /\ UNCHANGED <<file, running, work, call, faults>>

Crash(p) ==
  /\ Disturb("crash")
  /\ running' = [running EXCEPT ![p] = {}]
  /\ work' = [work EXCEPT ![p] = [i \in Ids |-> "off"]]
  /\ call' = [c \in Callers |-> IF In[c] = p /\ ~At(c, "told")
                                THEN [call[c] EXCEPT !.pc = "told", !.said = "crash"]
                                ELSE call[c]]
  /\ rec' = [i \in Ids |-> IF rec[i].owner = p
                           THEN [rec[i] EXCEPT !.owner = None, !.by = None] ELSE rec[i]]
  /\ UNCHANGED file

SetWant(i, w) ==
  /\ Open(i) /\ rec[i].want # w
  /\ Disturb(IF w = "cancel" THEN "cancel" ELSE "pause")
  /\ rec' = [rec EXCEPT ![i].want = w]
  /\ UNCHANGED <<file, running, work, call>>

\* Somebody moves or deletes the file.
Remove ==
  /\ file # None /\ Disturb("remove")
  /\ file' = None
  /\ UNCHANGED <<rec, running, work, call>>

Init ==
  /\ rec = [i \in Ids |-> [state |-> "absent", live |-> FALSE, owner |-> None, by |-> None,
                           failed |-> FALSE, want |-> "run", what |-> None]]
  /\ file = None
  /\ running = [p \in Processes |-> {}]
  /\ work = [p \in Processes |-> [i \in Ids |-> "off"]]
  /\ call = [c \in Callers |-> [pc |-> "start", id |-> 0, said |-> "nothing"]]
  /\ faults = MaxFaults

Caller(c) ==
  \/ Look(c) \/ Scan(c) \/ Create(c) \/ Recall(c) \/ Make(c)
  \/ Begin(c) \/ Clear(c) \/ Reclaim(c) \/ Cleared(c) \/ GiveBack(c) \/ Launch(c)
  \/ Wait(c) \/ Take(c) \/ Taking(c)

Worker(p, i) ==
  \/ WorkerClaim(p, i) \/ WorkerOpen(p, i) \/ WorkerPlace(p, i) \/ WorkerFenced(p, i)
  \/ WorkerAsked(p, i) \/ WorkerHonour(p, i) \/ WorkerFail(p, i) \/ WorkerMark(p, i)
  \/ WorkerRelease(p, i) \/ WorkerLeave(p, i)

Next ==
  \/ \E c \in Callers : Caller(c)
  \/ \E p \in Processes, i \in Ids : Worker(p, i)
  \/ \E i \in Ids : Lapse(i)
  \/ \E p \in Processes : Crash(p)
  \/ \E i \in Ids, w \in Wants : SetWant(i, w)
  \/ Remove

Spec == Init /\ [][Next]_vars

\* Goroutines of a live process go on, and leases end.
Fairness ==
  /\ \A c \in Callers : WF_vars(Caller(c))
  /\ \A p \in Processes : WF_vars(\E i \in Ids : Worker(p, i))
  /\ WF_vars(\E i \in Ids : Lapse(i))

FairSpec == Spec /\ Fairness
-----------------------------------------------------------------------------
\* Every variable is in its range, and the client's set of running jobs is the set
\* of those it has a worker for.
TypeOK ==
  /\ rec \in [Ids -> [state : States \cup {"absent"}, live : BOOLEAN,
                      owner : Processes \cup {None}, by : Processes \cup Callers \cup {None},
                      failed : BOOLEAN, want : Wants, what : Artifacts \cup {None}]]
  /\ file \in Artifacts \cup {None}
  /\ running = [p \in Processes |-> {i \in Ids : ~Is(p, i, "off")}]
  /\ work \in [Processes -> [Ids -> {"off", "claim", "open", "move", "placed", "honour",
                                     "release", "leave"}]]
  /\ call \in [Callers ->
       [pc : {"start", "scan", "create", "make", "begin", "clear", "reclaim", "cleared",
              "giveback", "launch", "wait", "take", "taking", "told"},
        id : 0..(MaxGen + MaxFresh),
        said : {"nothing", "delivered", "paused", "failure", "cancelled", "nobody", "crash"}]]
  /\ faults \in 0..MaxFaults

\* However many callers race for a destination with ResumeOrSubmit, of the names
\* made from it at most one is an unfinished record: no generation is begun
\* while an earlier one is open.  (And a client's set of running jobs is the set
\* of its workers, which TypeOK says.)
OneForDestination ==
  TypeOK /\ Cardinality({i \in OfDestination : Open(i)}) <= 1

\* Whoever is told at once that the bytes are there finds a file, the one asked
\* for, at that moment.
DeliveredIsThere ==
  [][\A c \in Callers :
       At(c, "start") /\ call'[c].said = "delivered" => file = Asks[c]]_vars

\* A call ends with an answer, whatever becomes of the worker.
Answered == <>(\A c \in Callers : At(c, "told"))
=============================================================================
