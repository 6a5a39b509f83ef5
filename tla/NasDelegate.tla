---------------------------- MODULE NasDelegate ----------------------------
(***************************************************************************)
(* The delegate that is another supervisor watching a store on a share     *)
(* (go/nas/nas.go): the records and files of that store, the far side's    *)
(* runner, and what this machine's supervisors do there for their jobs:    *)
(* Start, Locate, Poll, Finalize, Abandon, Suspend and Resume.             *)
(*                                                                         *)
(* Which of these a supervisor calls, and what it does with the answers,   *)
(* is module Delegation; here it is a claim on the job, one call, and one  *)
(* write.  Every call is split where it reads and writes the share or the  *)
(* local disk.  All jobs name one file of the share, as jobs do whose      *)
(* destinations have the same base name.                                   *)
(***************************************************************************)
EXTENDS JobStore, Disturbances, FiniteSets

CONSTANTS
  Jobs,      \* local jobs, each with its own destination on this machine
  Artifact,  \* Artifact[q]: the bytes job q asks for
  Digest,    \* the jobs' specs carry a digest
  Agents,    \* processes of this machine that sweep the local store
  Ids,       \* ids of records on the share: a bound on Starts
  Blocks,    \* a file is copied in so many pieces
  Inodes,    \* files of the local disk at one time
  None

ASSUME NasAssumption ==
  /\ Blocks \in Nat \ {0} /\ MaxFaults \in Nat
  /\ Digest \in BOOLEAN
  /\ None \notin Jobs \cup Ids \cup Agents \cup Inodes
  /\ Jobs \cap Ids = {}
  /\ IsFiniteSet(Jobs) /\ IsFiniteSet(Agents) /\ IsFiniteSet(Inodes)
  /\ Cardinality(Inodes) > 2 * Cardinality(Jobs) + Cardinality(Agents)
  /\ \A q \in Jobs : Artifact[q] # None

VARIABLES
  loc,   \* the local records: handle, state, intent, who holds the lease
  far,   \* the records on the share
  work,  \* where the far side's runner is with each of them
  part,  \* the partial files on the share that have a name
  share, \* the finished file on the share: None or its bytes
  data,  \* what each file of the local disk holds
  dest,  \* dest[q]: the file at q's destination
  tmp,   \* tmp[q]: the file at that name with .partial
  agent,
  up     \* this machine reaches the share

farVars  == <<far, work, part, share>>
diskVars == <<data, dest, tmp>>
vars == <<loc, farVars, diskVars, agent, up, faults>>

\* met is history: the records that were there when it looked for others.
Idle == [pc |-> "idle", job |-> None, id |-> None, bytes |-> None, file |-> None,
         left |-> 0, over |-> FALSE, drop |-> FALSE, met |-> {}]

At(a, pc)   == agent[a].pc = pc
Become(a, r) == agent' = [agent EXCEPT ![a] = r]
Goes(a, pc) == Become(a, [agent[a] EXCEPT !.pc = pc])
Job(a)      == agent[a].job
MayWrite(a) == Job(a) # None /\ loc[Job(a)].holder = a

\* The call is over; its lease, if it is still held, goes back.
Writes(a, r) ==
  /\ loc' = IF MayWrite(a) THEN [loc EXCEPT ![Job(a)] = [r EXCEPT !.holder = None]] ELSE loc
  /\ Become(a, Idle)

\* A pending handoff carries the job's own id as its handle.
TakenBack(r) == [r EXCEPT !.ext = None]

Absent == [req |-> None, state |-> "pending", live |-> FALSE, want |-> "run"]
Known(i) == far[i] # Absent

-----------------------------------------------------------------------------
(* The far side's runner.                                                   *)

FarClaim(i) ==
  /\ Known(i) /\ Orphan(far[i])
  /\ far' = [far EXCEPT ![i].state = "running", ![i].live = TRUE]
  /\ work' = [work EXCEPT ![i] = "fetch"]
  /\ part' = part \cup {i}
  /\ UNCHANGED <<loc, share, diskVars, agent, up, faults>>

FarFetched(i) ==
  /\ work[i] = "fetch"
  /\ work' = [work EXCEPT ![i] = "deliver"]
  /\ UNCHANGED <<loc, far, part, share, diskVars, agent, up, faults>>

FarLetsGo(i, r) ==
  /\ far' = [far EXCEPT ![i] = Released(r)]
  /\ work' = [work EXCEPT ![i] = "off"]

\* A pause is honoured before the bytes are all there.
FarHonours(i) ==
  /\ work[i] = "fetch" /\ far[i].want # "run"
  /\ FarLetsGo(i, far[i])
  /\ UNCHANGED <<loc, part, share, diskVars, agent, up, faults>>

\* A failure is tried again by the next sweep, or is permanent.
FarFails(i) ==
  /\ work[i] = "fetch"
  /\ \/ Disturb("fail") /\ FarLetsGo(i, far[i])
     \/ Disturb("refusal") /\ FarLetsGo(i, [far[i] EXCEPT !.state = "failed"])
  /\ UNCHANGED <<loc, part, share, diskVars, agent, up>>

\* A partial without a name cannot be renamed: the run fails.
FarDelivers(i) ==
  /\ work[i] = "deliver" /\ i \in part
  /\ share' = Artifact[far[i].req]
  /\ part' = part \ {i}
  /\ work' = [work EXCEPT ![i] = "mark"]
  /\ UNCHANGED <<loc, far, diskVars, agent, up, faults>>

FarLostPartial(i) ==
  /\ work[i] = "deliver" /\ i \notin part
  /\ FarLetsGo(i, far[i])
  /\ UNCHANGED <<loc, part, share, diskVars, agent, up, faults>>

FarMark(i) ==
  /\ work[i] = "mark"
  /\ far' = [far EXCEPT ![i].state = "transferred"]
  /\ work' = [work EXCEPT ![i] = "release"]
  /\ UNCHANGED <<loc, part, share, diskVars, agent, up, faults>>

FarRelease(i) ==
  /\ work[i] = "release"
  /\ FarLetsGo(i, far[i])
  /\ UNCHANGED <<loc, part, share, diskVars, agent, up, faults>>

\* TakeDeliveryAll of the far side's sweep.
FarTake(i) ==
  /\ far[i].state = "transferred" /\ ~far[i].live
  /\ far' = [far EXCEPT ![i].state = "complete"]
  /\ UNCHANGED <<loc, work, part, share, diskVars, agent, up, faults>>

FarCrash ==
  /\ Disturb("farcrash") /\ \E i \in Ids : work[i] # "off"
  /\ work' = [i \in Ids |-> "off"]
  /\ far' = [i \in Ids |-> [far[i] EXCEPT !.live = FALSE]]
  /\ UNCHANGED <<loc, part, share, diskVars, agent, up>>

FarStep(i) ==
  \/ FarClaim(i) \/ FarFetched(i) \/ FarHonours(i) \/ FarDelivers(i)
  \/ FarLostPartial(i) \/ FarMark(i) \/ FarRelease(i) \/ FarTake(i)

-----------------------------------------------------------------------------
(* What a sweep finds to do with a job.                                     *)

Business(q) ==
  IF loc[q].state # "open" THEN "nothing"
  ELSE IF loc[q].ext = q THEN "locate"
  ELSE IF loc[q].ext \in Ids THEN CASE loc[q].want = "run"   -> "poll"
                                    [] loc[q].want = "pause" -> "pause"
                                    [] OTHER                 -> "load"
  ELSE IF loc[q].want = "run" THEN "start" ELSE "nothing"

Take(a, q) ==
  /\ At(a, "idle") /\ loc[q].holder = None /\ Business(q) # "nothing"
  /\ loc' = [loc EXCEPT ![q].holder = a, ![q].ext = IF @ = None THEN q ELSE @]
  /\ Become(a, [Idle EXCEPT !.pc = Business(q), !.job = q,
                            !.id = IF loc[q].ext \in Ids THEN loc[q].ext ELSE None])
  /\ UNCHANGED <<farVars, diskVars, up, faults>>

-----------------------------------------------------------------------------
(* Start and Locate.                                                        *)

\* Submit writes a new record; its answer may be lost.
Start(a) ==
  /\ At(a, "start") /\ up
  /\ \E i \in Ids :
       /\ ~Known(i)
       /\ far' = [far EXCEPT ![i] = [Absent EXCEPT !.req = Job(a)]]
       /\ \/ Become(a, [agent[a] EXCEPT !.pc = "record", !.id = i]) /\ Calm
          \/ Goes(a, "locate") /\ Disturb("lost")
  /\ UNCHANGED <<loc, work, part, share, diskVars, up>>

\* The share is not there, or the write was refused.
StartFails(a) ==
  /\ At(a, "start")
  /\ IF up THEN Disturb("lost") ELSE Calm
  /\ Goes(a, "locate")
  /\ UNCHANGED <<loc, farVars, diskVars, up>>

\* Mutant: nothing is ever found.
LocateNothing(a) ==
  /\ At(a, "locate")
  /\ Writes(a, TakenBack(loc[Job(a)]))
  /\ UNCHANGED <<farVars, diskVars, up, faults>>

\* The first record of the request, in the order of the store's list.
Locate(a) ==
  /\ At(a, "locate")
  /\ LET found == {i \in Ids : far[i].req = Job(a)} IN
     \/ ~up /\ Writes(a, loc[Job(a)])
     \/ up /\ found = {} /\ Writes(a, TakenBack(loc[Job(a)]))
     \/ up /\ UNCHANGED loc
           /\ \E i \in found : Become(a, [agent[a] EXCEPT !.pc = "record", !.id = i])
  /\ UNCHANGED <<farVars, diskVars, up, faults>>

\* A handle that cannot be recorded is abandoned.
RecordHandle(a) ==
  /\ At(a, "record")
  /\ IF MayWrite(a)
     THEN Writes(a, [loc[Job(a)] EXCEPT !.ext = agent[a].id])
     ELSE Become(a, [agent[a] EXCEPT !.pc = "load", !.drop = TRUE]) /\ UNCHANGED loc
  /\ UNCHANGED <<farVars, diskVars, up, faults>>

-----------------------------------------------------------------------------
(* Poll, Suspend and Resume.                                                *)

\* A record that cannot be read is gone.
Poll(a) ==
  /\ At(a, "poll")
  /\ LET r == far[agent[a].id] IN
       CASE ~up \/ r.state \in {"failed", "cancelled"} ->
              Writes(a, TakenBack(loc[Job(a)]))
         [] up /\ r.state \in {"transferred", "complete"} -> Goes(a, "open") /\ UNCHANGED loc
         [] up /\ ~Terminal(r.state) /\ r.state # "transferred" ->
              IF r.want = "pause" THEN Goes(a, "resume") /\ UNCHANGED loc
              ELSE Writes(a, loc[Job(a)])
  /\ UNCHANGED <<farVars, diskVars, up, faults>>

\* SetIntent needs no lease: the far side's runner holds it.
SetIntent(i, w) ==
  far' = IF up /\ ~Terminal(far[i].state) THEN [far EXCEPT ![i].want = w] ELSE far

Suspend(a) ==
  /\ At(a, "pause")
  /\ SetIntent(agent[a].id, "pause")
  /\ Writes(a, loc[Job(a)])
  /\ UNCHANGED <<work, part, share, diskVars, up, faults>>

\* Mutant: work that was suspended is left to whoever suspended it.
ResumeNothing(a) ==
  /\ At(a, "resume")
  /\ Writes(a, loc[Job(a)])
  /\ UNCHANGED <<farVars, diskVars, up, faults>>

Resume(a) ==
  /\ At(a, "resume")
  /\ SetIntent(agent[a].id, "run")
  /\ Writes(a, loc[Job(a)])
  /\ UNCHANGED <<work, part, share, diskVars, up, faults>>

-----------------------------------------------------------------------------
(* FinalizeReporting: copyFile, then acknowledge.                           *)

Empty == [n \in 1..Blocks |-> None]

InUse == {dest[q] : q \in Jobs} \cup {tmp[q] : q \in Jobs} \cup {agent[a].file : a \in Agents}

\* A new file; which one makes no difference.
Fresh == CHOOSE f \in Inodes : f \notin InUse

\* The source is opened: what it holds from here on is what is copied.
Open(a) ==
  /\ At(a, "open")
  /\ IF up /\ share # None
     THEN Become(a, [agent[a] EXCEPT !.pc = "create", !.bytes = share]) /\ UNCHANGED loc
     ELSE Writes(a, loc[Job(a)])
  /\ UNCHANGED <<farVars, diskVars, up, faults>>

\* Mutant: the destination is written in place.
CreateThere(a) ==
  /\ At(a, "create")
  /\ LET f == Fresh IN
       /\ dest' = [dest EXCEPT ![Job(a)] = f]
       /\ tmp' = [tmp EXCEPT ![Job(a)] = f]
       /\ data' = [data EXCEPT ![f] = Empty]
       /\ Become(a, [agent[a] EXCEPT !.pc = "copy", !.file = f, !.left = Blocks])
  /\ UNCHANGED <<loc, farVars, up, faults>>

\* os.Create: the file of that name is emptied, whoever is writing it.
Create(a) ==
  /\ At(a, "create")
  /\ LET f == IF tmp[Job(a)] # None THEN tmp[Job(a)] ELSE Fresh IN
       /\ tmp' = [tmp EXCEPT ![Job(a)] = f]
       /\ data' = [data EXCEPT ![f] = Empty]
       /\ Become(a, [agent[a] EXCEPT !.pc = "copy", !.file = f, !.left = Blocks])
  /\ UNCHANGED <<loc, farVars, dest, up, faults>>

Copy(a) ==
  /\ At(a, "copy") /\ agent[a].left > 0
  /\ data' = [data EXCEPT ![agent[a].file][Blocks - agent[a].left + 1] = agent[a].bytes]
  /\ Become(a, [agent[a] EXCEPT !.left = @ - 1])
  /\ UNCHANGED <<loc, farVars, dest, tmp, up, faults>>

\* An error keeps the partial and the destination as they are.
CopyFails(a) ==
  /\ At(a, "copy")
  /\ IF up THEN Disturb("copy") ELSE Calm
  /\ Writes(a, loc[Job(a)])
  /\ UNCHANGED <<farVars, diskVars, up>>

\* The rename takes whatever file has the name by then.
Rename(a) ==
  /\ At(a, "copy") /\ agent[a].left = 0
  /\ IF tmp[Job(a)] = None
     THEN Writes(a, loc[Job(a)]) /\ UNCHANGED <<dest, tmp>>
     ELSE /\ dest' = [dest EXCEPT ![Job(a)] = tmp[Job(a)]]
          /\ tmp' = [tmp EXCEPT ![Job(a)] = None]
          /\ Become(a, [agent[a] EXCEPT !.pc = "acknowledge", !.file = None])
          /\ UNCHANGED loc
  /\ UNCHANGED <<farVars, data, up, faults>>

\* A refused claim is not a failure.
Acknowledge(a) ==
  /\ At(a, "acknowledge")
  /\ far' = IF up /\ Claimable(far[agent[a].id])
            THEN [far EXCEPT ![agent[a].id].state = "complete"] ELSE far
  /\ Goes(a, "verify")
  /\ UNCHANGED <<loc, work, part, share, diskVars, up, faults>>

Whole(q) == dest[q] # None /\ \A n \in 1..Blocks : data[dest[q]][n] = Artifact[q]

\* Mutant: the far side's word that it verified is enough.
TakenOnTrust(a) ==
  /\ At(a, "verify")
  /\ Become(a, [agent[a] EXCEPT !.pc = "deliver", !.over = TRUE])
  /\ UNCHANGED <<loc, farVars, diskVars, up, faults>>

\* The runner's hashFile over the destination.
Verify(a) ==
  /\ At(a, "verify")
  /\ Become(a, [agent[a] EXCEPT !.pc = "deliver", !.over = Whole(Job(a)) \/ ~Digest])
  /\ UNCHANGED <<loc, farVars, diskVars, up, faults>>

Deliver(a) ==
  /\ At(a, "deliver")
  /\ Writes(a, IF agent[a].over THEN [loc[Job(a)] EXCEPT !.state = "delivered"]
               ELSE TakenBack(loc[Job(a)]))
  /\ UNCHANGED <<farVars, diskVars, up, faults>>

-----------------------------------------------------------------------------
(* Abandon.                                                                 *)

\* A handle nobody knows is already abandoned.  The job's own partial goes first.
LoadRemote(a) ==
  /\ At(a, "load")
  /\ IF up
     THEN /\ part' = part \ {agent[a].id}
          /\ Become(a, [agent[a] EXCEPT !.pc = "look",
                                        !.over = Terminal(far[agent[a].id].state)])
     ELSE Goes(a, "cancel") /\ UNCHANGED part
  /\ UNCHANGED <<loc, far, work, share, diskVars, up, faults>>

\* Mutant: what is finished no longer counts on its bytes.
UnfinishedOther(i) ==
  \E j \in Ids \ {i} : Known(j) /\ far[j].state \in {"pending", "running"}

\* Somebody else still counts on the finished file.
ClaimedByAnother(i) ==
  \E j \in Ids \ {i} : Known(j) /\ far[j].state \notin {"failed", "cancelled"}

LookForOthers(a) ==
  /\ At(a, "look")
  /\ IF ClaimedByAnother(agent[a].id) THEN Goes(a, "end")
     ELSE Become(a, [agent[a] EXCEPT !.pc = "remove", !.met = {j \in Ids : Known(j)}])
  /\ UNCHANGED <<loc, farVars, diskVars, up, faults>>

RemoveFinal(a) ==
  /\ At(a, "remove")
  /\ share' = None
  /\ Become(a, [agent[a] EXCEPT !.pc = "end", !.met = {}])
  /\ UNCHANGED <<loc, far, work, part, diskVars, up, faults>>

\* The record is cancelled if it can be claimed, and Abandon succeeds either way.
EndRemote(a) ==
  /\ At(a, "end")
  /\ far' = IF ~agent[a].over /\ Claimable(far[agent[a].id])
            THEN [far EXCEPT ![agent[a].id].state = "cancelled"] ELSE far
  /\ Goes(a, "cancel")
  /\ UNCHANGED <<loc, work, part, share, diskVars, up, faults>>

\* honourDelegated cancels its own record once Abandon has answered.
CancelHere(a) ==
  /\ At(a, "cancel")
  /\ IF agent[a].drop THEN Become(a, Idle) /\ UNCHANGED loc
     ELSE Writes(a, [loc[Job(a)] EXCEPT !.state = "cancelled"])
  /\ UNCHANGED <<farVars, diskVars, up, faults>>

-----------------------------------------------------------------------------
SetWant(q) ==
  /\ loc[q].state = "open" /\ Disturb("ask")
  /\ \E w \in Wants \ {loc[q].want} : loc' = [loc EXCEPT ![q].want = w]
  /\ UNCHANGED <<farVars, diskVars, agent, up>>

\* A lease passes its end: its holder crashed, or stalls and goes on later.
Lapse(a) ==
  /\ ~At(a, "idle") /\ MayWrite(a)
  /\ loc' = [loc EXCEPT ![Job(a)].holder = None]
  /\ \/ Disturb("crash") /\ Become(a, Idle)
     \/ Disturb("stall") /\ UNCHANGED agent
  /\ UNCHANGED <<farVars, diskVars, up>>

Unmount == up /\ Disturb("unmount") /\ up' = FALSE /\ UNCHANGED <<loc, farVars, diskVars, agent>>
Mount   == ~up /\ up' = TRUE /\ UNCHANGED <<loc, farVars, diskVars, agent, faults>>

Init ==
  /\ loc = [q \in Jobs |-> [ext |-> None, state |-> "open", want |-> "run", holder |-> None]]
  /\ far = [i \in Ids |-> Absent] /\ work = [i \in Ids |-> "off"]
  /\ part = {} /\ share = None
  /\ data = [f \in Inodes |-> Empty]
  /\ dest = [q \in Jobs |-> None] /\ tmp = [q \in Jobs |-> None]
  /\ agent = [a \in Agents |-> Idle]
  /\ up = TRUE /\ faults = [left |-> MaxFaults, seen |-> {}]

Step(a) ==
  \/ \E q \in Jobs : Take(a, q)
  \/ Start(a) \/ Locate(a) \/ RecordHandle(a) \/ Poll(a) \/ Suspend(a) \/ Resume(a)
  \/ Open(a) \/ Create(a) \/ Copy(a) \/ Rename(a) \/ Acknowledge(a) \/ Verify(a) \/ Deliver(a)
  \/ LoadRemote(a) \/ LookForOthers(a) \/ RemoveFinal(a) \/ EndRemote(a) \/ CancelHere(a)

Next ==
  \/ \E i \in Ids : FarStep(i) \/ FarFails(i)
  \/ FarCrash
  \/ \E a \in Agents : Step(a) \/ StartFails(a) \/ CopyFails(a) \/ Lapse(a)
  \/ \E q \in Jobs : SetWant(q)
  \/ Unmount \/ Mount

Spec == Init /\ [][Next]_vars

\* Both sides sweep for ever and the share comes back.
Fairness ==
  /\ \A i \in Ids : WF_vars(FarStep(i))
  /\ \A a \in Agents : WF_vars(Step(a) \/ StartFails(a))
  /\ WF_vars(Mount)

FairSpec == Spec /\ Fairness
-----------------------------------------------------------------------------
TypeOK ==
  /\ loc \in [Jobs -> [ext : Jobs \cup Ids \cup {None}, state : {"open", "delivered", "cancelled"},
                       want : Wants, holder : Agents \cup {None}]]
  /\ far \in [Ids -> [req : Jobs \cup {None}, state : States, live : BOOLEAN, want : Wants]]
  /\ work \in [Ids -> {"off", "fetch", "deliver", "mark", "release"}]
  /\ part \subseteq Ids
  /\ share \in {Artifact[q] : q \in Jobs} \cup {None}
  /\ data \in [Inodes -> [1..Blocks -> {Artifact[q] : q \in Jobs} \cup {None}]]
  /\ dest \in [Jobs -> Inodes \cup {None}] /\ tmp \in [Jobs -> Inodes \cup {None}]
  /\ up \in BOOLEAN
  /\ faults \in [left : 0..MaxFaults, seen : SUBSET Kinds]

Underway(i) == Known(i) /\ far[i].state \in {"pending", "running"}

\* A job is never fetched twice at once on the far side: a Start whose answer was
\* lost is found again before another is made.  One is not found while the share
\* is away, nor behind an older one of the same job that has ended; and a holder
\* that stalled past its lease makes one beside the next holder's.
InTime == "stall" \notin faults.seen
Findable(q) ==
  /\ InTime /\ "unmount" \notin faults.seen
  /\ {"lost", "crash"} \cap faults.seen # {} =>
       \A i \in Ids : far[i].req = q => Underway(i)

OneForRequest ==
  \A i, j \in Ids :
    i # j /\ Underway(i) /\ Underway(j) /\ Findable(far[i].req) => far[i].req # far[j].req

\* A file at a destination is there in full, whoever died while copying it:
\* copyFile writes through a .partial and renames.  A holder that stalled past its
\* lease and goes on shares that .partial with the next one.
NeverShort ==
  InTime =>
    \A q \in Jobs : dest[q] # None => \A n \in 1..Blocks : data[dest[q]][n] # None

\* A job with a digest is called delivered only over its own bytes, though another
\* artifact took its name on the share.
RightBytes ==
  Digest /\ InTime => \A q \in Jobs : loc[q].state = "delivered" => Whole(q)

\* No destination ever shows a file that is not to be used: one is there in full
\* or not at all, and it is the job's own once the job says so.
SoundFile == TypeOK /\ NeverShort /\ RightBytes

\* The finished file of a record whose bytes have arrived and that nobody has
\* fetched yet is removed by nothing but the abandoning of that record, whoever
\* stalled over it; or of another, by somebody who looked for those that count on
\* the file before this record was made.
BytesKept ==
  [][\A i \in Ids :
       far[i].state = "transferred" /\ share # None /\ share' = None
       => \E a \in Agents : At(a, "remove") /\ (agent[a].id = i \/ i \notin agent[a].met)]_vars

\* A job somebody wants for good is delivered: no pause outlives the wish, and no
\* lost answer or failure of either side is the end of it.  (While the ids last.)
Delivers ==
  <>[](InTime /\ (\E i \in Ids : ~Known(i)) /\ \A q \in Jobs : loc[q].want = "run")
    => <>(\A q \in Jobs : loc[q].state \in {"delivered", "cancelled"})
=============================================================================
