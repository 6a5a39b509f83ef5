---------------------------- MODULE NasInvariant ----------------------------
(***************************************************************************)
(* Why NasDelegate keeps one record for a request, no short file and       *)
(* nobody's bytes but one's own: what is true of every call that is under  *)
(* way, shown to be inductive by DirectoryProofs.                          *)
(***************************************************************************)
EXTENDS NasDelegate

Artifacts == {Artifact[q] : q \in Jobs}

\* Where a call has the id of a record of the share: for its job, but for one
\* that is dropped.
HasRecord ==
  {"record", "poll", "resume", "pause", "open", "create", "copy", "acknowledge", "verify",
   "deliver", "load", "look", "remove", "end", "cancel"}
PCs == {"idle", "start", "locate"} \cup HasRecord

AgentRecord ==
  [pc : PCs, job : Jobs \cup {None}, id : Ids \cup {None}, bytes : Artifacts \cup {None},
   file : Inodes \cup {None}, left : 0..Blocks, over : BOOLEAN, drop : BOOLEAN, met : SUBSET Ids]

LocalRecord ==
  [ext : Jobs \cup Ids \cup {None}, state : {"open", "delivered", "cancelled"}, want : Wants,
   holder : Agents \cup {None}]
ShareRecord == [req : Jobs \cup {None}, state : States, live : BOOLEAN, want : Wants]

\* What a call has in hand at each of its points; f is the share's records.
Sane(r, f) ==
  /\ r.pc = "idle" => r = Idle
  /\ r.pc # "idle" => r.job \in Jobs
  /\ r.pc \in HasRecord => r.id \in Ids /\ f[r.id].req = r.job
  /\ r.pc \in {"create", "copy"} => r.bytes \in Artifacts
  /\ r.file # None <=> r.pc = "copy"
  /\ r.pc # "remove" => r.met = {}

\* Records are of some job; who works on one holds its lease.
FarSide ==
  /\ \A i \in Ids : Known(i) => far[i].req \in Jobs
  /\ \A i \in Ids : work[i] # "off" =>
       far[i].live /\ far[i].state = IF work[i] = "release" THEN "transferred" ELSE "running"
  /\ \A q \in Jobs :
       /\ loc[q].ext \in Jobs => loc[q].ext = q
       /\ loc[q].ext \in Ids => far[loc[q].ext].req = q

\* Who goes to remove the file saw that nobody else counted on it.
LookedWell ==
  \A a \in Agents : At(a, "remove") =>
    \A j \in agent[a].met \ {agent[a].id} : far[j].state \in {"failed", "cancelled"}

Calls ==
  /\ TypeOK /\ agent \in [Agents -> AgentRecord]
  /\ \A a \in Agents : Sane(agent[a], far)
  /\ FarSide /\ LookedWell

-----------------------------------------------------------------------------
(* While nobody stalls past a lease.                                        *)

\* Who is in a call holds the lease of its job, which is open, and the record
\* names what the call is about.
Attended ==
  \A a \in Agents : ~At(a, "idle") =>
    /\ loc[Job(a)].holder = a /\ loc[Job(a)].state = "open" /\ ~agent[a].drop
    /\ loc[Job(a)].ext =
         IF agent[a].pc \in {"start", "locate", "record"} THEN Job(a) ELSE agent[a].id

\* No two names are one file, and who copies has the file of its job's .partial,
\* which nobody else writes.
OwnFiles ==
  /\ \A q, r \in Jobs : dest[q] = None \/ dest[q] # tmp[r]
  /\ \A q, r \in Jobs : q # r =>
       /\ dest[q] = None \/ dest[q] # dest[r]
       /\ tmp[q] = None \/ tmp[q] # tmp[r]
  /\ \A a \in Agents : At(a, "copy") =>
       /\ agent[a].file = tmp[Job(a)]
       /\ \A n \in 1..(Blocks - agent[a].left) : data[agent[a].file][n] = agent[a].bytes

\* The hash that was taken is still that of the file.
Verified ==
  Digest => \A a \in Agents : At(a, "deliver") /\ agent[a].over => Whole(Job(a))

Soundness == InTime => Attended /\ OwnFiles /\ NeverShort /\ RightBytes /\ Verified

-----------------------------------------------------------------------------
(* One record for a request.                                                *)

UnderwayOf(q) == {i \in Ids : far[i].req = q /\ Underway(i)}

\* Without a lost answer or a crash nobody has to ask what became of a handoff.
Undoubted ==
  InTime /\ {"lost", "crash"} \cap faults.seen = {} =>
    /\ \A a \in Agents : At(a, "locate") => "unmount" \in faults.seen
    /\ \A q \in Jobs : loc[q].ext = q /\ loc[q].holder = None => "unmount" \in faults.seen

\* What there may be over there of job q, by what the record and the call say.
Sole(q) ==
  /\ \A i, j \in UnderwayOf(q) : i = j
  /\ loc[q].ext = None => UnderwayOf(q) = {}
  /\ loc[q].ext \in Ids => UnderwayOf(q) \subseteq {loc[q].ext}
  /\ \A a \in Agents : Job(a) = q =>
       /\ At(a, "start") => UnderwayOf(q) = {}
       /\ At(a, "record") => UnderwayOf(q) \subseteq {agent[a].id}

\* Whoever fetches, fetches what has arrived.
Fetches ==
  \A a \in Agents :
    agent[a].pc \in {"open", "create", "copy", "acknowledge", "verify", "deliver"} =>
      ~Underway(agent[a].id)

OneRecord ==
  /\ "unmount" \notin faults.seen => up
  /\ InTime => Fetches
  /\ Undoubted
  /\ \A q \in Jobs : Findable(q) => Sole(q)

NasInv == Calls /\ Soundness /\ OneRecord
=============================================================================
