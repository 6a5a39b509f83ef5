----------------------------- MODULE DropFolder -----------------------------
(***************************************************************************)
(* The drop folder (go/wanted.go): a text file put in wanted/ is a         *)
(* request and the folder answers by renaming it.  One name of the folder, *)
(* the files whose names are that name and an answer, the jobs made of     *)
(* what was asked, and the supervisors that sweep the folder: TakeIn for   *)
(* new files, Answer for accepted ones.                                    *)
(*                                                                         *)
(* A text is what one save of the file holds; what its lines say is        *)
(* reduced to what becomes of them.  A supervisor's step is one call of    *)
(* the file system or of the store.                                        *)
(***************************************************************************)
EXTENDS Disturbances, FiniteSets

CONSTANTS
  Texts,       \* what a person saves, each once
  Reads,       \* Reads[t]: "work", "nonsense" or "big"
  Lines,       \* Lines[t]: downloads t asks for
  Supervisors,
  Downloads,   \* ids: a bound on the downloads submitted
  NoText

ASSUME FolderAssumption ==
  /\ Reads \in [Texts -> {"work", "nonsense", "big"}]
  /\ Lines \in [Texts -> Nat \ {0}]
  /\ MaxFaults \in Nat
  /\ NoText \notin Texts \cup Downloads

VARIABLES
  folder, \* folder[n]: the file of that name, a text and the jobs it names
  jobs,   \* jobs[i]: whose text's it is, and its state
  sup,    \* where each supervisor is in its sweep
  saved   \* what became of each text: not saved, saved, or replaced by its writer

folderVars == <<folder, jobs, sup, saved, faults>>

\* The name as it was put, and with each of the answers.
Names == {"new", "accepted", "done", "failed", "refused"}

File(t, ids) == [text |-> t, jobs |-> ids]
Nothing      == File(NoText, {})
NoJob        == [text |-> NoText, state |-> "pending"]

Rest == [pc |-> "idle", text |-> NoText, left |-> 0, ids |-> {}, from |-> "new", to |-> "new"]

Doing(s, pc)  == sup[s].pc = pc
Becomes(s, r) == sup' = [sup EXCEPT ![s] = r]
Moves(s, pc)  == Becomes(s, [sup[s] EXCEPT !.pc = pc])
There(n)      == folder[n] # Nothing

-----------------------------------------------------------------------------
(* TakeIn.                                                                  *)

\* Stat, ReadFile and ParseWanted.
Read(s) ==
  /\ Doing(s, "idle") /\ There("new")
  /\ LET t == folder["new"].text IN
       Becomes(s, [Rest EXCEPT !.text = t, !.left = Lines[t],
                       !.pc = CASE Reads[t] = "work" -> "accept"
                                [] Reads[t] = "big"  -> "shelve"
                                [] OTHER             -> "write",
                       !.to = IF Reads[t] = "nonsense" THEN "refused" ELSE "new"])
  /\ UNCHANGED <<folder, jobs, saved, faults>>

Renamed(from, to) ==
  [folder EXCEPT ![to] = IF There(from) THEN folder[from] ELSE @, ![from] = Nothing]

\* An oversized file is renamed unread.
Shelve(s) ==
  /\ Doing(s, "shelve")
  /\ folder' = Renamed("new", "refused")
  /\ Becomes(s, Rest)
  /\ UNCHANGED <<jobs, saved, faults>>

\* Mutant: the file is renamed once its jobs are made.
AcceptLater(s) ==
  /\ Doing(s, "accept")
  /\ Moves(s, "submit")
  /\ UNCHANGED <<folder, jobs, saved, faults>>

\* The rename is what decides who takes the request.
Accept(s) ==
  /\ Doing(s, "accept")
  /\ folder' = Renamed("new", "accepted")
  /\ IF There("new") THEN Moves(s, "submit") ELSE Becomes(s, Rest)
  /\ UNCHANGED <<jobs, saved, faults>>

\* Mutant: what was submitted so far is written down at once.
SubmitTold(s) ==
  /\ Doing(s, "submit") /\ sup[s].left > 0
  /\ \E i \in Downloads :
       /\ jobs[i] = NoJob
       /\ jobs' = [jobs EXCEPT ![i].text = sup[s].text]
       /\ Becomes(s, [sup[s] EXCEPT !.left = @ - 1, !.ids = @ \cup {i}])
       /\ folder' = [folder EXCEPT !["accepted"] = File(sup[s].text, sup[s].ids \cup {i})]
  /\ UNCHANGED <<saved, faults>>

\* A line is a job; one that is refused, or that the ids have run out for, is not.
Submit(s) ==
  /\ Doing(s, "submit") /\ sup[s].left > 0
  /\ \/ \E i \in Downloads :
          /\ jobs[i] = NoJob
          /\ jobs' = [jobs EXCEPT ![i].text = sup[s].text]
          /\ Becomes(s, [sup[s] EXCEPT !.left = @ - 1, !.ids = @ \cup {i}])
          /\ UNCHANGED faults
     \/ /\ Disturb("refuse") \/ (UNCHANGED faults /\ \A i \in Downloads : jobs[i] # NoJob)
        /\ UNCHANGED jobs
        /\ Becomes(s, [sup[s] EXCEPT !.left = @ - 1])
  /\ UNCHANGED <<folder, saved>>

\* The jobs are written where the request is; none is a refusal.
Submitted(s) ==
  /\ Doing(s, "submit") /\ sup[s].left = 0
  /\ IF sup[s].ids = {}
     THEN /\ Becomes(s, [sup[s] EXCEPT !.pc = "write", !.from = "accepted", !.to = "refused"])
          /\ UNCHANGED folder
     ELSE /\ folder' = [folder EXCEPT !["accepted"] = File(sup[s].text, sup[s].ids)]
          /\ Becomes(s, Rest)
  /\ UNCHANGED <<jobs, saved, faults>>

-----------------------------------------------------------------------------
(* answer: the new name is written, then the old one removed.               *)

\* Mutant: the old name goes first.
RemoveFirst(s) ==
  /\ Doing(s, "write")
  /\ folder' = [folder EXCEPT ![sup[s].from] = Nothing]
  /\ Moves(s, "remove")
  /\ UNCHANGED <<jobs, saved, faults>>

Write(s) ==
  /\ Doing(s, "write")
  /\ folder' = [folder EXCEPT ![sup[s].to] = File(sup[s].text, sup[s].ids)]
  /\ Moves(s, "remove")
  /\ UNCHANGED <<jobs, saved, faults>>

Remove(s) ==
  /\ Doing(s, "remove")
  /\ folder' = [folder EXCEPT ![sup[s].from] = Nothing]
  /\ Becomes(s, Rest)
  /\ UNCHANGED <<jobs, saved, faults>>

-----------------------------------------------------------------------------
(* Answer: every accepted request is followed.                              *)

Delivered(i) == jobs[i].state = "delivered"
Ended(i)     == jobs[i].state # "pending"

\* Mutant: a request that names no job is left for its taker.
VerdictLater(ids) ==
  IF ids # {} /\ \A i \in ids : Delivered(i) THEN "done"
  ELSE IF ids # {} /\ \A i \in ids : Ended(i) THEN "failed" ELSE "accepted"

Verdict(ids) ==
  IF ids = {} THEN "refused"
  ELSE IF \A i \in ids : Delivered(i) THEN "done"
  ELSE IF \A i \in ids : Ended(i) THEN "failed" ELSE "accepted"

\* The file is read and each of its jobs loaded.
Follow(s) ==
  /\ Doing(s, "idle") /\ There("accepted")
  /\ Becomes(s, [Rest EXCEPT !.pc = IF Verdict(folder["accepted"].jobs) = "accepted"
                                      THEN "rewrite" ELSE "write",
                           !.text = folder["accepted"].text, !.ids = folder["accepted"].jobs,
                           !.from = "accepted", !.to = Verdict(folder["accepted"].jobs)])
  /\ UNCHANGED <<folder, jobs, saved, faults>>

\* Progress is written if it says something new.
Rewrite(s) ==
  /\ Doing(s, "rewrite")
  /\ \/ UNCHANGED folder
     \/ folder' = [folder EXCEPT !["accepted"] = File(sup[s].text, sup[s].ids)]
  /\ Becomes(s, Rest)
  /\ UNCHANGED <<jobs, saved, faults>>

-----------------------------------------------------------------------------
(* Around it.                                                               *)

\* A new request.
Put(t) ==
  /\ saved[t] = "no" /\ \A n \in Names : ~There(n)
  /\ folder' = [folder EXCEPT !["new"] = File(t, {})]
  /\ saved' = [saved EXCEPT ![t] = "yes"]
  /\ UNCHANGED <<jobs, sup, faults>>

\* The file is edited and saved again before it is answered.
Edit(t) ==
  /\ saved[t] = "no" /\ There("new") /\ Disturb("edit")
  /\ folder' = [folder EXCEPT !["new"] = File(t, {})]
  /\ saved' = [saved EXCEPT ![t] = "yes", ![folder["new"].text] = "replaced"]
  /\ UNCHANGED <<jobs, sup>>

\* A refused request is corrected and renamed back.
Retry(t) ==
  /\ saved[t] = "no" /\ There("refused") /\ ~There("new") /\ Disturb("again")
  /\ folder' = [folder EXCEPT !["new"] = File(t, {}), !["refused"] = Nothing]
  /\ saved' = [saved EXCEPT ![t] = "yes", ![folder["refused"].text] = "replaced"]
  /\ UNCHANGED <<jobs, sup>>

\* The runner brings a job to its end.
JobEnds(i) ==
  /\ jobs[i].text # NoText /\ jobs[i].state = "pending"
  /\ \E e \in {"delivered", "failed"} : jobs' = [jobs EXCEPT ![i].state = e]
  /\ UNCHANGED <<folder, sup, saved, faults>>

Crash(s) ==
  /\ ~Doing(s, "idle") /\ Disturb("crash")
  /\ Becomes(s, Rest)
  /\ UNCHANGED <<folder, jobs, saved>>

FolderInit ==
  /\ folder = [n \in Names |-> Nothing]
  /\ jobs = [i \in Downloads |-> NoJob]
  /\ sup = [s \in Supervisors |-> Rest]
  /\ saved = [t \in Texts |-> "no"]
  /\ faults = [left |-> MaxFaults, seen |-> {}]

TakeIn(s) == Read(s) \/ Shelve(s) \/ Accept(s) \/ Submit(s) \/ Submitted(s) \/ Write(s) \/ Remove(s)
Answer(s) == Follow(s) \/ Rewrite(s)

FolderNext ==
  \/ \E s \in Supervisors : TakeIn(s) \/ Answer(s) \/ Crash(s)
  \/ \E t \in Texts : Put(t) \/ Edit(t) \/ Retry(t)
  \/ \E i \in Downloads : JobEnds(i)

FolderSpec == FolderInit /\ [][FolderNext]_folderVars

\* Supervisors sweep again and again: TakeIn and Answer each get their turn.
SweepSpec ==
  /\ FolderSpec
  /\ \A s \in Supervisors :
       /\ WF_folderVars(Shelve(s) \/ Accept(s) \/ Submit(s) \/ Submitted(s) \/ Write(s) \/ Remove(s)
                         \/ Rewrite(s))
       /\ SF_folderVars(Read(s)) /\ SF_folderVars(Follow(s))

\* And jobs end.
FolderFairSpec == SweepSpec /\ \A i \in Downloads : WF_folderVars(JobEnds(i))
-----------------------------------------------------------------------------
FolderTypeOK ==
  /\ folder \in [Names -> [text : Texts \cup {NoText}, jobs : SUBSET Downloads]]
  /\ jobs \in [Downloads -> [text : Texts \cup {NoText}, state : {"pending", "delivered", "failed"}]]
  /\ sup \in [Supervisors ->
       [pc : {"idle", "accept", "shelve", "submit", "write", "remove", "rewrite"},
        text : Texts \cup {NoText}, left : Nat, ids : SUBSET Downloads, from : Names, to : Names]]
  /\ saved \in [Texts -> {"no", "yes", "replaced"}]
  /\ faults \in [left : 0..MaxFaults, seen : SUBSET Kinds]

JobsOf(t) == {i \in Downloads : jobs[i].text = t}

\* Nobody saved a text under a name that was being answered.
Untouched == faults.seen \cap {"edit", "again"} = {}

\* No line of a request is submitted twice, though several supervisors sweep the
\* folder and die in the middle of it: the rename decides, as long as what is
\* renamed is what was read.
TakenOnce == Untouched => \A t \in Texts : Cardinality(JobsOf(t)) <= Lines[t]

\* A request is not lost: a crash leaves it visible twice rather than gone, and
\* only a save under a name that is being answered can take one away.
TextKept ==
  Untouched =>
    \A t \in Texts : saved[t] = "yes" => \E n \in Names : folder[n].text = t

\* .done is said of a request all of whose jobs have delivered, those included
\* that its file does not name yet [DL-W4].
DoneIsDelivered ==
  Untouched /\ There("done") => \A i \in JobsOf(folder["done"].text) : Delivered(i)

\* What the folder shows of a request is true: its text is there under some name,
\* and .done where everything it asked for is.
FolderTrue == FolderTypeOK /\ TextKept /\ DoneIsDelivered

\* Every request is answered in the end, whoever died in the middle of it.
Answered ==
  (There("new") \/ There("accepted")) ~> (~There("new") /\ ~There("accepted"))
=============================================================================
