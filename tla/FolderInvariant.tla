--------------------------- MODULE FolderInvariant ---------------------------
(***************************************************************************)
(* Why DropFolder takes a request once and tells the truth about it, with  *)
(* any number of supervisors, as long as nobody saves a text under a name  *)
(* that is being answered: the invariant DirectoryProofs shows to be       *)
(* inductive.                                                              *)
(***************************************************************************)
EXTENDS DropFolder

\* Every file there is, and everybody at work, has a text.
Worded ==
  /\ \A n \in Names : There(n) => folder[n].text \in Texts
  /\ \A s \in Supervisors : ~Doing(s, "idle") => sup[s].text \in Texts

\* One text was ever put, and everything there is comes from it.
OneText ==
  /\ \A t \in Texts : saved[t] # "replaced" /\ (saved[t] = "no" => JobsOf(t) = {})
  /\ \A t, u \in Texts : saved[t] = "yes" /\ saved[u] = "yes" => t = u
  /\ \A n \in Names : There(n) => saved[folder[n].text] = "yes"
  /\ \A s \in Supervisors : ~Doing(s, "idle") => saved[sup[s].text] = "yes"

\* Whoever renamed the request submits its lines, and nobody else ever does.
OneTaker ==
  /\ \A s, r \in Supervisors : Doing(s, "submit") /\ Doing(r, "submit") => s = r
  /\ There("new") =>
       /\ \A s \in Supervisors : ~Doing(s, "submit")
       /\ \A t \in Texts : JobsOf(t) = {}
  /\ \A s \in Supervisors : Doing(s, "accept") => sup[s].left = Lines[sup[s].text] /\ sup[s].ids = {}
  /\ \A s \in Supervisors :
       Doing(s, "submit") =>
         /\ Cardinality(JobsOf(sup[s].text)) + sup[s].left <= Lines[sup[s].text]
         /\ sup[s].ids = JobsOf(sup[s].text)
  /\ \A t \in Texts : IsFiniteSet(JobsOf(t)) /\ Cardinality(JobsOf(t)) <= Lines[t]

\* Jobs that are named anywhere are all that were made of the text.
Named(ids, t) ==
  ids # {} => ids = JobsOf(t) /\ \A s \in Supervisors : ~Doing(s, "submit")

AllDelivered(ids) == ids # {} /\ \A i \in ids : Delivered(i)

\* An answer is written before the name it replaces is removed, and says what
\* the jobs said.
Answers ==
  /\ \A n \in Names : Named(folder[n].jobs, folder[n].text)
  /\ There("done") => AllDelivered(folder["done"].jobs)
  /\ \A s \in Supervisors :
       /\ sup[s].pc \in {"write", "remove", "rewrite"} => Named(sup[s].ids, sup[s].text)
       /\ sup[s].pc \in {"write", "remove"} =>
            /\ sup[s].from \in {"new", "accepted"} /\ sup[s].to \in {"refused", "done", "failed"}
            /\ sup[s].to = "done" => AllDelivered(sup[s].ids)
       /\ Doing(s, "remove") => There(sup[s].to)

FolderInv ==
  FolderTypeOK /\ Worded /\ (Untouched => OneText /\ OneTaker /\ Answers /\ TextKept)
=============================================================================
