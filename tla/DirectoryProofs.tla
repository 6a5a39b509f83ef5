--------------------------- MODULE DirectoryProofs ---------------------------
(***************************************************************************)
(* The two protocols whose state is a directory that several machines      *)
(* reach, for any number of them.  The drop folder takes a request once    *)
(* and answers it truly; a share another machine fetches to holds one      *)
(* record for a request, is delivered from whole and keeps what is not     *)
(* this machine's to remove.  Nothing but Disturbances is common to them.  *)
(***************************************************************************)
EXTENDS FolderInvariant, NasInvariant, FiniteSetTheorems, TLAPS

-----------------------------------------------------------------------------
(* The drop folder.                                                         *)

Place == [text : Texts \cup {NoText}, jobs : SUBSET Downloads]
Turn ==
  [pc : {"idle", "accept", "shelve", "submit", "write", "remove", "rewrite"},
   text : Texts \cup {NoText}, left : Nat, ids : SUBSET Downloads, from : Names, to : Names]

LEMMA BecomesIs ==
  ASSUME FolderTypeOK, NEW s \in Supervisors, NEW r, Becomes(s, r)
  PROVE  /\ sup'[s] = r /\ \A q \in Supervisors \ {s} : sup'[q] = sup[q]
         /\ r \in Turn => sup' \in [Supervisors -> Turn]
BY DEF FolderTypeOK, Becomes, Turn

LEMMA RestIs == Rest \in Turn /\ Rest.pc = "idle"
BY DEF Rest, Turn, Names

LEMMA FileIs ==
  ASSUME NEW t, NEW ids
  PROVE  /\ File(t, ids).text = t /\ File(t, ids).jobs = ids
         /\ t # NoText => File(t, ids) # Nothing
         /\ t \in Texts \cup {NoText} /\ ids \in SUBSET Downloads => File(t, ids) \in Place
BY DEF File, Nothing, Place

LEMMA NothingIs == Nothing \in Place /\ Nothing.jobs = {} /\ Nothing.text = NoText
BY DEF Nothing, File, Place

LEMMA FaultIs ==
  ASSUME FolderTypeOK, NEW k, Disturb(k)
  PROVE  /\ faults' \in [left : 0..MaxFaults, seen : SUBSET Kinds]
         /\ faults'.seen = faults.seen \cup {k}
BY FolderAssumption DEF FolderTypeOK, Disturb

LEMMA TypeIs ==
  FolderTypeOK <=>
    /\ folder \in [Names -> Place]
    /\ jobs \in [Downloads -> [text : Texts \cup {NoText}, state : {"pending", "delivered", "failed"}]]
    /\ sup \in [Supervisors -> Turn]
    /\ saved \in [Texts -> {"no", "yes", "replaced"}]
    /\ faults \in [left : 0..MaxFaults, seen : SUBSET Kinds]
BY DEF FolderTypeOK, Place, Turn

\* Nobody begins to submit, and no job is made of another text.
Steady(s) ==
  /\ \A t : JobsOf(t)' = JobsOf(t)
  /\ \A q \in Supervisors \ {s} : sup'[q] = sup[q]
  /\ sup'[s].pc # "submit"
  /\ sup'[s].pc = "accept" =>
       sup'[s].left = Lines[sup'[s].text] /\ sup'[s].ids = {}

\* All jobs are named once s has ended submitting.
NamedBut(s, ids, t) ==
  ids # {} => ids = JobsOf(t) /\ \A q \in Supervisors \ {s} : ~Doing(q, "submit")

LEMMA NamedAll ==
  ASSUME NEW s, NEW ids, NEW t, Named(ids, t)
  PROVE  NamedBut(s, ids, t)
BY DEF Named, NamedBut

LEMMA TakerStays ==
  ASSUME OneTaker, NEW s \in Supervisors, Steady(s), There("new")' => There("new")
  PROVE  OneTaker'
BY DEF OneTaker, Doing, There, Steady

LEMMA SameJobs == ASSUME jobs' = jobs PROVE \A t : JobsOf(t)' = JobsOf(t)
BY DEF JobsOf

\* One supervisor's step that makes no job, and the file it leaves at each name.
LEMMA Changes ==
  ASSUME FolderInv, NEW s \in Supervisors, Steady(s), Untouched,
         FolderTypeOK', Worded', UNCHANGED <<jobs, saved>>, There("new")' => There("new"),
         \A n \in Names : There(n)' => saved[folder'[n].text] = "yes",
         sup'[s].pc # "idle" => saved[sup'[s].text] = "yes",
         \A n \in Names : NamedBut(s, folder'[n].jobs, folder'[n].text),
         There("done")' => AllDelivered(folder'["done"].jobs),
         sup'[s].pc \in {"write", "remove", "rewrite"} => NamedBut(s, sup'[s].ids, sup'[s].text),
         sup'[s].pc \in {"write", "remove"} =>
           /\ sup'[s].from \in {"new", "accepted"} /\ sup'[s].to \in {"refused", "done", "failed"}
           /\ sup'[s].to = "done" => AllDelivered(sup'[s].ids),
         \A q \in Supervisors : Doing(q, "remove")' => There(sup[q].to)',
         TextKept'
  PROVE  OneText' /\ OneTaker' /\ Answers' /\ TextKept'
<1>1. OneTaker'
  BY TakerStays DEF FolderInv
<1>2. OneText'
  BY DEF FolderInv, OneText, Steady, Doing
<1>3. \A n \in Names : Named(folder[n].jobs, folder[n].text)'
  BY DEF Named, NamedBut, Steady, Doing
<1>4. (There("done") => AllDelivered(folder["done"].jobs))'
  BY DEF AllDelivered, Delivered, There
<1>5. ASSUME NEW q \in Supervisors
      PROVE  /\ sup'[q].pc \in {"write", "remove", "rewrite"} =>
                   Named(sup[q].ids, sup[q].text)'
             /\ sup'[q].pc \in {"write", "remove"} =>
                   /\ sup'[q].from \in {"new", "accepted"}
                   /\ sup'[q].to \in {"refused", "done", "failed"}
                   /\ sup'[q].to = "done" => AllDelivered(sup[q].ids)'
  <2>1. CASE q # s
    BY <2>1 DEF FolderInv, Answers, Steady, Named, NamedBut, AllDelivered, Delivered, Doing
  <2>2. CASE q = s
    BY <2>2 DEF Steady, Named, NamedBut, AllDelivered, Delivered, Doing
  <2> QED
    BY <2>1, <2>2
<1>6. Answers'
  BY <1>3, <1>4, <1>5 DEF Answers, Named, AllDelivered, Delivered, JobsOf, Doing, There
<1> QED
  BY <1>1, <1>2, <1>6

\* A supervisor goes on as r and leaves the folder as it is.
LEMMA Turns ==
  ASSUME FolderInv, NEW s \in Supervisors, NEW r \in Turn, Becomes(s, r),
         UNCHANGED <<folder, jobs, saved>>,
         faults' \in [left : 0..MaxFaults, seen : SUBSET Kinds], Untouched' => Untouched,
         r.pc \notin {"submit", "remove"},
         r.pc # "idle" => r.text \in Texts,
         r.pc = "accept" => r.left = Lines[r.text] /\ r.ids = {},
         Untouched =>
           /\ r.pc # "idle" => saved[r.text] = "yes"
           /\ r.pc \in {"write", "rewrite"} => Named(r.ids, r.text)
           /\ r.pc = "write" =>
                /\ r.from \in {"new", "accepted"} /\ r.to \in {"refused", "done", "failed"}
                /\ r.to = "done" => AllDelivered(r.ids)
  PROVE  FolderInv'
<1>1. /\ sup'[s] = r /\ (\A q \in Supervisors \ {s} : sup'[q] = sup[q])
      /\ sup' \in [Supervisors -> Turn] /\ FolderTypeOK
  BY BecomesIs DEF FolderInv
<1>2. FolderTypeOK'
  BY <1>1, TypeIs DEF FolderTypeOK, Turn
<1>3. Worded'
  BY <1>1 DEF FolderInv, Worded, Doing, There
<1>4. ASSUME Untouched' PROVE OneText' /\ OneTaker' /\ Answers' /\ TextKept'
  <2>1. Untouched
    BY <1>4
  <2>2. Steady(s)
    BY <1>1, SameJobs DEF Steady
  <2>3. \A q \in Supervisors : Doing(q, "remove")' => There(sup[q].to)'
    BY <1>1, <2>1 DEF FolderInv, Answers, Doing, There
  <2>4. TextKept' /\ (There("new")' => There("new"))
    BY <2>1 DEF FolderInv, TextKept, There
  <2>5. \A n \in Names : There(n)' => saved[folder'[n].text] = "yes"
    BY <2>1 DEF FolderInv, OneText, There
  <2>6. /\ \A n \in Names : Named(folder'[n].jobs, folder'[n].text)
        /\ There("done")' => AllDelivered(folder'["done"].jobs)
    BY <2>1 DEF FolderInv, Answers, There
  <2> QED
    BY <1>1, <1>2, <1>3, <2>1, <2>2, <2>3, <2>4, <2>5, <2>6, NamedAll, Changes
<1> QED
  BY <1>2, <1>3, <1>4 DEF FolderInv

LEMMA ReadStep ==
  ASSUME FolderInv, NEW s \in Supervisors, Read(s)
  PROVE  FolderInv'
<1> DEFINE t == folder["new"].text
           r == [Rest EXCEPT !.text = t, !.left = Lines[t],
                    !.pc = CASE Reads[t] = "work" -> "accept"
                             [] Reads[t] = "big"  -> "shelve"
                             [] OTHER             -> "write",
                    !.to = IF Reads[t] = "nonsense" THEN "refused" ELSE "new"]
<1>1. /\ r.text = t /\ r.left = Lines[t] /\ r.ids = {} /\ r.from = "new"
      /\ r.pc \in {"accept", "shelve", "write"}
  BY DEF Rest
<1>2. There("new") /\ Becomes(s, r) /\ UNCHANGED <<folder, jobs, saved, faults>>
  BY DEF Read
<1>3. t \in Texts /\ faults' \in [left : 0..MaxFaults, seen : SUBSET Kinds]
  BY <1>2 DEF FolderInv, Worded, Names, FolderTypeOK
<1>4. r \in Turn
  BY <1>3, FolderAssumption DEF Rest, Turn, Names
<1>5. r.pc = "write" => r.to = "refused"
  BY <1>3, FolderAssumption DEF Rest
<1>6. Untouched => saved[t] = "yes"
  BY <1>2 DEF FolderInv, OneText, Names
<1>7. Untouched' => Untouched
  BY <1>2 DEF Untouched
<1>8. Named({}, t)
  BY DEF Named
<1> HIDE DEF r, t
<1> QED
  BY <1>1, <1>2, <1>3, <1>4, <1>5, <1>6, <1>7, <1>8, Turns

\* A file is moved from the name it was put under.
LEMMA RenamedIs ==
  ASSUME FolderTypeOK, NEW to \in Names \ {"new"}, folder' = Renamed("new", to)
  PROVE  /\ folder' \in [Names -> Place]
         /\ ~There("new")'
         /\ folder'[to] = IF There("new") THEN folder["new"] ELSE folder[to]
         /\ \A n \in Names \ {"new", to} : folder'[n] = folder[n]
<1>1. "new" \in Names /\ folder \in [Names -> Place] /\ Nothing \in Place
  BY TypeIs, NothingIs DEF Names
<1> QED
  BY <1>1 DEF Renamed, There

LEMMA RenamedKeeps ==
  ASSUME FolderInv, Untouched, NEW to \in Names \ {"new"}, folder' = Renamed("new", to),
         saved' = saved
  PROVE  TextKept'
<1> SUFFICES ASSUME NEW u \in Texts, saved[u] = "yes"
             PROVE  \E n \in Names : folder'[n].text = u
  BY DEF TextKept
<1>0. /\ folder'[to] = IF There("new") THEN folder["new"] ELSE folder[to]
      /\ \A n \in Names \ {"new", to} : folder'[n] = folder[n]
  BY RenamedIs DEF FolderInv
<1>1. PICK n \in Names : folder[n].text = u
  BY DEF FolderInv, TextKept
<1>2. There(n) /\ "new" \in Names
  BY <1>1, NothingIs, FolderAssumption DEF There, Names
<1>3. n # to \/ ~There("new") \/ folder["new"].text = u
  BY <1>1, <1>2 DEF FolderInv, OneText, Worded
<1> QED
  BY <1>0, <1>1, <1>2, <1>3 DEF There

LEMMA ShelveStep ==
  ASSUME FolderInv, NEW s \in Supervisors, Shelve(s)
  PROVE  FolderInv'
<1>1. /\ folder' = Renamed("new", "refused") /\ Becomes(s, Rest) /\ Doing(s, "shelve")
      /\ UNCHANGED <<jobs, saved, faults>> /\ FolderTypeOK
  BY DEF Shelve, FolderInv
<1>2. "refused" \in Names \ {"new"} /\ "new" \in Names /\ "done" \in Names
  BY DEF Names
<1>3. /\ folder' \in [Names -> Place] /\ ~There("new")'
      /\ folder'["refused"] = IF There("new") THEN folder["new"] ELSE folder["refused"]
      /\ \A n \in Names \ {"new", "refused"} : folder'[n] = folder[n]
  BY <1>1, <1>2, RenamedIs
<1>4. /\ sup'[s].pc = "idle" /\ (\A q \in Supervisors \ {s} : sup'[q] = sup[q])
      /\ sup' \in [Supervisors -> Turn]
  BY <1>1, BecomesIs, RestIs
<1>5. FolderTypeOK'
  BY <1>1, <1>3, <1>4, TypeIs DEF FolderTypeOK, Turn, Place
<1>6. folder'["new"] = Nothing
  BY <1>3 DEF There
<1>7. \A n \in Names : \E m \in Names : folder'[n] \in {folder[m], Nothing} /\ (n = "done" => m = n)
  BY <1>2, <1>3, <1>6
<1>8. Worded'
  BY <1>3, <1>4, <1>7 DEF FolderInv, Worded, Doing, There
<1>9. ASSUME Untouched' PROVE OneText' /\ OneTaker' /\ Answers' /\ TextKept'
  <2>1. Untouched
    BY <1>1, <1>9 DEF Untouched
  <2>2. Steady(s)
    BY <1>1, <1>4, SameJobs DEF Steady
  <2>3. \A n \in Names : There(n)' => saved[folder'[n].text] = "yes"
    BY <1>7, <2>1 DEF FolderInv, OneText, There
  <2>4. /\ \A n \in Names : Named(folder'[n].jobs, folder'[n].text)
        /\ There("done")' => AllDelivered(folder'["done"].jobs)
    <3>1. Named(Nothing.jobs, Nothing.text)
      BY NothingIs DEF Named
    <3> QED
      BY <1>2, <1>3, <1>7, <2>1, <3>1 DEF FolderInv, Answers, There
  <2>5. \A q \in Supervisors : Doing(q, "remove")' => There(sup[q].to)'
    <3>1. \A n \in {"refused", "done", "failed"} : There(n) => There(n)'
      BY <1>3 DEF There, Names
    <3> QED
      BY <1>4, <2>1, <3>1 DEF FolderInv, Answers, Doing, There
  <2>6. TextKept'
    BY <1>1, <1>2, <2>1, RenamedKeeps
  <2> QED
    BY <1>1, <1>3, <1>4, <1>5, <1>8, <2>1, <2>2, <2>3, <2>4, <2>5, <2>6, NamedAll, Changes
<1> QED
  BY <1>5, <1>8, <1>9 DEF FolderInv

\* A supervisor at work leaves file f at name n and goes on as r.
LEMMA Leaves ==
  ASSUME FolderInv, NEW s \in Supervisors, NEW r \in Turn, Becomes(s, r), ~Doing(s, "idle"),
         NEW n \in Names, NEW f \in Place, folder' = [folder EXCEPT ![n] = f],
         UNCHANGED <<jobs, saved, faults>>,
         f = Nothing \/ f.text = sup[s].text,
         r.pc # "idle" => r.text = sup[s].text,
         r.pc \notin {"submit", "accept"},
         Untouched =>
           /\ NamedBut(s, f.jobs, f.text)
           /\ n = "done" => AllDelivered(f.jobs)
           /\ r.pc \in {"write", "remove", "rewrite"} => NamedBut(s, r.ids, r.text)
           /\ r.pc \in {"write", "remove"} =>
                /\ r.from \in {"new", "accepted"} /\ r.to \in {"refused", "done", "failed"}
                /\ r.to = "done" => AllDelivered(r.ids)
           /\ r.pc = "remove" => r.to = n /\ f # Nothing
           /\ f # Nothing => n # "new"
           /\ f = Nothing =>
                n \in {"new", "accepted"} /\ \E m \in Names \ {n} : There(m)
  PROVE  FolderInv'
<1>1. /\ folder'[n] = f /\ (\A m \in Names \ {n} : folder'[m] = folder[m])
      /\ folder' \in [Names -> Place] /\ FolderTypeOK
  BY TypeIs DEF FolderInv
<1>2. /\ sup'[s] = r /\ (\A q \in Supervisors \ {s} : sup'[q] = sup[q])
      /\ sup' \in [Supervisors -> Turn]
  BY <1>1, BecomesIs
<1>3. FolderTypeOK'
  BY <1>1, <1>2, TypeIs DEF FolderTypeOK, Turn, Place
<1>4. sup[s].text \in Texts
  BY DEF FolderInv, Worded
<1>5. Worded'
  BY <1>1, <1>2, <1>4 DEF FolderInv, Worded, Doing, There
<1>6. ASSUME Untouched' PROVE OneText' /\ OneTaker' /\ Answers' /\ TextKept'
  <2>1. Untouched
    BY <1>6 DEF Untouched
  <2>2. Steady(s)
    BY <1>2, SameJobs DEF Steady
  <2>3. saved[sup[s].text] = "yes"
    BY <2>1 DEF FolderInv, OneText
  <2>4. \A m \in Names : There(m)' => saved[folder'[m].text] = "yes"
    BY <1>1, <2>1, <2>3 DEF FolderInv, OneText, There
  <2>5. /\ \A m \in Names : NamedBut(s, folder'[m].jobs, folder'[m].text)
        /\ There("done")' => AllDelivered(folder'["done"].jobs)
    BY <1>1, <2>1, NamedAll DEF FolderInv, Answers, There, Names
  <2>6. ASSUME NEW q \in Supervisors, Doing(q, "remove")' PROVE There(sup[q].to)'
    <3>1. CASE q = s
      BY <1>1, <1>2, <2>1, <2>6, <3>1 DEF Doing, There
    <3>2. CASE q # s
      <4>1. /\ sup'[q] = sup[q] /\ Doing(q, "remove")
            /\ sup[q].to \in {"refused", "done", "failed"} /\ There(sup[q].to)
        BY <1>2, <2>1, <2>6, <3>2 DEF FolderInv, Answers, Doing
      <4> QED
        BY <1>1, <2>1, <4>1 DEF There, Names
    <3> QED
      BY <3>1, <3>2
  <2>7. ASSUME NEW u \in Texts, saved[u] = "yes"
        PROVE  \E m \in Names : folder'[m].text = u
    <3>1. CASE f = Nothing
      <4>1. PICK m \in Names \ {n} : There(m)
        BY <2>1, <3>1
      <4>2. folder[m].text = u
        BY <2>1, <2>7, <4>1 DEF FolderInv, OneText, Worded
      <4> QED
        BY <1>1, <4>1, <4>2
    <3>2. CASE f.text = sup[s].text
      BY <1>1, <1>4, <2>1, <2>3, <2>7, <3>2 DEF FolderInv, OneText
    <3> QED
      BY <3>1, <3>2
  <2>8. TextKept'
    BY <2>7 DEF TextKept
  <2>9. There("new")' => There("new")
    BY <1>1, <2>1 DEF There, Names
  <2>10. /\ UNCHANGED <<jobs, saved>>
         /\ sup'[s].pc # "idle" => saved[sup'[s].text] = "yes"
    BY <1>2, <2>3
  <2> QED
    BY <1>2, <1>3, <1>5, <2>1, <2>2, <2>4, <2>5, <2>6, <2>8, <2>9, <2>10, Changes
<1> QED
  BY <1>3, <1>5, <1>6 DEF FolderInv

LEMMA WriteStep ==
  ASSUME FolderInv, NEW s \in Supervisors, Write(s)
  PROVE  FolderInv'
<1> DEFINE f == File(sup[s].text, sup[s].ids)
           r == [sup[s] EXCEPT !.pc = "remove"]
<1>1. /\ Doing(s, "write") /\ folder' = [folder EXCEPT ![sup[s].to] = f]
      /\ Becomes(s, r) /\ UNCHANGED <<jobs, saved, faults>> /\ FolderTypeOK
  BY DEF Write, Moves, FolderInv
<1>2. sup[s] \in Turn /\ sup[s].text \in Texts
  BY <1>1, TypeIs DEF FolderInv, Worded, Doing
<1>3. /\ r \in Turn /\ r.pc = "remove" /\ r.text = sup[s].text
      /\ r.ids = sup[s].ids /\ r.from = sup[s].from /\ r.to = sup[s].to
  BY <1>2 DEF Turn
<1>4. f \in Place /\ f.text = sup[s].text /\ f.jobs = sup[s].ids /\ f # Nothing
  BY <1>2, FileIs, FolderAssumption DEF Turn
<1> HIDE DEF r, f
<1>5. sup[s].to \in Names /\ ~Doing(s, "idle")
  BY <1>1, <1>2 DEF Turn, Doing
<1>6. Untouched =>
        /\ Named(sup[s].ids, sup[s].text)
        /\ sup[s].from \in {"new", "accepted"} /\ sup[s].to \in {"refused", "done", "failed"}
        /\ sup[s].to = "done" => AllDelivered(sup[s].ids)
  BY <1>1 DEF FolderInv, Answers, Doing
<1> QED
  BY <1>1, <1>3, <1>4, <1>5, <1>6, NamedAll, Leaves

LEMMA RemoveStep ==
  ASSUME FolderInv, NEW s \in Supervisors, Remove(s)
  PROVE  FolderInv'
<1>1. /\ Doing(s, "remove") /\ folder' = [folder EXCEPT ![sup[s].from] = Nothing]
      /\ Becomes(s, Rest) /\ UNCHANGED <<jobs, saved, faults>> /\ FolderTypeOK
  BY DEF Remove, FolderInv
<1>2. sup[s].from \in Names /\ ~Doing(s, "idle")
  BY <1>1, TypeIs DEF Turn, Doing
<1>3. ASSUME Untouched
      PROVE  sup[s].from \in {"new", "accepted"} /\ \E m \in Names \ {sup[s].from} : There(m)
  <2>1. /\ sup[s].from \in {"new", "accepted"} /\ sup[s].to \in {"refused", "done", "failed"}
        /\ There(sup[s].to)
    BY <1>1, <1>3 DEF FolderInv, Answers, Doing
  <2> QED
    BY <2>1 DEF Names
<1>4. Named(Nothing.jobs, Nothing.text)
  BY NothingIs DEF Named
<1> QED
  BY <1>1, <1>2, <1>3, <1>4, RestIs, NothingIs, NamedAll, Leaves

LEMMA RewriteStep ==
  ASSUME FolderInv, NEW s \in Supervisors, Rewrite(s)
  PROVE  FolderInv'
<1> DEFINE f == File(sup[s].text, sup[s].ids)
<1>1. /\ Doing(s, "rewrite") /\ Becomes(s, Rest) /\ UNCHANGED <<jobs, saved, faults>> /\ FolderTypeOK
      /\ folder' = folder \/ folder' = [folder EXCEPT !["accepted"] = f]
  BY DEF Rewrite, FolderInv
<1>2. sup[s] \in Turn /\ sup[s].text \in Texts /\ ~Doing(s, "idle")
  BY <1>1, TypeIs DEF FolderInv, Worded, Doing
<1>3. f \in Place /\ f.text = sup[s].text /\ f.jobs = sup[s].ids /\ f # Nothing
  BY <1>2, FileIs, FolderAssumption DEF Turn
<1> HIDE DEF f
<1>4. Untouched => Named(sup[s].ids, sup[s].text)
  BY <1>1 DEF FolderInv, Answers, Doing
<1>5. CASE folder' = [folder EXCEPT !["accepted"] = f]
  BY <1>1, <1>2, <1>3, <1>4, <1>5, RestIs, NamedAll, Leaves DEF Names
<1>6. CASE folder' = folder
  <2>1. faults' \in [left : 0..MaxFaults, seen : SUBSET Kinds] /\ (Untouched' => Untouched)
    BY <1>1 DEF FolderTypeOK, Untouched
  <2> QED
    BY <1>1, <1>6, <2>1, RestIs, Turns
<1> QED
  BY <1>1, <1>5, <1>6

LEMMA FollowStep ==
  ASSUME FolderInv, NEW s \in Supervisors, Follow(s)
  PROVE  FolderInv'
<1> DEFINE f == folder["accepted"]
           v == Verdict(f.jobs)
           r == [Rest EXCEPT !.pc = IF v = "accepted" THEN "rewrite" ELSE "write",
                   !.text = f.text, !.ids = f.jobs, !.from = "accepted", !.to = v]
<1>1. /\ There("accepted") /\ Becomes(s, r) /\ UNCHANGED <<folder, jobs, saved, faults>>
      /\ "accepted" \in Names
  BY DEF Follow, Names
<1>2. f \in Place /\ f.text \in Texts
      /\ faults' \in [left : 0..MaxFaults, seen : SUBSET Kinds]
  BY <1>1, TypeIs DEF FolderInv, Worded, FolderTypeOK
<1>3. v \in {"refused", "done", "failed", "accepted"} /\ (v = "done" => AllDelivered(f.jobs))
  BY DEF Verdict, AllDelivered
<1> HIDE DEF v
<1>4. /\ r \in Turn /\ r.pc \in {"write", "rewrite"} /\ (r.pc = "write" => v # "accepted")
      /\ r.text = f.text /\ r.ids = f.jobs /\ r.from = "accepted" /\ r.to = v
  BY <1>2, <1>3 DEF Rest, Turn, Place, Names
<1>5. Untouched => saved[f.text] = "yes" /\ Named(f.jobs, f.text)
  BY <1>1 DEF FolderInv, OneText, Answers
<1>6. Untouched' => Untouched
  BY <1>1 DEF Untouched
<1> HIDE DEF r, f
<1> QED
  BY <1>1, <1>2, <1>3, <1>4, <1>5, <1>6, Turns

\* The taker writes what it submitted, which is all there is of the request.
LEMMA SubmittedStep ==
  ASSUME FolderInv, NEW s \in Supervisors, Submitted(s)
  PROVE  FolderInv'
<1> DEFINE f == File(sup[s].text, sup[s].ids)
           r == [sup[s] EXCEPT !.pc = "write", !.from = "accepted", !.to = "refused"]
<1>1. Doing(s, "submit") /\ UNCHANGED <<jobs, saved, faults>> /\ FolderTypeOK /\ "accepted" \in Names
  BY DEF Submitted, FolderInv, Names
<1>2. sup[s] \in Turn /\ sup[s].text \in Texts /\ ~Doing(s, "idle")
  BY <1>1, TypeIs DEF FolderInv, Worded, Doing
<1>3. CASE sup[s].ids = {}
  <2>1. Becomes(s, r) /\ UNCHANGED folder
    BY <1>3 DEF Submitted
  <2>2. /\ r \in Turn /\ r.pc = "write" /\ r.text = sup[s].text /\ r.ids = {}
        /\ r.from = "accepted" /\ r.to = "refused"
    BY <1>2, <1>3 DEF Turn, Names
  <2>3. Untouched => saved[sup[s].text] = "yes"
    BY <1>2 DEF FolderInv, OneText
  <2>4. faults' \in [left : 0..MaxFaults, seen : SUBSET Kinds] /\ (Untouched' => Untouched)
    BY <1>1 DEF FolderTypeOK, Untouched
  <2>5. Named({}, sup[s].text)
    BY DEF Named
  <2> HIDE DEF r
  <2> QED
    BY <1>1, <1>2, <2>1, <2>2, <2>3, <2>4, <2>5, Turns
<1>4. CASE sup[s].ids # {}
  <2>1. folder' = [folder EXCEPT !["accepted"] = f] /\ Becomes(s, Rest)
    BY <1>4 DEF Submitted
  <2>2. f \in Place /\ f.text = sup[s].text /\ f.jobs = sup[s].ids /\ f # Nothing
    BY <1>2, FileIs, FolderAssumption DEF Turn
  <2>3. Untouched => NamedBut(s, f.jobs, f.text)
    BY <1>1, <1>2, <2>2 DEF FolderInv, OneTaker, NamedBut, Doing
  <2> HIDE DEF f
  <2> QED
    BY <1>1, <1>2, <2>1, <2>2, <2>3, RestIs, Leaves
<1> QED
  BY <1>3, <1>4

LEMMA CrashStep ==
  ASSUME FolderInv, NEW s \in Supervisors, Crash(s)
  PROVE  FolderInv'
<1>1. /\ faults' \in [left : 0..MaxFaults, seen : SUBSET Kinds]
      /\ Untouched' => Untouched
      /\ Becomes(s, Rest) /\ UNCHANGED <<folder, jobs, saved>>
  BY FaultIs DEF Crash, FolderInv, Untouched
<1> QED
  BY <1>1, RestIs, Turns

\* A job that ends is still of its text, and one that was delivered stays so.
LEMMA JobEndsStep ==
  ASSUME FolderInv, NEW i \in Downloads, JobEnds(i)
  PROVE  FolderInv'
<1>1. PICK e \in {"delivered", "failed"} :
        /\ jobs[i].state = "pending" /\ jobs' = [jobs EXCEPT ![i].state = e]
        /\ UNCHANGED <<folder, sup, saved, faults>>
  BY DEF JobEnds
<1>2. /\ jobs' \in [Downloads -> [text : Texts \cup {NoText}, state : {"pending", "delivered", "failed"}]]
      /\ \A j \in Downloads : jobs'[j].text = jobs[j].text
      /\ \A j \in Downloads : Delivered(j) => Delivered(j)'
  BY <1>1, TypeIs DEF FolderInv, Delivered
<1>3. FolderTypeOK' /\ Worded'
  BY <1>1, <1>2, TypeIs DEF FolderInv, FolderTypeOK, Worded, Doing, There
<1>4. \A t : JobsOf(t)' = JobsOf(t)
  BY <1>2 DEF JobsOf
<1>5. ASSUME Untouched' PROVE OneText' /\ OneTaker' /\ Answers' /\ TextKept'
  <2>1. Untouched
    BY <1>1, <1>5 DEF Untouched
  <2>2. OneText' /\ OneTaker' /\ TextKept'
    BY <1>1, <1>4, <2>1 DEF FolderInv, OneText, OneTaker, TextKept, Doing, There
  <2>3. \A n \in Names : folder[n].jobs \in SUBSET Downloads
    BY TypeIs DEF FolderInv, Place
  <2>4. \A s \in Supervisors : sup[s].ids \in SUBSET Downloads
    BY TypeIs DEF FolderInv, Turn
  <2>5. "done" \in Names
    BY DEF Names
  <2>6. Answers'
    BY <1>1, <1>2, <1>4, <2>1, <2>3, <2>4, <2>5
       DEF FolderInv, Answers, Named, AllDelivered, Doing, There
  <2> QED
    BY <2>2, <2>6
<1> QED
  BY <1>3, <1>5 DEF FolderInv

\* A save under a name that is being answered is what Untouched leaves out.
LEMMA SaveStep ==
  ASSUME FolderInv, NEW t \in Texts, Edit(t) \/ Retry(t)
  PROVE  FolderInv'
<1>1. File(t, {}) \in Place /\ File(t, {}).text = t /\ Nothing \in Place
  BY FileIs, NothingIs
<1>2. FolderTypeOK /\ Worded /\ "new" \in Names /\ "refused" \in Names
  BY DEF FolderInv, Names
<1>3. /\ folder' \in [Names -> Place] /\ UNCHANGED <<jobs, sup>>
      /\ \A n \in Names : folder'[n] \in {folder[n], Nothing, File(t, {})}
      /\ saved' \in [Texts -> {"no", "yes", "replaced"}]
  BY <1>1, <1>2, TypeIs DEF Edit, Retry
<1>4. faults' \in [left : 0..MaxFaults, seen : SUBSET Kinds] /\ ~Untouched'
  BY <1>2, FaultIs DEF Edit, Retry, Untouched
<1>5. FolderTypeOK'
  BY <1>2, <1>3, <1>4, TypeIs DEF FolderTypeOK, Turn, Place
<1>6. Worded'
  BY <1>1, <1>2, <1>3 DEF Worded, Doing, There
<1> QED
  BY <1>4, <1>5, <1>6 DEF FolderInv

\* The first text that is ever put finds nobody at work.
LEMMA PutStep ==
  ASSUME FolderInv, NEW t \in Texts, Put(t)
  PROVE  FolderInv'
<1>1. /\ File(t, {}) \in Place /\ File(t, {}).text = t /\ File(t, {}).jobs = {}
      /\ FolderTypeOK /\ Worded /\ "new" \in Names
  BY FileIs DEF FolderInv, Names
<1>2. /\ saved[t] = "no" /\ (\A n \in Names : ~There(n)) /\ UNCHANGED <<jobs, sup, faults>>
      /\ folder' = [folder EXCEPT !["new"] = File(t, {})]
      /\ saved' = [saved EXCEPT ![t] = "yes"]
  BY DEF Put
<1>3. /\ folder' \in [Names -> Place] /\ folder'["new"] = File(t, {})
      /\ \A n \in Names \ {"new"} : folder'[n] = Nothing
      /\ saved' \in [Texts -> {"no", "yes", "replaced"}] /\ saved'[t] = "yes"
      /\ \A u \in Texts \ {t} : saved'[u] = saved[u]
  BY <1>1, <1>2, TypeIs DEF There
<1>4. FolderTypeOK'
  BY <1>1, <1>2, <1>3, TypeIs DEF FolderTypeOK, Turn, Place
<1>5. Worded'
  BY <1>1, <1>2, <1>3 DEF Worded, Doing, There
<1>6. ASSUME Untouched' PROVE OneText' /\ OneTaker' /\ Answers' /\ TextKept'
  <2>1. Untouched
    BY <1>2, <1>6 DEF Untouched
  <2>2. \A u \in Texts : saved[u] = "no" /\ JobsOf(u) = {}
    <3> SUFFICES ASSUME NEW u \in Texts PROVE saved[u] = "no" /\ JobsOf(u) = {}
      OBVIOUS
    <3>1. saved[u] # "yes"
      <4> SUFFICES ASSUME saved[u] = "yes" PROVE FALSE
        OBVIOUS
      <4>1. PICK n \in Names : folder[n].text = u
        BY <2>1 DEF FolderInv, TextKept
      <4> QED
        BY <1>2, <4>1, NothingIs, FolderAssumption DEF There
    <3>2. saved[u] \in {"no", "yes", "replaced"}
      BY <1>1, TypeIs
    <3> QED
      BY <2>1, <3>1, <3>2 DEF FolderInv, OneText
  <2>3. \A s \in Supervisors : sup[s].pc = "idle"
    BY <1>1, <2>1, <2>2 DEF FolderInv, OneText, Worded, Doing
  <2>4. \A u : JobsOf(u)' = JobsOf(u)
    BY <1>2, SameJobs
  <2>5. OneText'
    BY <1>1, <1>2, <1>3, <2>1, <2>2, <2>3, <2>4 DEF FolderInv, OneText, Doing, There
  <2>6. OneTaker'
    BY <1>2, <2>1, <2>2, <2>3, <2>4 DEF FolderInv, OneTaker, Doing, There
  <2>7. Answers'
    BY <1>1, <1>2, <1>3, <2>3, NothingIs DEF Answers, Named, Doing, There, Names
  <2>8. TextKept'
    BY <1>1, <1>3, <2>2 DEF TextKept
  <2> QED
    BY <2>5, <2>6, <2>7, <2>8
<1> QED
  BY <1>4, <1>5, <1>6 DEF FolderInv

\* The rename that finds the request makes its supervisor the one taker.
LEMMA AcceptStep ==
  ASSUME FolderInv, NEW s \in Supervisors, Accept(s)
  PROVE  FolderInv'
<1> DEFINE r == [sup[s] EXCEPT !.pc = "submit"]
<1>1. /\ folder' = Renamed("new", "accepted") /\ Doing(s, "accept")
      /\ UNCHANGED <<jobs, saved, faults>> /\ FolderTypeOK /\ Worded
      /\ "accepted" \in Names \ {"new"} /\ "new" \in Names
  BY DEF Accept, FolderInv, Names
<1>2. /\ folder' \in [Names -> Place] /\ ~There("new")'
      /\ folder'["accepted"] = IF There("new") THEN folder["new"] ELSE folder["accepted"]
      /\ \A n \in Names \ {"new", "accepted"} : folder'[n] = folder[n]
  BY <1>1, RenamedIs
<1>3. folder'["new"] = Nothing
  BY <1>2 DEF There
<1>4. sup[s] \in Turn /\ sup[s].text \in Texts
  BY <1>1, TypeIs DEF Worded, Doing
<1>5. CASE ~There("new")
  <2>1. Becomes(s, Rest)
    BY <1>5 DEF Accept
  <2>2. folder' = folder
    <3>1. \A n \in Names : folder'[n] = folder[n]
      BY <1>2, <1>3, <1>5 DEF There
    <3> QED
      BY <1>1, <1>2, <3>1, TypeIs
  <2>3. faults' \in [left : 0..MaxFaults, seen : SUBSET Kinds] /\ (Untouched' => Untouched)
    BY <1>1 DEF FolderTypeOK, Untouched
  <2> QED
    BY <1>1, <2>1, <2>2, <2>3, RestIs, Turns
<1>6. CASE There("new")
  <2>1. Becomes(s, r)
    BY <1>6 DEF Accept, Moves
  <2>2. /\ r \in Turn /\ r.pc = "submit" /\ r.text = sup[s].text
        /\ r.left = sup[s].left /\ r.ids = sup[s].ids
    BY <1>4 DEF Turn
  <2> HIDE DEF r
  <2>3. /\ sup'[s] = r /\ (\A q \in Supervisors \ {s} : sup'[q] = sup[q])
        /\ sup' \in [Supervisors -> Turn]
    BY <1>1, <2>1, <2>2, BecomesIs
  <2>4. FolderTypeOK'
    BY <1>1, <1>2, <2>3, TypeIs DEF FolderTypeOK, Turn, Place
  <2>5. Worded'
    BY <1>1, <1>2, <1>3, <1>4, <1>6, <2>2, <2>3 DEF Worded, Doing, There
  <2>6. ASSUME Untouched' PROVE OneText' /\ OneTaker' /\ Answers' /\ TextKept'
    <3>1. Untouched
      BY <1>1, <2>6 DEF Untouched
    <3>2. /\ \A q \in Supervisors : ~Doing(q, "submit")
          /\ \A t \in Texts : JobsOf(t) = {}
          /\ sup[s].left = Lines[sup[s].text] /\ sup[s].ids = {}
      BY <1>1, <1>6, <3>1 DEF FolderInv, OneTaker
    <3>3. \A t : JobsOf(t)' = JobsOf(t)
      BY <1>1, SameJobs
    <3>4. OneText'
      BY <1>1, <1>2, <1>3, <1>6, <2>2, <2>3, <3>1, <3>3 DEF FolderInv, OneText, Doing, There
    <3>5. OneTaker'
      <4>1. Lines[sup[s].text] \in Nat /\ Cardinality({}) = 0 /\ IsFiniteSet({})
        BY <1>4, FolderAssumption, FS_EmptySet
      <4>2. ASSUME NEW q \in Supervisors, Doing(q, "submit")'
            PROVE  q = s /\ r.ids = JobsOf(sup[q].text)'
                   /\ Cardinality(JobsOf(sup[q].text))' + r.left <= Lines[sup'[q].text]
        <5>1. q = s /\ sup'[q].text = sup[s].text
          BY <2>2, <2>3, <3>2, <4>2 DEF Doing
        <5>2. JobsOf(sup[q].text)' = {}
          BY <1>1, <1>4, <3>2, <5>1 DEF JobsOf
        <5>3. r.left = Lines[sup[s].text] /\ r.ids = {}
          BY <2>2, <3>2
        <5> QED
          BY <4>1, <5>1, <5>2, <5>3
      <4>3. \A t \in Texts : (IsFiniteSet(JobsOf(t)) /\ Cardinality(JobsOf(t)) <= Lines[t])'
        BY <3>1, <3>3 DEF FolderInv, OneTaker
      <4>4. \A q \in Supervisors : Doing(q, "accept")' => q # s /\ Doing(q, "accept")
        BY <2>2, <2>3 DEF Doing
      <4>5. \A q \in Supervisors :
              Doing(q, "accept")' => sup'[q].left = Lines[sup'[q].text] /\ sup'[q].ids = {}
        BY <2>3, <3>1, <4>4 DEF FolderInv, OneTaker
      <4>6. \A p, q \in Supervisors : Doing(p, "submit")' /\ Doing(q, "submit")' => p = q
        BY <4>2
      <4>7. \A q \in Supervisors :
              Doing(q, "submit")' =>
                /\ Cardinality(JobsOf(sup[q].text))' + sup'[q].left <= Lines[sup'[q].text]
                /\ sup'[q].ids = JobsOf(sup[q].text)'
        BY <2>3, <4>2
      <4> QED
        BY <1>2, <4>3, <4>5, <4>6, <4>7 DEF OneTaker, Doing, There
    <3>6. \A n \in Names : folder'[n].jobs = {}
      <4>1. \A n \in Names : folder[n].jobs = {}
        <5> SUFFICES ASSUME NEW n \in Names, folder[n].jobs # {} PROVE FALSE
          OBVIOUS
        <5>1. folder[n].jobs = JobsOf(folder[n].text) /\ There(n)
          BY <3>1, NothingIs DEF FolderInv, Answers, Named, There
        <5> QED
          BY <1>1, <3>2, <5>1 DEF Worded
      <4> QED
        BY <1>1, <1>2, <1>3, <4>1, NothingIs
    <3>7. ASSUME NEW q \in Supervisors, q # s, sup[q].pc \in {"write", "remove", "rewrite"}
          PROVE  sup[q].ids = {}
      BY <1>1, <3>1, <3>2, <3>7 DEF FolderInv, Answers, Named, Worded, Doing
    <3>8. ~There("done")'
      <4>1. ~There("done")
        BY <3>1, <3>2, <1>1 DEF FolderInv, Answers, AllDelivered, Named, Worded, Names
      <4> QED
        BY <1>2, <4>1 DEF There, Names
    <3>9. ASSUME NEW q \in Supervisors, q # s, sup[q].pc \in {"write", "remove"}
          PROVE  sup[q].from \in {"new", "accepted"} /\ sup[q].to \in {"refused", "failed"}
      BY <3>1, <3>7, <3>9 DEF FolderInv, Answers, AllDelivered
    <3>10. ASSUME NEW q \in Supervisors, q # s, Doing(q, "remove") PROVE There(sup[q].to)'
      <4>1. There(sup[q].to) /\ sup[q].to \in {"refused", "failed"} /\ sup'[q] = sup[q]
        BY <2>3, <3>1, <3>9, <3>10 DEF FolderInv, Answers, Doing
      <4> QED
        BY <1>2, <4>1 DEF There, Names
    <3>11. Answers'
      BY <2>2, <2>3, <3>6, <3>7, <3>8, <3>9, <3>10 DEF Answers, Named, AllDelivered, Doing
    <3>12. TextKept'
      BY <1>1, <3>1, RenamedKeeps
    <3> QED
      BY <3>4, <3>5, <3>11, <3>12
  <2> QED
    BY <2>4, <2>5, <2>6 DEF FolderInv
<1> QED
  BY <1>5, <1>6

\* A line makes a job of its own, or none.
LEMMA SubmitStep ==
  ASSUME FolderInv, NEW s \in Supervisors, Submit(s)
  PROVE  FolderInv'
<1>1. /\ Doing(s, "submit") /\ sup[s].left > 0 /\ UNCHANGED <<folder, saved>>
      /\ FolderTypeOK /\ Worded
  BY DEF Submit, FolderInv
<1>2. sup[s] \in Turn /\ sup[s].text \in Texts /\ sup[s].left \in Nat /\ sup[s].pc = "submit"
  BY <1>1, TypeIs DEF Worded, Doing, Turn
<1>t. PICK t \in Texts : t = sup[s].text
  BY <1>2
<1>3. ASSUME NEW i \in Downloads, jobs[i] = NoJob, jobs' = [jobs EXCEPT ![i].text = sup[s].text],
             Becomes(s, [sup[s] EXCEPT !.left = @ - 1, !.ids = @ \cup {i}]), UNCHANGED faults
      PROVE  FolderInv'
  <2> DEFINE r == [sup[s] EXCEPT !.left = @ - 1, !.ids = @ \cup {i}]
  <2>0. sup[s].left - 1 \in Nat
    BY <1>1, <1>2
  <2>1. /\ r \in Turn /\ r.pc = "submit" /\ r.text = t /\ r.left = sup[s].left - 1
        /\ r.ids = sup[s].ids \cup {i}
    BY <1>1, <1>2, <1>t, <2>0 DEF Turn
  <2> HIDE DEF r
  <2>2. /\ sup'[s] = r /\ (\A q \in Supervisors \ {s} : sup'[q] = sup[q])
        /\ sup' \in [Supervisors -> Turn]
    BY <1>1, <1>3, <2>1, BecomesIs DEF r
  <2>3. /\ jobs' \in [Downloads -> [text : Texts \cup {NoText},
                               state : {"pending", "delivered", "failed"}]]
        /\ jobs'[i].text = t /\ \A j \in Downloads \ {i} : jobs'[j] = jobs[j]
    BY <1>1, <1>2, <1>t, <1>3, TypeIs
  <2>4. /\ JobsOf(t)' = JobsOf(t) \cup {i} /\ i \notin JobsOf(t)
        /\ \A u \in Texts \ {t} : JobsOf(u)' = JobsOf(u)
    <3>1. jobs[i].text = NoText /\ NoText \notin Texts
      BY <1>3, FolderAssumption DEF NoJob
    <3> QED
      BY <1>2, <1>t, <2>3, <3>1 DEF JobsOf
  <2>5. FolderTypeOK'
    BY <1>1, <1>3, <2>2, <2>3, TypeIs DEF FolderTypeOK, Turn, Place
  <2>6. Worded'
    BY <1>1, <1>2, <1>t, <2>1, <2>2 DEF Worded, Doing, There
  <2>7. ASSUME Untouched' PROVE OneText' /\ OneTaker' /\ Answers' /\ TextKept'
    <3>1. Untouched
      BY <1>3, <2>7 DEF Untouched
    <3>2. /\ \A q \in Supervisors \ {s} : ~Doing(q, "submit")
          /\ ~There("new") /\ sup[s].ids = JobsOf(t) /\ IsFiniteSet(JobsOf(t))
          /\ Cardinality(JobsOf(t)) + sup[s].left <= Lines[t]
      BY <1>1, <1>2, <1>t, <3>1 DEF FolderInv, OneTaker
    <3>3. /\ IsFiniteSet(JobsOf(t)') /\ Cardinality(JobsOf(t)') = Cardinality(JobsOf(t)) + 1
          /\ Cardinality(JobsOf(t)) \in Nat /\ Lines[t] \in Nat
      BY <1>2, <1>t, <2>4, <3>2, FS_AddElement, FS_CardinalityType, FolderAssumption
    <3>4. saved[t] = "yes"
      BY <1>1, <1>2, <1>t, <3>1 DEF FolderInv, OneText, Doing
    <3>5. OneText'
      BY <1>1, <1>2, <1>t, <2>1, <2>2, <2>4, <3>1, <3>4 DEF FolderInv, OneText, Worded, Doing, There
    <3>6. Cardinality(JobsOf(t)') + r.left <= Lines[t] /\ Cardinality(JobsOf(t)') <= Lines[t]
      BY <1>1, <1>2, <1>t, <2>1, <3>2, <3>3
    <3>7. OneTaker'
      <4>1. \A u \in Texts : IsFiniteSet(JobsOf(u)') /\ Cardinality(JobsOf(u)') <= Lines[u]
        <5> SUFFICES ASSUME NEW u \in Texts
                     PROVE  IsFiniteSet(JobsOf(u)') /\ Cardinality(JobsOf(u)') <= Lines[u]
          OBVIOUS
        <5>1. CASE u = t
          BY <3>3, <3>6, <5>1
        <5>2. CASE u # t
          <6>1. JobsOf(u)' = JobsOf(u)
            BY <2>4, <5>2
          <6> QED
            BY <3>1, <6>1 DEF FolderInv, OneTaker
        <5> QED
          BY <5>1, <5>2
      <4>2. \A q \in Supervisors : Doing(q, "submit")' => q = s
        BY <2>2, <3>2 DEF Doing
      <4>3. r.ids = JobsOf(t)'
        BY <2>1, <2>4, <3>2
      <4> QED
        BY <1>1, <2>1, <2>2, <3>1, <3>2, <3>6, <4>1, <4>2, <4>3 DEF FolderInv, OneTaker, Doing, There
    <3>8. Answers'
      <4>1. \A n \in Names : folder[n].jobs = {}
        BY <1>1, <3>1 DEF FolderInv, Answers, Named
      <4>2. ASSUME NEW q \in Supervisors, q # s, sup[q].pc \in {"write", "remove", "rewrite"}
            PROVE  sup[q].ids = {}
        BY <1>1, <3>1, <4>2 DEF FolderInv, Answers, Named
      <4>3. ~There("done")
        BY <3>1, <4>1 DEF FolderInv, Answers, AllDelivered, Names
      <4>4. ASSUME NEW q \in Supervisors, q # s, sup[q].pc \in {"write", "remove"}
            PROVE  /\ sup[q].from \in {"new", "accepted"} /\ sup[q].to \in {"refused", "failed"}
                   /\ sup[q].pc = "remove" => There(sup[q].to)
        BY <3>1, <4>2, <4>4 DEF FolderInv, Answers, AllDelivered, Doing
      <4> QED
        BY <1>1, <2>1, <2>2, <4>1, <4>2, <4>3, <4>4 DEF Answers, Named, AllDelivered, Doing, There
    <3>9. TextKept'
      BY <1>1, <3>1 DEF FolderInv, TextKept
    <3> QED
      BY <3>5, <3>7, <3>8, <3>9
  <2> QED
    BY <2>5, <2>6, <2>7 DEF FolderInv
<1>4. ASSUME UNCHANGED jobs, Becomes(s, [sup[s] EXCEPT !.left = @ - 1]),
             faults' \in [left : 0..MaxFaults, seen : SUBSET Kinds], Untouched' => Untouched
      PROVE  FolderInv'
  <2> DEFINE r == [sup[s] EXCEPT !.left = @ - 1]
  <2>0. sup[s].left - 1 \in Nat
    BY <1>1, <1>2
  <2>1. /\ r \in Turn /\ r.pc = "submit" /\ r.text = t /\ r.left = sup[s].left - 1
        /\ r.ids = sup[s].ids
    BY <1>1, <1>2, <1>t, <2>0 DEF Turn
  <2> HIDE DEF r
  <2>2. /\ sup'[s] = r /\ (\A q \in Supervisors \ {s} : sup'[q] = sup[q])
        /\ sup' \in [Supervisors -> Turn]
    BY <1>1, <1>4, <2>1, BecomesIs DEF r
  <2>3. FolderTypeOK'
    BY <1>1, <1>4, <2>2, TypeIs DEF FolderTypeOK, Turn, Place
  <2>4. Worded'
    BY <1>1, <1>2, <1>t, <2>1, <2>2 DEF Worded, Doing, There
  <2>5. ASSUME Untouched' PROVE OneText' /\ OneTaker' /\ Answers' /\ TextKept'
    <3>1. Untouched
      BY <1>4, <2>5
    <3>2. \A u : JobsOf(u)' = JobsOf(u)
      BY <1>4, SameJobs
    <3>3. OneText' /\ TextKept'
      BY <1>1, <1>2, <1>t, <2>1, <2>2, <3>1, <3>2 DEF FolderInv, OneText, TextKept, Doing, There
    <3>4. /\ Cardinality(JobsOf(t)) \in Nat /\ Lines[t] \in Nat
      BY <1>2, <1>t, <3>1, FS_CardinalityType, FolderAssumption DEF FolderInv, OneTaker
    <3>5. Cardinality(JobsOf(t)) + r.left <= Lines[t] /\ r.ids = JobsOf(t)
      BY <1>1, <1>2, <1>t, <2>1, <3>1, <3>4 DEF FolderInv, OneTaker
    <3>6. OneTaker'
      <4> QED
        BY <1>1, <1>2, <1>t, <2>1, <2>2, <3>1, <3>2, <3>5 DEF FolderInv, OneTaker, Doing, There
    <3>7. Answers'
      BY <1>1, <1>2, <1>t, <1>4, <2>1, <2>2, <3>1, <3>2
         DEF FolderInv, Answers, Named, AllDelivered, Delivered, Doing, There
    <3> QED
      BY <3>3, <3>6, <3>7
  <2> QED
    BY <2>3, <2>4, <2>5 DEF FolderInv
<1>5. UNCHANGED faults \/ Disturb("refuse") =>
        faults' \in [left : 0..MaxFaults, seen : SUBSET Kinds] /\ (Untouched' => Untouched)
  BY <1>1, FaultIs DEF FolderTypeOK, Untouched
<1> QED
  BY <1>3, <1>4, <1>5 DEF Submit

LEMMA FolderStarts == FolderInit => FolderInv
<1> SUFFICES ASSUME FolderInit PROVE FolderInv
  OBVIOUS
<1>1. FolderTypeOK
  BY NothingIs, RestIs, TypeIs, FolderAssumption DEF FolderInit, NoJob
<1>2. /\ \A n \in Names : ~There(n) /\ folder[n].jobs = {}
      /\ \A s \in Supervisors : sup[s].pc = "idle"
      /\ \A t \in Texts : saved[t] = "no" /\ JobsOf(t) = {}
  BY NothingIs, RestIs, FolderAssumption DEF FolderInit, There, JobsOf, NoJob
<1>3. Worded /\ OneText /\ Answers /\ TextKept
  BY <1>2 DEF Worded, OneText, Answers, Named, TextKept, Doing, There, Names
<1>4. OneTaker
  <2>1. \A t \in Texts : Lines[t] \in Nat /\ Cardinality({}) = 0 /\ IsFiniteSet({})
    BY FolderAssumption, FS_EmptySet
  <2>2. \A t \in Texts : IsFiniteSet(JobsOf(t)) /\ Cardinality(JobsOf(t)) <= Lines[t]
    BY <1>2, <2>1
  <2> QED
    BY <1>2, <2>2 DEF OneTaker, Doing
<1> QED
  BY <1>1, <1>3, <1>4 DEF FolderInv

LEMMA FolderSteps == FolderInv /\ [FolderNext]_folderVars => FolderInv'
<1> SUFFICES ASSUME FolderInv, [FolderNext]_folderVars PROVE FolderInv'
  OBVIOUS
<1>1. CASE UNCHANGED folderVars
  <2>1. FolderTypeOK' /\ Worded' /\ (Untouched' => Untouched)
    BY <1>1 DEF folderVars, FolderInv, FolderTypeOK, Worded, Untouched, Doing, There
  <2>2. \A t : JobsOf(t)' = JobsOf(t)
    BY <1>1, SameJobs DEF folderVars
  <2>3. Untouched => OneText' /\ OneTaker' /\ TextKept'
    BY <1>1, <2>2 DEF folderVars, FolderInv, OneText, OneTaker, TextKept, Doing, There
  <2>4. Untouched => Answers'
    BY <1>1, <2>2
       DEF folderVars, FolderInv, Answers, Named, AllDelivered, Delivered, Doing, There
  <2> QED
    BY <2>1, <2>3, <2>4 DEF FolderInv
<1>2. CASE FolderNext
  BY <1>2, ReadStep, ShelveStep, AcceptStep, SubmitStep, SubmittedStep, WriteStep, RemoveStep,
     FollowStep, RewriteStep, CrashStep, PutStep, SaveStep, JobEndsStep DEF FolderNext, TakeIn, Answer
<1> QED
  BY <1>1, <1>2

LEMMA FolderHolds == FolderSpec => []FolderInv
BY FolderStarts, FolderSteps, PTL DEF FolderSpec

(***************************************************************************)
(* A request is taken once (wanted.go, the rename of TakeIn): with any     *)
(* number of supervisors sweeping and dying, no line is submitted twice.   *)
(***************************************************************************)
THEOREM RequestTakenOnce == FolderSpec => []TakenOnce
<1>1. FolderInv => TakenOnce
  BY DEF FolderInv, OneTaker, TakenOnce
<1> QED
  BY <1>1, FolderHolds, PTL

(***************************************************************************)
(* What the folder shows is so (answer, followAccepted): a request stays   *)
(* there under some name, and .done is said where all it asked for is.     *)
(***************************************************************************)
THEOREM FolderTellsTruth == FolderSpec => []FolderTrue
<1>1. FolderInv => FolderTrue
  <2> SUFFICES ASSUME FolderInv PROVE FolderTrue
    OBVIOUS
  <2>1. Untouched /\ There("done") =>
          \A i \in JobsOf(folder["done"].text) : Delivered(i)
    <3>1. "done" \in Names
      BY DEF Names
    <3> QED
      BY <3>1 DEF FolderInv, Answers, Named, AllDelivered
  <2> QED
    BY <2>1 DEF FolderInv, FolderTrue, DoneIsDelivered, TextKept
<1> QED
  BY <1>1, FolderHolds, PTL

-----------------------------------------------------------------------------
(* The share.                                                               *)

\* No step takes a record's job from it, or begins one again that has ended.
Forward ==
  \A i \in Ids :
    /\ far[i].req \in Jobs => far'[i].req = far[i].req
    /\ far[i].state \in {"failed", "cancelled"} => far'[i].state = far[i].state
    /\ far[i].req \in Jobs /\ far[i].state \notin {"pending", "running"} =>
         far'[i].state \notin {"pending", "running"}

LEMMA KnownIs ==
  ASSUME TypeOK, FarSide, NEW i \in Ids
  PROVE  /\ Known(i) <=> far[i].req \in Jobs
         /\ ~Known(i) => far[i].req = None /\ far[i].state = "pending" /\ work[i] = "off"
BY NasAssumption DEF TypeOK, FarSide, Known, Absent

LEMMA BecomeIs ==
  ASSUME agent \in [Agents -> AgentRecord], NEW a \in Agents, NEW r, Become(a, r)
  PROVE  /\ agent'[a] = r /\ \A b \in Agents \ {a} : agent'[b] = agent[b]
         /\ r \in AgentRecord => agent' \in [Agents -> AgentRecord]
BY DEF Become

LEMMA IdleIs == Idle \in AgentRecord /\ Idle.pc = "idle" /\ Idle.met = {}
  /\ Idle.file = None /\ Idle.job = None /\ \A f : Sane(Idle, f)
BY NasAssumption DEF Idle, AgentRecord, PCs, Sane, HasRecord

\* One call takes a step: what it has in hand is all there is to show.
LEMMA TurnKeeps ==
  ASSUME Calls, Forward, NEW a \in Agents, NEW r \in AgentRecord, Become(a, r),
         Sane(r, far'),
         r.pc = "remove" => \A j \in r.met \ {r.id} : far'[j].state \in {"failed", "cancelled"}
  PROVE  /\ agent' \in [Agents -> AgentRecord]
         /\ \A b \in Agents : Sane(agent'[b], far')
         /\ LookedWell'
<1>1. agent'[a] = r /\ \A b \in Agents \ {a} : agent'[b] = agent[b]
  BY BecomeIs DEF Calls
<1>2. agent' \in [Agents -> AgentRecord]
  BY BecomeIs DEF Calls
<1>3. ASSUME NEW b \in Agents PROVE Sane(agent'[b], far')
  <2>1. CASE b = a
    BY <1>1, <2>1
  <2>2. CASE b # a
    <3>1. agent'[b] = agent[b] /\ Sane(agent[b], far)
      BY <1>1, <2>2 DEF Calls
    <3>2. agent[b].pc \in HasRecord => agent[b].job \in Jobs
      BY <3>1 DEF Sane, HasRecord
    <3> QED
      BY <3>1, <3>2 DEF Sane, Forward
  <2> QED
    BY <2>1, <2>2
<1>4. LookedWell'
  <2> SUFFICES ASSUME NEW b \in Agents, agent'[b].pc = "remove", NEW j \in agent'[b].met \ {agent'[b].id}
               PROVE  far'[j].state \in {"failed", "cancelled"}
    BY DEF LookedWell, At
  <2>1. CASE b = a
    BY <1>1, <2>1
  <2>2. CASE b # a
    <3>1. agent'[b] = agent[b] /\ agent[b] \in AgentRecord
      BY <1>1, <2>2 DEF Calls
    <3>2. j \in Ids /\ far[j].state \in {"failed", "cancelled"}
      BY <3>1 DEF Calls, LookedWell, At, AgentRecord
    <3> QED
      BY <3>2 DEF Forward
  <2> QED
    BY <2>1, <2>2
<1> QED
  BY <1>2, <1>3, <1>4

\* The same when every call stays where it is.
LEMMA NobodyTurns ==
  ASSUME Calls, Forward, agent' = agent
  PROVE  /\ agent' \in [Agents -> AgentRecord]
         /\ \A b \in Agents : Sane(agent'[b], far')
         /\ LookedWell'
<1>1. ASSUME NEW b \in Agents PROVE Sane(agent'[b], far')
  <2>1. Sane(agent[b], far)
    BY DEF Calls
  <2>2. agent[b].pc \in HasRecord => agent[b].job \in Jobs
    BY <2>1 DEF Sane, HasRecord
  <2> QED
    BY <2>1, <2>2 DEF Sane, Forward
<1>2. LookedWell'
  <2> SUFFICES ASSUME NEW b \in Agents, agent[b].pc = "remove", NEW j \in agent[b].met \ {agent[b].id}
               PROVE  far'[j].state \in {"failed", "cancelled"}
    BY DEF LookedWell, At
  <2>1. j \in Ids /\ far[j].state \in {"failed", "cancelled"}
    BY DEF Calls, LookedWell, At, AgentRecord
  <2> QED
    BY <2>1 DEF Forward
<1> QED
  BY <1>1, <1>2 DEF Calls

-----------------------------------------------------------------------------
(* There is always a file nobody uses.                                      *)

LEMMA FewValues ==
  ASSUME NEW S, IsFiniteSet(S), NEW f, f \in [S -> {f[x] : x \in S}]
  PROVE  /\ IsFiniteSet({f[x] : x \in S})
         /\ Cardinality({f[x] : x \in S}) <= Cardinality(S)
<1>1. f \in Surjection(S, {f[x] : x \in S})
  BY DEF Surjection
<1> QED
  BY <1>1, FS_Surjection

LEMMA Union2 ==
  ASSUME NEW S, NEW T, NEW m \in Nat, NEW n \in Nat, IsFiniteSet(S), IsFiniteSet(T),
         Cardinality(S) <= m, Cardinality(T) <= n
  PROVE  IsFiniteSet(S \cup T) /\ Cardinality(S \cup T) <= m + n
<1>1. /\ IsFiniteSet(S \cup T)
      /\ Cardinality(S \cup T) = Cardinality(S) + Cardinality(T) - Cardinality(S \cap T)
  BY FS_Union
<1>2. Cardinality(S) \in Nat /\ Cardinality(T) \in Nat /\ Cardinality(S \cap T) \in Nat
  BY FS_CardinalityType, FS_Intersection
<1> QED
  BY <1>1, <1>2

LEMMA FreshIs ==
  ASSUME Calls
  PROVE  Fresh \in Inodes /\ Fresh \notin InUse
<1> DEFINE D == {dest[q] : q \in Jobs}
           T == {tmp[q] : q \in Jobs}
           g == [a \in Agents |-> agent[a].file]
           G == {g[a] : a \in Agents}
<1>1. IsFiniteSet(D) /\ Cardinality(D) <= Cardinality(Jobs)
  <2>1. dest \in [Jobs -> {dest[q] : q \in Jobs}]
    BY DEF Calls, TypeOK
  <2> QED
    BY <2>1, NasAssumption, FewValues
<1>2. IsFiniteSet(T) /\ Cardinality(T) <= Cardinality(Jobs)
  <2>1. tmp \in [Jobs -> {tmp[q] : q \in Jobs}]
    BY DEF Calls, TypeOK
  <2> QED
    BY <2>1, NasAssumption, FewValues
<1>3. IsFiniteSet(G) /\ Cardinality(G) <= Cardinality(Agents)
  <2>1. g \in [Agents -> {g[a] : a \in Agents}]
    OBVIOUS
  <2> HIDE DEF g
  <2> QED
    BY <2>1, NasAssumption, FewValues
<1>4. InUse = (D \cup T) \cup G
  BY DEF InUse
<1>5. Cardinality(Jobs) \in Nat /\ Cardinality(Agents) \in Nat /\ Cardinality(Inodes) \in Nat
  BY NasAssumption, FS_CardinalityType
<1> HIDE DEF D, T, G, g
<1> DEFINE m == Cardinality(Jobs) + Cardinality(Jobs)
<1>9. m \in Nat
  BY <1>5
<1>6. IsFiniteSet(D \cup T) /\ Cardinality(D \cup T) <= m
  BY <1>1, <1>2, <1>5, Union2
<1>7. /\ IsFiniteSet(InUse)
      /\ Cardinality(InUse) <= m + Cardinality(Agents)
  <2> HIDE DEF m
  <2> QED
    BY <1>3, <1>4, <1>5, <1>6, <1>9, Union2
<1>8. \E f \in Inodes : f \notin InUse
  <2> SUFFICES ASSUME Inodes \subseteq InUse PROVE FALSE
    OBVIOUS
  <2>1. Cardinality(Inodes) <= Cardinality(InUse)
    BY <1>7, FS_Subset
  <2>2. Cardinality(InUse) \in Nat
    BY <1>7, FS_CardinalityType
  <2> QED
    BY <1>5, <1>7, <2>1, <2>2, NasAssumption
<1> QED
  BY <1>8 DEF Fresh

-----------------------------------------------------------------------------
(* The steps of the share.                                                  *)

LEMMA DisturbIs ==
  ASSUME TypeOK, NEW k, Disturb(k)
  PROVE  /\ faults' \in [left : 0..MaxFaults, seen : SUBSET Kinds]
         /\ faults'.seen = faults.seen \cup {k}
BY NasAssumption DEF TypeOK, Disturb

\* One record changes, and keeps its job.
LEMMA RecordMoves ==
  ASSUME Calls, NEW i \in Ids, NEW r \in ShareRecord, far' = [far EXCEPT ![i] = r],
         r.req = far[i].req, Known(i),
         far[i].state \in {"failed", "cancelled"} => r.state = far[i].state,
         far[i].state \notin {"pending", "running"} => r.state \notin {"pending", "running"}
  PROVE  /\ far' \in [Ids -> ShareRecord] /\ Forward
         /\ far'[i] = r /\ \A j \in Ids \ {i} : far'[j] = far[j]
         /\ \A j \in Ids : far'[j] # Absent => far'[j].req \in Jobs
<1>1. far \in [Ids -> ShareRecord]
  BY DEF Calls, TypeOK, ShareRecord
<1>2. far'[i] = r /\ \A j \in Ids \ {i} : far'[j] = far[j]
  BY <1>1
<1>3. far' \in [Ids -> ShareRecord]
  BY <1>1
<1>4. r.req \in Jobs
  BY DEF Calls, FarSide
<1>5. Forward
  BY <1>2 DEF Forward
<1> QED
  BY <1>2, <1>3, <1>4, <1>5 DEF Calls, FarSide, Known

\* The share's runner moves one record, and nobody else does anything.
LEMMA ShareKeeps ==
  ASSUME Calls, NEW i \in Ids, NEW r \in ShareRecord, far' = [far EXCEPT ![i] = r],
         r.req = far[i].req, Known(i),
         far[i].state \in {"failed", "cancelled"} => r.state = far[i].state,
         far[i].state \notin {"pending", "running"} => r.state \notin {"pending", "running"},
         NEW w \in {"off", "fetch", "deliver", "mark", "release"},
         work' = [work EXCEPT ![i] = w],
         w # "off" => r.live /\ r.state = IF w = "release" THEN "transferred" ELSE "running",
         part' \subseteq Ids, share' \in Artifacts \cup {None},
         faults' \in [left : 0..MaxFaults, seen : SUBSET Kinds],
         UNCHANGED <<loc, diskVars, agent, up>>
  PROVE  Calls' /\ Forward
<1>1. /\ far' \in [Ids -> ShareRecord] /\ Forward
      /\ far'[i] = r /\ \A j \in Ids \ {i} : far'[j] = far[j]
      /\ \A j \in Ids : far'[j] # Absent => far'[j].req \in Jobs
  BY RecordMoves
<1>2. /\ work' \in [Ids -> {"off", "fetch", "deliver", "mark", "release"}]
      /\ work'[i] = w /\ \A j \in Ids \ {i} : work'[j] = work[j]
  BY DEF Calls, TypeOK
<1>3. TypeOK'
  BY <1>1, <1>2 DEF Calls, TypeOK, ShareRecord, Artifacts, diskVars
<1>4. FarSide'
  <2>1. \A j \in Ids : work'[j] # "off" =>
          far'[j].live /\ far'[j].state = IF work'[j] = "release" THEN "transferred" ELSE "running"
    BY <1>1, <1>2 DEF Calls, FarSide
  <2>2. \A q \in Jobs : loc[q].ext \in Ids => far'[loc[q].ext].req = q
    BY <1>1 DEF Calls, FarSide, Forward
  <2> QED
    BY <1>1, <2>1, <2>2 DEF Calls, FarSide, Known
<1>5. /\ agent' \in [Agents -> AgentRecord]
      /\ \A b \in Agents : Sane(agent'[b], far')
      /\ LookedWell'
  BY <1>1, NobodyTurns
<1> QED
  BY <1>1, <1>3, <1>4, <1>5 DEF Calls

LEMMA ShareTypes ==
  ASSUME Calls, NEW i \in Ids
  PROVE  /\ far[i] \in ShareRecord /\ far \in [Ids -> ShareRecord]
         /\ work \in [Ids -> {"off", "fetch", "deliver", "mark", "release"}]
         /\ part \subseteq Ids /\ share \in Artifacts \cup {None}
         /\ faults \in [left : 0..MaxFaults, seen : SUBSET Kinds]
         /\ Known(i) => Artifact[far[i].req] \in Artifacts
         /\ work[i] # "off" =>
              /\ Known(i) /\ far[i].live
              /\ far[i].state = IF work[i] = "release" THEN "transferred" ELSE "running"
BY KnownIs DEF Calls, TypeOK, ShareRecord, Artifacts, FarSide

LEMMA FarStepKeeps ==
  ASSUME Calls, NEW i \in Ids, FarStep(i)
  PROVE  Calls' /\ Forward
<1>1. CASE FarClaim(i)
  <2> DEFINE r == [far[i] EXCEPT !.state = "running", !.live = TRUE]
  <2>1. r \in ShareRecord /\ r.req = far[i].req /\ r.state = "running" /\ r.live
    BY ShareTypes DEF ShareRecord, States
  <2>2. far' = [far EXCEPT ![i] = r]
    BY <1>1, ShareTypes DEF FarClaim, ShareRecord
  <2>3. far[i].state \in {"pending", "running"} /\ Known(i)
    BY <1>1 DEF FarClaim, Orphan
  <2>4. /\ work' = [work EXCEPT ![i] = "fetch"] /\ part' \subseteq Ids
        /\ share' \in Artifacts \cup {None} /\ UNCHANGED <<loc, diskVars, agent, up>>
        /\ faults' \in [left : 0..MaxFaults, seen : SUBSET Kinds]
    BY <1>1, ShareTypes DEF FarClaim
  <2> HIDE DEF r
  <2> QED
    BY <2>1, <2>2, <2>3, <2>4, ShareKeeps
<1>2. CASE FarFetched(i) \/ FarDelivers(i)
  <2>1. far' = [far EXCEPT ![i] = far[i]]
    BY <1>2, ShareTypes DEF FarFetched, FarDelivers
  <2>2. PICK w \in {"deliver", "mark"} : work' = [work EXCEPT ![i] = w]
    BY <1>2 DEF FarFetched, FarDelivers
  <2>3. work[i] \in {"fetch", "deliver"}
    BY <1>2 DEF FarFetched, FarDelivers
  <2>4. /\ part' \subseteq Ids
        /\ share' \in Artifacts \cup {None} /\ UNCHANGED <<loc, diskVars, agent, up>>
        /\ faults' \in [left : 0..MaxFaults, seen : SUBSET Kinds]
    BY <1>2, <2>3, ShareTypes DEF FarFetched, FarDelivers
  <2> QED
    BY <2>1, <2>2, <2>3, <2>4, ShareKeeps, ShareTypes
<1>3. CASE FarHonours(i) \/ FarLostPartial(i) \/ FarRelease(i)
  <2> DEFINE r == Released(far[i])
  <2>1. /\ r \in ShareRecord /\ r.req = far[i].req
        /\ r.state = IF far[i].state = "running" THEN "pending" ELSE far[i].state
    BY ShareTypes DEF ShareRecord, States, Released
  <2>2. far' = [far EXCEPT ![i] = r] /\ work' = [work EXCEPT ![i] = "off"]
    BY <1>3 DEF FarHonours, FarLostPartial, FarRelease, FarLetsGo
  <2>3. work[i] # "off"
    BY <1>3 DEF FarHonours, FarLostPartial, FarRelease
  <2>4. /\ part' \subseteq Ids
        /\ share' \in Artifacts \cup {None} /\ UNCHANGED <<loc, diskVars, agent, up>>
        /\ faults' \in [left : 0..MaxFaults, seen : SUBSET Kinds]
    BY <1>3, ShareTypes DEF FarHonours, FarLostPartial, FarRelease
  <2>5. Known(i) /\ far[i].state \in {"running", "transferred"}
    BY <2>3, ShareTypes
  <2> HIDE DEF r
  <2> QED
    BY <2>1, <2>2, <2>4, <2>5, ShareKeeps
<1>4. CASE FarMark(i)
  <2> DEFINE r == [far[i] EXCEPT !.state = "transferred"]
  <2>1. r \in ShareRecord /\ r.req = far[i].req /\ r.state = "transferred" /\ r.live = far[i].live
    BY ShareTypes DEF ShareRecord, States
  <2>2. far' = [far EXCEPT ![i] = r] /\ work' = [work EXCEPT ![i] = "release"]
    BY <1>4, ShareTypes DEF FarMark, ShareRecord
  <2>3. Known(i) /\ far[i].state = "running" /\ far[i].live
    BY <1>4, ShareTypes DEF FarMark
  <2>4. /\ part' \subseteq Ids
        /\ share' \in Artifacts \cup {None} /\ UNCHANGED <<loc, diskVars, agent, up>>
        /\ faults' \in [left : 0..MaxFaults, seen : SUBSET Kinds]
    BY <1>4, ShareTypes DEF FarMark
  <2> HIDE DEF r
  <2> QED
    BY <2>1, <2>2, <2>3, <2>4, ShareKeeps
<1>5. CASE FarTake(i)
  <2> DEFINE r == [far[i] EXCEPT !.state = "complete"]
  <2>1. r \in ShareRecord /\ r.req = far[i].req /\ r.state = "complete"
    BY ShareTypes DEF ShareRecord, States
  <2>2. far' = [far EXCEPT ![i] = r]
    BY <1>5, ShareTypes DEF FarTake, ShareRecord
  <2>3. far[i].state = "transferred" /\ ~far[i].live
    BY <1>5 DEF FarTake
  <2>4. Known(i) /\ work[i] = "off" /\ work' = [work EXCEPT ![i] = "off"]
    BY <1>5, <2>3, ShareTypes DEF FarTake, Known, Absent
  <2>5. /\ part' \subseteq Ids
        /\ share' \in Artifacts \cup {None} /\ UNCHANGED <<loc, diskVars, agent, up>>
        /\ faults' \in [left : 0..MaxFaults, seen : SUBSET Kinds]
    BY <1>5, ShareTypes DEF FarTake
  <2> HIDE DEF r
  <2> QED
    BY <2>1, <2>2, <2>3, <2>4, <2>5, ShareKeeps
<1> QED
  BY <1>1, <1>2, <1>3, <1>4, <1>5 DEF FarStep

LEMMA FarFailsKeeps ==
  ASSUME Calls, NEW i \in Ids, FarFails(i)
  PROVE  Calls' /\ Forward
<1>1. PICK r \in {far[i], [far[i] EXCEPT !.state = "failed"]} : FarLetsGo(i, r)
  BY DEF FarFails
<1>2. Known(i) /\ far[i].state = "running" /\ r.req = far[i].req /\ r \in ShareRecord
  BY <1>1, ShareTypes DEF FarFails, ShareRecord, States
<1> DEFINE s == Released(r)
<1>3. s \in ShareRecord /\ s.req = far[i].req
  BY <1>2 DEF Released, ShareRecord, States
<1>4. far' = [far EXCEPT ![i] = s] /\ work' = [work EXCEPT ![i] = "off"]
  BY <1>1 DEF FarLetsGo
<1>5. /\ part' \subseteq Ids
      /\ share' \in Artifacts \cup {None} /\ UNCHANGED <<loc, diskVars, agent, up>>
      /\ faults' \in [left : 0..MaxFaults, seen : SUBSET Kinds]
  BY ShareTypes, DisturbIs DEF FarFails, Calls
<1> HIDE DEF s
<1> QED
  BY <1>2, <1>3, <1>4, <1>5, ShareKeeps

LEMMA FarCrashKeeps ==
  ASSUME Calls, FarCrash
  PROVE  Calls' /\ Forward
<1>1. far \in [Ids -> ShareRecord]
  BY DEF Calls, TypeOK, ShareRecord
<1>2. far' \in [Ids -> ShareRecord]
      /\ \A i \in Ids : far'[i].req = far[i].req /\ far'[i].state = far[i].state
                      /\ far'[i].want = far[i].want
  BY <1>1 DEF FarCrash, ShareRecord
<1>3. Forward
  BY <1>2 DEF Forward
<1>4. TypeOK'
  BY <1>2, DisturbIs DEF Calls, TypeOK, FarCrash, ShareRecord, diskVars
<1>5. FarSide'
  <2>1. ASSUME NEW i \in Ids, ~Known(i) PROVE far'[i] = Absent
    <3>1. far' = [j \in Ids |-> [far[j] EXCEPT !.live = FALSE]]
      BY DEF FarCrash
    <3>2. far[i] = Absent
      BY <2>1 DEF Known
    <3>3. far'[i] \in ShareRecord /\ far[i] \in ShareRecord
      BY <1>1, <1>2
    <3>4. far'[i].live = FALSE
      BY <1>1, <3>1 DEF ShareRecord
    <3>5. far'[i] = far[i]
      BY <1>2, <3>2, <3>3, <3>4 DEF ShareRecord, Absent
    <3> QED
      BY <3>2, <3>5
  <2> QED
    BY <1>2, <2>1 DEF Calls, FarSide, Known, FarCrash
<1> QED
  BY <1>3, <1>4, <1>5, NobodyTurns DEF Calls, FarCrash

-----------------------------------------------------------------------------
(* The steps of the calls.                                                  *)

LEMMA CallTypes ==
  ASSUME Calls, NEW a \in Agents
  PROVE  /\ agent[a] \in AgentRecord /\ agent[a].pc \in PCs
         /\ Sane(agent[a], far)
         /\ ~At(a, "idle") => Job(a) \in Jobs /\ loc[Job(a)] \in LocalRecord
         /\ At(a, "idle") => Job(a) = None
         /\ agent[a].pc \in HasRecord =>
              /\ agent[a].id \in Ids /\ far[agent[a].id].req = Job(a)
              /\ Known(agent[a].id) /\ Job(a) \in Jobs
         /\ loc \in [Jobs -> LocalRecord]
<1>1. agent[a] \in AgentRecord /\ Sane(agent[a], far) /\ loc \in [Jobs -> LocalRecord]
  BY DEF Calls, TypeOK, LocalRecord
<1>2. agent[a].pc \in PCs
  BY <1>1 DEF AgentRecord
<1>3. agent[a].pc \in HasRecord => agent[a].pc # "idle"
  BY DEF HasRecord
<1>4. agent[a].pc \in HasRecord => Known(agent[a].id)
  BY <1>1, <1>3, KnownIs DEF Sane, Calls
<1>5. agent[a].pc = "idle" => agent[a].job = None
  BY <1>1 DEF Sane, Idle
<1> QED
  BY <1>1, <1>2, <1>3, <1>4, <1>5 DEF Sane, At, Job

\* What a write of the local record leaves: with the lease given back, or nothing.
LEMMA WritesIs ==
  ASSUME Calls, NEW a \in Agents, ~At(a, "idle"), NEW r \in LocalRecord, Writes(a, r),
         r.ext \in {loc[Job(a)].ext, None} \/ (r.ext \in Ids /\ far[r.ext].req = Job(a))
  PROVE  /\ loc' \in [Jobs -> LocalRecord] /\ agent'[a] = Idle
         /\ \A b \in Agents \ {a} : agent'[b] = agent[b]
         /\ \A q \in Jobs \ {Job(a)} : loc'[q] = loc[q]
         /\ loc[Job(a)].holder = a =>
              loc'[Job(a)] = [r EXCEPT !.holder = None]
         /\ loc[Job(a)].holder # a => loc'[Job(a)] = loc[Job(a)]
         /\ \A q \in Jobs :
              \/ loc'[q].ext \in {loc[q].ext, None}
              \/ loc'[q].ext \in Ids /\ far[loc'[q].ext].req = q
<1>1. Job(a) \in Jobs /\ loc \in [Jobs -> LocalRecord] /\ Job(a) # None
  BY CallTypes, NasAssumption
<1>2. [r EXCEPT !.holder = None] \in LocalRecord /\ [r EXCEPT !.holder = None].ext = r.ext
  BY DEF LocalRecord
<1>3. /\ agent'[a] = Idle /\ \A b \in Agents \ {a} : agent'[b] = agent[b]
  BY BecomeIs DEF Writes, Calls
<1>4. loc' = IF loc[Job(a)].holder = a THEN [loc EXCEPT ![Job(a)] = [r EXCEPT !.holder = None]] ELSE loc
  BY <1>1 DEF Writes, MayWrite
<1> DEFINE s == [r EXCEPT !.holder = None]
<1> HIDE DEF s
<1>5. s \in LocalRecord /\ s.ext = r.ext
  BY <1>2 DEF s
<1>6. loc' = IF loc[Job(a)].holder = a THEN [loc EXCEPT ![Job(a)] = s] ELSE loc
  BY <1>4 DEF s
<1>7. loc' \in [Jobs -> LocalRecord] /\ \A q \in Jobs \ {Job(a)} : loc'[q] = loc[q]
  BY <1>1, <1>5, <1>6
<1>8. loc[Job(a)].holder = a => loc'[Job(a)] = s
  BY <1>1, <1>6
<1>9. loc[Job(a)].holder # a => loc'[Job(a)] = loc[Job(a)]
  BY <1>6
<1> QED
  BY <1>3, <1>5, <1>7, <1>8, <1>9 DEF s

\* A step of a call, by what it changes.
LEMMA CallKeeps ==
  ASSUME Calls, Forward, NEW a \in Agents, NEW r \in AgentRecord, Become(a, r), Sane(r, far'),
         r.pc = "remove" => \A j \in r.met \ {r.id} : far'[j].state \in {"failed", "cancelled"},
         loc' \in [Jobs -> LocalRecord], far' \in [Ids -> ShareRecord],
         \A j \in Ids : far'[j] # Absent => far'[j].req \in Jobs,
         \A j \in Ids : work[j] # "off" =>
           far'[j].state = far[j].state /\ far'[j].live = far[j].live,
         \A q \in Jobs :
           \/ loc'[q].ext \in {loc[q].ext, None, q}
           \/ loc'[q].ext \in Ids /\ far[loc'[q].ext].req = q,
         part' \subseteq Ids, share' \in Artifacts \cup {None}, work' = work, up' = up,
         data' \in [Inodes -> [1..Blocks -> Artifacts \cup {None}]],
         dest' \in [Jobs -> Inodes \cup {None}], tmp' \in [Jobs -> Inodes \cup {None}],
         faults' \in [left : 0..MaxFaults, seen : SUBSET Kinds]
  PROVE  Calls'
<1>1. TypeOK'
  BY DEF Calls, TypeOK, LocalRecord, ShareRecord, Artifacts
<1>2. FarSide'
  <2>1. ASSUME NEW q \in Jobs, loc'[q].ext \in Jobs PROVE loc'[q].ext = q
    <3>1. loc[q].ext \in Jobs => loc[q].ext = q
      BY DEF Calls, FarSide
    <3>2. None \notin Jobs /\ Jobs \cap Ids = {}
      BY NasAssumption
    <3> QED
      BY <2>1, <3>1, <3>2
  <2>2. ASSUME NEW q \in Jobs, loc'[q].ext \in Ids PROVE far'[loc'[q].ext].req = q
    <3>1. None \notin Ids /\ Jobs \cap Ids = {}
      BY NasAssumption
    <3>2. loc[q].ext \in Ids => far[loc[q].ext].req = q
      BY DEF Calls, FarSide
    <3>3. far[loc'[q].ext].req = q
      BY <2>2, <3>1, <3>2
    <3> QED
      BY <2>2, <3>3 DEF Forward
  <2>3. \A j \in Ids : work[j] # "off" =>
          far'[j].live /\ far'[j].state = IF work[j] = "release" THEN "transferred" ELSE "running"
    BY DEF Calls, FarSide
  <2> QED
    BY <2>1, <2>2, <2>3 DEF FarSide, Known
<1> QED
  BY <1>1, <1>2, TurnKeeps DEF Calls

\* The same, for a call that leaves the records of the share alone.
LEMMA CallMoves ==
  ASSUME Calls, NEW a \in Agents, NEW r \in AgentRecord, Become(a, r), Sane(r, far),
         r.pc = "remove" => \A j \in r.met \ {r.id} : far[j].state \in {"failed", "cancelled"},
         loc' \in [Jobs -> LocalRecord],
         \A q \in Jobs :
           \/ loc'[q].ext \in {loc[q].ext, None, q}
           \/ loc'[q].ext \in Ids /\ far[loc'[q].ext].req = q,
         part' \subseteq Ids, share' \in Artifacts \cup {None}, UNCHANGED <<far, work, up>>,
         data' \in [Inodes -> [1..Blocks -> Artifacts \cup {None}]],
         dest' \in [Jobs -> Inodes \cup {None}], tmp' \in [Jobs -> Inodes \cup {None}],
         faults' \in [left : 0..MaxFaults, seen : SUBSET Kinds]
  PROVE  Calls' /\ Forward
<1>1. Forward
  BY DEF Forward
<1>2. far' \in [Ids -> ShareRecord] /\ \A j \in Ids : far'[j] # Absent => far'[j].req \in Jobs
  BY DEF Calls, TypeOK, ShareRecord, FarSide, Known
<1> QED
  BY <1>1, <1>2, CallKeeps

\* What a step has in hand that touches neither the disk nor the share.
LEMMA DiskTypes ==
  ASSUME Calls
  PROVE  /\ data \in [Inodes -> [1..Blocks -> Artifacts \cup {None}]]
         /\ dest \in [Jobs -> Inodes \cup {None}] /\ tmp \in [Jobs -> Inodes \cup {None}]
         /\ part \subseteq Ids /\ share \in Artifacts \cup {None}
         /\ faults \in [left : 0..MaxFaults, seen : SUBSET Kinds]
         /\ loc \in [Jobs -> LocalRecord] /\ far \in [Ids -> ShareRecord]
         /\ Empty \in [1..Blocks -> Artifacts \cup {None}]
BY DEF Calls, TypeOK, Artifacts, LocalRecord, ShareRecord, Empty

\* A call that goes on with what it has, and leaves the records alone.
LEMMA CallGoes ==
  ASSUME Calls, NEW a \in Agents, NEW r \in AgentRecord, Become(a, r), Sane(r, far),
         r.pc = "remove" => \A j \in r.met \ {r.id} : far[j].state \in {"failed", "cancelled"},
         part' \subseteq Ids, share' \in Artifacts \cup {None}, UNCHANGED <<loc, far, work, up>>,
         data' \in [Inodes -> [1..Blocks -> Artifacts \cup {None}]],
         dest' \in [Jobs -> Inodes \cup {None}], tmp' \in [Jobs -> Inodes \cup {None}],
         faults' \in [left : 0..MaxFaults, seen : SUBSET Kinds]
  PROVE  Calls' /\ Forward
BY DiskTypes, CallMoves

\* A call that writes its job's record and is over.
LEMMA CallWrites ==
  ASSUME Calls, NEW a \in Agents, ~At(a, "idle"), NEW r \in LocalRecord, Writes(a, r),
         r.ext \in {loc[Job(a)].ext, None} \/ (r.ext \in Ids /\ far[r.ext].req = Job(a)),
         Forward, far' \in [Ids -> ShareRecord],
         \A j \in Ids : far'[j] # Absent => far'[j].req \in Jobs,
         \A j \in Ids : work[j] # "off" =>
           far'[j].state = far[j].state /\ far'[j].live = far[j].live,
         UNCHANGED <<work, part, share, diskVars, up>>,
         faults' \in [left : 0..MaxFaults, seen : SUBSET Kinds]
  PROVE  Calls'
<1>1. /\ loc' \in [Jobs -> LocalRecord] /\ Become(a, Idle)
      /\ \A q \in Jobs :
           \/ loc'[q].ext \in {loc[q].ext, None}
           \/ loc'[q].ext \in Ids /\ far[loc'[q].ext].req = q
  BY WritesIs DEF Writes
<1>2. Idle \in AgentRecord /\ Sane(Idle, far') /\ Idle.pc # "remove"
  BY IdleIs
<1> QED
  BY <1>1, <1>2, DiskTypes, CallKeeps DEF diskVars

\* A write that leaves the records of the share alone.
LEMMA CallEnds ==
  ASSUME Calls, NEW a \in Agents, ~At(a, "idle"), NEW r \in LocalRecord, Writes(a, r),
         r.ext \in {loc[Job(a)].ext, None} \/ (r.ext \in Ids /\ far[r.ext].req = Job(a)),
         UNCHANGED <<farVars, diskVars, up>>,
         faults' \in [left : 0..MaxFaults, seen : SUBSET Kinds]
  PROVE  Calls' /\ Forward
<1>1. Forward
  BY DEF Forward, farVars
<1>2. far' \in [Ids -> ShareRecord] /\ \A j \in Ids : far'[j] # Absent => far'[j].req \in Jobs
  BY DEF Calls, TypeOK, ShareRecord, FarSide, Known, farVars
<1> QED
  BY <1>1, <1>2, CallWrites DEF farVars

LEMMA TakeKeeps ==
  ASSUME Calls, NEW a \in Agents, NEW q \in Jobs, Take(a, q)
  PROVE  Calls' /\ Forward
<1> DEFINE i == IF loc[q].ext \in Ids THEN loc[q].ext ELSE None
           r == [Idle EXCEPT !.pc = Business(q), !.job = q, !.id = i]
           e == IF loc[q].ext = None THEN q ELSE loc[q].ext
           s == [loc[q] EXCEPT !.holder = a, !.ext = e]
<1>1. i \in Ids \cup {None} /\ e \in {loc[q].ext, q} /\ loc[q] \in LocalRecord
  BY DiskTypes
<1>2. Business(q) \in {"start", "locate", "poll", "pause", "load"}
      /\ (Business(q) \in {"poll", "pause", "load"} => loc[q].ext \in Ids)
  BY DEF Take, Business
<1>3. r \in AgentRecord /\ r.pc = Business(q) /\ r.job = q /\ r.id = i /\ r.file = None /\ r.met = {}
  <2>1. Business(q) \in PCs
    BY <1>2 DEF PCs, HasRecord
  <2> HIDE DEF i
  <2> QED
    BY <1>1, <2>1, IdleIs DEF AgentRecord
<1>4. loc[q].ext \in Ids => far[loc[q].ext].req = q
  BY DEF Calls, FarSide
<1>5. Sane(r, far)
  <2> HIDE DEF r
  <2> QED
    BY <1>2, <1>3, <1>4 DEF Sane, HasRecord
<1>6. s \in LocalRecord /\ s.ext = e
  <2> HIDE DEF e
  <2> QED
    BY <1>1 DEF LocalRecord
<1>7. loc' = [loc EXCEPT ![q] = s]
  BY DiskTypes DEF Take, LocalRecord
<1>8. Become(a, r)
  BY DEF Take
<1> HIDE DEF r, s, e
<1>9. /\ loc' \in [Jobs -> LocalRecord]
      /\ \A p \in Jobs : loc'[p].ext \in {loc[p].ext, None, p}
  BY <1>1, <1>6, <1>7, DiskTypes
<1>10. r.pc # "remove" /\ UNCHANGED <<farVars, diskVars, up, faults>>
  BY <1>2, <1>3 DEF Take
<1> QED
  BY <1>3, <1>5, <1>8, <1>9, <1>10, DiskTypes, CallMoves DEF farVars, diskVars

\* A call goes to its next point with what it has.
LEMMA GoesIs ==
  ASSUME Calls, NEW a \in Agents, NEW pc \in PCs, Goes(a, pc),
         ~At(a, "idle"), pc \notin {"idle", "create", "copy", "remove"},
         ~At(a, "copy"), ~At(a, "remove"),
         pc \in HasRecord => agent[a].pc \in HasRecord
  PROVE  \E r \in AgentRecord :
           /\ Become(a, r) /\ Sane(r, far) /\ r = [agent[a] EXCEPT !.pc = pc] /\ r.pc = pc
           /\ r.id = agent[a].id /\ r.job = agent[a].job
<1> DEFINE r == [agent[a] EXCEPT !.pc = pc]
<1>1. /\ r \in AgentRecord /\ r.pc = pc /\ r.id = agent[a].id /\ r.job = agent[a].job
      /\ r.file = agent[a].file /\ r.met = agent[a].met
  BY CallTypes DEF AgentRecord
<1>2. Sane(r, far)
  <2> HIDE DEF r
  <2> QED
    BY <1>1, CallTypes DEF Sane, At, HasRecord
<1> QED
  BY <1>1, <1>2 DEF Goes

LEMMA StartFailsKeeps ==
  ASSUME Calls, NEW a \in Agents, StartFails(a)
  PROVE  Calls' /\ Forward
<1>1. faults' \in [left : 0..MaxFaults, seen : SUBSET Kinds]
  BY DisturbIs, DiskTypes DEF StartFails, Calm, Calls
<1>2. PICK r \in AgentRecord : Become(a, r) /\ Sane(r, far) /\ r.pc = "locate"
  <2>1. "locate" \in PCs /\ Goes(a, "locate") /\ agent[a].pc = "start" /\ "locate" \notin HasRecord
    BY DEF PCs, HasRecord, StartFails, At
  <2> QED
    BY <2>1, GoesIs DEF At
<1> QED
  BY <1>1, <1>2, DiskTypes, CallGoes DEF StartFails, farVars, diskVars

LEMMA LocateKeeps ==
  ASSUME Calls, NEW a \in Agents, Locate(a)
  PROVE  Calls' /\ Forward
<1>1. /\ agent[a].pc = "locate" /\ ~At(a, "idle") /\ Job(a) \in Jobs /\ loc[Job(a)] \in LocalRecord
      /\ Sane(agent[a], far) /\ agent[a] \in AgentRecord
  BY CallTypes DEF Locate, At
<1>2. UNCHANGED <<farVars, diskVars, up, faults>>
  BY DEF Locate
<1>3. ASSUME NEW r, r = loc[Job(a)] \/ r = TakenBack(loc[Job(a)]), Writes(a, r)
      PROVE  Calls' /\ Forward
  <2>1. r \in LocalRecord /\ r.ext \in {loc[Job(a)].ext, None}
    BY <1>1, <1>3 DEF LocalRecord, TakenBack
  <2> QED
    BY <1>1, <1>2, <1>3, <2>1, DiskTypes, CallEnds
<1>4. ASSUME NEW i \in Ids, far[i].req = Job(a), UNCHANGED loc,
             Become(a, [agent[a] EXCEPT !.pc = "record", !.id = i])
      PROVE  Calls' /\ Forward
  <2> DEFINE r == [agent[a] EXCEPT !.pc = "record", !.id = i]
  <2>1. /\ r \in AgentRecord /\ r.pc = "record" /\ r.id = i /\ r.job = agent[a].job
        /\ r.file = agent[a].file /\ r.met = agent[a].met
    BY <1>1 DEF AgentRecord, PCs, HasRecord
  <2>2. Sane(r, far)
    <3> HIDE DEF r
    <3> QED
      BY <1>1, <1>4, <2>1 DEF Sane, HasRecord, Job
  <2>3. Become(a, r)
    BY <1>4
  <2> HIDE DEF r
  <2> QED
    BY <1>2, <1>4, <2>1, <2>2, <2>3, DiskTypes, CallGoes DEF farVars, diskVars
<1> QED
  BY <1>3, <1>4 DEF Locate

LEMMA RecordHandleKeeps ==
  ASSUME Calls, NEW a \in Agents, RecordHandle(a)
  PROVE  Calls' /\ Forward
<1>1. /\ agent[a].pc = "record" /\ ~At(a, "idle") /\ Job(a) \in Jobs /\ loc[Job(a)] \in LocalRecord
      /\ Sane(agent[a], far) /\ agent[a] \in AgentRecord
      /\ agent[a].id \in Ids /\ far[agent[a].id].req = Job(a)
  BY CallTypes DEF RecordHandle, At, HasRecord
<1>2. UNCHANGED <<farVars, diskVars, up, faults>>
  BY DEF RecordHandle
<1>3. CASE MayWrite(a)
  <2> DEFINE r == [loc[Job(a)] EXCEPT !.ext = agent[a].id]
  <2>1. r \in LocalRecord /\ r.ext = agent[a].id
    BY <1>1 DEF LocalRecord
  <2>2. Writes(a, r)
    BY <1>3 DEF RecordHandle
  <2> HIDE DEF r
  <2> QED
    BY <1>1, <1>2, <2>1, <2>2, DiskTypes, CallEnds
<1>4. CASE ~MayWrite(a)
  <2> DEFINE r == [agent[a] EXCEPT !.pc = "load", !.drop = TRUE]
  <2>1. /\ r \in AgentRecord /\ r.pc = "load" /\ r.id = agent[a].id /\ r.job = agent[a].job
        /\ r.file = agent[a].file /\ r.met = agent[a].met
    BY <1>1 DEF AgentRecord, PCs, HasRecord
  <2>2. Sane(r, far)
    <3> HIDE DEF r
    <3> QED
      BY <1>1, <2>1 DEF Sane, HasRecord, Job
  <2>3. Become(a, r) /\ UNCHANGED loc
    BY <1>4 DEF RecordHandle
  <2> HIDE DEF r
  <2> QED
    BY <1>2, <2>1, <2>2, <2>3, DiskTypes, CallGoes DEF farVars, diskVars
<1> QED
  BY <1>3, <1>4

LEMMA PollKeeps ==
  ASSUME Calls, NEW a \in Agents, Poll(a)
  PROVE  Calls' /\ Forward
<1>1. /\ agent[a].pc = "poll" /\ ~At(a, "idle") /\ Job(a) \in Jobs /\ loc[Job(a)] \in LocalRecord
      /\ agent[a].id \in Ids /\ far[agent[a].id].state \in States
  BY CallTypes, ShareTypes DEF Poll, At, HasRecord, ShareRecord
<1>2. UNCHANGED <<farVars, diskVars, up, faults>>
  BY DEF Poll
<1>3. ASSUME NEW r, r = loc[Job(a)] \/ r = TakenBack(loc[Job(a)]), Writes(a, r)
      PROVE  Calls' /\ Forward
  <2>1. r \in LocalRecord /\ r.ext \in {loc[Job(a)].ext, None}
    BY <1>1, <1>3 DEF LocalRecord, TakenBack
  <2> QED
    BY <1>1, <1>2, <1>3, <2>1, DiskTypes, CallEnds
<1>4. ASSUME NEW pc \in {"open", "resume"}, Goes(a, pc), UNCHANGED loc
      PROVE  Calls' /\ Forward
  <2>1. pc \in PCs /\ pc \in HasRecord /\ agent[a].pc \in HasRecord
    BY <1>1 DEF PCs, HasRecord
  <2>2. PICK r \in AgentRecord : Become(a, r) /\ Sane(r, far) /\ r.pc = pc
    BY <1>1, <1>4, <2>1, GoesIs DEF At
  <2> QED
    BY <1>2, <1>4, <2>2, DiskTypes, CallGoes DEF farVars, diskVars
<1>5. \/ Writes(a, loc[Job(a)]) \/ Writes(a, TakenBack(loc[Job(a)]))
      \/ (Goes(a, "open") \/ Goes(a, "resume")) /\ UNCHANGED loc
  <2>1. up \in BOOLEAN
    BY DEF Calls, TypeOK
  <2> QED
    BY <1>1, <2>1 DEF Poll, States, Terminal
<1> QED
  BY <1>3, <1>4, <1>5

\* A record that is written from here keeps what its own runner goes by.
LEMMA SetIntentIs ==
  ASSUME Calls, NEW i \in Ids, Known(i), NEW w \in Wants, SetIntent(i, w)
  PROVE  /\ far' \in [Ids -> ShareRecord] /\ Forward
         /\ \A j \in Ids : far'[j] # Absent => far'[j].req \in Jobs
         /\ \A j \in Ids : /\ far'[j].state = far[j].state /\ far'[j].live = far[j].live
                           /\ far'[j].req = far[j].req
<1> DEFINE r == [far[i] EXCEPT !.want = w]
<1>1. /\ r \in ShareRecord /\ r.req = far[i].req /\ r.state = far[i].state /\ r.live = far[i].live
  BY ShareTypes DEF ShareRecord
<1>2. far' = [far EXCEPT ![i] = r] \/ far' = far
  BY ShareTypes DEF SetIntent, ShareRecord
<1> HIDE DEF r
<1>3. CASE far' = [far EXCEPT ![i] = r]
  BY <1>1, <1>3, RecordMoves
<1>4. CASE far' = far
  BY <1>4, DiskTypes DEF Forward, Calls, FarSide, Known
<1> QED
  BY <1>2, <1>3, <1>4

LEMMA IntentKeeps ==
  ASSUME Calls, NEW a \in Agents, Suspend(a) \/ Resume(a)
  PROVE  Calls' /\ Forward
<1>1. /\ agent[a].pc \in {"pause", "resume"} /\ ~At(a, "idle")
      /\ loc[Job(a)] \in LocalRecord /\ agent[a].id \in Ids /\ Known(agent[a].id)
  BY CallTypes DEF Suspend, Resume, At, HasRecord
<1>2. PICK w \in Wants : SetIntent(agent[a].id, w)
  BY DEF Suspend, Resume, Wants
<1>3. Writes(a, loc[Job(a)]) /\ UNCHANGED <<work, part, share, diskVars, up, faults>>
  BY DEF Suspend, Resume
<1>4. /\ far' \in [Ids -> ShareRecord] /\ Forward
      /\ \A j \in Ids : far'[j] # Absent => far'[j].req \in Jobs
      /\ \A j \in Ids : far'[j].state = far[j].state /\ far'[j].live = far[j].live
  BY <1>1, <1>2, SetIntentIs
<1> QED
  BY <1>1, <1>3, <1>4, DiskTypes, CallWrites

LEMMA OpenKeeps ==
  ASSUME Calls, NEW a \in Agents, Open(a)
  PROVE  Calls' /\ Forward
<1>1. /\ agent[a].pc = "open" /\ ~At(a, "idle") /\ Job(a) \in Jobs /\ loc[Job(a)] \in LocalRecord
      /\ Sane(agent[a], far) /\ agent[a] \in AgentRecord
  BY CallTypes DEF Open, At
<1>2. UNCHANGED <<farVars, diskVars, up, faults>>
  BY DEF Open
<1>3. CASE up /\ share # None
  <2> DEFINE r == [agent[a] EXCEPT !.pc = "create", !.bytes = share]
  <2>1. /\ r \in AgentRecord /\ r.pc = "create" /\ r.id = agent[a].id /\ r.job = agent[a].job
        /\ r.file = agent[a].file /\ r.met = agent[a].met /\ r.bytes = share
    BY <1>1, DiskTypes DEF AgentRecord, PCs, HasRecord
  <2>2. Sane(r, far)
    <3> HIDE DEF r
    <3> QED
      BY <1>1, <1>3, <2>1, DiskTypes DEF Sane, HasRecord, Job
  <2>3. Become(a, r) /\ UNCHANGED loc
    BY <1>3 DEF Open
  <2> HIDE DEF r
  <2> QED
    BY <1>2, <2>1, <2>2, <2>3, DiskTypes, CallGoes DEF farVars, diskVars
<1>4. CASE ~(up /\ share # None)
  <2>1. Writes(a, loc[Job(a)])
    BY <1>4 DEF Open
  <2> QED
    BY <1>1, <1>2, <2>1, DiskTypes, CallEnds
<1> QED
  BY <1>3, <1>4

\* The file that is created, and what the call has then.
LEMMA CreateIs ==
  ASSUME Calls, NEW a \in Agents, Create(a)
  PROVE  \E f \in Inodes, r \in AgentRecord :
           /\ f = (IF tmp[Job(a)] # None THEN tmp[Job(a)] ELSE Fresh)
           /\ tmp' = [tmp EXCEPT ![Job(a)] = f] /\ data' = [data EXCEPT ![f] = Empty]
           /\ Become(a, r) /\ r.pc = "copy" /\ r.file = f /\ r.left = Blocks
           /\ r.id = agent[a].id /\ r.job = agent[a].job /\ r.met = agent[a].met
           /\ r.bytes = agent[a].bytes /\ r.drop = agent[a].drop
<1> DEFINE f == IF tmp[Job(a)] # None THEN tmp[Job(a)] ELSE Fresh
           r == [agent[a] EXCEPT !.pc = "copy", !.file = f, !.left = Blocks]
<1>1. /\ ~At(a, "idle") /\ Job(a) \in Jobs /\ agent[a] \in AgentRecord
  BY CallTypes DEF Create, At
<1>2. f \in Inodes
  BY <1>1, FreshIs, DiskTypes
<1>3. Become(a, r) /\ tmp' = [tmp EXCEPT ![Job(a)] = f] /\ data' = [data EXCEPT ![f] = Empty]
  BY DEF Create
<1> HIDE DEF f
<1>4. /\ r \in AgentRecord /\ r.pc = "copy" /\ r.id = agent[a].id /\ r.job = agent[a].job
      /\ r.file = f /\ r.met = agent[a].met /\ r.bytes = agent[a].bytes /\ r.left = Blocks
      /\ r.drop = agent[a].drop
  <2>1. Blocks \in 0..Blocks /\ "copy" \in PCs
    BY NasAssumption DEF PCs, HasRecord
  <2> QED
    BY <1>1, <1>2, <2>1 DEF AgentRecord
<1> HIDE DEF r
<1> QED
  BY <1>2, <1>3, <1>4 DEF f

LEMMA CreateKeeps ==
  ASSUME Calls, NEW a \in Agents, Create(a)
  PROVE  Calls' /\ Forward
<1>1. /\ agent[a].pc = "create" /\ Job(a) \in Jobs /\ Sane(agent[a], far)
  BY CallTypes DEF Create, At, HasRecord
<1>2. PICK f \in Inodes, r \in AgentRecord :
           /\ tmp' = [tmp EXCEPT ![Job(a)] = f] /\ data' = [data EXCEPT ![f] = Empty]
           /\ Become(a, r) /\ r.pc = "copy" /\ r.file = f /\ r.left = Blocks
           /\ r.id = agent[a].id /\ r.job = agent[a].job /\ r.met = agent[a].met
           /\ r.bytes = agent[a].bytes
  BY CreateIs
<1>3. Sane(r, far)
  BY <1>1, <1>2, NasAssumption DEF Sane, HasRecord
<1>4. /\ data' \in [Inodes -> [1..Blocks -> Artifacts \cup {None}]]
      /\ tmp' \in [Jobs -> Inodes \cup {None}]
  BY <1>2, DiskTypes
<1> QED
  BY <1>2, <1>3, <1>4, DiskTypes, CallGoes DEF Create, farVars

\* A block of the file is there, and one fewer is left.
LEMMA CopyIs ==
  ASSUME Calls, NEW a \in Agents, Copy(a)
  PROVE  \E r \in AgentRecord, d \in [1..Blocks -> Artifacts \cup {None}] :
           /\ agent[a].file \in Inodes /\ agent[a].left \in 1..Blocks
           /\ data' = [data EXCEPT ![agent[a].file] = d]
           /\ \A n \in 1..Blocks :
                d[n] = IF n = Blocks - agent[a].left + 1 THEN agent[a].bytes
                       ELSE data[agent[a].file][n]
           /\ Become(a, r) /\ r.pc = "copy" /\ r.file = agent[a].file /\ r.left = agent[a].left - 1
           /\ r.id = agent[a].id /\ r.job = agent[a].job /\ r.met = agent[a].met
           /\ r.bytes = agent[a].bytes /\ r.drop = agent[a].drop
<1>1. /\ agent[a].pc = "copy" /\ agent[a] \in AgentRecord /\ Sane(agent[a], far)
  BY CallTypes DEF Copy, At
<1>2. /\ agent[a].file \in Inodes /\ agent[a].left \in 1..Blocks /\ agent[a].bytes \in Artifacts
      /\ agent[a].left - 1 \in 0..Blocks
  BY <1>1, NasAssumption DEF AgentRecord, Sane, Copy
<1> DEFINE r == [agent[a] EXCEPT !.left = agent[a].left - 1]
           d == [data[agent[a].file] EXCEPT ![Blocks - agent[a].left + 1] = agent[a].bytes]
<1>3. Become(a, r) /\ data' = [data EXCEPT ![agent[a].file] = d]
  BY <1>1, <1>2, DiskTypes DEF Copy, AgentRecord
<1>4. /\ r \in AgentRecord /\ r.pc = "copy" /\ r.id = agent[a].id /\ r.job = agent[a].job
      /\ r.file = agent[a].file /\ r.met = agent[a].met /\ r.bytes = agent[a].bytes
      /\ r.left = agent[a].left - 1 /\ r.drop = agent[a].drop
  BY <1>1, <1>2 DEF AgentRecord
<1>5. d \in [1..Blocks -> Artifacts \cup {None}]
      /\ \A n \in 1..Blocks :
           d[n] = IF n = Blocks - agent[a].left + 1 THEN agent[a].bytes
                  ELSE data[agent[a].file][n]
  BY <1>2, DiskTypes
<1> HIDE DEF r, d
<1> QED
  BY <1>2, <1>3, <1>4, <1>5

LEMMA CopyKeeps ==
  ASSUME Calls, NEW a \in Agents, Copy(a)
  PROVE  Calls' /\ Forward
<1>1. /\ agent[a].pc = "copy" /\ Sane(agent[a], far)
  BY CallTypes DEF Copy, At
<1>2. PICK r \in AgentRecord, d \in [1..Blocks -> Artifacts \cup {None}] :
           /\ agent[a].file \in Inodes
           /\ data' = [data EXCEPT ![agent[a].file] = d]
           /\ Become(a, r) /\ r.pc = "copy" /\ r.file = agent[a].file
           /\ r.id = agent[a].id /\ r.job = agent[a].job /\ r.met = agent[a].met
           /\ r.bytes = agent[a].bytes
  BY CopyIs
<1>3. Sane(r, far)
  BY <1>1, <1>2 DEF Sane, HasRecord
<1>4. data' \in [Inodes -> [1..Blocks -> Artifacts \cup {None}]]
  BY <1>2, DiskTypes
<1> QED
  BY <1>2, <1>3, <1>4, DiskTypes, CallGoes DEF Copy, farVars

LEMMA CopyFailsKeeps ==
  ASSUME Calls, NEW a \in Agents, CopyFails(a)
  PROVE  Calls' /\ Forward
<1>1. /\ ~At(a, "idle") /\ loc[Job(a)] \in LocalRecord
  BY CallTypes DEF CopyFails, At
<1>2. faults' \in [left : 0..MaxFaults, seen : SUBSET Kinds]
  BY DisturbIs, DiskTypes DEF CopyFails, Calm, Calls
<1> QED
  BY <1>1, <1>2, CallEnds DEF CopyFails

LEMMA RenameKeeps ==
  ASSUME Calls, NEW a \in Agents, Rename(a)
  PROVE  Calls' /\ Forward
<1>1. /\ agent[a].pc = "copy" /\ ~At(a, "idle") /\ Job(a) \in Jobs /\ loc[Job(a)] \in LocalRecord
      /\ Sane(agent[a], far) /\ agent[a] \in AgentRecord
  BY CallTypes DEF Rename, At
<1>2. UNCHANGED <<farVars, data, up, faults>>
  BY DEF Rename
<1>3. CASE tmp[Job(a)] = None
  <2>1. Writes(a, loc[Job(a)]) /\ UNCHANGED diskVars
    BY <1>2, <1>3 DEF Rename, diskVars
  <2> QED
    BY <1>1, <1>2, <2>1, DiskTypes, CallEnds
<1>4. CASE tmp[Job(a)] # None
  <2> DEFINE r == [agent[a] EXCEPT !.pc = "acknowledge", !.file = None]
  <2>1. /\ r \in AgentRecord /\ r.pc = "acknowledge" /\ r.id = agent[a].id /\ r.job = agent[a].job
        /\ r.file = None /\ r.met = agent[a].met
    BY <1>1 DEF AgentRecord, PCs, HasRecord
  <2>2. Sane(r, far)
    <3> HIDE DEF r
    <3> QED
      BY <1>1, <2>1 DEF Sane, HasRecord, Job
  <2>3. Become(a, r) /\ UNCHANGED loc
    BY <1>4 DEF Rename
  <2>4. dest' \in [Jobs -> Inodes \cup {None}] /\ tmp' \in [Jobs -> Inodes \cup {None}]
    BY <1>1, <1>4, DiskTypes DEF Rename
  <2> HIDE DEF r
  <2> QED
    BY <1>2, <2>1, <2>2, <2>3, <2>4, DiskTypes, CallGoes DEF farVars
<1> QED
  BY <1>3, <1>4

LEMMA AcknowledgeKeeps ==
  ASSUME Calls, NEW a \in Agents, Acknowledge(a)
  PROVE  Calls' /\ Forward
<1>1. /\ agent[a].pc = "acknowledge" /\ ~At(a, "idle") /\ agent[a].pc \in HasRecord
      /\ agent[a].id \in Ids /\ Known(agent[a].id)
  BY CallTypes DEF Acknowledge, At, HasRecord
<1>2. PICK r \in AgentRecord : Become(a, r) /\ Sane(r, far) /\ r.pc = "verify" /\ r.id = agent[a].id
  <2>1. "verify" \in PCs /\ Goes(a, "verify")
    BY DEF PCs, HasRecord, Acknowledge
  <2> QED
    BY <1>1, <2>1, GoesIs DEF At
<1>3. CASE far' = far
  BY <1>2, <1>3, DiskTypes, CallGoes DEF Acknowledge, diskVars
<1>4. CASE far' # far
  <2> DEFINE i == agent[a].id
             s == [far[i] EXCEPT !.state = "complete"]
  <2>1. s \in ShareRecord /\ s.req = far[i].req /\ s.state = "complete"
    BY <1>1, ShareTypes DEF ShareRecord, States
  <2>2. far' = [far EXCEPT ![i] = s] /\ Claimable(far[i])
    BY <1>1, <1>4, ShareTypes DEF Acknowledge, ShareRecord
  <2>3. /\ far[i].state \notin {"failed", "cancelled"}
        /\ ~far[i].live
    BY <2>2 DEF Claimable, Terminal
  <2> HIDE DEF i, s
  <2>4. /\ far' \in [Ids -> ShareRecord] /\ Forward
        /\ far'[i] = s /\ \A j \in Ids \ {i} : far'[j] = far[j]
        /\ \A j \in Ids : far'[j] # Absent => far'[j].req \in Jobs
    BY <1>1, <2>1, <2>2, <2>3, RecordMoves DEF i
  <2>5. i \in Ids /\ work[i] = "off"
    BY <1>1, <2>3, ShareTypes DEF i
  <2>6. Sane(r, far')
    BY <1>2, <1>1, <2>4, CallTypes DEF Sane, HasRecord, Forward
  <2> QED
    BY <1>2, <2>4, <2>5, <2>6, DiskTypes, CallKeeps DEF Acknowledge, diskVars
<1> QED
  BY <1>3, <1>4

LEMMA VerifyKeeps ==
  ASSUME Calls, NEW a \in Agents, Verify(a)
  PROVE  Calls' /\ Forward
<1> DEFINE o == Whole(Job(a)) \/ ~Digest
           r == [agent[a] EXCEPT !.pc = "deliver", !.over = o]
<1>1. /\ agent[a].pc = "verify" /\ Sane(agent[a], far) /\ agent[a] \in AgentRecord
  BY CallTypes DEF Verify, At
<1>2. o \in BOOLEAN
  OBVIOUS
<1>3. Become(a, r)
  BY DEF Verify
<1> HIDE DEF o
<1>4. /\ r \in AgentRecord /\ r.pc = "deliver" /\ r.id = agent[a].id /\ r.job = agent[a].job
      /\ r.file = agent[a].file /\ r.met = agent[a].met
  BY <1>1, <1>2 DEF AgentRecord, PCs, HasRecord
<1> HIDE DEF r
<1>5. Sane(r, far)
  BY <1>1, <1>4 DEF Sane, HasRecord
<1> QED
  BY <1>3, <1>4, <1>5, DiskTypes, CallGoes DEF Verify, farVars, diskVars

LEMMA DeliverKeeps ==
  ASSUME Calls, NEW a \in Agents, Deliver(a)
  PROVE  Calls' /\ Forward
<1>1. /\ ~At(a, "idle") /\ loc[Job(a)] \in LocalRecord
  BY CallTypes DEF Deliver, At
<1>2. PICK r : /\ r = [loc[Job(a)] EXCEPT !.state = "delivered"] \/ r = TakenBack(loc[Job(a)])
               /\ Writes(a, r)
  BY DEF Deliver
<1>3. r \in LocalRecord /\ r.ext \in {loc[Job(a)].ext, None}
  BY <1>1, <1>2 DEF LocalRecord, TakenBack
<1> QED
  BY <1>1, <1>2, <1>3, DiskTypes, CallEnds DEF Deliver

LEMMA LoadRemoteKeeps ==
  ASSUME Calls, NEW a \in Agents, LoadRemote(a)
  PROVE  Calls' /\ Forward
<1>1. /\ agent[a].pc = "load" /\ ~At(a, "idle") /\ Sane(agent[a], far) /\ agent[a] \in AgentRecord
      /\ agent[a].pc \in HasRecord
  BY CallTypes DEF LoadRemote, At, HasRecord
<1>2. part' \subseteq Ids /\ UNCHANGED <<loc, far, work, share, diskVars, up, faults>>
  BY DiskTypes DEF LoadRemote
<1>3. CASE up
  <2> DEFINE o == Terminal(far[agent[a].id].state)
             r == [agent[a] EXCEPT !.pc = "look", !.over = o]
  <2>1. o \in BOOLEAN
    BY DEF Terminal
  <2>2. Become(a, r)
    BY <1>3 DEF LoadRemote
  <2> HIDE DEF o
  <2>3. /\ r \in AgentRecord /\ r.pc = "look" /\ r.id = agent[a].id /\ r.job = agent[a].job
        /\ r.file = agent[a].file /\ r.met = agent[a].met
    BY <1>1, <2>1 DEF AgentRecord, PCs, HasRecord
  <2> HIDE DEF r
  <2>4. Sane(r, far)
    BY <1>1, <2>3 DEF Sane, HasRecord
  <2> QED
    BY <1>2, <2>2, <2>3, <2>4, DiskTypes, CallGoes DEF diskVars
<1>4. CASE ~up
  <2>1. "cancel" \in PCs /\ Goes(a, "cancel")
    BY <1>4 DEF PCs, HasRecord, LoadRemote
  <2>2. PICK r \in AgentRecord : Become(a, r) /\ Sane(r, far) /\ r.pc = "cancel"
    BY <1>1, <2>1, GoesIs DEF At
  <2> QED
    BY <1>2, <2>2, DiskTypes, CallGoes DEF diskVars
<1> QED
  BY <1>3, <1>4

LEMMA LookForOthersKeeps ==
  ASSUME Calls, NEW a \in Agents, LookForOthers(a)
  PROVE  Calls' /\ Forward
<1>1. /\ agent[a].pc = "look" /\ ~At(a, "idle") /\ Sane(agent[a], far) /\ agent[a] \in AgentRecord
      /\ agent[a].pc \in HasRecord
  BY CallTypes DEF LookForOthers, At, HasRecord
<1>2. UNCHANGED <<loc, farVars, diskVars, up, faults>>
  BY DEF LookForOthers
<1>3. CASE ClaimedByAnother(agent[a].id)
  <2>1. "end" \in PCs /\ Goes(a, "end")
    BY <1>3 DEF PCs, HasRecord, LookForOthers
  <2>2. PICK r \in AgentRecord : Become(a, r) /\ Sane(r, far) /\ r.pc = "end"
    BY <1>1, <2>1, GoesIs DEF At
  <2> QED
    BY <1>2, <2>2, DiskTypes, CallGoes DEF diskVars, farVars
<1>4. CASE ~ClaimedByAnother(agent[a].id)
  <2> DEFINE m == {j \in Ids : Known(j)}
             r == [agent[a] EXCEPT !.pc = "remove", !.met = m]
  <2>1. m \subseteq Ids /\ \A j \in m \ {agent[a].id} : far[j].state \in {"failed", "cancelled"}
    BY <1>4 DEF ClaimedByAnother
  <2>2. Become(a, r)
    BY <1>4 DEF LookForOthers
  <2> HIDE DEF m
  <2>3. /\ r \in AgentRecord /\ r.pc = "remove" /\ r.id = agent[a].id /\ r.job = agent[a].job
        /\ r.file = agent[a].file /\ r.met = m
    BY <1>1, <2>1 DEF AgentRecord, PCs, HasRecord
  <2> HIDE DEF r
  <2>4. Sane(r, far)
    BY <1>1, <2>3 DEF Sane, HasRecord
  <2> QED
    BY <1>2, <2>1, <2>2, <2>3, <2>4, DiskTypes, CallGoes DEF diskVars, farVars
<1> QED
  BY <1>3, <1>4

LEMMA RemoveFinalKeeps ==
  ASSUME Calls, NEW a \in Agents, RemoveFinal(a)
  PROVE  Calls' /\ Forward
<1> DEFINE r == [agent[a] EXCEPT !.pc = "end", !.met = {}]
<1>1. /\ agent[a].pc = "remove" /\ Sane(agent[a], far) /\ agent[a] \in AgentRecord
  BY CallTypes DEF RemoveFinal, At
<1>2. Become(a, r)
  BY DEF RemoveFinal
<1>3. /\ r \in AgentRecord /\ r.pc = "end" /\ r.id = agent[a].id /\ r.job = agent[a].job
      /\ r.file = agent[a].file /\ r.met = {}
  BY <1>1 DEF AgentRecord, PCs, HasRecord
<1> HIDE DEF r
<1>4. Sane(r, far)
  BY <1>1, <1>3 DEF Sane, HasRecord
<1> QED
  BY <1>2, <1>3, <1>4, DiskTypes, CallGoes DEF RemoveFinal, diskVars

LEMMA EndRemoteKeeps ==
  ASSUME Calls, NEW a \in Agents, EndRemote(a)
  PROVE  Calls' /\ Forward
<1>1. /\ agent[a].pc = "end" /\ ~At(a, "idle") /\ agent[a].pc \in HasRecord
      /\ agent[a].id \in Ids /\ Known(agent[a].id)
  BY CallTypes DEF EndRemote, At, HasRecord
<1>2. PICK r \in AgentRecord : Become(a, r) /\ Sane(r, far) /\ r.pc = "cancel" /\ r.id = agent[a].id
  <2>1. "cancel" \in PCs /\ Goes(a, "cancel")
    BY DEF PCs, HasRecord, EndRemote
  <2> QED
    BY <1>1, <2>1, GoesIs DEF At
<1>3. CASE far' = far
  BY <1>2, <1>3, DiskTypes, CallGoes DEF EndRemote, diskVars
<1>4. CASE far' # far
  <2> DEFINE i == agent[a].id
             s == [far[i] EXCEPT !.state = "cancelled"]
  <2>1. s \in ShareRecord /\ s.req = far[i].req /\ s.state = "cancelled"
    BY <1>1, ShareTypes DEF ShareRecord, States
  <2>2. far' = [far EXCEPT ![i] = s] /\ Claimable(far[i])
    BY <1>1, <1>4, ShareTypes DEF EndRemote, ShareRecord
  <2>3. /\ far[i].state \notin {"failed", "cancelled"}
        /\ ~far[i].live
    BY <2>2 DEF Claimable, Terminal
  <2> HIDE DEF i, s
  <2>4. /\ far' \in [Ids -> ShareRecord] /\ Forward
        /\ far'[i] = s /\ \A j \in Ids \ {i} : far'[j] = far[j]
        /\ \A j \in Ids : far'[j] # Absent => far'[j].req \in Jobs
    BY <1>1, <2>1, <2>2, <2>3, RecordMoves DEF i
  <2>5. i \in Ids /\ work[i] = "off"
    BY <1>1, <2>3, ShareTypes DEF i
  <2>6. Sane(r, far')
    BY <1>2, <1>1, <2>4, CallTypes DEF Sane, HasRecord, Forward
  <2> QED
    BY <1>2, <2>4, <2>5, <2>6, DiskTypes, CallKeeps DEF EndRemote, diskVars
<1> QED
  BY <1>3, <1>4

LEMMA CancelHereKeeps ==
  ASSUME Calls, NEW a \in Agents, CancelHere(a)
  PROVE  Calls' /\ Forward
<1>1. /\ ~At(a, "idle") /\ loc[Job(a)] \in LocalRecord
  BY CallTypes DEF CancelHere, At
<1>2. CASE agent[a].drop
  <2>1. Become(a, Idle) /\ UNCHANGED <<loc, farVars, diskVars, up, faults>>
    BY <1>2 DEF CancelHere
  <2> QED
    BY <2>1, IdleIs, DiskTypes, CallGoes DEF farVars, diskVars
<1>3. CASE ~agent[a].drop
  <2> DEFINE r == [loc[Job(a)] EXCEPT !.state = "cancelled"]
  <2>1. r \in LocalRecord /\ r.ext = loc[Job(a)].ext
    BY <1>1 DEF LocalRecord
  <2>2. Writes(a, r)
    BY <1>3 DEF CancelHere
  <2> HIDE DEF r
  <2> QED
    BY <1>1, <2>1, <2>2, DiskTypes, CallEnds DEF CancelHere
<1> QED
  BY <1>2, <1>3

\* A new record, for whoever starts; whether its id came back is all that differs.
LEMMA StartIs ==
  ASSUME Calls, NEW a \in Agents, Start(a)
  PROVE  \E i \in Ids, r \in AgentRecord, s \in ShareRecord :
           /\ ~Known(i) /\ far' = [far EXCEPT ![i] = s]
           /\ s.req = Job(a) /\ s.state = "pending" /\ ~s.live
           /\ Become(a, r) /\ r.job = Job(a) /\ r.drop = agent[a].drop
           /\ r.file = agent[a].file /\ r.met = agent[a].met
           /\ \/ r.pc = "record" /\ r.id = i /\ Calm
              \/ r.pc = "locate" /\ Disturb("lost")
<1>1. /\ agent[a].pc = "start" /\ Job(a) \in Jobs /\ agent[a] \in AgentRecord
  BY CallTypes DEF Start, At
<1>2. PICK i \in Ids :
       /\ ~Known(i)
       /\ far' = [far EXCEPT ![i] = [Absent EXCEPT !.req = Job(a)]]
       /\ \/ Become(a, [agent[a] EXCEPT !.pc = "record", !.id = i]) /\ Calm
          \/ Become(a, [agent[a] EXCEPT !.pc = "locate"]) /\ Disturb("lost")
  BY DEF Start, Goes
<1> DEFINE s == [Absent EXCEPT !.req = Job(a)]
<1>3. Absent \in ShareRecord /\ Absent.state = "pending" /\ ~Absent.live
  BY DEF Absent, ShareRecord, States, Wants
<1>4. s \in ShareRecord /\ s.req = Job(a) /\ s.state = "pending" /\ ~s.live
  BY <1>1, <1>3 DEF ShareRecord
<1>5. far' = [far EXCEPT ![i] = s]
  BY <1>2
<1> HIDE DEF s
<1>6. ASSUME Become(a, [agent[a] EXCEPT !.pc = "record", !.id = i]), Calm
      PROVE  \E r \in AgentRecord :
               /\ Become(a, r) /\ r.job = Job(a) /\ r.drop = agent[a].drop
               /\ r.file = agent[a].file /\ r.met = agent[a].met
               /\ r.pc = "record" /\ r.id = i
  <2> DEFINE r == [agent[a] EXCEPT !.pc = "record", !.id = i]
  <2>1. /\ r \in AgentRecord /\ r.pc = "record" /\ r.id = i /\ r.job = Job(a)
        /\ r.file = agent[a].file /\ r.met = agent[a].met /\ r.drop = agent[a].drop
    BY <1>1 DEF AgentRecord, PCs, HasRecord, Job
  <2>2. Become(a, r)
    BY <1>6
  <2> HIDE DEF r
  <2> QED
    BY <2>1, <2>2
<1>7. ASSUME Become(a, [agent[a] EXCEPT !.pc = "locate"]), Disturb("lost")
      PROVE  \E r \in AgentRecord :
               /\ Become(a, r) /\ r.job = Job(a) /\ r.drop = agent[a].drop
               /\ r.file = agent[a].file /\ r.met = agent[a].met
               /\ r.pc = "locate"
  <2> DEFINE r == [agent[a] EXCEPT !.pc = "locate"]
  <2>1. /\ r \in AgentRecord /\ r.pc = "locate" /\ r.job = Job(a)
        /\ r.file = agent[a].file /\ r.met = agent[a].met /\ r.drop = agent[a].drop
    BY <1>1 DEF AgentRecord, PCs, Job
  <2>2. Become(a, r)
    BY <1>7
  <2> HIDE DEF r
  <2> QED
    BY <2>1, <2>2
<1>8. CASE Become(a, [agent[a] EXCEPT !.pc = "record", !.id = i]) /\ Calm
  BY <1>2, <1>4, <1>5, <1>6, <1>8
<1>9. CASE Become(a, [agent[a] EXCEPT !.pc = "locate"]) /\ Disturb("lost")
  BY <1>2, <1>4, <1>5, <1>7, <1>9
<1> QED
  BY <1>2, <1>8, <1>9

LEMMA StartKeeps ==
  ASSUME Calls, NEW a \in Agents, Start(a)
  PROVE  Calls' /\ Forward
<1>1. PICK i \in Ids, r \in AgentRecord, s \in ShareRecord :
           /\ ~Known(i) /\ far' = [far EXCEPT ![i] = s]
           /\ s.req = Job(a) /\ s.state = "pending" /\ ~s.live
           /\ Become(a, r) /\ r.job = Job(a)
           /\ r.file = agent[a].file /\ r.met = agent[a].met
           /\ \/ r.pc = "record" /\ r.id = i /\ Calm
              \/ r.pc = "locate" /\ Disturb("lost")
  BY StartIs
<1>2. /\ agent[a].pc = "start" /\ Job(a) \in Jobs /\ Sane(agent[a], far) /\ Job(a) # None
  BY CallTypes, NasAssumption DEF Start, At
<1>3. far' \in [Ids -> ShareRecord] /\ far'[i] = s /\ \A j \in Ids \ {i} : far'[j] = far[j]
  BY <1>1, DiskTypes
<1>4. ~Known(i) /\ far[i].req = None /\ work[i] = "off" /\ far[i].state = "pending"
  BY <1>1, KnownIs DEF Calls
<1>5. Forward
  BY <1>3, <1>4, NasAssumption DEF Forward
<1>6. \A j \in Ids : far'[j] # Absent => far'[j].req \in Jobs
  BY <1>1, <1>2, <1>3 DEF Calls, FarSide, Known
<1>7. \A j \in Ids : work[j] # "off" => far'[j].state = far[j].state /\ far'[j].live = far[j].live
  BY <1>3, <1>4
<1>8. Sane(r, far')
  BY <1>1, <1>2, <1>3 DEF Sane, HasRecord
<1>9. faults' \in [left : 0..MaxFaults, seen : SUBSET Kinds]
  BY <1>1, DisturbIs, DiskTypes DEF Calm, Calls
<1>10. r.pc # "remove"
  BY <1>1
<1>11. UNCHANGED <<loc, work, part, share, diskVars, up>>
  BY DEF Start
<1> QED
  BY <1>1, <1>3, <1>5, <1>6, <1>7, <1>8, <1>9, <1>10, <1>11, DiskTypes, CallKeeps DEF diskVars

\* The steps that leave the share's records alone and turn no call, but perhaps end one.
LEMMA OthersKeep ==
  ASSUME Calls, UNCHANGED <<farVars, diskVars>>, loc' \in [Jobs -> LocalRecord],
         \A q \in Jobs : loc'[q].ext = loc[q].ext, up' \in BOOLEAN,
         faults' \in [left : 0..MaxFaults, seen : SUBSET Kinds],
         agent' = agent \/ \E a \in Agents : Become(a, Idle)
  PROVE  Calls' /\ Forward
<1>1. Forward
  BY DEF Forward, farVars
<1>2. TypeOK'
  BY DEF Calls, TypeOK, farVars, diskVars, LocalRecord
<1>3. FarSide'
  BY DEF Calls, FarSide, farVars, Known
<1>4. CASE agent' = agent
  BY <1>1, <1>2, <1>3, <1>4, NobodyTurns DEF Calls
<1>5. CASE \E a \in Agents : Become(a, Idle)
  BY <1>1, <1>2, <1>3, <1>5, TurnKeeps, IdleIs DEF Calls
<1> QED
  BY <1>4, <1>5

LEMMA OutsideKeeps ==
  ASSUME Calls, (\E a \in Agents : Lapse(a)) \/ (\E q \in Jobs : SetWant(q)) \/ Unmount \/ Mount
                \/ UNCHANGED vars
  PROVE  Calls' /\ Forward
<1>1. ASSUME NEW a \in Agents, Lapse(a) PROVE Calls' /\ Forward
  <2> DEFINE r == [loc[Job(a)] EXCEPT !.holder = None]
  <2>1. Job(a) \in Jobs /\ loc[Job(a)] \in LocalRecord
    BY <1>1, CallTypes DEF Lapse
  <2>2. r \in LocalRecord /\ r.ext = loc[Job(a)].ext
    BY <2>1 DEF LocalRecord
  <2>3. loc' = [loc EXCEPT ![Job(a)] = r]
    BY <1>1, <2>1, DiskTypes DEF Lapse, LocalRecord
  <2> HIDE DEF r
  <2>4. loc' \in [Jobs -> LocalRecord] /\ \A q \in Jobs : loc'[q].ext = loc[q].ext
    BY <2>1, <2>2, <2>3, DiskTypes
  <2>5. faults' \in [left : 0..MaxFaults, seen : SUBSET Kinds]
    BY <1>1, DisturbIs DEF Lapse, Calls
  <2>6. up' \in BOOLEAN /\ UNCHANGED <<farVars, diskVars>>
        /\ (agent' = agent \/ Become(a, Idle))
    BY <1>1 DEF Lapse, Calls, TypeOK
  <2> QED
    BY <2>4, <2>5, <2>6, OthersKeep
<1>2. ASSUME NEW q \in Jobs, SetWant(q) PROVE Calls' /\ Forward
  <2>1. PICK w \in Wants : loc' = [loc EXCEPT ![q].want = w]
    BY <1>2 DEF SetWant
  <2> DEFINE r == [loc[q] EXCEPT !.want = w]
  <2>2. r \in LocalRecord /\ r.ext = loc[q].ext
    BY DiskTypes DEF LocalRecord
  <2>3. loc' = [loc EXCEPT ![q] = r]
    BY <2>1, DiskTypes DEF LocalRecord
  <2> HIDE DEF r
  <2>4. loc' \in [Jobs -> LocalRecord] /\ \A p \in Jobs : loc'[p].ext = loc[p].ext
    BY <2>2, <2>3, DiskTypes
  <2>5. faults' \in [left : 0..MaxFaults, seen : SUBSET Kinds]
    BY <1>2, DisturbIs DEF SetWant, Calls
  <2>6. up' \in BOOLEAN /\ UNCHANGED <<farVars, diskVars, agent>>
    BY <1>2 DEF SetWant, Calls, TypeOK
  <2> QED
    BY <2>4, <2>5, <2>6, OthersKeep
<1>3. CASE Unmount \/ Mount \/ UNCHANGED vars
  <2>1. faults' \in [left : 0..MaxFaults, seen : SUBSET Kinds]
    BY <1>3, DisturbIs, DiskTypes DEF Unmount, Mount, vars, Calls
  <2>2. up' \in BOOLEAN /\ UNCHANGED <<loc, farVars, diskVars, agent>>
    BY <1>3 DEF Unmount, Mount, vars, Calls, TypeOK
  <2> QED
    BY <2>1, <2>2, DiskTypes, OthersKeep
<1> QED
  BY <1>1, <1>2, <1>3

LEMMA StepKeeps ==
  ASSUME Calls, NEW a \in Agents, Step(a) \/ StartFails(a) \/ CopyFails(a)
  PROVE  Calls' /\ Forward
BY TakeKeeps, StartKeeps, LocateKeeps, RecordHandleKeeps, PollKeeps, IntentKeeps, OpenKeeps,
   CreateKeeps, CopyKeeps, RenameKeeps, AcknowledgeKeeps, VerifyKeeps, DeliverKeeps,
   LoadRemoteKeeps, LookForOthersKeeps, RemoveFinalKeeps, EndRemoteKeeps, CancelHereKeeps,
   StartFailsKeeps, CopyFailsKeeps DEF Step

LEMMA CallsStep ==
  ASSUME Calls, [Next]_vars
  PROVE  Calls' /\ Forward
<1>1. CASE \E i \in Ids : FarStep(i) \/ FarFails(i)
  BY <1>1, FarStepKeeps, FarFailsKeeps
<1>2. CASE FarCrash
  BY <1>2, FarCrashKeeps
<1>3. CASE \E a \in Agents : Step(a) \/ StartFails(a) \/ CopyFails(a)
  BY <1>3, StepKeeps
<1>4. CASE (\E a \in Agents : Lapse(a)) \/ (\E q \in Jobs : SetWant(q)) \/ Unmount \/ Mount
           \/ UNCHANGED vars
  BY <1>4, OutsideKeeps
<1> QED
  BY <1>1, <1>2, <1>3, <1>4 DEF Next

LEMMA CallsStart ==
  ASSUME Init
  PROVE  Calls
<1>1. TypeOK
  BY NasAssumption DEF Init, TypeOK, States, Wants, Absent, Empty
<1>2. agent \in [Agents -> AgentRecord] /\ \A a \in Agents : Sane(agent[a], far)
  BY IdleIs DEF Init
<1>3. FarSide
  BY NasAssumption DEF Init, FarSide, Known
<1>4. LookedWell
  BY IdleIs DEF Init, LookedWell, At
<1> QED
  BY <1>1, <1>2, <1>3, <1>4 DEF Calls

-----------------------------------------------------------------------------
(* Only what is abandoned goes.                                             *)

\* The finished file goes only by RemoveFinal.
LEMMA OnlyRemoval ==
  ASSUME Calls, [Next]_vars, share # None, share' = None
  PROVE  \E a \in Agents : At(a, "remove")
<1>1. ASSUME NEW i \in Ids, FarStep(i) PROVE FALSE
  <2>1. PICK q \in Jobs : FarDelivers(i) /\ q = far[i].req
    BY <1>1, ShareTypes, KnownIs DEF FarStep, FarClaim, FarFetched, FarHonours, FarDelivers,
       FarLostPartial, FarMark, FarRelease, FarTake, Calls
  <2> QED
    BY <2>1, NasAssumption DEF FarDelivers
<1>2. ASSUME NEW a \in Agents, Step(a) PROVE RemoveFinal(a)
  BY <1>2 DEF Step, farVars, Take, Start, Locate, RecordHandle, Poll, Suspend, Resume, Open,
     Create, Copy, Rename, Acknowledge, Verify, Deliver, LoadRemote, LookForOthers, EndRemote,
     CancelHere
<1>3. ASSUME NEW a \in Agents, StartFails(a) \/ CopyFails(a) \/ Lapse(a) PROVE FALSE
  BY <1>3 DEF StartFails, CopyFails, Lapse, farVars
<1>4. ASSUME NEW q \in Jobs, SetWant(q) PROVE FALSE
  BY <1>4 DEF SetWant, farVars
<1>5. ~(FarCrash \/ Unmount \/ Mount \/ UNCHANGED vars)
  BY DEF FarCrash, Unmount, Mount, vars, farVars
<1>6. ASSUME NEW i \in Ids, FarFails(i) PROVE FALSE
  BY <1>6 DEF FarFails
<1> QED
  BY <1>1, <1>2, <1>3, <1>4, <1>5, <1>6 DEF Next, RemoveFinal

-----------------------------------------------------------------------------
(* A call in time, by what its step leaves.                                 *)

Early    == {"start", "locate", "record"}
Fetching == {"open", "create", "copy", "acknowledge", "verify", "deliver"}

\* It is over, and the record says what came of it.
CallOver(a) ==
  /\ ~At(a, "idle") /\ ~At(a, "start")
  /\ agent'[a] = Idle /\ \A b \in Agents \ {a} : agent'[b] = agent[b]
  /\ \A q \in Jobs \ {Job(a)} : loc'[q] = loc[q]
  /\ loc'[Job(a)].holder = None
  /\ \/ ~At(a, "record") /\ loc'[Job(a)].ext = loc[Job(a)].ext
     \/ At(a, "record") /\ loc'[Job(a)].ext = agent[a].id
     \/ /\ loc'[Job(a)].ext = None
        /\ \/ At(a, "locate") /\ \A i \in Ids : far[i].req # Job(a)
           \/ At(a, "poll") /\ (~up \/ far[agent[a].id].state \in {"failed", "cancelled"})
           \/ At(a, "deliver")
  /\ \/ loc'[Job(a)].state = loc[Job(a)].state
     \/ loc'[Job(a)].state = "cancelled"
     \/ loc'[Job(a)].state = "delivered" /\ At(a, "deliver") /\ agent[a].over
  /\ UNCHANGED diskVars

\* It goes on.
Turned(a) ==
  /\ ~At(a, "idle") /\ loc' = loc
  /\ \A b \in Agents \ {a} : agent'[b] = agent[b]
  /\ agent'[a].pc # "idle" /\ agent'[a].job = Job(a) /\ agent'[a].drop = agent[a].drop
  /\ IF agent[a].pc \in Early THEN agent'[a].pc \in {"locate", "record"}
     ELSE agent'[a].pc \notin Early /\ agent'[a].id = agent[a].id
  /\ agent'[a].pc = "record" =>
       \/ At(a, "start") /\ ~Known(agent'[a].id) /\ far'[agent'[a].id] # Absent
       \/ At(a, "locate") /\ far[agent'[a].id].req = Job(a) /\ far' = far
  /\ agent'[a].pc = "locate" => At(a, "start") /\ ("lost" \in faults'.seen \/ ~up)
  /\ agent'[a].pc \in Fetching =>
       agent[a].pc \in Fetching \/ far[agent[a].id].state \in {"transferred", "complete"}
  /\ agent'[a].pc = "deliver" => (Digest /\ agent'[a].over => Whole(Job(a)))
  /\ \/ UNCHANGED diskVars /\ agent'[a].pc # "copy"
     \/ Create(a) \/ Copy(a) \/ Rename(a)

LEMMA WriteEnds ==
  ASSUME Calls, Attended, NEW a \in Agents, ~At(a, "idle"), NEW r \in LocalRecord, Writes(a, r),
         r.ext \in {loc[Job(a)].ext, None} \/ (r.ext \in Ids /\ far[r.ext].req = Job(a))
  PROVE  /\ agent'[a] = Idle /\ \A b \in Agents \ {a} : agent'[b] = agent[b]
         /\ \A q \in Jobs \ {Job(a)} : loc'[q] = loc[q]
         /\ loc'[Job(a)].holder = None /\ loc'[Job(a)].ext = r.ext /\ loc'[Job(a)].state = r.state
<1>1. loc[Job(a)].holder = a
  BY DEF Attended
<1>2. loc'[Job(a)] = [r EXCEPT !.holder = None]
  BY <1>1, WritesIs
<1>3. /\ [r EXCEPT !.holder = None].holder = None /\ [r EXCEPT !.holder = None].ext = r.ext
      /\ [r EXCEPT !.holder = None].state = r.state
  BY DEF LocalRecord
<1> QED
  BY <1>2, <1>3, WritesIs

\* What every call that is not waiting has.
LEMMA Present ==
  ASSUME Calls, NEW a \in Agents, NEW pc, At(a, pc), pc # "idle"
  PROVE  /\ ~At(a, "idle") /\ agent[a].pc = pc /\ agent[a] \in AgentRecord
         /\ Job(a) \in Jobs /\ loc[Job(a)] \in LocalRecord
         /\ pc \in HasRecord => agent[a].id \in Ids /\ far[agent[a].id].req = Job(a)
BY CallTypes DEF At

LEMMA EndedSame ==
  ASSUME Calls, Attended, NEW a \in Agents,
         \/ Suspend(a) \/ Resume(a) \/ CopyFails(a)
         \/ (Open(a) \/ Poll(a)) /\ Writes(a, loc[Job(a)])
         \/ Rename(a) /\ tmp[Job(a)] = None
         \/ Locate(a) /\ Writes(a, loc[Job(a)])
  PROVE  CallOver(a)
<1>1. /\ Writes(a, loc[Job(a)]) /\ UNCHANGED diskVars
      /\ \E pc \in {"pause", "resume", "copy", "open", "poll", "locate"} : At(a, pc)
  BY DEF Suspend, Resume, CopyFails, Open, Poll, Rename, Locate, diskVars
<1>2. /\ ~At(a, "idle") /\ ~At(a, "start") /\ ~At(a, "record") /\ loc[Job(a)] \in LocalRecord
  BY <1>1, Present DEF At
<1> QED
  BY <1>1, <1>2, WriteEnds DEF CallOver

LEMMA EndedGone ==
  ASSUME Calls, Attended, NEW a \in Agents, Writes(a, TakenBack(loc[Job(a)])), UNCHANGED diskVars,
         \/ At(a, "locate") /\ \A i \in Ids : far[i].req # Job(a)
         \/ At(a, "poll") /\ (~up \/ far[agent[a].id].state \in {"failed", "cancelled"})
         \/ At(a, "deliver")
  PROVE  CallOver(a)
<1> DEFINE r == TakenBack(loc[Job(a)])
<1>1. /\ ~At(a, "idle") /\ ~At(a, "start") /\ loc[Job(a)] \in LocalRecord
  BY Present DEF At
<1>2. r \in LocalRecord /\ r.ext = None /\ r.state = loc[Job(a)].state
  BY <1>1 DEF TakenBack, LocalRecord
<1>3. Writes(a, r)
  OBVIOUS
<1> HIDE DEF r
<1>4. /\ agent'[a] = Idle /\ \A b \in Agents \ {a} : agent'[b] = agent[b]
      /\ \A q \in Jobs \ {Job(a)} : loc'[q] = loc[q]
      /\ loc'[Job(a)].holder = None /\ loc'[Job(a)].ext = r.ext /\ loc'[Job(a)].state = r.state
  BY <1>1, <1>2, <1>3, WriteEnds
<1> QED
  BY <1>1, <1>2, <1>4 DEF CallOver

LEMMA EndedOtherwise ==
  ASSUME Calls, Attended, NEW a \in Agents, RecordHandle(a) \/ Deliver(a) \/ CancelHere(a)
  PROVE  CallOver(a)
<1>1. CASE RecordHandle(a)
  <2> DEFINE r == [loc[Job(a)] EXCEPT !.ext = agent[a].id]
  <2>1. At(a, "record") /\ ~At(a, "idle") /\ ~At(a, "start") /\ agent[a].id \in Ids
        /\ loc[Job(a)] \in LocalRecord /\ Job(a) \in Jobs /\ far[agent[a].id].req = Job(a)
    BY <1>1, Present DEF RecordHandle, At, HasRecord
  <2>2. Writes(a, r) /\ UNCHANGED diskVars
    BY <1>1, <2>1, NasAssumption DEF RecordHandle, MayWrite, Attended
  <2>3. r \in LocalRecord /\ r.ext = agent[a].id /\ r.state = loc[Job(a)].state
    BY <2>1 DEF LocalRecord
  <2> HIDE DEF r
  <2> QED
    BY <2>1, <2>2, <2>3, WriteEnds DEF CallOver
<1>2. CASE Deliver(a)
  <2>1. At(a, "deliver") /\ ~At(a, "idle") /\ ~At(a, "start") /\ ~At(a, "record")
        /\ loc[Job(a)] \in LocalRecord /\ UNCHANGED diskVars
    BY <1>2, Present DEF Deliver, At
  <2>2. CASE agent[a].over
    <3> DEFINE r == [loc[Job(a)] EXCEPT !.state = "delivered"]
    <3>1. Writes(a, r)
      BY <1>2, <2>2 DEF Deliver
    <3>2. r \in LocalRecord /\ r.ext = loc[Job(a)].ext /\ r.state = "delivered"
      BY <2>1 DEF LocalRecord
    <3> HIDE DEF r
    <3> QED
      BY <2>1, <2>2, <3>1, <3>2, WriteEnds DEF CallOver
  <2>3. CASE ~agent[a].over
    BY <1>2, <2>1, <2>3, EndedGone DEF Deliver
  <2> QED
    BY <2>2, <2>3
<1>3. CASE CancelHere(a)
  <2>1. At(a, "cancel") /\ ~At(a, "idle") /\ ~At(a, "start") /\ ~At(a, "record")
        /\ loc[Job(a)] \in LocalRecord /\ UNCHANGED diskVars
    BY <1>3, Present DEF CancelHere, At
  <2> DEFINE r == [loc[Job(a)] EXCEPT !.state = "cancelled"]
  <2>2. Writes(a, r)
    BY <1>3, <2>1 DEF CancelHere, Attended
  <2>3. r \in LocalRecord /\ r.ext = loc[Job(a)].ext /\ r.state = "cancelled"
    BY <2>1 DEF LocalRecord
  <2> HIDE DEF r
  <2> QED
    BY <2>1, <2>2, <2>3, WriteEnds DEF CallOver
<1> QED
  BY <1>1, <1>2, <1>3

\* A call turned to a record r that differs from what it had in nothing but its point
\* and what the point is about.
LEMMA TurnedOn ==
  ASSUME Calls, NEW a \in Agents, ~At(a, "idle"), NEW r \in AgentRecord, Become(a, r), loc' = loc,
         agent[a].pc \notin Early, r.pc \notin Early \cup {"idle", "copy"},
         r.job = Job(a), r.id = agent[a].id, r.drop = agent[a].drop,
         r.pc \in Fetching =>
           agent[a].pc \in Fetching \/ far[agent[a].id].state \in {"transferred", "complete"},
         r.pc = "deliver" => (Digest /\ r.over => Whole(Job(a))),
         UNCHANGED diskVars \/ Rename(a)
  PROVE  Turned(a)
<1>1. agent'[a] = r /\ \A b \in Agents \ {a} : agent'[b] = agent[b]
  BY BecomeIs DEF Calls
<1> QED
  BY <1>1 DEF Turned, Early

LEMMA TurnedStart ==
  ASSUME Calls, NEW a \in Agents, Start(a) \/ StartFails(a)
  PROVE  Turned(a)
<1>1. At(a, "start") /\ ~At(a, "idle") /\ agent[a].pc = "start" /\ agent[a] \in AgentRecord
      /\ loc' = loc /\ UNCHANGED diskVars /\ agent \in [Agents -> AgentRecord] /\ Job(a) # None
  BY Present, NasAssumption DEF Start, StartFails, At, Calls
<1>2. CASE Start(a)
  <2>1. PICK i \in Ids, r \in AgentRecord, s \in ShareRecord :
           /\ ~Known(i) /\ far' = [far EXCEPT ![i] = s]
           /\ s.req = Job(a)
           /\ Become(a, r) /\ r.job = Job(a) /\ r.drop = agent[a].drop
           /\ \/ r.pc = "record" /\ r.id = i /\ Calm
              \/ r.pc = "locate" /\ Disturb("lost")
    BY <1>2, StartIs
  <2>2. agent'[a] = r /\ \A b \in Agents \ {a} : agent'[b] = agent[b]
    BY <1>1, <2>1, BecomeIs
  <2>3. far'[i] = s
    BY <2>1, DiskTypes
  <2>4. far'[i] # Absent
    BY <1>1, <2>1, <2>3 DEF Absent
  <2>5. r.pc = "locate" => "lost" \in faults'.seen
    BY <2>1, DisturbIs DEF Calls
  <2> QED
    BY <1>1, <2>1, <2>2, <2>4, <2>5 DEF Turned, Early, Fetching
<1>3. CASE StartFails(a)
  <2> DEFINE r == [agent[a] EXCEPT !.pc = "locate"]
  <2>1. r.pc = "locate" /\ r.job = Job(a) /\ r.drop = agent[a].drop
    BY <1>1 DEF AgentRecord, Job
  <2>2. Become(a, r)
    BY <1>3 DEF StartFails, Goes
  <2> HIDE DEF r
  <2>3. agent'[a] = r /\ \A b \in Agents \ {a} : agent'[b] = agent[b]
    BY <1>1, <2>2, BecomeIs
  <2>4. "lost" \in faults'.seen \/ ~up
    BY <1>3, DisturbIs DEF StartFails, Calls
  <2> QED
    BY <1>1, <2>1, <2>3, <2>4 DEF Turned, Early, Fetching
<1> QED
  BY <1>2, <1>3

LEMMA TurnedLocate ==
  ASSUME Calls, NEW a \in Agents, At(a, "locate"), NEW i \in Ids, far[i].req = Job(a),
         UNCHANGED <<loc, farVars, diskVars>>, Become(a, [agent[a] EXCEPT !.pc = "record", !.id = i])
  PROVE  Turned(a)
<1>1. ~At(a, "idle") /\ agent[a].pc = "locate" /\ agent[a] \in AgentRecord
      /\ agent \in [Agents -> AgentRecord]
  BY Present DEF At, Calls
<1> DEFINE r == [agent[a] EXCEPT !.pc = "record", !.id = i]
<1>2. r.pc = "record" /\ r.job = Job(a) /\ r.drop = agent[a].drop /\ r.id = i
  BY <1>1 DEF AgentRecord, Job
<1>3. Become(a, r)
  OBVIOUS
<1> HIDE DEF r
<1>4. agent'[a] = r /\ \A b \in Agents \ {a} : agent'[b] = agent[b]
  BY <1>1, <1>3, BecomeIs
<1> QED
  BY <1>1, <1>2, <1>4 DEF Turned, Early, Fetching, farVars

\* There is something to fetch, or something to resume.
PolledOn(a) ==
  \/ Goes(a, "open") /\ far[agent[a].id].state \in {"transferred", "complete"}
  \/ Goes(a, "resume")

LEMMA TurnedPlain ==
  ASSUME Calls, NEW a \in Agents,
         \/ Poll(a) /\ PolledOn(a) /\ UNCHANGED loc
         \/ Acknowledge(a) \/ Verify(a) \/ LoadRemote(a) \/ LookForOthers(a)
         \/ RemoveFinal(a) \/ EndRemote(a)
         \/ Open(a) /\ up /\ share # None
         \/ Rename(a) /\ tmp[Job(a)] # None
  PROVE  Turned(a)
<1>1. /\ ~At(a, "idle") /\ agent[a].pc \notin Early /\ agent[a] \in AgentRecord
      /\ agent[a].pc \in HasRecord
  BY Present DEF At, Calls, Poll, Acknowledge, Verify, LoadRemote, LookForOthers, RemoveFinal,
     EndRemote, Open, Rename, Early, HasRecord
<1>2. CASE Poll(a) /\ PolledOn(a) /\ UNCHANGED loc
  <2>1. PICK pc \in {"open", "resume"} :
           /\ Goes(a, pc)
           /\ pc = "open" => far[agent[a].id].state \in {"transferred", "complete"}
    BY <1>2 DEF PolledOn
  <2> DEFINE r == [agent[a] EXCEPT !.pc = pc]
  <2>2. r \in AgentRecord /\ r.pc = pc /\ r.job = Job(a) /\ r.id = agent[a].id /\ r.drop = agent[a].drop
    BY <1>1 DEF AgentRecord, PCs, HasRecord, Job
  <2>3. Become(a, r)
    BY <2>1 DEF Goes
  <2> HIDE DEF r
  <2> QED
    BY <1>1, <1>2, <2>1, <2>2, <2>3, TurnedOn DEF Poll, Early, Fetching
<1>3. CASE Open(a) /\ up /\ share # None
  <2> DEFINE r == [agent[a] EXCEPT !.pc = "create", !.bytes = share]
  <2>1. r \in AgentRecord /\ r.pc = "create" /\ r.job = Job(a) /\ r.id = agent[a].id /\ r.drop = agent[a].drop
    BY <1>1, DiskTypes DEF AgentRecord, PCs, HasRecord, Job
  <2>2. Become(a, r) /\ loc' = loc /\ UNCHANGED diskVars /\ agent[a].pc = "open"
    BY <1>3 DEF Open, At
  <2> HIDE DEF r
  <2> QED
    BY <1>1, <2>1, <2>2, TurnedOn DEF Early, Fetching
<1>4. CASE Rename(a) /\ tmp[Job(a)] # None
  <2> DEFINE r == [agent[a] EXCEPT !.pc = "acknowledge", !.file = None]
  <2>1. r \in AgentRecord /\ r.pc = "acknowledge" /\ r.job = Job(a) /\ r.id = agent[a].id /\ r.drop = agent[a].drop
    BY <1>1 DEF AgentRecord, PCs, HasRecord, Job
  <2>2. Become(a, r) /\ loc' = loc /\ agent[a].pc = "copy"
    BY <1>4 DEF Rename, At
  <2> HIDE DEF r
  <2> QED
    BY <1>1, <1>4, <2>1, <2>2, TurnedOn DEF Early, Fetching
<1>5. CASE Verify(a)
  <2> DEFINE o == Whole(Job(a)) \/ ~Digest
             r == [agent[a] EXCEPT !.pc = "deliver", !.over = o]
  <2>1. Become(a, r) /\ loc' = loc /\ UNCHANGED diskVars /\ agent[a].pc = "verify"
    BY <1>5 DEF Verify, At
  <2>2. o \in BOOLEAN /\ (Digest /\ o => Whole(Job(a)))
    OBVIOUS
  <2> HIDE DEF o
  <2>3. /\ r \in AgentRecord /\ r.pc = "deliver" /\ r.job = Job(a) /\ r.id = agent[a].id
        /\ r.drop = agent[a].drop /\ r.over = o
    BY <1>1, <2>2 DEF AgentRecord, PCs, HasRecord, Job
  <2> HIDE DEF r
  <2> QED
    BY <1>1, <2>1, <2>2, <2>3, TurnedOn DEF Early, Fetching
<1>6. ASSUME NEW pc \in {"verify", "look", "end", "cancel", "remove"}, NEW r \in AgentRecord,
             Become(a, r), r.pc = pc, r.job = Job(a), r.id = agent[a].id, r.drop = agent[a].drop,
             pc = "verify" => agent[a].pc = "acknowledge", loc' = loc, UNCHANGED diskVars
      PROVE  Turned(a)
  BY <1>1, <1>6, TurnedOn DEF Early, Fetching
<1>7. ASSUME NEW pc \in {"verify", "end", "cancel"}, Goes(a, pc),
             pc = "verify" => agent[a].pc = "acknowledge", loc' = loc, UNCHANGED diskVars
      PROVE  Turned(a)
  <2> DEFINE r == [agent[a] EXCEPT !.pc = pc]
  <2>1. r \in AgentRecord /\ r.pc = pc /\ r.job = Job(a) /\ r.id = agent[a].id /\ r.drop = agent[a].drop
    BY <1>1 DEF AgentRecord, PCs, HasRecord, Job
  <2>2. Become(a, r)
    BY <1>7 DEF Goes
  <2> HIDE DEF r
  <2> QED
    BY <1>6, <1>7, <2>1, <2>2
<1>8. CASE Acknowledge(a) \/ EndRemote(a)
  BY <1>7, <1>8 DEF Acknowledge, EndRemote, At
<1>9. CASE LoadRemote(a)
  <2>1. CASE up
    <3> DEFINE o == Terminal(far[agent[a].id].state)
               r == [agent[a] EXCEPT !.pc = "look", !.over = o]
    <3>1. Become(a, r) /\ loc' = loc /\ UNCHANGED diskVars
      BY <1>9, <2>1 DEF LoadRemote
    <3>2. o \in BOOLEAN
      BY DEF Terminal
    <3> HIDE DEF o
    <3>3. r \in AgentRecord /\ r.pc = "look" /\ r.job = Job(a) /\ r.id = agent[a].id /\ r.drop = agent[a].drop
      BY <1>1, <3>2 DEF AgentRecord, PCs, HasRecord, Job
    <3> HIDE DEF r
    <3> QED
      BY <1>6, <3>1, <3>3
  <2>2. CASE ~up
    BY <1>7, <1>9, <2>2 DEF LoadRemote
  <2> QED
    BY <2>1, <2>2
<1>10. CASE LookForOthers(a)
  <2>1. CASE ClaimedByAnother(agent[a].id)
    BY <1>7, <1>10, <2>1 DEF LookForOthers
  <2>2. CASE ~ClaimedByAnother(agent[a].id)
    <3> DEFINE m == {j \in Ids : Known(j)}
               r == [agent[a] EXCEPT !.pc = "remove", !.met = m]
    <3>1. Become(a, r) /\ loc' = loc /\ UNCHANGED diskVars /\ m \subseteq Ids
      BY <1>10, <2>2 DEF LookForOthers
    <3> HIDE DEF m
    <3>2. r \in AgentRecord /\ r.pc = "remove" /\ r.job = Job(a) /\ r.id = agent[a].id /\ r.drop = agent[a].drop
      BY <1>1, <3>1 DEF AgentRecord, PCs, HasRecord, Job
    <3> HIDE DEF r
    <3> QED
      BY <1>6, <3>1, <3>2
  <2> QED
    BY <2>1, <2>2
<1>11. CASE RemoveFinal(a)
  <2> DEFINE r == [agent[a] EXCEPT !.pc = "end", !.met = {}]
  <2>1. Become(a, r) /\ loc' = loc /\ UNCHANGED diskVars
    BY <1>11 DEF RemoveFinal
  <2>2. r \in AgentRecord /\ r.pc = "end" /\ r.job = Job(a) /\ r.id = agent[a].id /\ r.drop = agent[a].drop
    BY <1>1 DEF AgentRecord, PCs, HasRecord, Job
  <2> HIDE DEF r
  <2> QED
    BY <1>6, <2>1, <2>2
<1> QED
  BY <1>2, <1>3, <1>4, <1>5, <1>8, <1>9, <1>10, <1>11

LEMMA TurnedCopy ==
  ASSUME Calls, NEW a \in Agents, Create(a) \/ Copy(a)
  PROVE  Turned(a)
<1>1. /\ ~At(a, "idle") /\ agent[a].pc \notin Early /\ agent[a].pc \in Fetching
  BY Present DEF At, Calls, Create, Copy, Early, Fetching
<1>2. PICK r \in AgentRecord : Become(a, r) /\ r.pc = "copy" /\ r.id = agent[a].id
                               /\ r.job = agent[a].job /\ r.drop = agent[a].drop
  BY CreateIs, CopyIs
<1>3. agent'[a] = r /\ \A b \in Agents \ {a} : agent'[b] = agent[b]
  BY <1>2, BecomeIs DEF Calls
<1>4. loc' = loc
  BY DEF Create, Copy
<1> QED
  BY <1>1, <1>2, <1>3, <1>4 DEF Turned, Early, Job

LEMMA StepEndsOrTurns ==
  ASSUME Calls, Attended, NEW a \in Agents, Step(a) \/ StartFails(a) \/ CopyFails(a)
  PROVE  CallOver(a) \/ Turned(a) \/ \E q \in Jobs : Take(a, q)
<1>1. CASE Locate(a)
  <2>1. At(a, "locate") /\ UNCHANGED <<farVars, diskVars>>
    BY <1>1 DEF Locate
  <2>2. CASE Writes(a, loc[Job(a)])
    BY <1>1, <2>2, EndedSame
  <2>3. CASE {i \in Ids : far[i].req = Job(a)} = {} /\ Writes(a, TakenBack(loc[Job(a)]))
    BY <2>1, <2>3, EndedGone
  <2>4. CASE UNCHANGED loc /\ \E i \in {i \in Ids : far[i].req = Job(a)} :
               Become(a, [agent[a] EXCEPT !.pc = "record", !.id = i])
    BY <2>1, <2>4, TurnedLocate
  <2> QED
    BY <1>1, <2>2, <2>3, <2>4 DEF Locate
<1>2. CASE Poll(a)
  <2>1. /\ At(a, "poll") /\ UNCHANGED diskVars /\ up \in BOOLEAN
        /\ agent[a].id \in Ids /\ far[agent[a].id].state \in States
    BY <1>2, CallTypes, ShareTypes DEF Poll, Calls, TypeOK, ShareRecord, HasRecord, At
  <2>2. \/ Writes(a, loc[Job(a)])
        \/ /\ Writes(a, TakenBack(loc[Job(a)]))
           /\ ~up \/ far[agent[a].id].state \in {"failed", "cancelled"}
        \/ PolledOn(a) /\ UNCHANGED loc
    BY <1>2, <2>1 DEF Poll, PolledOn, States, Terminal
  <2> QED
    BY <1>2, <2>1, <2>2, EndedSame, EndedGone, TurnedPlain
<1>3. CASE Open(a) \/ Rename(a)
  BY <1>3, EndedSame, TurnedPlain DEF Open
<1> QED
  BY <1>1, <1>2, <1>3, EndedSame, EndedOtherwise, TurnedStart, TurnedPlain, TurnedCopy DEF Step

\* An idle process takes up a job.
Taken(a, q) ==
  /\ At(a, "idle") /\ loc[q].holder = None /\ loc[q].state = "open"
  /\ \A b \in Agents \ {a} : agent'[b] = agent[b]
  /\ \A p \in Jobs \ {q} : loc'[p] = loc[p]
  /\ agent'[a].job = q /\ ~agent'[a].drop
  /\ loc'[q].holder = a /\ loc'[q].state = "open"
  /\ \/ loc[q].ext = None /\ loc'[q].ext = q /\ agent'[a].pc = "start"
     \/ loc[q].ext = q /\ loc'[q].ext = q /\ agent'[a].pc = "locate"
     \/ /\ loc[q].ext \in Ids /\ loc'[q].ext = loc[q].ext /\ agent'[a].id = loc[q].ext
        /\ agent'[a].pc \in {"poll", "pause", "load"}
  /\ UNCHANGED diskVars

\* What is not a call of this machine's, and the end of one.
Stays ==
  /\ agent' = agent /\ UNCHANGED diskVars
  /\ \A q \in Jobs : /\ loc'[q].ext = loc[q].ext /\ loc'[q].holder = loc[q].holder
                     /\ loc'[q].state = loc[q].state
Died(a) ==
  /\ ~At(a, "idle") /\ agent'[a] = Idle /\ \A b \in Agents \ {a} : agent'[b] = agent[b]
  /\ \A q \in Jobs \ {Job(a)} : loc'[q] = loc[q]
  /\ loc'[Job(a)].holder = None
  /\ loc'[Job(a)].ext = loc[Job(a)].ext /\ loc'[Job(a)].state = loc[Job(a)].state
  /\ UNCHANGED diskVars /\ "crash" \in faults'.seen

LEMMA TakenIs ==
  ASSUME Calls, NEW a \in Agents, NEW q \in Jobs, Take(a, q)
  PROVE  Taken(a, q)
<1> DEFINE i == IF loc[q].ext \in Ids THEN loc[q].ext ELSE None
           r == [Idle EXCEPT !.pc = Business(q), !.job = q, !.id = i]
           e == IF loc[q].ext = None THEN q ELSE loc[q].ext
           s == [loc[q] EXCEPT !.holder = a, !.ext = e]
<1>1. i \in Ids \cup {None} /\ e \in {loc[q].ext, q} /\ loc[q] \in LocalRecord
  BY DiskTypes
<1>2. loc[q].ext \in Jobs => loc[q].ext = q
  BY DEF Calls, FarSide
<1>3. /\ At(a, "idle") /\ loc[q].holder = None /\ loc[q].state = "open"
      /\ \/ loc[q].ext = None /\ Business(q) = "start"
         \/ loc[q].ext = q /\ Business(q) = "locate"
         \/ loc[q].ext \in Ids /\ Business(q) \in {"poll", "pause", "load"}
  BY <1>1, <1>2, NasAssumption DEF Take, Business, LocalRecord
<1>4. ~Idle.drop
  BY DEF Idle
<1>5. r.pc = Business(q) /\ r.job = q /\ r.id = i /\ ~r.drop
  <2> HIDE DEF i
  <2> QED
    BY <1>4, IdleIs DEF AgentRecord
<1>6. s.holder = a /\ s.ext = e /\ s.state = "open"
  <2> HIDE DEF e
  <2> QED
    BY <1>1, <1>3 DEF LocalRecord
<1>7. loc' = [loc EXCEPT ![q] = s]
  BY DiskTypes DEF Take, LocalRecord
<1>8. Become(a, r)
  BY DEF Take
<1> HIDE DEF r, s
<1>9. loc'[q] = s /\ \A p \in Jobs \ {q} : loc'[p] = loc[p]
  BY <1>7, DiskTypes
<1>10. agent'[a] = r /\ \A b \in Agents \ {a} : agent'[b] = agent[b]
  BY <1>8, BecomeIs DEF Calls
<1>11. UNCHANGED diskVars
  BY DEF Take
<1>12. loc[q].ext # None => e = loc[q].ext
  OBVIOUS
<1>13. loc[q].ext = None => e = q
  OBVIOUS
<1>14. loc[q].ext \in Ids => i = loc[q].ext /\ loc[q].ext # None
  BY NasAssumption
<1>15. q # None
  BY NasAssumption
<1> HIDE DEF i, e
<1> QED
  BY <1>3, <1>5, <1>6, <1>9, <1>10, <1>11, <1>12, <1>13, <1>14, <1>15 DEF Taken

LEMMA OutsideIs ==
  ASSUME Calls, InTime',
         \/ \E i \in Ids : FarStep(i) \/ FarFails(i)
         \/ FarCrash \/ (\E a \in Agents : Lapse(a)) \/ (\E q \in Jobs : SetWant(q))
         \/ Unmount \/ Mount \/ UNCHANGED vars
  PROVE  Stays \/ \E a \in Agents : Died(a)
<1>1. CASE \E q \in Jobs : SetWant(q)
  <2>1. PICK q \in Jobs, w \in Wants : loc' = [loc EXCEPT ![q].want = w]
    BY <1>1 DEF SetWant
  <2>2. \A p \in Jobs : /\ loc'[p].ext = loc[p].ext /\ loc'[p].holder = loc[p].holder
                        /\ loc'[p].state = loc[p].state
    BY <2>1, DiskTypes DEF LocalRecord
  <2> QED
    BY <1>1, <2>2 DEF Stays, SetWant
<1>2. CASE \E a \in Agents : Lapse(a)
  <2>1. PICK a \in Agents : Lapse(a)
    BY <1>2
  <2>2. Disturb("crash") /\ Become(a, Idle)
    BY <2>1, DisturbIs DEF Lapse, InTime, Calls
  <2> DEFINE r == [loc[Job(a)] EXCEPT !.holder = None]
  <2>3. ~At(a, "idle") /\ Job(a) \in Jobs /\ loc[Job(a)] \in LocalRecord
    BY <2>1, CallTypes DEF Lapse
  <2>4. r.holder = None /\ r.ext = loc[Job(a)].ext /\ r.state = loc[Job(a)].state
    BY <2>3 DEF LocalRecord
  <2>5. loc' = [loc EXCEPT ![Job(a)] = r]
    BY <2>1, <2>3, DiskTypes DEF Lapse, LocalRecord
  <2> HIDE DEF r
  <2>6. loc'[Job(a)] = r /\ \A q \in Jobs \ {Job(a)} : loc'[q] = loc[q]
    BY <2>3, <2>5, DiskTypes
  <2>7. agent'[a] = Idle /\ \A b \in Agents \ {a} : agent'[b] = agent[b]
    BY <2>2, BecomeIs DEF Calls
  <2>8. "crash" \in faults'.seen /\ UNCHANGED diskVars
    BY <2>1, <2>2, DisturbIs DEF Calls, Lapse
  <2> QED
    BY <2>3, <2>4, <2>6, <2>7, <2>8 DEF Died
<1>3. CASE Unmount \/ Mount \/ FarCrash \/ UNCHANGED vars
  BY <1>3 DEF Stays, Unmount, Mount, FarCrash, vars
<1>4. CASE \E i \in Ids : FarStep(i) \/ FarFails(i)
  BY <1>4 DEF Stays, FarFails, FarStep, FarClaim, FarFetched, FarHonours, FarDelivers,
     FarLostPartial, FarMark, FarRelease, FarTake
<1> QED
  BY <1>1, <1>2, <1>3, <1>4

LEMMA StepKinds ==
  ASSUME Calls, Attended, InTime', [Next]_vars
  PROVE  \/ Stays
         \/ \E a \in Agents : Died(a) \/ CallOver(a) \/ Turned(a) \/ \E q \in Jobs : Taken(a, q)
<1>1. CASE \E a \in Agents : Step(a) \/ StartFails(a) \/ CopyFails(a)
  BY <1>1, StepEndsOrTurns, TakenIs
<1>2. CASE ~\E a \in Agents : Step(a) \/ StartFails(a) \/ CopyFails(a)
  BY <1>2, OutsideIs DEF Next
<1> QED
  BY <1>1, <1>2

\* What happened stays on the record.
LEMMA SeenGrows ==
  ASSUME Calls, [Next]_vars
  PROVE  faults.seen \subseteq faults'.seen
<1>1. faults' = faults \/ \E k : Disturb(k)
  BY DEF Next, Step, vars, FarStep, FarClaim, FarFetched, FarHonours, FarFails, FarDelivers, FarLostPartial,
     FarMark, FarRelease, FarTake, FarCrash, Take, Start, StartFails, Locate, RecordHandle, Poll,
     Suspend, Resume, Open, Create, Copy, CopyFails, Rename, Acknowledge, Verify, Deliver, LoadRemote,
     LookForOthers, RemoveFinal, EndRemote, CancelHere, SetWant, Lapse, Unmount, Mount, Calm
<1> QED
  BY <1>1, DisturbIs DEF Calls

-----------------------------------------------------------------------------
(* Who is in a call holds its job.                                          *)

LEMMA HolderAttends ==
  ASSUME Calls, Attended, NEW a \in Agents, NEW p \in Jobs, loc[p].holder \in {None, a},
         \A q \in Jobs \ {p} : loc'[q] = loc[q],
         \A b \in Agents \ {a} : agent'[b] = agent[b],
         agent'[a].pc # "idle" =>
           /\ agent'[a].job = p /\ loc'[p].holder = a /\ loc'[p].state = "open" /\ ~agent'[a].drop
           /\ loc'[p].ext = IF agent'[a].pc \in Early THEN p ELSE agent'[a].id
  PROVE  Attended'
<1> SUFFICES ASSUME NEW b \in Agents, agent'[b].pc # "idle"
             PROVE  /\ loc'[agent'[b].job].holder = b /\ loc'[agent'[b].job].state = "open"
                    /\ ~agent'[b].drop
                    /\ loc'[agent'[b].job].ext =
                         IF agent'[b].pc \in {"start", "locate", "record"} THEN agent'[b].job
                         ELSE agent'[b].id
  BY DEF Attended, At, Job
<1>1. CASE b = a
  BY <1>1 DEF Early
<1>2. CASE b # a
  <2>1. agent'[b] = agent[b] /\ agent[b].pc # "idle" /\ Job(b) \in Jobs
    BY <1>2, CallTypes DEF At
  <2>2. loc[Job(b)].holder = b /\ b # None
    BY <2>1, NasAssumption DEF Attended, At
  <2>3. Job(b) # p
    BY <1>2, <2>2
  <2> QED
    BY <2>1, <2>3 DEF Attended, At, Job
<1> QED
  BY <1>1, <1>2

LEMMA AttendedKeeps ==
  ASSUME Calls, Attended, InTime', [Next]_vars
  PROVE  Attended'
<1>1. CASE Stays
  <2> SUFFICES ASSUME NEW b \in Agents, agent[b].pc # "idle"
               PROVE  /\ loc'[Job(b)].holder = b /\ loc'[Job(b)].state = "open"
                      /\ ~agent[b].drop
                      /\ loc'[Job(b)].ext =
                           IF agent[b].pc \in {"start", "locate", "record"} THEN Job(b)
                           ELSE agent[b].id
    BY <1>1 DEF Attended, At, Job, Stays
  <2>1. Job(b) \in Jobs
    BY CallTypes DEF At
  <2> QED
    BY <1>1, <2>1 DEF Attended, At, Stays
<1>2. ASSUME NEW a \in Agents, Died(a) \/ CallOver(a) PROVE Attended'
  <2>1. Job(a) \in Jobs /\ loc[Job(a)].holder = a /\ agent'[a].pc = "idle"
    BY <1>2, CallTypes, IdleIs DEF Attended, Died, CallOver
  <2> QED
    BY <1>2, <2>1, HolderAttends DEF Died, CallOver
<1>3. ASSUME NEW a \in Agents, Turned(a) PROVE Attended'
  <2>1. Job(a) \in Jobs /\ loc[Job(a)].holder = a /\ loc[Job(a)].state = "open" /\ ~agent[a].drop
        /\ loc[Job(a)].ext = IF agent[a].pc \in Early THEN Job(a) ELSE agent[a].id
    BY <1>3, CallTypes DEF Attended, Turned, Early
  <2>2. loc' = loc /\ agent'[a].job = Job(a) /\ ~agent'[a].drop
        /\ \A b \in Agents \ {a} : agent'[b] = agent[b]
    BY <1>3, <2>1 DEF Turned
  <2>3. loc[Job(a)].ext = IF agent'[a].pc \in Early THEN Job(a) ELSE agent'[a].id
    BY <1>3, <2>1 DEF Turned, Early
  <2> QED
    BY <2>1, <2>2, <2>3, HolderAttends
<1>4. ASSUME NEW a \in Agents, NEW q \in Jobs, Taken(a, q) PROVE Attended'
  BY <1>4, HolderAttends DEF Taken, Early
<1> QED
  BY <1>1, <1>2, <1>3, <1>4, StepKinds

-----------------------------------------------------------------------------
(* No short file, and nobody's bytes but one's own.                         *)

LEMMA DiskKept ==
  ASSUME Calls, InTime, OwnFiles, NeverShort, UNCHANGED diskVars,
         \A b \in Agents : agent'[b].pc = "copy" => agent'[b] = agent[b]
  PROVE  OwnFiles' /\ NeverShort'
<1>1. OwnFiles'
  BY DEF OwnFiles, diskVars, At, Job
<1>2. NeverShort'
  BY DEF NeverShort, diskVars
<1> QED
  BY <1>1, <1>2

LEMMA TwoHolders ==
  ASSUME Calls, Attended, NEW a \in Agents, NEW b \in Agents, a # b, ~At(a, "idle"), ~At(b, "idle")
  PROVE  Job(a) # Job(b)
BY DEF Attended

\* The file that is emptied or written is nobody else's, and at no destination.
LEMMA WrittenIs ==
  ASSUME Calls, Attended, OwnFiles, NEW a \in Agents, Create(a) \/ Copy(a)
  PROVE  \E f \in Inodes :
           /\ tmp' = [tmp EXCEPT ![Job(a)] = f] /\ dest' = dest /\ agent'[a].file = f
           /\ \A g \in Inodes \ {f} : data'[g] = data[g]
           /\ \A q \in Jobs : dest[q] # f
           /\ \A q \in Jobs \ {Job(a)} : tmp[q] # f
           /\ \A n \in 1..(Blocks - agent'[a].left) : data'[f][n] = agent'[a].bytes
<1>1. Job(a) \in Jobs
  BY CallTypes DEF Create, Copy, At
<1>2. CASE Create(a)
  <2>1. PICK f \in Inodes, r \in AgentRecord :
           /\ f = (IF tmp[Job(a)] # None THEN tmp[Job(a)] ELSE Fresh)
           /\ tmp' = [tmp EXCEPT ![Job(a)] = f] /\ data' = [data EXCEPT ![f] = Empty]
           /\ Become(a, r) /\ r.file = f /\ r.left = Blocks
    BY <1>2, CreateIs
  <2>2. agent'[a] = r
    BY <2>1, BecomeIs DEF Calls
  <2>3. \A q \in Jobs : dest[q] # f
    BY <1>1, <2>1, FreshIs, NasAssumption DEF OwnFiles, InUse
  <2>4. \A q \in Jobs \ {Job(a)} : tmp[q] # f
    BY <1>1, <2>1, FreshIs, NasAssumption DEF OwnFiles, InUse
  <2>5. \A g \in Inodes \ {f} : data'[g] = data[g]
    BY <2>1, DiskTypes
  <2>6. 1..(Blocks - r.left) = {}
    BY <2>1, NasAssumption
  <2>7. dest' = dest
    BY <1>2 DEF Create
  <2> QED
    BY <2>1, <2>2, <2>3, <2>4, <2>5, <2>6, <2>7
<1>3. CASE Copy(a)
  <2>1. PICK r \in AgentRecord, d \in [1..Blocks -> Artifacts \cup {None}] :
           /\ agent[a].file \in Inodes /\ agent[a].left \in 1..Blocks
           /\ data' = [data EXCEPT ![agent[a].file] = d]
           /\ \A n \in 1..Blocks :
                d[n] = IF n = Blocks - agent[a].left + 1 THEN agent[a].bytes
                       ELSE data[agent[a].file][n]
           /\ Become(a, r) /\ r.file = agent[a].file /\ r.left = agent[a].left - 1
           /\ r.bytes = agent[a].bytes
    BY <1>3, CopyIs
  <2> DEFINE f == agent[a].file
  <2>2. agent'[a] = r
    BY <2>1, BecomeIs DEF Calls
  <2>3. /\ f = tmp[Job(a)] /\ tmp' = tmp /\ dest' = dest
        /\ \A n \in 1..(Blocks - agent[a].left) : data[f][n] = agent[a].bytes
    BY <1>3 DEF OwnFiles, Copy
  <2>4. f # None
    BY <2>1, NasAssumption
  <2>5. (\A q \in Jobs : dest[q] # f) /\ \A q \in Jobs \ {Job(a)} : tmp[q] # f
    BY <1>1, <2>3, <2>4 DEF OwnFiles
  <2>6. tmp' = [tmp EXCEPT ![Job(a)] = f]
    BY <2>3, <1>1, DiskTypes
  <2>7. data'[f] = d /\ \A g \in Inodes \ {f} : data'[g] = data[g]
    BY <2>1, DiskTypes
  <2>8. ASSUME NEW n \in 1..(Blocks - r.left) PROVE d[n] = r.bytes
    <3>1. /\ n \in 1..Blocks
          /\ n = Blocks - agent[a].left + 1 \/ n \in 1..(Blocks - agent[a].left)
      BY <2>1, <2>8, NasAssumption
    <3> QED
      BY <2>1, <2>3, <3>1
  <2>9. \A n \in 1..(Blocks - agent'[a].left) : data'[f][n] = agent'[a].bytes
    BY <2>2, <2>7, <2>8
  <2>10. f \in Inodes /\ dest' = dest /\ agent'[a].file = f
    BY <2>1, <2>2, <2>3
  <2> HIDE DEF f
  <2> QED
    BY <2>5, <2>6, <2>7, <2>9, <2>10
<1> QED
  BY <1>2, <1>3

LEMMA WrittenKeeps ==
  ASSUME Calls, Attended, InTime, OwnFiles, NeverShort, NEW a \in Agents, Create(a) \/ Copy(a)
  PROVE  OwnFiles' /\ NeverShort' /\ \A q \in Jobs : Whole(q) => Whole(q)'
<1>1. PICK f \in Inodes :
           /\ tmp' = [tmp EXCEPT ![Job(a)] = f] /\ dest' = dest /\ agent'[a].file = f
           /\ \A g \in Inodes \ {f} : data'[g] = data[g]
           /\ \A q \in Jobs : dest[q] # f
           /\ \A q \in Jobs \ {Job(a)} : tmp[q] # f
           /\ \A n \in 1..(Blocks - agent'[a].left) : data'[f][n] = agent'[a].bytes
  BY WrittenIs
<1>2. Turned(a) /\ ~At(a, "idle") /\ Job(a) \in Jobs
  BY TurnedCopy, CallTypes DEF Turned
<1>3. /\ tmp'[Job(a)] = f /\ \A q \in Jobs \ {Job(a)} : tmp'[q] = tmp[q]
  BY <1>1, <1>2, DiskTypes
<1>4. \A q \in Jobs : dest[q] # None => data'[dest[q]] = data[dest[q]]
  BY <1>1, DiskTypes
<1>5. f # None
  BY NasAssumption
<1>6. OwnFiles'
  <2>1. \A q, r \in Jobs : dest'[q] = None \/ dest'[q] # tmp'[r]
    BY <1>1, <1>2, <1>3 DEF OwnFiles
  <2>2. \A q, r \in Jobs : q # r =>
          /\ dest'[q] = None \/ dest'[q] # dest'[r]
          /\ tmp'[q] = None \/ tmp'[q] # tmp'[r]
    BY <1>1, <1>2, <1>3, <1>5 DEF OwnFiles
  <2>3. ASSUME NEW b \in Agents, agent'[b].pc = "copy"
        PROVE  /\ agent'[b].file = tmp'[agent'[b].job]
               /\ \A n \in 1..(Blocks - agent'[b].left) : data'[agent'[b].file][n] = agent'[b].bytes
    <3>1. CASE b = a
      BY <1>1, <1>2, <1>3, <3>1 DEF Turned
    <3>2. CASE b # a
      <4>1. agent'[b] = agent[b] /\ agent[b].pc = "copy" /\ ~At(b, "idle")
        BY <1>2, <2>3, <3>2 DEF Turned, At
      <4>2. /\ agent[b].file = tmp[Job(b)] /\ Job(b) \in Jobs /\ agent[b].file \in Inodes
            /\ \A n \in 1..(Blocks - agent[b].left) : data[agent[b].file][n] = agent[b].bytes
        <5>1. agent[b].file \in Inodes \cup {None} /\ agent[b].file # None
          BY <4>1, CallTypes DEF Sane, AgentRecord
        <5> QED
          BY <4>1, <5>1, CallTypes DEF OwnFiles, At
      <4>3. Job(b) # Job(a)
        BY <1>2, <3>2, <4>1, TwoHolders
      <4>4. tmp'[Job(b)] = tmp[Job(b)] /\ agent[b].file # f
        BY <1>1, <1>3, <4>2, <4>3
      <4> QED
        BY <1>1, <4>1, <4>2, <4>4 DEF Job
    <3> QED
      BY <3>1, <3>2
  <2> QED
    BY <2>1, <2>2, <2>3 DEF OwnFiles, At, Job
<1>7. NeverShort'
  BY <1>1, <1>4 DEF NeverShort
<1>8. \A q \in Jobs : Whole(q) => Whole(q)'
  BY <1>1, <1>4 DEF Whole
<1> QED
  BY <1>6, <1>7, <1>8

LEMMA RenameKeepsFiles ==
  ASSUME Calls, Attended, InTime, OwnFiles, NeverShort, NEW a \in Agents, Rename(a), Turned(a)
  PROVE  OwnFiles' /\ NeverShort' /\ \A q \in Jobs \ {Job(a)} : Whole(q) => Whole(q)'
<1>1. /\ agent[a].pc = "copy" /\ agent[a].left = 0 /\ Job(a) \in Jobs /\ Sane(agent[a], far)
      /\ agent[a].file = tmp[Job(a)] /\ tmp[Job(a)] # None /\ data' = data
      /\ \A n \in 1..(Blocks - 0) : data[tmp[Job(a)]][n] = agent[a].bytes
  BY CallTypes DEF Rename, At, OwnFiles, Sane
<1>2. /\ dest' = [dest EXCEPT ![Job(a)] = tmp[Job(a)]]
      /\ tmp' = [tmp EXCEPT ![Job(a)] = None]
      /\ \E r : Become(a, r) /\ r = [agent[a] EXCEPT !.pc = "acknowledge", !.file = None]
  BY <1>1 DEF Rename
<1>3. agent'[a].pc # "copy"
  <2>1. agent[a] \in AgentRecord
    BY DEF Calls
  <2>2. [agent[a] EXCEPT !.pc = "acknowledge", !.file = None].pc = "acknowledge"
    BY <2>1 DEF AgentRecord
  <2> QED
    BY <1>2, <2>2, BecomeIs DEF Calls
<1>4. /\ dest'[Job(a)] = tmp[Job(a)] /\ tmp'[Job(a)] = None
      /\ \A q \in Jobs \ {Job(a)} : dest'[q] = dest[q] /\ tmp'[q] = tmp[q]
  BY <1>1, <1>2, DiskTypes
<1>5. OwnFiles'
  <2>1. \A q, r \in Jobs : dest'[q] = None \/ dest'[q] # tmp'[r]
    BY <1>1, <1>4 DEF OwnFiles
  <2>2. \A q, r \in Jobs : q # r =>
          /\ dest'[q] = None \/ dest'[q] # dest'[r]
          /\ tmp'[q] = None \/ tmp'[q] # tmp'[r]
    BY <1>1, <1>4 DEF OwnFiles
  <2>3. ASSUME NEW b \in Agents, agent'[b].pc = "copy"
        PROVE  /\ agent'[b].file = tmp'[agent'[b].job]
               /\ \A n \in 1..(Blocks - agent'[b].left) : data'[agent'[b].file][n] = agent'[b].bytes
    <3>1. b # a /\ agent'[b] = agent[b] /\ ~At(b, "idle") /\ ~At(a, "idle") /\ At(b, "copy")
      BY <1>1, <1>3, <2>3 DEF Turned, At
    <3>2. Job(b) # Job(a) /\ Job(b) \in Jobs
      BY <3>1, TwoHolders, CallTypes
    <3> QED
      BY <1>1, <1>4, <3>1, <3>2 DEF OwnFiles, Job
  <2> QED
    BY <2>1, <2>2, <2>3 DEF OwnFiles, At, Job
<1>6. NeverShort'
  <2>1. agent[a].bytes # None
    BY <1>1, NasAssumption DEF Sane, Artifacts
  <2>2. \A n \in 1..Blocks : data[tmp[Job(a)]][n] # None
    BY <1>1, <2>1, NasAssumption
  <2> QED
    BY <1>1, <1>4, <2>2 DEF NeverShort
<1>7. \A q \in Jobs \ {Job(a)} : Whole(q) => Whole(q)'
  BY <1>1, <1>4 DEF Whole
<1> QED
  BY <1>5, <1>6, <1>7

\* The bytes under a job's name, by what its record and its call say.
LEMMA BytesKeep ==
  ASSUME Calls, Attended, InTime, RightBytes, Verified, NEW a \in Agents, ~At(a, "idle"),
         NEW p \in Jobs, p = Job(a),
         \A b \in Agents \ {a} : agent'[b] = agent[b],
         \A q \in Jobs \ {p} : loc'[q].state = loc[q].state /\ (Whole(q) => Whole(q)'),
         Digest /\ loc'[p].state = "delivered" => Whole(p)',
         Digest /\ agent'[a].pc = "deliver" /\ agent'[a].over => agent'[a].job = p /\ Whole(p)'
  PROVE  RightBytes' /\ Verified'
<1>1. RightBytes'
  <2>1. ASSUME Digest, NEW q \in Jobs, loc'[q].state = "delivered" PROVE Whole(q)'
    <3>1. CASE q = p
      BY <2>1, <3>1
    <3>2. CASE q # p
      BY <2>1, <3>2 DEF RightBytes
    <3> QED
      BY <3>1, <3>2
  <2> QED
    BY <2>1 DEF RightBytes
<1>2. Verified'
  <2>1. ASSUME Digest, NEW b \in Agents, agent'[b].pc = "deliver", agent'[b].over,
               NEW q, q = agent'[b].job
        PROVE  Whole(q)'
    <3>1. CASE b = a
      BY <2>1, <3>1
    <3>2. CASE b # a
      <4>1. agent'[b] = agent[b] /\ ~At(b, "idle") /\ At(b, "deliver") /\ agent[b].over /\ q = Job(b)
        BY <2>1, <3>2 DEF At, Job
      <4>2. q # p /\ q \in Jobs
        BY <3>2, <4>1, TwoHolders, CallTypes
      <4>3. Whole(q)
        BY <2>1, <4>1 DEF Verified
      <4> QED
        BY <4>2, <4>3
    <3> QED
      BY <3>1, <3>2
  <2> QED
    BY <2>1 DEF Verified, At, Job
<1> QED
  BY <1>1, <1>2
\* A file that is there in full stays so, but for the one that is being replaced.
LEMMA WholeKept ==
  ASSUME UNCHANGED diskVars
  PROVE  \A q \in Jobs : Whole(q) => Whole(q)'
BY DEF diskVars, Whole

LEMMA RenamedPc ==
  ASSUME Calls, NEW a \in Agents, Rename(a)
  PROVE  agent'[a].pc # "deliver"
<1>1. agent[a] \in AgentRecord
  BY DEF Calls
<1>2. [agent[a] EXCEPT !.pc = "acknowledge", !.file = None].pc = "acknowledge"
  BY <1>1 DEF AgentRecord
<1>3. \E r : Become(a, r) /\ (r = Idle \/ r = [agent[a] EXCEPT !.pc = "acknowledge", !.file = None])
  BY DEF Rename, Writes
<1> QED
  BY <1>2, <1>3, IdleIs, BecomeIs DEF Calls

LEMMA SoundnessKeeps ==
  ASSUME Calls, Soundness, InTime, InTime', [Next]_vars
  PROVE  Soundness'
<1>1. Attended /\ OwnFiles /\ NeverShort /\ RightBytes /\ Verified
  BY DEF Soundness
<1>2. Attended'
  BY <1>1, AttendedKeeps
<1>3. CASE Stays
  <2>1. UNCHANGED diskVars /\ agent' = agent
    BY <1>3 DEF Stays
  <2>2. OwnFiles' /\ NeverShort'
    BY <1>1, <2>1, DiskKept
  <2>3. \A q \in Jobs : Whole(q) => Whole(q)'
    BY <2>1, WholeKept
  <2>4. RightBytes'
    BY <1>1, <1>3, <2>3 DEF RightBytes, Stays
  <2>5. Verified'
    <3>1. ASSUME Digest, NEW b \in Agents, At(b, "deliver"), agent[b].over, NEW q, q = Job(b)
          PROVE  Whole(q)'
      <4>1. q \in Jobs /\ Whole(q)
        BY <1>1, <3>1, CallTypes DEF Verified, At
      <4> QED
        BY <2>3, <4>1
    <3> QED
      BY <2>1, <3>1 DEF Verified, At, Job
  <2> QED
    BY <1>2, <2>2, <2>4, <2>5 DEF Soundness
<1>4. ASSUME NEW a \in Agents, Died(a) \/ CallOver(a) PROVE Soundness'
  <2>1. /\ UNCHANGED diskVars /\ agent'[a].pc = "idle" /\ ~At(a, "idle")
        /\ \A b \in Agents \ {a} : agent'[b] = agent[b]
        /\ \A q \in Jobs \ {Job(a)} : loc'[q] = loc[q]
    BY <1>4, IdleIs DEF Died, CallOver
  <2>2. OwnFiles' /\ NeverShort'
    <3>1. \A b \in Agents : agent'[b].pc = "copy" => agent'[b] = agent[b]
      BY <2>1
    <3> QED
      BY <1>1, <2>1, <3>1, DiskKept
  <2>3. \A q \in Jobs : Whole(q) => Whole(q)'
    BY <2>1, WholeKept
  <2>4. PICK p \in Jobs : p = Job(a)
    BY <2>1, CallTypes
  <2>5. loc[p].state = "open"
    BY <1>1, <2>1, <2>4 DEF Attended
  <2>6. ASSUME loc'[p].state = "delivered", Digest PROVE Whole(p)'
    <3>1. At(a, "deliver") /\ agent[a].over
      BY <1>4, <2>4, <2>5, <2>6 DEF Died, CallOver
    <3> QED
      BY <1>1, <2>3, <2>4, <2>6, <3>1 DEF Verified
  <2>7. RightBytes' /\ Verified'
    BY <1>1, <2>1, <2>3, <2>4, <2>6, BytesKeep
  <2> QED
    BY <1>2, <2>2, <2>7 DEF Soundness
<1>5. ASSUME NEW a \in Agents, Turned(a) PROVE Soundness'
  <2>1. /\ ~At(a, "idle") /\ loc' = loc /\ agent'[a].job = Job(a)
        /\ \A b \in Agents \ {a} : agent'[b] = agent[b]
    BY <1>5 DEF Turned
  <2>2. PICK p \in Jobs : p = Job(a)
    BY <2>1, CallTypes
  <2>3. loc[p].state = "open"
    BY <1>1, <2>1, <2>2 DEF Attended
  <2>4. /\ OwnFiles' /\ NeverShort' /\ \A q \in Jobs \ {p} : Whole(q) => Whole(q)'
        /\ agent'[a].pc = "deliver" /\ agent'[a].over /\ Digest => Whole(p)'
    <3>1. CASE UNCHANGED diskVars /\ agent'[a].pc # "copy"
      <4>1. \A b \in Agents : agent'[b].pc = "copy" => agent'[b] = agent[b]
        BY <2>1, <3>1
      <4>2. OwnFiles' /\ NeverShort'
        BY <1>1, <3>1, <4>1, DiskKept
      <4>3. \A q \in Jobs : Whole(q) => Whole(q)'
        BY <3>1, WholeKept
      <4>4. agent'[a].pc = "deliver" /\ agent'[a].over /\ Digest => Whole(p)
        BY <1>5, <2>2 DEF Turned
      <4> QED
        BY <4>2, <4>3, <4>4
    <3>2. CASE Create(a) \/ Copy(a)
      <4>1. agent'[a].pc # "deliver"
        <5>1. PICK r \in AgentRecord : Become(a, r) /\ r.pc = "copy"
          BY <3>2, CreateIs, CopyIs
        <5> QED
          BY <5>1, BecomeIs DEF Calls
      <4> QED
        BY <1>1, <3>2, <4>1, WrittenKeeps
    <3>3. CASE Rename(a)
      <4>1. agent'[a].pc # "deliver"
        BY <1>5, <3>3, RenamedPc
      <4> QED
        BY <1>1, <1>5, <2>2, <3>3, <4>1, RenameKeepsFiles
    <3> QED
      BY <1>5, <3>1, <3>2, <3>3 DEF Turned
  <2>5. RightBytes' /\ Verified'
    BY <1>1, <2>1, <2>2, <2>3, <2>4, BytesKeep
  <2> QED
    BY <1>2, <2>4, <2>5 DEF Soundness
<1>6. ASSUME NEW a \in Agents, NEW q \in Jobs, Taken(a, q) PROVE Soundness'
  <2>1. /\ UNCHANGED diskVars /\ agent'[a].pc \notin {"idle", "copy", "deliver"}
        /\ \A b \in Agents \ {a} : agent'[b] = agent[b]
        /\ \A p \in Jobs \ {q} : loc'[p] = loc[p]
        /\ loc'[q].state = "open"
    BY <1>6 DEF Taken
  <2>2. OwnFiles' /\ NeverShort'
    <3>1. \A b \in Agents : agent'[b].pc = "copy" => agent'[b] = agent[b]
      BY <2>1
    <3> QED
      BY <1>1, <2>1, <3>1, DiskKept
  <2>3. \A p \in Jobs : Whole(p) => Whole(p)'
    BY <2>1, WholeKept
  <2>4. RightBytes'
    BY <1>1, <2>1, <2>3 DEF RightBytes
  <2>5. Verified'
    <3>1. ASSUME Digest, NEW b \in Agents, agent'[b].pc = "deliver", agent'[b].over,
                 NEW p, p = agent'[b].job
          PROVE  Whole(p)'
      <4>1. agent'[b] = agent[b] /\ At(b, "deliver") /\ agent[b].over /\ p = Job(b)
        BY <2>1, <3>1 DEF At, Job
      <4>2. p \in Jobs /\ Whole(p)
        BY <1>1, <3>1, <4>1, CallTypes DEF Verified, At
      <4> QED
        BY <2>3, <4>2
    <3> QED
      BY <3>1 DEF Verified, At, Job
  <2> QED
    BY <1>2, <2>2, <2>4, <2>5 DEF Soundness
<1> QED
  BY <1>1, <1>3, <1>4, <1>5, <1>6, StepKinds

LEMMA SoundnessStep ==
  ASSUME Calls, Soundness, [Next]_vars
  PROVE  Soundness'
<1>1. CASE ~InTime'
  BY <1>1 DEF Soundness
<1>2. CASE InTime'
  <2>1. InTime
    BY <1>2, SeenGrows DEF InTime
  <2> QED
    BY <1>2, <2>1, SoundnessKeeps
<1> QED
  BY <1>1, <1>2

LEMMA SoundnessStart ==
  ASSUME Init
  PROVE  Soundness
<1>1. \A a \in Agents : agent[a] = Idle /\ agent[a].pc = "idle"
  BY IdleIs DEF Init
<1>2. Attended
  BY <1>1 DEF Attended, At
<1>3. OwnFiles
  BY <1>1 DEF OwnFiles, Init, At
<1>4. NeverShort /\ RightBytes
  BY DEF Init, NeverShort, RightBytes
<1>5. Verified
  BY <1>1 DEF Verified, At
<1> QED
  BY <1>2, <1>3, <1>4, <1>5 DEF Soundness

-----------------------------------------------------------------------------
(* One record for a request.                                                *)

\* A record comes to be by a Start alone.
LEMMA OnlyStart ==
  ASSUME Calls, [Next]_vars, NEW i \in Ids, ~Known(i), far'[i] # Absent
  PROVE  \E a \in Agents : Start(a)
<1>1. ASSUME NEW j \in Ids, FarStep(j) \/ FarFails(j) PROVE FALSE
  <2>1. far' = far \/ \E r : far' = [far EXCEPT ![j] = r]
    BY <1>1, ShareTypes DEF FarStep, FarFails, FarLetsGo, FarClaim, FarFetched, FarHonours, FarDelivers,
       FarLostPartial, FarMark, FarRelease, FarTake, ShareRecord
  <2>2. far' # far => Known(j)
    <3>1. work[j] # "off" => Known(j)
      BY ShareTypes
    <3>2. far[j].state = "transferred" => Known(j)
      BY DEF Known, Absent
    <3> QED
      BY <1>1, <3>1, <3>2 DEF FarStep, FarFails, FarClaim, FarFetched, FarHonours, FarDelivers,
         FarLostPartial, FarMark, FarRelease, FarTake
  <2> QED
    BY <2>1, <2>2, DiskTypes DEF Known
<1>2. ASSUME FarCrash PROVE FALSE
  <2>1. far[i] = Absent /\ far[i] \in ShareRecord
    BY DiskTypes DEF Known
  <2>2. far'[i] = [far[i] EXCEPT !.live = FALSE]
    BY <1>2 DEF FarCrash
  <2>3. far[i].live = FALSE
    BY <2>1 DEF Absent
  <2>4. far'[i] = far[i]
    BY <2>1, <2>2, <2>3 DEF ShareRecord
  <2> QED
    BY <2>1, <2>4
<1>3. ASSUME NEW a \in Agents, Step(a), ~Start(a) PROVE FALSE
  <2>1. CASE UNCHANGED far
    BY <2>1 DEF Known
  <2>2. CASE ~UNCHANGED far
    <3>1. Suspend(a) \/ Resume(a) \/ Acknowledge(a) \/ EndRemote(a)
      BY <1>3, <2>2 DEF Step, farVars, Take, Locate, RecordHandle, Poll, Open, Create, Copy, Rename,
         Verify, Deliver, LoadRemote, LookForOthers, RemoveFinal, CancelHere
    <3>2. agent[a].id \in Ids /\ Known(agent[a].id)
      BY <3>1, CallTypes DEF Suspend, Resume, Acknowledge, EndRemote, At, HasRecord
    <3>3. far'[i] = far[i]
      BY <3>1, <3>2, DiskTypes DEF Suspend, Resume, Acknowledge, EndRemote, SetIntent
    <3> QED
      BY <3>3 DEF Known
  <2> QED
    BY <2>1, <2>2
<1>4. ASSUME NEW a \in Agents, StartFails(a) \/ CopyFails(a) \/ Lapse(a) PROVE FALSE
  BY <1>4 DEF StartFails, CopyFails, Lapse, farVars, Known
<1>5. ASSUME NEW q \in Jobs, SetWant(q) PROVE FALSE
  BY <1>5 DEF SetWant, farVars, Known
<1>6. ~(Unmount \/ Mount \/ UNCHANGED vars)
  BY DEF Unmount, Mount, vars, farVars, Known
<1> QED
  BY <1>1, <1>2, <1>3, <1>4, <1>5, <1>6 DEF Next

\* What is underway of a job was before, but for what a Start of that job made.
LEMMA UnderwayIs ==
  ASSUME Calls, Forward, [Next]_vars, NEW q \in Jobs, NEW i \in UnderwayOf(q)',
         i \notin UnderwayOf(q)
  PROVE  \E a \in Agents : /\ Start(a) /\ Job(a) = q
                           /\ UnderwayOf(q)' \subseteq UnderwayOf(q) \cup {i}
                           /\ agent'[a].pc = "record" => agent'[a].id = i
<1>1. i \in Ids /\ far'[i].req = q /\ far'[i] # Absent /\ far'[i].state \in {"pending", "running"}
  BY DEF UnderwayOf, Underway, Known
<1>2. ~Known(i)
  BY <1>1, KnownIs DEF UnderwayOf, Underway, Forward, Calls
<1>3. PICK a \in Agents : Start(a)
  BY <1>1, <1>2, OnlyStart
<1>4. PICK j \in Ids, r \in AgentRecord, s \in ShareRecord :
           /\ ~Known(j) /\ far' = [far EXCEPT ![j] = s]
           /\ s.req = Job(a) /\ Become(a, r) /\ r.pc \in {"record", "locate"}
           /\ r.pc = "record" => r.id = j
  BY <1>3, StartIs
<1>5. j = i
  BY <1>1, <1>2, <1>4, DiskTypes DEF Known
<1>6. far'[i] = s /\ \A k \in Ids \ {i} : far'[k] = far[k]
  BY <1>4, <1>5, DiskTypes
<1>7. agent'[a] = r
  BY <1>4, BecomeIs DEF Calls
<1> QED
  BY <1>1, <1>3, <1>4, <1>5, <1>6, <1>7 DEF UnderwayOf, Underway, Known

LEMMA FindableBefore ==
  ASSUME Calls, Forward, [Next]_vars, NEW q \in Jobs, Findable(q)'
  PROVE  Findable(q)
<1>1. faults.seen \subseteq faults'.seen
  BY SeenGrows
<1>2. ASSUME {"lost", "crash"} \cap faults.seen # {}, NEW i \in Ids, far[i].req = q
      PROVE  Underway(i)
  <2>1. far'[i].req = q /\ Known(i)
    BY <1>2, KnownIs DEF Forward, Calls
  <2>2. Underway(i)'
    BY <1>1, <1>2, <2>1 DEF Findable
  <2> QED
    BY <1>2, <2>1, <2>2 DEF Forward, Underway
<1> QED
  BY <1>1, <1>2 DEF Findable, InTime

LEMMA UpIs ==
  ASSUME Calls, [Next]_vars, "unmount" \notin faults.seen => up
  PROVE  ("unmount" \notin faults.seen => up)'
<1>1. up' = up \/ up' = TRUE \/ Unmount
  BY DEF Next, Step, vars, FarStep, FarClaim, FarFetched, FarHonours, FarFails, FarDelivers, FarLostPartial,
     FarMark, FarRelease, FarTake, FarCrash, Take, Start, StartFails, Locate, RecordHandle, Poll,
     Suspend, Resume, Open, Create, Copy, CopyFails, Rename, Acknowledge, Verify, Deliver, LoadRemote,
     LookForOthers, RemoveFinal, EndRemote, CancelHere, SetWant, Lapse, Mount
<1>2. Unmount => "unmount" \in faults'.seen
  BY DisturbIs DEF Unmount, Calls
<1> QED
  BY <1>1, <1>2, SeenGrows

LEMMA FetchesKeep ==
  ASSUME Calls, Forward, Attended, InTime', [Next]_vars, Fetches
  PROVE  Fetches'
<1>1. ASSUME NEW b \in Agents, agent[b].pc \in HasRecord,
             far[agent[b].id].state \notin {"pending", "running"}, NEW i, i = agent[b].id
      PROVE  ~Underway(i)'
  BY <1>1, CallTypes DEF Forward, Underway
<1>2. ASSUME NEW b \in Agents, agent[b].pc \in Fetching
      PROVE  agent[b].pc \in HasRecord /\ far[agent[b].id].state \notin {"pending", "running"}
  BY <1>2, CallTypes DEF Fetches, Fetching, Underway, HasRecord
<1>3. ASSUME NEW b \in Agents, agent'[b] = agent[b], agent'[b].pc \in Fetching, NEW i, i = agent'[b].id
      PROVE  ~Underway(i)'
  BY <1>1, <1>2, <1>3
<1>4. ASSUME NEW a \in Agents, Turned(a), agent'[a].pc \in Fetching, NEW i, i = agent'[a].id
      PROVE  ~Underway(i)'
  <2>1. agent[a].pc \notin Early /\ agent'[a].id = agent[a].id /\ ~At(a, "idle")
    BY <1>4 DEF Turned, Early, Fetching
  <2>2. agent[a].pc \in HasRecord
    BY <2>1, CallTypes DEF PCs, Early, At
  <2>3. far[agent[a].id].state \notin {"pending", "running"}
    BY <1>2, <1>4 DEF Turned
  <2> QED
    BY <1>1, <1>4, <2>1, <2>2, <2>3
<1>5. ASSUME NEW b \in Agents, agent'[b].pc \in Fetching, NEW i, i = agent'[b].id PROVE ~Underway(i)'
  <2>1. CASE Stays
    BY <1>3, <1>5, <2>1 DEF Stays
  <2>2. ASSUME NEW a \in Agents, Died(a) \/ CallOver(a) PROVE ~Underway(i)'
    <3>1. agent'[a].pc \notin Fetching /\ \A c \in Agents \ {a} : agent'[c] = agent[c]
      BY <2>2, IdleIs DEF Died, CallOver, Fetching
    <3> QED
      BY <1>3, <1>5, <3>1
  <2>3. ASSUME NEW a \in Agents, Turned(a) PROVE ~Underway(i)'
    BY <1>3, <1>4, <1>5, <2>3 DEF Turned
  <2>4. ASSUME NEW a \in Agents, NEW q \in Jobs, Taken(a, q) PROVE ~Underway(i)'
    <3>1. agent'[a].pc \notin Fetching /\ \A c \in Agents \ {a} : agent'[c] = agent[c]
      BY <2>4 DEF Taken, Fetching
    <3> QED
      BY <1>3, <1>5, <3>1
  <2> QED
    BY <2>1, <2>2, <2>3, <2>4, StepKinds
<1> QED
  BY <1>5 DEF Fetches, Fetching

LEMMA UndoubtedKeeps ==
  ASSUME Calls, Attended, [Next]_vars, Undoubted, "unmount" \notin faults.seen => up,
         InTime', {"lost", "crash"} \cap faults'.seen = {}, "unmount" \notin faults'.seen
  PROVE  /\ \A b \in Agents : agent'[b].pc # "locate"
         /\ \A q \in Jobs : ~(loc'[q].ext = q /\ loc'[q].holder = None)
<1>1. /\ InTime /\ {"lost", "crash"} \cap faults.seen = {} /\ "unmount" \notin faults.seen /\ up
  BY SeenGrows DEF InTime
<1>2. /\ \A b \in Agents : agent[b].pc # "locate"
      /\ \A q \in Jobs : ~(loc[q].ext = q /\ loc[q].holder = None)
  BY <1>1 DEF Undoubted, At
<1>3. CASE Stays
  BY <1>2, <1>3 DEF Stays
<1>4. ASSUME NEW a \in Agents, CallOver(a)
      PROVE  /\ \A b \in Agents : agent'[b].pc # "locate"
             /\ \A q \in Jobs : ~(loc'[q].ext = q /\ loc'[q].holder = None)
  <2>1. \A b \in Agents : agent'[b].pc # "locate"
    BY <1>2, <1>4, IdleIs DEF CallOver
  <2>2. agent[a].pc \in HasRecord /\ agent[a].id \in Ids /\ Job(a) \in Jobs
    BY <1>2, <1>4, CallTypes DEF CallOver, PCs, At
  <2>3. ~At(a, "record") => loc[Job(a)].ext = agent[a].id
    BY <1>2, <1>4 DEF Attended, CallOver, At
  <2>4. loc'[Job(a)].ext \in {agent[a].id, None}
    BY <1>4, <2>3 DEF CallOver
  <2>5. loc'[Job(a)].ext # Job(a)
    BY <2>2, <2>4, NasAssumption
  <2> QED
    BY <1>2, <1>4, <2>1, <2>5 DEF CallOver
<1>5. ASSUME NEW a \in Agents, Turned(a)
      PROVE  /\ \A b \in Agents : agent'[b].pc # "locate"
             /\ \A q \in Jobs : ~(loc'[q].ext = q /\ loc'[q].holder = None)
  BY <1>1, <1>2, <1>5 DEF Turned
<1>6. ASSUME NEW a \in Agents, NEW q \in Jobs, Taken(a, q)
      PROVE  /\ \A b \in Agents : agent'[b].pc # "locate"
             /\ \A p \in Jobs : ~(loc'[p].ext = p /\ loc'[p].holder = None)
  <2>1. a # None
    BY NasAssumption
  <2> QED
    BY <1>2, <1>6, <2>1 DEF Taken
<1>7. \A a \in Agents : ~Died(a)
  BY DEF Died
<1> QED
  BY <1>3, <1>4, <1>5, <1>6, <1>7, StepKinds

\* The other steps of a job: nothing new is underway.
LEMMA SoleWithoutNew ==
  ASSUME Calls, Calls', Forward, Attended, InTime', [Next]_vars, Fetches, Undoubted,
         "unmount" \notin faults.seen => up, NEW q \in Jobs, Findable(q), Sole(q),
         UnderwayOf(q)' \subseteq UnderwayOf(q)
  PROVE  Sole(q)'
<1>1. /\ \A i, j \in UnderwayOf(q) : i = j
      /\ loc[q].ext = None => UnderwayOf(q) = {}
      /\ loc[q].ext \in Ids => UnderwayOf(q) \subseteq {loc[q].ext}
      /\ \A b \in Agents : agent[b].job = q =>
           /\ agent[b].pc = "start" => UnderwayOf(q) = {}
           /\ agent[b].pc = "record" => UnderwayOf(q) \subseteq {agent[b].id}
  BY DEF Sole, At, Job
<1> SUFFICES /\ loc'[q].ext = None => UnderwayOf(q) = {}
             /\ loc'[q].ext \in Ids => UnderwayOf(q) \subseteq {loc'[q].ext}
             /\ \A b \in Agents : agent'[b].job = q =>
                  /\ agent'[b].pc = "start" => UnderwayOf(q) = {}
                  /\ agent'[b].pc = "record" => UnderwayOf(q) \subseteq {agent'[b].id}
  BY <1>1 DEF Sole, At, Job
<1> DEFINE Goal ==
             /\ loc'[q].ext = None => UnderwayOf(q) = {}
             /\ loc'[q].ext \in Ids => UnderwayOf(q) \subseteq {loc'[q].ext}
             /\ \A b \in Agents : agent'[b].job = q =>
                  /\ agent'[b].pc = "start" => UnderwayOf(q) = {}
                  /\ agent'[b].pc = "record" => UnderwayOf(q) \subseteq {agent'[b].id}
<1>2. CASE Stays
  BY <1>1, <1>2 DEF Stays
<1>3. ASSUME NEW a \in Agents, Died(a) PROVE Goal
  <2>1. loc'[q].ext = loc[q].ext
    BY <1>3 DEF Died
  <2>2. agent'[a].pc = "idle" /\ \A b \in Agents \ {a} : agent'[b] = agent[b]
    BY <1>3, IdleIs DEF Died
  <2> QED
    BY <1>1, <2>1, <2>2
<1>4. ASSUME NEW a \in Agents, CallOver(a) PROVE Goal
  <2>1. agent'[a].pc = "idle" /\ \A b \in Agents \ {a} : agent'[b] = agent[b]
    BY <1>4, IdleIs DEF CallOver
  <2>2. CASE q # Job(a)
    <3>1. loc'[q] = loc[q]
      BY <1>4, <2>2 DEF CallOver
    <3> QED
      BY <1>1, <2>1, <3>1
  <2>3. CASE q = Job(a)
    <3>1. loc'[q].ext = loc[q].ext => Goal
      BY <1>1, <2>1
    <3>2. CASE At(a, "record") /\ loc'[q].ext = agent[a].id
      <4>1. UnderwayOf(q) \subseteq {agent[a].id}
        BY <1>1, <2>3, <3>2 DEF At, Job
      <4>2. agent[a].id # None
        BY <3>2, Present, NasAssumption DEF HasRecord
      <4> QED
        BY <1>1, <2>1, <3>2, <4>1, <4>2
    <3>3. CASE loc'[q].ext = None /\ UnderwayOf(q) = {}
      BY <1>1, <2>1, <3>3
    <3>4. ASSUME At(a, "locate"), \A i \in Ids : far[i].req # Job(a) PROVE UnderwayOf(q) = {}
      BY <2>3, <3>4 DEF UnderwayOf
    <3>5. ASSUME At(a, "poll") \/ At(a, "deliver"), agent[a].id \notin UnderwayOf(q)
          PROVE  UnderwayOf(q) = {}
      <4>1. loc[q].ext = agent[a].id /\ agent[a].id \in Ids
        BY <2>3, <3>5, Present DEF Attended, HasRecord, At
      <4> QED
        BY <1>1, <3>5, <4>1
    <3>6. ASSUME At(a, "poll"), ~up \/ far[agent[a].id].state \in {"failed", "cancelled"}
          PROVE  agent[a].id \notin UnderwayOf(q)
      BY <3>6 DEF UnderwayOf, Underway, Findable
    <3>7. ASSUME At(a, "deliver") PROVE agent[a].id \notin UnderwayOf(q)
      BY <3>7 DEF UnderwayOf, Fetches, At
    <3> QED
      BY <1>4, <2>3, <3>1, <3>2, <3>3, <3>4, <3>5, <3>6, <3>7 DEF CallOver
  <2> QED
    BY <2>2, <2>3
<1>5. ASSUME NEW a \in Agents, Turned(a) PROVE Goal
  <2>1. loc' = loc /\ agent'[a].job = agent[a].job /\ \A b \in Agents \ {a} : agent'[b] = agent[b]
    BY <1>5 DEF Turned, Job
  <2>2. agent'[a].pc # "start"
    BY <1>5 DEF Turned, Early
  <2>3. ASSUME agent'[a].job = q, agent'[a].pc = "record" PROVE UnderwayOf(q) \subseteq {agent'[a].id}
    <3>1. agent'[a].id \in Ids
      BY <2>3 DEF Calls, Sane, HasRecord
    <3>2. CASE At(a, "start")
      BY <1>1, <2>1, <2>3, <3>2 DEF At
    <3>3. CASE At(a, "locate") /\ far[agent'[a].id].req = Job(a)
      <4>1. {"lost", "crash"} \cap faults.seen # {}
        BY <3>3 DEF Undoubted, Findable
      <4>2. Underway(agent'[a].id) /\ far[agent'[a].id].req = q
        BY <2>1, <2>3, <3>1, <3>3, <4>1 DEF Findable, Job
      <4>3. agent'[a].id \in UnderwayOf(q)
        BY <3>1, <4>2 DEF UnderwayOf
      <4> QED
        BY <1>1, <4>3
    <3> QED
      BY <1>5, <2>3, <3>2, <3>3 DEF Turned
  <2> QED
    BY <1>1, <2>1, <2>2, <2>3
<1>6. ASSUME NEW a \in Agents, NEW p \in Jobs, Taken(a, p) PROVE Goal
  <2>1. /\ \A b \in Agents \ {a} : agent'[b] = agent[b]
        /\ agent'[a].job = p /\ agent'[a].pc # "record"
    BY <1>6 DEF Taken
  <2>2. p = q => /\ loc'[q].ext # None
                 /\ loc'[q].ext \in Ids => loc'[q].ext = loc[q].ext
                 /\ agent'[a].pc = "start" => loc[q].ext = None
    BY <1>6, NasAssumption DEF Taken
  <2>3. p # q => loc'[q] = loc[q]
    BY <1>6 DEF Taken
  <2> QED
    BY <1>1, <2>1, <2>2, <2>3
<1> HIDE DEF Goal
<1>7. Stays => Goal
  BY <1>2 DEF Goal
<1>8. Goal
  BY <1>3, <1>4, <1>5, <1>6, <1>7, StepKinds
<1> QED
  BY <1>8 DEF Goal

LEMMA SoleKeeps ==
  ASSUME Calls, Calls', Forward, Attended, InTime', [Next]_vars, Fetches, Undoubted,
         "unmount" \notin faults.seen => up, NEW q \in Jobs, Findable(q), Sole(q)
  PROVE  Sole(q)'
<1>1. CASE UnderwayOf(q)' \subseteq UnderwayOf(q)
  BY <1>1, SoleWithoutNew
<1>2. CASE ~(UnderwayOf(q)' \subseteq UnderwayOf(q))
  <2>1. PICK i \in UnderwayOf(q)' : i \notin UnderwayOf(q)
    BY <1>2
  <2>2. PICK a \in Agents : /\ Start(a) /\ Job(a) = q
                            /\ UnderwayOf(q)' \subseteq UnderwayOf(q) \cup {i}
                            /\ agent'[a].pc = "record" => agent'[a].id = i
    BY <2>1, UnderwayIs
  <2>3. At(a, "start") /\ ~At(a, "idle") /\ Turned(a)
    BY <2>2, TurnedStart DEF Start, At
  <2>4. UnderwayOf(q) = {} /\ UnderwayOf(q)' \subseteq {i}
    BY <2>2, <2>3 DEF Sole
  <2>5. loc' = loc /\ loc[q].ext = q
    BY <2>2, <2>3 DEF Attended, Turned, At
  <2>6. q # None /\ q \notin Ids
    BY NasAssumption
  <2>7. ASSUME NEW b \in Agents, agent'[b].job = q
        PROVE  /\ agent'[b].pc # "start"
               /\ agent'[b].pc = "record" => UnderwayOf(q)' \subseteq {agent'[b].id}
    <3>1. CASE b = a
      BY <2>2, <2>3, <2>4, <3>1 DEF Turned, Early
    <3>2. CASE b # a
      <4>1. agent'[b] = agent[b]
        BY <2>3, <3>2 DEF Turned
      <4>2. agent[b].pc = "idle"
        BY <2>2, <2>3, <2>7, <3>2, <4>1, TwoHolders DEF At, Job
      <4> QED
        BY <4>1, <4>2
    <3> QED
      BY <3>1, <3>2
  <2> QED
    BY <2>4, <2>5, <2>6, <2>7 DEF Sole, At, Job
<1> QED
  BY <1>1, <1>2

LEMMA OneRecordStep ==
  ASSUME Calls, Soundness, OneRecord, [Next]_vars
  PROVE  OneRecord'
<1>1. Calls' /\ Forward /\ faults.seen \subseteq faults'.seen
  BY CallsStep, SeenGrows
<1>2. ("unmount" \notin faults.seen => up)'
  BY UpIs DEF OneRecord
<1>3. InTime' => InTime /\ Attended /\ Fetches
  BY <1>1 DEF InTime, Soundness, OneRecord
<1>4. InTime' => Fetches'
  BY <1>1, <1>3, FetchesKeep
<1>5. Undoubted'
  <2>1. CASE "unmount" \in faults'.seen
    BY <2>1 DEF Undoubted
  <2>2. CASE "unmount" \notin faults'.seen /\ InTime' /\ {"lost", "crash"} \cap faults'.seen = {}
    BY <1>3, <2>2, UndoubtedKeeps DEF OneRecord, Undoubted, At
  <2> QED
    BY <2>1, <2>2 DEF Undoubted
<1>6. ASSUME NEW q \in Jobs, Findable(q)' PROVE Sole(q)'
  <2>1. Findable(q) /\ InTime'
    BY <1>1, <1>6, FindableBefore DEF Findable
  <2> QED
    BY <1>1, <1>3, <2>1, SoleKeeps DEF OneRecord
<1> QED
  BY <1>2, <1>4, <1>5, <1>6 DEF OneRecord

LEMMA OneRecordStart ==
  ASSUME Init
  PROVE  OneRecord
<1>1. \A a \in Agents : agent[a].pc = "idle"
  BY IdleIs DEF Init
<1>2. \A q \in Jobs : UnderwayOf(q) = {}
  BY DEF Init, UnderwayOf, Underway, Known
<1>3. \A q \in Jobs : loc[q].ext = None /\ q # None
  BY NasAssumption DEF Init
<1>4. Fetches /\ Undoubted
  BY <1>1, <1>3 DEF Fetches, Undoubted, At
<1>5. \A q \in Jobs : Sole(q)
  BY <1>1, <1>2, <1>3, NasAssumption DEF Sole, At
<1>6. up
  BY DEF Init
<1> QED
  BY <1>4, <1>5, <1>6 DEF OneRecord

-----------------------------------------------------------------------------
LEMMA NasInvHolds == Spec => []NasInv
<1>1. Init => NasInv
  BY CallsStart, SoundnessStart, OneRecordStart DEF NasInv
<1>2. NasInv /\ [Next]_vars => NasInv'
  BY CallsStep, SoundnessStep, OneRecordStep DEF NasInv
<1> QED
  BY <1>1, <1>2, PTL DEF Spec

\* A request whose handoff went astray is found again before it is made anew: no two
\* records of one job are underway on the share at once.
THEOREM OneFarRecord == Spec => []OneForRequest
<1>1. NasInv => OneForRequest
  <2> SUFFICES ASSUME NasInv, NEW i \in Ids, NEW j \in Ids, i # j, Underway(i), Underway(j),
                      Findable(far[i].req), far[i].req = far[j].req
               PROVE  FALSE
    BY DEF OneForRequest
  <2>1. far[i].req \in Jobs
    BY KnownIs DEF Underway, NasInv, Calls
  <2>2. i \in UnderwayOf(far[i].req) /\ j \in UnderwayOf(far[i].req)
    BY DEF UnderwayOf
  <2> QED
    BY <2>1, <2>2 DEF NasInv, OneRecord, Sole
<1> QED
  BY <1>1, NasInvHolds, PTL

\* A destination shows a file in full or none, and the job's own bytes once the job
\* says it is delivered.
THEOREM FilesAreSound == Spec => []SoundFile
<1>1. NasInv => SoundFile
  BY DEF NasInv, Calls, Soundness, SoundFile, NeverShort, RightBytes
<1> QED
  BY <1>1, NasInvHolds, PTL

\* A finished file is removed by nobody but who abandons its record, or looked before
\* there was one.
THEOREM OnlyAbandonedGoes == Spec => BytesKept
<1>1. ASSUME NasInv, [Next]_vars, NEW i \in Ids, far[i].state = "transferred", share # None, share' = None
      PROVE  \E a \in Agents : At(a, "remove") /\ (agent[a].id = i \/ i \notin agent[a].met)
  <2>1. PICK a \in Agents : At(a, "remove")
    BY <1>1, OnlyRemoval DEF NasInv
  <2> QED
    BY <1>1, <2>1 DEF NasInv, Calls, LookedWell
<1> DEFINE Kept ==
             \A i \in Ids :
               far[i].state = "transferred" /\ share # None /\ share' = None
               => \E a \in Agents : At(a, "remove") /\ (agent[a].id = i \/ i \notin agent[a].met)
<1>2. NasInv /\ [Next]_vars => [Kept]_vars
  BY <1>1
<1>3. BytesKept <=> [][Kept]_vars
  BY DEF BytesKept
<1> HIDE DEF Kept
<1> QED
  BY <1>2, <1>3, NasInvHolds, PTL DEF Spec
=============================================================================
