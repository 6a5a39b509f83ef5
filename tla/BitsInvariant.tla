--------------------------- MODULE BitsInvariant ---------------------------
(***************************************************************************)
(* What every reachable state of BitsDelegate satisfies, strong enough to  *)
(* follow from itself: what a script and its caller know of each other,    *)
(* which answers stay true, and whose turn it is.                          *)
(***************************************************************************)
EXTENDS BitsDelegate

Handling == {"poll", "suspend", "resume", "finalize", "abandon"}
Verbs    == Handling \cup {"start", "locate"}

Call   == [pc : Verbs \cup {"idle", "dead"}, id : Jobs \cup {None},
           ans : Jobs \cup Words \cup {None}]
Cmdlet == [verb : Verbs \cup {None}, at : {"off", "begin", "resume", "remove", "print"},
           id : Jobs \cup {None}, ans : Jobs \cup Words \cup {None}]

Ranges == TypeOK /\ agent \in [Agents -> Call] /\ script \in [Agents -> Cmdlet]

\* A handle once given out names a job that was in the queue, and a job that
\* failed or left it does not move again.
Given(j) == j \in Jobs /\ job[j] # "none"
Spent(j) == j \in Jobs /\ job[j] \in {"gone", "error"}

\* What stays true of an answer, whatever becomes of the queue after it.
Holds(verb, id, ans) ==
  /\ ans \in Jobs => verb \in {"start", "locate"} /\ Given(ans)
  /\ verb = "start" => ans \in Jobs \cup {"error"}
  /\ verb = "locate" => ans \in Jobs \cup {"error", "gone"}
  /\ verb = "poll" /\ ans \in {"gone", "failed"} => Spent(id)
  /\ verb \in {"finalize", "abandon"} /\ ans # "error" => Spent(id)

\* A script does what its caller is waiting for, unless the caller died.
Heard(a) ==
  /\ script[a].at # "off" =>
       /\ script[a].verb \in Verbs
       /\ ~At(a, "dead") => agent[a].pc = script[a].verb /\ agent[a].ans = None
       /\ ~At(a, "dead") /\ script[a].verb \in Handling => agent[a].id = script[a].id
  /\ script[a].at = "off" /\ ~At(a, "idle") => agent[a].pc \in Verbs /\ agent[a].ans # None
  /\ At(a, "idle") => agent[a].ans = None

Scripted(a) ==
  /\ script[a].at # "off" /\ script[a].verb \in Handling => Given(script[a].id)
  /\ script[a].at \in {"resume", "remove"} => script[a].verb = "start" /\ Given(script[a].id)
  /\ script[a].at = "print" =>
       script[a].ans # None /\ Holds(script[a].verb, script[a].id, script[a].ans)

Called(a) ==
  /\ agent[a].pc \in Handling => Given(agent[a].id)
  /\ agent[a].ans # None => Holds(agent[a].pc, agent[a].id, agent[a].ans)

\* The holder of the lease is in a call, and about what the record says.
Held(a) ==
  MayWrite(a) =>
    /\ agent[a].pc \in Verbs /\ rec.state = "open"
    /\ agent[a].pc \in {"start", "locate"} => rec.ext = Request
    /\ agent[a].pc \in Handling => rec.ext = agent[a].id

Agreed ==
  /\ Ranges
  /\ rec.ext \in Jobs => Given(rec.ext)
  /\ \A a \in Agents : Heard(a) /\ Scripted(a) /\ Called(a) /\ Held(a)

-----------------------------------------------------------------------------
(* Where Locate is to be relied on.                                         *)

Only(e) == \A j \in Jobs : Active(j) => j = e
Empty   == \A j \in Jobs : ~Active(j)
Single  == \A i, j \in Jobs : Active(i) /\ Active(j) => i = j

\* No script outlives its caller: who is in a call holds the lease.
Attended == "orphan" \notin faults.seen =>
  \A a \in Agents : ~At(a, "dead") /\ (~At(a, "idle") => MayWrite(a))
Unfailed == "fail" \notin faults.seen => \A j \in Jobs : job[j] # "error"

\* What an answer to a question about the queue says of it.
Answers(verb, ans) ==
  /\ verb \in {"start", "locate"} /\ ans \in Jobs => Only(ans)
  /\ verb = "locate" /\ ans = "gone" => Empty

Sole ==
  /\ Single
  /\ rec.ext # Request => Only(rec.ext)
  /\ \A a \in Agents :
       /\ script[a].at = "begin" /\ script[a].verb = "start" => Empty
       /\ script[a].at \in {"resume", "remove"} => Only(script[a].id)
       /\ script[a].at = "print" => Answers(script[a].verb, script[a].ans)
       /\ agent[a].ans # None => Answers(agent[a].pc, agent[a].ans)

IInv == Agreed /\ Attended /\ Unfailed /\ (Findable => Sole)
=============================================================================
