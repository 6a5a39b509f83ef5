-------------------------- MODULE ClientInvariant --------------------------
(***************************************************************************)
(* Why a destination has one unfinished record at most, and why what is    *)
(* told to be there is there: the invariants ClientProofs shows to be      *)
(* inductive, in a module of their own so that TLC can check them.         *)
(***************************************************************************)
EXTENDS Client

\* A caller past the search has a record.
HasRecord ==
  \A c \in Callers :
    call[c].pc \in {"begin", "clear", "reclaim", "cleared", "giveback", "launch", "wait",
                    "take", "taking"}
      => call[c].id \in Ids

\* A caller that tries the names one by one has passed over ended records only.
PassedOver ==
  \A c \in Callers :
    At(c, "make") =>
      /\ call[c].id \in OfDestination
      /\ \A j \in 1..(call[c].id - 1) : Terminal(rec[j].state)

\* A name is taken only once the records of all names before it have ended.
InTurn ==
  \A i, j \in OfDestination : i < j /\ ~Absent(j) => Terminal(rec[i].state)

ClientInv == TypeOK /\ HasRecord /\ PassedOver /\ InTurn

\* Nothing is recorded or put down that nobody asked for, and nobody is told
\* anything before the first look.
Asked(a) == \E c \in Callers : a = Asks[c]

OnlyAsked ==
  /\ \A i \in Ids : ~Absent(i) => Asked(rec[i].what)
  /\ file # None => Asked(file)
  /\ \A c \in Callers : At(c, "start") => call[c].said = "nothing"
=============================================================================
