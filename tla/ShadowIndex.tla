----------------------------- MODULE ShadowIndex -----------------------------
(***************************************************************************)
(* What the index promises, without tasks, statements or notifications:    *)
(* the logs of a block are stored together and removed together, and each  *)
(* change is owed to the subscribers until they have been told of it.  A   *)
(* block on which something went wrong is lost: nothing is promised of it  *)
(* any more.                                                               *)
(***************************************************************************)
EXTENDS Sequences

CONSTANTS Blocks,
          Indexed    \* the blocks that have shadow logs

VARIABLES
  status,    \* "none", "live", "removed" or "lost", of each block
  due,       \* blocks whose last change has not been announced
  told       \* announcements, oldest first

vars == <<status, due, told>>

Become(S, new) ==
  status' = [b \in Blocks |->
               IF b \in S /\ status[b] # "lost" THEN new ELSE status[b]]

Init == status = [b \in Blocks |-> "none"] /\ due = {} /\ told = <<>>

\* The logs of some blocks become live, all at once; none of them is live yet.
Store ==
  \E S \in SUBSET Indexed :
    /\ UNCHANGED told /\ due' = due \cup S
    /\ \A b \in S : status[b] # "live"
    /\ Become(S, "live")

\* The logs of one block are removed, all at once.  A block without logs has
\* nothing to remove, but it is announced.
Remove ==
  \E b \in Blocks :
    /\ UNCHANGED told /\ due' = due \cup {b}
    /\ IF b \in Indexed THEN status[b] \in {"live", "lost"} /\ Become({b}, "removed")
       ELSE UNCHANGED status

\* Something goes wrong with some blocks, which may be announced all the same.
Lost == {b \in Blocks : status[b] = "lost"}

Lose ==
  /\ UNCHANGED told /\ due \subseteq due' /\ due' \subseteq due \cup Lost'
  /\ Become(Lost', "lost")

\* Nobody is told of a block that has not changed, nor of a block whose logs
\* have never been stored.
Tell ==
  \E b \in due :
    /\ told' = Append(told, b)
    /\ b \in Indexed => status[b] # "none"
    /\ due' \in {due, due \ {b}}
    /\ UNCHANGED status

\* Announcements die with the process; statuses are on disk.
Restart ==
  /\ told' = <<>> /\ due' = {}
  /\ Become(Lost', "lost")

Next == Store \/ Remove \/ Lose \/ Tell \/ Restart

Spec == Init /\ [][Next]_vars
=============================================================================
