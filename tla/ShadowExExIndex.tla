--------------------------- MODULE ShadowExExIndex ---------------------------
(***************************************************************************)
(* ShadowExEx implements ShadowIndex: the status of a block is computed    *)
(* from its rows, what is owed from the tasks that have still to send.     *)
(***************************************************************************)
EXTENDS ShadowExEx

RowsOf(b) == {r \in table : r.block = b}

\* "broken" is no status of ShadowIndex: an INSERT or an UPDATE in halves.
StatusOf(b) ==
  CASE b \in tainted -> "lost"
    [] b \notin tainted /\ RowsOf(b) = {} -> "none"
    [] b \notin tainted /\ RowsOf(b) # {} /\ Live(table, b) = {} -> "removed"
    [] b \notin tainted /\ Live(table, b) # {} /\ StoredOnce(b) -> "live"
    [] OTHER -> "broken"

Owed == {b \in Blocks : \E t \in tasks : t.sql = "done" /\ b \in t.unsent}

Index == INSTANCE ShadowIndex
           WITH Indexed <- {b \in Blocks : ShadowLogs(b) # {}},
                status <- [b \in Blocks |-> StatusOf(b)],
                due <- Owed,
                told <- sent

\* The notification loop, its tasks and the table implement the abstract index:
\* whatever the interleaving of tasks and faults, a block on which nothing went
\* wrong is stored and removed as a whole, is never stored twice, and is
\* announced after each change and never without one (lib.rs:132-178,
\* db.rs:37-103).
ImplementsIndex == Index!Spec
=============================================================================
