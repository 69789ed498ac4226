--------------------------- MODULE ShadowSqliteDb ---------------------------
(***************************************************************************)
(* The `shadow_logs` table of crates/common/src/db.rs and the two          *)
(* statements the ExEx runs on it.  SQLite promises no row order without   *)
(* ORDER BY and the table has no key, so the table is a bag of rows; a row *)
(* carries the number of the notification whose INSERT created it, which   *)
(* makes every row unique and lets the bag be a set.                       *)
(***************************************************************************)
EXTENDS Naturals

CONSTANTS Blocks,   \* block hashes
          Number,   \* height of a block: the block_number column of its rows
          Log       \* log identities within a block (tx, index in tx, payload)

\* One row; `batch` is the number of the notification that inserted it.
Row == [batch : Nat, block : Blocks, log : Log, removed : BOOLEAN]

\* INSERT INTO shadow_logs ... VALUES (..), (..): one statement, so either
\* every row of the notification or none is stored.
BulkInsert(table, rows) == table \cup rows

\* An empty VALUES list is not valid SQL: the statement of a notification
\* without shadow logs is rejected by SQLite whatever the table holds.
ValidInsert(rows) == rows # {}

\* Mutants of the UPDATE: it deletes the rows; it has no WHERE; it assigns the
\* comparison to the flag of every row.
ReorgDeletes(table, b) == {r \in table : r.block # b}
ReorgMarksAll(table, b) == {[r EXCEPT !.removed = TRUE] : r \in table}
ReorgAssigns(table, b) == {[r EXCEPT !.removed = (r.block = b)] : r \in table}

\* UPDATE shadow_logs SET removed = true WHERE block_hash = X'..': every row of
\* the block that is in the table at this instant, and no other.
HandleBlockReorg(table, b) ==
  {IF r.block = b THEN [r EXCEPT !.removed = TRUE] ELSE r : r \in table}

\* The rows of a block that are not marked as removed.
Live(table, b) == {r \in table : r.block = b /\ ~r.removed}
=============================================================================
