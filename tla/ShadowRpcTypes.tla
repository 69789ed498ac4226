--------------------------- MODULE ShadowRpcTypes ---------------------------
(***************************************************************************)
(* What is left of a stored row when it reaches a client: the SELECT's     *)
(* RawGetLogsRow becomes a ShadowLog (crates/rpc/src/shadow_logs_query.rs) *)
(* and then an RpcLog (crates/rpc/src/apis/types.rs).  Numbers and hex     *)
(* texts are written so that different values stay different, and stand    *)
(* for themselves; what matters is which columns are kept.                 *)
(***************************************************************************)

\* Mutant: the index within the block is dropped too.
RpcLogNoIndex(row) ==
  [address |-> row.address, block_hash |-> row.block, data |-> row.data,
   removed |-> row.removed,
   transaction_hash |-> row.tx, transaction_index |-> row.transaction_index]

\* transaction_log_index and block_timestamp are not passed on; log_index is
\* the column block_log_index.
RpcLog(row) ==
  [address |-> row.address, block_hash |-> row.block, data |-> row.data,
   log_index |-> row.block_log_index, removed |-> row.removed,
   transaction_hash |-> row.tx, transaction_index |-> row.transaction_index]
=============================================================================
