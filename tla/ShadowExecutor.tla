--------------------------- MODULE ShadowExecutor ---------------------------
(***************************************************************************)
(* The re-execution of ChainCommitted notifications                        *)
(* (crates/exex/src/execution.rs): every transaction of every block is run *)
(* on the state the ones before it left, against ShadowDatabase, and the   *)
(* logs of the shadowed contracts become the rows of one INSERT.           *)
(***************************************************************************)
EXTENDS Naturals, FiniteSets, SequencesExt, ShadowDatabase, ShadowRpcTypes

CONSTANTS Blocks, Tx,
          Transactions,   \* the transactions of a block, in block order
          Signed,         \* transactions whose sender can be recovered
          Does,           \* the calls and creations of a transaction, in order
          Emits,          \* how many logs a bytecode emits when it is called
          Unreliable,     \* bytecodes whose reading may fail
          Histories       \* runs of notifications: a world and chains on it

\* A call of `to`, or the creation of an account there.
Ops == [kind : {"call"}, to : Address] \cup [kind : {"create"}, to : Address, code : Code]

Elements(seq) == {seq[i] : i \in DOMAIN seq}

\* A chain holds a transaction once, as its sender's nonces rise.
OnceEach(blocks) ==
  \A i, j \in DOMAIN blocks :
    \A k \in DOMAIN Transactions[blocks[i]], l \in DOMAIN Transactions[blocks[j]] :
      Transactions[blocks[i]][k] = Transactions[blocks[j]][l] => i = j /\ k = l

ASSUME ExecutorAssumption ==
  /\ Transactions \in [Blocks -> Seq(Tx)]
  /\ Does \in [Tx -> Seq(Ops)]
  /\ Emits \in [Code \cup {NoCode} -> Nat] /\ Emits[NoCode] = 0
  /\ Signed \subseteq Tx /\ Unreliable \subseteq Code
  /\ Histories \subseteq [world : Worlds, chains : Seq(Seq(Blocks) \ {<<>>})]
  /\ \A h \in Histories : \A blocks \in Elements(h.chains) : OnceEach(blocks)

VARIABLES
  world,      \* reth's state before the notification
  left,       \* the notifications that are still to come
  chain,      \* the blocks of the notification
  header,     \* the block whose header configured the EVM
  todo,       \* transactions of the current block that have not been run
  done,       \* the ExecutedBlocks whose logs have not been collected
  results,    \* HashMap<TransactionSigned, ExecutionResult> of the current block
  accounts,   \* revm's State: accounts created in this notification
  contracts,  \* revm's State: bytecodes looked up in this notification, by hash
  state,      \* the transactions committed to the State, oldest first
  rows,       \* the shadow logs collected from the executed blocks
  phase,      \* "idle", "executing", "collecting" or "collected"
  skipped,    \* history: transactions whose execution failed
  trace       \* history: the bytecodes each transaction's calls ran

evm == <<header, accounts, contracts, state>>
vars == <<world, left, chain, evm, todo, done, results, rows, phase, skipped, trace>>

-----------------------------------------------------------------------------
(***************************************************************************)
(* The EVM: what a transaction's calls run.  m is the machine: created     *)
(* accounts, bytecodes by hash, and the calls made so far.                 *)
(***************************************************************************)
Machine == [accounts |-> accounts, contracts |-> contracts, runs |-> <<>>]

\* f with the value v at x.
With(f, x, v) == [y \in DOMAIN f \cup {x} |-> IF y = x THEN v ELSE f[y]]

Exists(m, a) == a \in DOMAIN m.accounts \/ world[a] # Absent

InfoOf(m, a) == IF a \in DOMAIN m.accounts THEN m.accounts[a] ELSE Basic(world, a)

\* Only a bytecode that AccountInfo lacks is looked up, once per hash.
Call(m, a, unreadable) ==
  LET info == InfoOf(m, a)
      code == CASE info.code # Unloaded -> info.code
                [] info.code = Unloaded /\ info.hash = HashOf(NoCode) -> NoCode
                [] info.code = Unloaded /\ info.hash \in DOMAIN m.contracts
                     /\ info.hash # HashOf(NoCode) -> m.contracts[info.hash]
                [] OTHER -> CodeByHash(info.hash, unreadable)
  IN  IF ~Exists(m, a) THEN m
      ELSE [accounts |-> m.accounts,
            contracts |-> IF info.code = Unloaded THEN With(m.contracts, info.hash, code)
                          ELSE m.contracts,
            runs |-> Append(m.runs, [to |-> a, code |-> code])]

\* The new account keeps the bytecode it is created with, shadowed or not.  An
\* account that has a bytecode or a nonce already collides: every contract of
\* reth's, whose nonce basic_ref leaves alone, and every account created here.
Create(m, a, code) ==
  IF /\ a \notin DOMAIN m.accounts /\ world[a] \in {Absent, NoCode}
     /\ Exists(m, a) => InfoOf(m, a).hash = HashOf(NoCode)
  THEN [accounts |-> With(m.accounts, a, [hash |-> HashOf(code), code |-> code]),
        contracts |-> m.contracts, runs |-> m.runs]
  ELSE m

Perform(m, op, unreadable) ==
  IF op.kind = "call" THEN Call(m, op.to, unreadable) ELSE Create(m, op.to, op.code)

\* The first n operations of a transaction.
Transact(tx, n, unreadable) ==
  LET after[i \in 0..n] ==
        IF i = 0 THEN Machine ELSE Perform(after[i - 1], Does[tx][i], unreadable)
  IN  after[n]

LogsOf(runs) ==
  FlattenSeq([i \in DOMAIN runs |->
    [k \in 1..Emits[runs[i].code] |-> [address |-> runs[i].to, data |-> runs[i].code]]])

\* What reth's own execution of the chain leaves, with nothing shadowed.
Canonical(w, blocks) ==
  LET ops == UNION {UNION {{Does[t][i] : i \in DOMAIN Does[t]} :
                t \in {Transactions[b][j] : j \in DOMAIN Transactions[b]}} :
               b \in {blocks[k] : k \in DOMAIN blocks}}
      creations(a) == {op \in ops : op.kind = "create" /\ op.to = a}
  IN  [a \in Address |->
         IF w[a] \in {Absent, NoCode} /\ creations(a) # {}
         THEN (CHOOSE op \in creations(a) : TRUE).code ELSE w[a]]

-----------------------------------------------------------------------------
Init ==
  /\ \E h \in Histories : world = h.world /\ left = h.chains
  /\ chain = <<>> /\ header = "none" /\ todo = <<>> /\ done = <<>>
  /\ results = {} /\ accounts = <<>> /\ contracts = <<>> /\ state = <<>>
  /\ rows = {} /\ phase = "idle" /\ skipped = {} /\ trace = {}

Current == chain[Len(done) + 1]

\* Mutant: the State of the notification before is kept.
NewKeepsState ==
  /\ phase \in {"idle", "collected"} /\ left # <<>>
  /\ phase' = "executing"
  /\ left' = Tail(left) /\ world' = Canonical(world, chain)
  /\ chain' = Head(left) /\ header' = chain'[1] /\ todo' = Transactions[chain'[1]]
  /\ rows' = {} /\ skipped' = {} /\ trace' = {}
  /\ UNCHANGED <<done, results, accounts, contracts, state>>

\* ShadowDatabase::new on the state reth has at the start of the chain and
\* ShadowExecutor::new with an empty State; the header of the first block
\* configures the EVM for the whole notification.
New ==
  /\ phase \in {"idle", "collected"} /\ left # <<>>
  /\ phase' = "executing"
  /\ left' = Tail(left) /\ world' = Canonical(world, chain)
  /\ chain' = Head(left) /\ header' = chain'[1] /\ todo' = Transactions[chain'[1]]
  /\ accounts' = <<>> /\ contracts' = <<>> /\ state' = <<>>
  /\ rows' = {} /\ skipped' = {} /\ trace' = {}
  /\ UNCHANGED <<done, results>>

NextTransaction ==
  /\ phase = "executing" /\ todo # <<>>
  /\ todo' = Tail(todo)
  /\ UNCHANGED <<world, left, chain, header, done, rows, phase>>

\* Mutant: the loop ends at the first transaction without a sender.
StopAtUnsigned ==
  /\ phase = "executing" /\ todo # <<>> /\ Head(todo) \notin Signed
  /\ todo' = <<>>
  /\ UNCHANGED <<world, left, chain, evm, done, results, rows, phase, skipped, trace>>

\* recover_signer() yields None: the transaction is skipped.
SkipUnsigned ==
  /\ NextTransaction /\ Head(todo) \notin Signed
  /\ UNCHANGED <<accounts, contracts, state, results, skipped, trace>>

\* transact_preverified() returns an error, of the transaction or of the
\* database: it is logged and the loop continues, with nothing committed.  The
\* bytecodes that were looked up before the error stay in the State.
SkipFailed ==
  /\ NextTransaction /\ Head(todo) \in Signed
  /\ skipped' = skipped \cup {Head(todo)}
  /\ \E n \in 0..Len(Does[Head(todo)]), unreadable \in SUBSET Unreliable :
       contracts' = Transact(Head(todo), n, unreadable).contracts
  /\ UNCHANGED <<accounts, state, results, trace>>

\* The transaction runs out of gas, which shadow bytecode may cost it, or
\* reverts: the result has no logs and the State gets no more than its sender.
Halt ==
  /\ NextTransaction /\ Head(todo) \in Signed
  /\ \E n \in 0..Len(Does[Head(todo)]), unreadable \in SUBSET Unreliable :
       LET m == Transact(Head(todo), n, unreadable) IN
       /\ contracts' = m.contracts
       /\ trace' = trace \cup {[block |-> Current, tx |-> Head(todo), halted |-> TRUE,
                                runs |-> m.runs]}
  /\ results' = results \cup {[tx |-> Head(todo), on |-> state, logs |-> <<>>]}
  /\ state' = Append(state, Head(todo))
  /\ UNCHANGED <<accounts, skipped>>

\* The state changes are committed and the result is stored under its
\* transaction.  `on` is what the execution read.
Execute ==
  /\ NextTransaction /\ Head(todo) \in Signed
  /\ \E unreadable \in SUBSET Unreliable :
       LET m == Transact(Head(todo), Len(Does[Head(todo)]), unreadable) IN
       /\ accounts' = m.accounts /\ contracts' = m.contracts
       /\ results' = results \cup {[tx |-> Head(todo), on |-> state, logs |-> LogsOf(m.runs)]}
       /\ trace' = trace \cup {[block |-> Current, tx |-> Head(todo), halted |-> FALSE,
                                runs |-> m.runs]}
  /\ state' = Append(state, Head(todo))
  /\ UNCHANGED skipped

\* execute_one returns; the next block of the notification is executed on the
\* same State, or the logs are collected.
FinishBlock ==
  /\ phase = "executing" /\ todo = <<>>
  /\ done' = Append(done, [block |-> Current, results |-> results])
  /\ results' = {}
  /\ IF Len(done) + 1 < Len(chain)
     THEN todo' = Transactions[chain[Len(done) + 2]] /\ UNCHANGED phase
     ELSE phase' = "collecting" /\ UNCHANGED todo
  /\ UNCHANGED <<world, left, chain, evm, rows, skipped, trace>>

-----------------------------------------------------------------------------
\* The orders in which a HashMap may yield its entries.
IterationOrders(S) == {f \in [1..Cardinality(S) -> S] : {f[i] : i \in DOMAIN f} = S}

LogRow(block, order, i, k, index) ==
  [block |-> block, tx |-> order[i].tx, address |-> order[i].logs[k].address,
   data |-> order[i].logs[k].data, removed |-> FALSE, transaction_index |-> i - 1,
   block_log_index |-> index, transaction_log_index |-> k - 1]

\* Mutant: block_log_index is counted from 0.
LogsFromZero(block, order) ==
  UNION {{LogRow(block, order, i, k, k - 1) : k \in DOMAIN order[i].logs} : i \in DOMAIN order}

\* ExecutedBlock::logs: transaction_index is the position in the iteration of
\* the HashMap.  The `move` closure works on its own copy of block_log_index,
\* which is 0 each time: the count starts again with every transaction.
Logs(block, order) ==
  UNION {{LogRow(block, order, i, k, k) : k \in DOMAIN order[i].logs} : i \in DOMAIN order}

\* flat_map(logs).filter(is_shadowed), a block at a time.
CollectLogs ==
  /\ phase = "collecting"
  /\ IF done = <<>> THEN phase' = "collected" /\ UNCHANGED <<done, rows>>
     ELSE /\ \E order \in IterationOrders(Head(done).results) :
               rows' = rows \cup {r \in Logs(Head(done).block, order) : IsShadowed(r.address)}
          /\ done' = Tail(done) /\ UNCHANGED phase
  /\ UNCHANGED <<world, left, chain, evm, todo, results, skipped, trace>>

Next == New \/ SkipUnsigned \/ SkipFailed \/ Halt \/ Execute \/ FinishBlock \/ CollectLogs

Spec == Init /\ [][Next]_vars

-----------------------------------------------------------------------------
Results == [tx : Tx, on : Seq(Tx), logs : Seq([address : Address, data : Code])]

Runs == Seq([to : Address, code : Code \cup {NoCode}])

\* Type invariant: the notification being executed and what it has produced.
TypeOK ==
  /\ world \in Worlds /\ left \in Seq(Seq(Blocks) \ {<<>>}) /\ chain \in Seq(Blocks)
  /\ header \in Blocks \cup {"none"}
  /\ todo \in Seq(Tx) /\ results \subseteq Results /\ state \in Seq(Tx)
  /\ done \in Seq([block : Blocks, results : SUBSET Results])
  /\ DOMAIN accounts \subseteq Address
  /\ \A a \in DOMAIN accounts : accounts[a] \in AccountInfo
  /\ \A h \in DOMAIN contracts : contracts[h] \in Code \cup {NoCode}
  /\ phase \in {"idle", "executing", "collecting", "collected"} /\ skipped \subseteq Tx
  /\ trace \subseteq [block : Blocks, tx : Tx, halted : BOOLEAN, runs : Runs]
  /\ rows \subseteq [block : Blocks, tx : Tx, address : Address, data : Code,
                     removed : {FALSE}, transaction_index : Nat,
                     block_log_index : Nat \ {0}, transaction_log_index : Nat]

\* The transactions of the notification that have been executed.
Ran(t) == t \in Signed \ skipped

\* Every transaction of the chain that has a sender and did not fail has run,
\* and the rows are the shadowed contracts' logs of those that did not halt,
\* each under its own block, position and contract, and no other: a transaction
\* that is skipped takes no neighbour's logs with it and no order of the
\* HashMap loses, repeats or moves one (execution.rs:97-128, lib.rs:119-130).
RowsAreTheLogs ==
  phase = "collected" =>
    LET logs(e) == IF e.halted THEN <<>> ELSE LogsOf(e.runs)
        expected == UNION {{<<e.block, e.tx, k - 1, logs(e)[k].address, logs(e)[k].data>> :
                              k \in {j \in DOMAIN logs(e) : logs(e)[j].address \in Shadowed}} :
                             e \in trace}
    IN  /\ {<<e.block, e.tx>> : e \in trace} =
             UNION {{<<b, t>> : t \in {u \in Elements(Transactions[b]) : Ran(u)}} :
                      b \in Elements(chain)}
        /\ {<<r.block, r.tx, r.transaction_log_index, r.address, r.data>> : r \in rows}
             = expected
        /\ \A r, q \in rows :
             /\ r.block = q.block /\ r.tx = q.tx
             /\ r.transaction_log_index = q.transaction_log_index
             => r = q

\* t comes before u in the notification.
Precedes(t, u) ==
  \E i, j \in DOMAIN chain :
    \E k \in DOMAIN Transactions[chain[i]], l \in DOMAIN Transactions[chain[j]] :
      /\ Transactions[chain[i]][k] = t /\ Transactions[chain[j]][l] = u
      /\ i < j \/ (i = j /\ k < l)

\* A transaction reads exactly what the transactions before it in the
\* notification have written, in their order and across block boundaries, and
\* nothing of one that failed nor of the notification before
\* (execution.rs:126, 131, lib.rs:105).
ReadsItsPredecessors ==
  \A r \in results \cup UNION {done[i].results : i \in DOMAIN done} :
    /\ Elements(r.on) = {t \in Tx : Precedes(t, r.tx) /\ Ran(t)}
    /\ \A j, k \in DOMAIN r.on : j < k => Precedes(r.on[j], r.on[k])

\* The bytecodes that the transactions of the notification deploy at an address.
Deployed(a) ==
  {op \in UNION {Elements(Does[t]) : t \in UNION {Elements(Transactions[b]) : b \in Elements(chain)}} :
     op.kind = "create" /\ op.to = a}

\* A call of a shadowed contract that exists when the notification starts runs
\* its shadow bytecode, whatever was called, created, halted or failed to be
\* read before it; only over an empty shadow bytecode can a deployment put
\* another one.  Any other contract runs its own bytecode or, after an error
\* that code_by_hash swallowed, none: never another contract's (db.rs:84-103).
ShadowCodeRuns ==
  \A e \in trace : \A i \in DOMAIN e.runs :
    LET r == e.runs[i]
        deployed == {op.code : op \in Deployed(r.to)}
    IN  IF r.to \in Shadowed /\ world[r.to] # Absent
        THEN \/ r.code = ShadowJson[r.to]
             \/ ShadowJson[r.to] = NoCode /\ r.code \in deployed
        ELSE r.code \in {NoCode, world[r.to]} \cup deployed

\* The two indices are not positions in the block, and the index within the
\* transaction is not passed on; still no two rows look the same to a client,
\* though a contract may emit the same event twice
\* (execution.rs:46-56, apis/types.rs:37-51).
RowsAreTellable == \A r, q \in rows : RpcLog(r) = RpcLog(q) => r = q

-----------------------------------------------------------------------------
(***************************************************************************)
(* What the documents say and the code does not do.                        *)
(***************************************************************************)
\* "Integer of the log index in the containing block"
\* (crates/common/src/types.rs:8): two logs of a block have two indices.
LogIndexInBlock ==
  \A r, q \in rows :
    (r.block = q.block /\ r.block_log_index = q.block_log_index) => r = q

\* "re-executes each transaction in the block, ... with the shadow bytecode
\* injected as defined in shadow.json" (README.md:124): every call of a
\* shadowed address runs its shadow bytecode.
ShadowBytecodeInjected ==
  \A e \in trace : \A i \in DOMAIN e.runs :
    e.runs[i].to \in Shadowed => e.runs[i].code = ShadowJson[e.runs[i].to]
=============================================================================
