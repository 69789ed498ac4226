# TLA+ models of shadow-reth

shadow-reth is a reth node with an execution extension (ExEx) that re-executes
every committed block with replaced ("shadow") bytecode, stores the logs of the
shadowed contracts in an SQLite table, and serves the table over two JSON-RPC
methods, `shadow_getLogs` and `shadow_subscribe`. This directory models the
program's own logic: the notification loop, the tasks it spawns, the table, the
re-execution, and the two methods that read the table while it is written.

Line numbers below are those of the Rust files under `crates/` and `bin/`.

## 1. Inventory

| Component | Code | State | Operations | Talks to |
|---|---|---|---|---|
| Notification loop | `crates/exex/src/lib.rs` | the future (running or returned), spawned tasks | receive ChainCommitted, ChainReverted, anything else; report FinishedHeight | reth (queue, provider, events), the table, the hash channel |
| `ShadowSqliteDb` | `crates/common/src/db.rs` | table `shadow_logs` | bulk INSERT, UPDATE `removed`, create tables and indices | the loop's tasks, both RPC methods |
| `ShadowExecutor`, `ExecutedBlock` | `crates/exex/src/execution.rs` | EVM with a state, results per transaction | configure, execute one block, list its logs | `ShadowDatabase` |
| `ShadowDatabase`, `ShadowContracts` | `crates/exex/src/db.rs`, `contracts.rs` | address -> bytecode, address -> code hash | account, code, storage, block hash; `is_shadowed` | reth's historical state |
| Query | `crates/rpc/src/shadow_logs_query.rs` | none | validate parameters, resolve blocks, build the WHERE clause, SELECT | reth's provider, the table |
| `shadow_getLogs` | `crates/rpc/src/apis/get_logs.rs` | one request | validate, query, answer | Query |
| `shadow_subscribe` | `crates/rpc/src/apis/subscribe.rs` | one task and one receiver per client | accept, receive a hash, query, send rows | the hash channel, Query |
| `ShadowRpc` | `crates/rpc/src/lib.rs`, `apis/types.rs` | handles only | construction, conversions | |
| Wiring | `bin/shadow-reth/src/main.rs` | the channel (capacity 4096) | start the node | reth |
| Common | `crates/common/src/types.rs`, `hex.rs` | none | a record type, lower-case hex | |

How they interact. Reth changes its canonical chain and queues a notification;
the loop handles notifications one at a time and never awaits between two
receives, so it is atomic towards the tasks. For a commit it re-executes the
blocks at once and spawns one task that runs one INSERT and then sends the
hashes of the blocks that have rows on a tokio broadcast channel. For a revert
it spawns one task *per block*, each running one UPDATE and then sending the
hash. Nothing orders tasks among themselves, errors of statements are dropped
(`let _ =`), and FinishedHeight is reported before the INSERT has run.
Subscription tasks receive hashes and read the table some time later; a
`shadow_getLogs` request reads the chain's height and then the table.

What makes each component correct:

* loop and table: the live rows of a block are its shadow logs, once each, while
  the block is canonical, and none after its revert; rows are never deleted; a
  block is announced after its rows are stored; execution starts from the state
  of the parent; what is reported finished is stored;
* executor: the rows are the logs of the shadowed contracts of all transactions
  that ran; a transaction reads exactly its predecessors; rows can be told apart;
* getLogs: the answer is the requested range of blocks and nothing else;
* subscribe: a client that keeps up has the last version of every row, never
  sees a removed row come back, and eventually gets every row.

What is hard: statement tasks racing one another (a revert against the commit it
undoes), crashes between FinishedHeight and the INSERT, dropped notifications and
dropped errors, state that is looked up by number after the chain has moved on,
lagging receivers, and SQLite's comparison of numbers stored as text.
`PROJECT.json` lists these under "hazards", each at its line.

## 2. The modules

| Module | Models | EXTENDS |
|---|---|---|
| `ShadowSqliteDb` | rows and the two statements | |
| `ShadowExEx` | reth's chain and queue, the loop, the tasks, the channel, crash and restart | `ShadowSqliteDb` |
| `ShadowExEx_proofs` | theorems about `ShadowExEx` | `ShadowExEx`, `TLAPS` |
| `ShadowExExChain_proofs` | theorems about the queue of notifications | `ShadowExEx_proofs`, `NaturalsLeast` |
| `ShadowIndex` | abstract specification: what the index promises, without tasks or statements | |
| `ShadowExExIndex` | the refinement mapping from `ShadowExEx` to `ShadowIndex` | `ShadowExEx` |
| `ShadowExExIndex_proofs` | the proof of the refinement | `ShadowExExIndex`, `ShadowExEx_proofs` |
| `ShadowLogsQuery` | parameter validation and the SELECT | `ShadowSqliteDb` |
| `ShadowLogsQuery_proofs` | theorems about the TEXT comparison | `ShadowLogsQuery`, `NaturalsLeast` |
| `ShadowGetLogs` | one `shadow_getLogs` request beside the ExEx | `ShadowExEx`, `ShadowLogsQuery` |
| `ShadowGetLogs_proofs` | theorems about requests | `ShadowGetLogs`, `ShadowExExChain_proofs`, `ShadowLogsQuery_proofs` |
| `ShadowSubscribe` | subscriptions beside the ExEx | `ShadowExEx`, `ShadowLogsQuery` |
| `ShadowSubscribe_proofs` | theorems about `ShadowSubscribe` | `ShadowSubscribe`, `ShadowExEx_proofs` |
| `ShadowDatabase` | what the EVM is told of an account and of a code hash | |
| `ShadowRpcTypes` | which columns of a row reach a client | |
| `ShadowExecutor` | re-execution of a run of notifications | `ShadowDatabase`, `ShadowRpcTypes` |
| `ShadowExecutor_proofs` | theorems about `ShadowExecutor` | `ShadowExecutor`, `NaturalsLeast` |
| `NaturalsLeast` | induction over the naturals, as facts about sets | |
| `MC...` | a small instance of each for TLC | |

Operators whose comment begins with "Mutant" are deliberately wrong variants of
the operator after them. No specification uses them; substituting one for the
real operator is how each property is shown to be able to fail.

### ShadowExEx: state and actions

`canon`, `inbox`, `emitted` belong to reth; `Commit`, `Revert` and `Reorg` move
the chain and queue a notification. `HandleCommitted` is the arm of lib.rs
86-159 with everything it does up to the spawn and the FinishedHeight event,
`HandleReverted` the arm of 160-178, `HandleOther` the `_ => {}` of 179.
`HandleCommittedFails` is an error leaving the commit arm by `?` (before or after
the spawn) and `NotificationsClosed` the end of the loop; both end the future. A task is a record
with its statement and the hashes it has still to send: `RunInsert`,
`RunEmptyInsert` (an INSERT without rows, which SQLite rejects), `RunMark`,
`SqlFails` and `Announce` are its steps. `Crash` empties queue, tasks and channel
and keeps the table and the chain.

A log is a model value that stands for a transaction, an index and a payload;
the re-execution of a block is the constant `ExecLogs`, which `ShadowExecutor`
opens up. That the logs depend on the state an execution starts from is kept as
the history field `base` of a task, the subject of `BacklogKeepsParentState` and
`ExecutedOnParentState`. Two more history variables let properties say what the
code cannot be blamed for: `seen`, the blocks that the notifications handled so
far make canonical, and `tainted`, the blocks whose statements overlapped
(a statement spawned while another on the same block is open), failed or were lost, or
whose notification was dropped. The properties of the index speak of the other blocks; the runs
listed as violations show that the tainted ones really do go wrong.

External assumptions: reth delivers the notifications in order and each at most
once, and does not replay after a restart (it does nothing with FinishedHeight
but prune); an ExEx future that returns ends the node, so reth stops sending;
the state before block *n* is that of the block *n-1* in reth's current chain,
and the tip's when the chain is shorter. One SQL statement is atomic.

### ShadowIndex: the abstract specification

`ShadowIndex` knows three things: a status per block (`none`, `live`,
`removed`, or `lost` when something went wrong with it), the blocks whose last
change has not been announced, and the announcements. Its actions say what a
subscriber or a `shadow_getLogs` client relies on: the logs of the blocks of one
notification become live together and only if none is live (`Store`), those of
a block are removed together and only if they are live (`Remove`), an
announcement follows a change and is about a block that was stored (`Tell`), a
restart loses announcements and never statuses (`Restart`), and nothing at all
is promised of a lost block (`Lose`). `ShadowExExIndex` computes the status of
a block from its rows and what is owed from the tasks whose statement has run.
A table in which a block is stored in part or twice, or removed in part, has the
status `broken`, which no abstract step produces. A block is lost exactly when
it is in `tainted`.

### ShadowLogsQuery and ShadowGetLogs

The bounds of a range are read one at a time (`ReadFrom`, `ReadTo`; one read
gives both when neither is given), each a number or one of reth's tags
(`Resolved`): the head, the first block, a pending block that is the head's child
or the head, a final or safe block anywhere on the chain (`Settled` bounds how far
below the model's first block). A block hash is resolved to a number
(`ResolveHash`: reth also finds blocks that are off the chain while they are in
its block tree), topics are checked, and the SELECT sees the table at one instant
(`Answer`). `shrunk` is history: whether the chain has become shorter since the
request arrived. Every early return of the validation is a `Fail`.

Topics are counted but never parsed; their text, less two characters, is pasted
between the quotes of X'..'. `Results` is what can come of it. Bytes in hex
(`HexTopics`) give the SELECT one expects. A text that is no hex (`NotHex`) and has
no quote makes a statement that SQLite refuses, and the error is the answer. A text
with a quote (`Quotes`) goes on outside the literal, and the statement is refused or
has a condition that depends on the text: any rows of the table may come back.

`block_number` is a TEXT column and SQLite gives the literals of BETWEEN the column's affinity, so
`NumberBetween` compares decimal texts: this was confirmed with the `sqlite3`
program (`BETWEEN 9 AND 10` finds nothing; `BETWEEN 10 AND 100` finds 10 and 100
only).

### ShadowSubscribe

One task per client: accepted, then its receiver is created at the end of the
channel (`Resubscribe`), then hash, SELECT and one send per row, in any order
since the SELECT has no ORDER BY. Parameters are validated only after the first
hash (`ReceiveHash`), and what a topic that is no hex does shows with the SELECT:
`QueryRejected`, an error, or with a quote in the text also `Query` and the rows it
selects. Every error ends the task (`Ended`). `Lag` is RecvError::Lagged, `Closed`
RecvError::Closed. A client that hangs up is noticed only by the first send that fails.
`since`, `latest` and `missed` are history: the table when the receiver was
created, the last version sent of each row, and the blocks whose last hash the
receiver has skipped by lagging. `IllFormed` holds of the parameters that are bound
to be refused; `RemovalIsFinal` and `SentRowsStored` are about clients without a
quote in their topics, `CaughtUpIsCurrent` and `EventuallyDelivered` about clients
whose parameters are valid and in hex (`ValidSub`).

### ShadowDatabase, ShadowExecutor and ShadowRpcTypes

A `world` is reth's state before a notification: the bytecode of each address,
empty, or no account. `Basic` is `basic_ref`: an existing account gets the shadow
bytecode and its hash when its address is a key of `shadow.json`; any other gets
its own hash and no bytecode, which revm then looks up with `CodeByHash`. That
operator prefers a shadow bytecode with the same hash and turns the error of a
failing read into the empty bytecode. A hash is injective (`HashOf`).

A transaction is a sequence of calls and creations (`Does`), a bytecode a number
of logs it emits. `Call`, `Create` and `Transact` are revm as this code uses it:
accounts created in the notification and bytecodes looked up in it are kept in
revm's `State` and are not asked of the database again; a creation at an address
that has code or a nonce collides. These definitions are external; the actions are the code's:
`New` builds database, State and EVM for a notification, with the first header;
`SkipUnsigned`, `SkipFailed`, `Halt` and `Execute` are the ways through the body
of the transaction loop; `FinishBlock` ends a block; `CollectLogs` lists the logs
of a block under an arbitrary iteration order of the HashMap and filters them.
The machine after each operation of a transaction is a recursive function
(`Transact`). A chain holds a transaction once (`OnceEach`, part of
`ExecutorAssumption`): its sender's nonces rise.
A bytecode that an execution looked up stays in the State even when the
transaction fails afterwards. `state` is the sequence of transactions committed
and `trace` (history) what the calls of each ran.

`RpcLog` is what `RpcLog::from` keeps of a row. `RowsAreTellable` puts the
executor and it together: no two rows of a notification look the same to a
client, although both indices are wrong and one is dropped. `RowsAreTheLogs`
takes block, transaction and index within the transaction as the key of a row.
`ShadowCodeRuns` has one exception, which the proof brought to light: an account
whose shadow bytecode is the empty one passes the collision check, so that a
transaction can deploy something else over it.

## 3. Runs

| Run | Question | Bounds |
|---|---|---|
| `exex` | does the table follow the chain, announcements the rows; which blocks survive crashes, failures and dropped notifications; is it the abstract index | two forks over 4 blocks, chains of up to 2, 3 notifications of all kinds, 2 faults |
| `getlogs` | is the answer what was asked for, do the two bounds of a range fit together | fork at heights 99/100, 3 notifications, 1 fault, one request of each form, topics of each form |
| `subscribe` | what a client may see | 2 blocks, 3 notifications, 1 fault, capacity 2, each kind of parameters, ill-formed ones included |
| `node_live` | are logs stored, is every change announced, does every task end, do rows reach a client | 2 blocks, one without shadow logs, 3 notifications, no faults, fair tokio |
| `executor` | rows, state and bytecodes of a re-execution | 4 contracts (2 shadowed by one bytecode, 2 with equal bytecode), one notification of 3 blocks or two of one, 5 transactions that may fail or halt, one bytecode that may be unreadable |
| `exex_revert_race`, `exex_reorg_dropped`, `exex_finished_height`, `exex_prestate`, `getlogs_range`, `executor_log_index`, `executor_injected` | statements of the documents that the code does not meet | the smallest instance that shows it |

Why the bounds are enough for what is asked. Each property is about a block, or
two (a fork), and at most three statements on it: commit, revert, commit again
needs three notifications, and chains of two blocks let another block interfere.
A larger instance of `exex` (3 blocks, 4 notifications, 1 fault, 1.2 million
states) was checked too; it finds nothing else and takes too long to be kept. Chains of two
blocks give an INSERT with two hashes and a revert with two tasks. Capacity 2
with three notifications makes a receiver lag. `subscribe` has a topic that is no
hex and none with a quote (`Quoting` is empty): what such a statement returns is
explored by `getlogs`, and the properties of `subscribe` say nothing of such a
client; the theorems hold with one beside the others. Heights 99 and 100 are where text
and number order differ; the violation uses 9 and 10. `CHECK_DEADLOCK FALSE`
everywhere because reth need never send another notification (and the
instances bound how many it sends): a node with nothing to do is not stuck.

What the violating runs show:

* `RevertedLogsRemoved`: commit and revert of a block in quick succession; the
  UPDATE runs first and finds no row, the INSERT then stores live rows for a
  block that has left the chain (`crates/exex/README.md:64`).
* `CanonicalLogsStored`: a switch of branch is reported as ChainReorged and
  dropped (`README.md:124`).
* `FinishedIsDone`: the height is reported, then the process dies or the
  statement fails, and the rows are lost (comment at lib.rs 157).
* `ExecutedOnParentState`: a commit waits in the queue while reth reverts it and
  commits a sibling's descendants; the state found by number is the sibling's
  (comment at lib.rs 87-89).
* `RangeExact`: a request from 9 to 10 returns nothing (`get_logs.rs` 21-23).
* `LogIndexInBlock`: every transaction's logs are numbered from 1 again
  (`crates/common/src/types.rs:8`).
* `ShadowBytecodeInjected`: a shadowed contract that is deployed by a transaction
  of the notification exists in revm's State only and runs the bytecode it was
  deployed with (`README.md:124`). `ShadowCodeRuns` says what does hold.

### Fairness

Only `node_live` (`FairNodeSpec`) assumes any. Tokio runs every task that is ready, so the loop
(`Receives`), the spawned tasks taken together (`Progress`; their number is
finite, and no step disables another's) and each subscription task (`Serve`) are
weakly fair. `EventuallyAnnounced` counts: of the announcements of a block that were
made or are owed by a task, as many are made in the end, so that a revert or a second
commit is announced also when the first commit was. `TasksEnd` covers the task whose INSERT has no rows and is refused; the run was made
with one fault too (a statement that fails, a crash, the loop's end), which takes too
long to be kept. Nothing obliges reth to change the chain, a client to come or go, or
a call to fail.

## 4. Proofs

Every invariant and every action property of every passing run is a theorem, and
so is the refinement. Each holds for every value of the constants; the only
assumptions are the named ASSUMEs of the modules: a block's number is its parent's
plus one (`ChainAssumption`), bounds are numbers (`BoundAssumption`), logs, requests,
parameters, contracts and transactions have their types, the channel has room for
a hash (`SubscribeAssumption`), the empty bytecode emits nothing and a chain holds a
transaction once (`ExecutorAssumption`). TLC evaluates each on the instances.

| Module | Theorem | States |
|---|---|---|
| `ShadowExEx_proofs` | `TypeCorrect`, `Inductive`, `Consistent`, `Monotone`, `Visible` | `TypeOK`, `IndInv`, `IndexConsistent`, `RowsOnlyGetRemoved`, `AnnouncedRowsVisible` |
| `ShadowExExIndex_proofs` | `Implements` | `ImplementsIndex` |
| `ShadowExExChain_proofs` | `MatchesCanonical`, `BacklogHarmless` | `IndexMatchesChain`, `BacklogKeepsParentState` |
| `ShadowLogsQuery_proofs` | `OneNumber`, `SameWidthRange` | what `NumberBetween` finds, for every number |
| `ShadowGetLogs_proofs` | `CallTypeCorrect`, `OneNumberCorrect`, `SameWidthCorrect`, `AnswerCorrect`, `BoundsInOrder` | `CallTypeOK`, `OneNumberExact`, `SameWidthRangeExact`, `AnswerIsCanonical`, `RangeInOrder` |
| `ShadowSubscribe_proofs` | `SubTypeCorrect`, `Stored`, `IllFormedNothing`, `Final`, `CaughtUp` | `SubTypeOK`, `SentRowsStored`, `IllFormedGetsNothing`, `RemovalIsFinal`, `CaughtUpIsCurrent` |
| `ShadowExecutor_proofs` | `TypeCorrect`, `Tellable`, `ShadowRuns`, `RowsCorrect`, `ReadsCorrect` | `TypeOK`, `RowsAreTellable`, `ShadowCodeRuns`, `RowsAreTheLogs`, `ReadsItsPredecessors` |

### The index

`IndexConsistent` is not inductive: it says nothing about a block with an open
statement. `IndInv` adds that an untainted block has at most one open statement;
that an open INSERT finds no live row and the block seen, an open UPDATE finds
the complete rows and the block not seen; that a task whose statement is done
leaves the rows of what it has still to announce; and that the rows of an INSERT
are the ones collected for its blocks. The proof has one lemma per action and,
below it, one step per conjunct.

The refinement needs one more invariant, `MappingInv` (theorem-internal): a row
belongs to a shadow log of its block, and an open task has still to send exactly
what it will have changed. With it and `IndInv`, `RunInsert` is `Store`, `RunMark`
is `Remove`, `Announce` is `Tell`, `Crash` is `Restart`, every step of the loop
and every failed statement is a `Lose` (of no block, mostly), and reth's own steps
stutter. The lemmas `SameStatus` and `BecomeIf` do the work common to all: a
status is a matter of a block's own rows, and an abstract step is a statement
about each block's status before and after.

### The queue

`IndexConsistent` relates the table to the blocks *seen* by the loop;
`IndexMatchesChain` relates it to reth's chain. Between the two is `QueueInv`:
there is a way of chains, one before each queued notification and one after the
last, each a path from the genesis block, each notification taking its chain to
the next, the last being `canon`; without faults the first consists of the blocks
seen. The numbers of a path count up from the start (`LinkedNumbers`), so that its
blocks are all different and a revert takes away exactly those above the cut.
When the queue is empty the way has one chain. For `BacklogKeepsParentState`, a way of commits only
extends the chain it starts with (`BacklogExtends`), so that the block below the
first block of the notification is still there and is the state reth finds.

### Induction over numbers

The library's induction theorems take an operator as a parameter, which the
provers cannot instantiate. `NaturalsLeast` states induction about sets instead:
a set of numbers that is not empty has a least element (`Least`), and a set that
holds a number and the successor of each of its members holds all from there on
(`FromOn`). Both follow from the library's fact that < is well-founded. An
induction is one of these applied to the set of (counter)examples; that a
recursive function exists is the induction over its approximations. `QueueInv`, the
recursive functions of the executor and all that is said of `Digits` use them.

### Requests

`Digits` exists (`DigitsUnfold`), so that the text of a number is the text of its
tenth and one digit more. From there by induction: texts of numbers of one width
are ordered as the numbers are (`SameWidthOrder`), and no two numbers have the same
text (`DigitsInjective`), both by comparing last digits (`TextLast`). TextLeq is
antisymmetric, so that BETWEEN with equal bounds finds one text and so one number.
A request changes nothing of the node (`CallSpec` implies `Spec`, `NodeUnderCall`),
which carries every invariant of the ExEx over; `AnswerIsCanonical` joins
`OneNumber` with `IndexMatchesChain` at the step that answers. `RangeInOrder` is
not inductive, since it says nothing of a request that has read one bound only:
`BoundsInv` adds that such a lower bound is at most the head's number while the chain
has not become shorter (`LowerBound`, `UpperBound` for what a tag resolves to).

### Subscriptions

What a client may see rests on two invariants of the composition. `UniqueInv`: the
notification that inserted a row, its block and its log tell the row from every
other, since an open INSERT has a number no row has yet. `SubsInv`: every row a task holds or
has sent is in the table with the same or a later flag; when a row it holds was
sent before as removed, the copy it holds is removed too; and a client whose
parameters are bound to be refused has been sent nothing: the SELECT made of them
has no result but an error. The steps of the ExEx keep
`SubsInv` because no step deletes a row or clears its flag (`NextKeepsRows`, the lemma
behind `Monotone`), a SELECT because rows are unique. `NodeKeeps` carries `TypeOK`
and `IndInv` over from the ExEx alone: a client changes none of its variables but
the count of faults.

What a client must have seen is `DeliveriesInv`: every row that changed since the
receiver of a client was created and has not been sent to it is *on its way* (`OnItsWay`): a
task has still to announce its block, or the hash is in the channel behind the
client's position, or the client is querying it, or the row is in its hands; else
the receiver has skipped the block's last hash (`missed`), which a lag does to the
hashes older than the channel keeps and to no other. Every step passes a row from one of these to the next (`NodeDue` for the node,
`ClientDelivers` for the client's own steps), and for a block that was not skipped
none of them is left when the client has caught up.

### The re-execution

`TypeInv` adds to `TypeOK` what each phase has finished (`PhaseInv`). Its proof and
the others begin with the two recursive functions: the machine after each
operation of a transaction (`PerformsExists`, `TransactRun`), and a concatenation of
sequences (`JoinsExists`, `FlattenType`).

`ShadowInv` is what makes the right bytecode run. The machine has created accounts
only where reth knows no contract, each with a bytecode the notification deploys
there; a bytecode kept under a hash has that hash or is the empty one of a failed
read. With an injective hash a call then finds the bytecode of the account it
looked at (`BytecodeFound`, `CallRight`).

`LogsInv` is the bookkeeping of the loop. The transactions of the notification are
behind (in `trace` if they have a sender and did not fail, in no result otherwise)
or ahead (`Ahead`), never both, since a chain holds each once (`OnePlace`). The
results of each block are the entries of `trace` for it (`Matches`), the rows those
of the blocks collected so far (`RowsOf`). Any order of the HashMap lists every
result once (`Orders`, `OrderOnce`), so that listing and filtering lose and repeat
nothing (`RowsMore`).

`ReadsInv` says that `state` holds the transactions of the trace in the order of
the notification. One that comes before the next to run is one that is no longer
ahead (`BeforeHead`), so that the state is exactly the executed predecessors.

### What stays with TLC

`EventuallyIndexed`, `EventuallyAnnounced`, `TasksEnd` and `EventuallyDelivered`: liveness under
fairness is out of the prover's reach. The runs that expect a violation are
counterexamples and need no proof.

## 5. Not modelled

Gas amounts, fees, selfdestruct and the block environment of the EVM (a
transaction that fails or halts for one of them is `SkipFailed` or `Halt`; that
later blocks of a notification run with the first header is kept as `header`, but
not what the opcodes that read it return); storage and block hashes, which
`ShadowDatabase` passes through; what a topic with a quote can make of a statement
beyond another choice of the table's rows (the text is arbitrary SQL, so no property
speaks of such a request, and it is assumed not to write); formatting (hex, SQL text
other than its meaning, JSON) and parsing of `shadow.json`; database schema creation; construction of the
RPC server; several sends on one sink back-pressuring each other; the pool of
connections beyond "a statement may fail". What remains unmodelled has no state of
the program's own, so the modules are complete as far as the code's control goes.

## 6. Plan

All modules of the plan are written and what their runs check is proved, liveness
apart. What could follow:

1. An abstract specification of `shadow_getLogs` (one atomic read of the index of
   `ShadowIndex`) and of a subscription (a stream of changes), with `ShadowGetLogs`
   and `ShadowSubscribe` shown to implement them.
2. The link between the two halves as a theorem: that the rows `ShadowExecutor`
   collects are an instance of the constant `ExecLogs` of `ShadowExEx`.
3. The hazards of `PROJECT.json` that have no property: what is announced between
   the acceptance of a subscription and its receiver, idle tasks of clients that
   hung up, the header of the first block, and what a statement selects with a
   quote in a topic.
