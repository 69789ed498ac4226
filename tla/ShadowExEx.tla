----------------------------- MODULE ShadowExEx -----------------------------
(***************************************************************************)
(* The notification loop of ShadowExEx (crates/exex/src/lib.rs), the tokio *)
(* tasks it spawns and the table they write.  Reth's canonical chain and   *)
(* its queue of ExExNotifications are the environment.                     *)
(***************************************************************************)
EXTENDS Sequences, FiniteSets, ShadowSqliteDb

CONSTANTS Genesis,           \* the parent of the first block the node imports
          Start,             \* its height
          Parent,            \* the block tree
          ExecLogs,          \* logs a block's re-execution emits
          ShadowedLog,       \* logs whose address is a key of shadow.json
          Kinds,             \* the notification kinds reth sends in a model
          MaxChain,          \* bound: blocks in one notification
          MaxNotifications,  \* bound: notifications sent in a behaviour
          MaxFaults          \* bound: crashes and failing calls

AllKinds == {"committed", "reverted", "reorged"}

ASSUME ChainAssumption ==
  /\ Genesis \notin Blocks
  /\ Parent \in [Blocks -> Blocks \cup {Genesis}]
  /\ Start \in Nat /\ Number \in [Blocks -> {n \in Nat : n > Start}]
  /\ ExecLogs \in [Blocks -> SUBSET Log]
  /\ \A b \in Blocks :
       Number[b] = IF Parent[b] = Genesis THEN Start + 1 ELSE Number[Parent[b]] + 1

ASSUME BoundAssumption ==
  /\ Kinds \subseteq AllKinds
  /\ {MaxChain, MaxNotifications, MaxFaults} \subseteq Nat

VARIABLES
  canon,      \* reth's canonical chain
  inbox,      \* ctx.notifications: sent by reth, not yet received
  running,    \* the ExEx future has not returned
  tasks,      \* spawned tokio tasks that have not finished
  table,      \* the shadow_logs table
  sent,       \* block hashes sent on indexed_block_hash_sender
  finished,   \* the last FinishedHeight reported to reth
  emitted,    \* notifications sent so far (bounded by MaxNotifications)
  handled,    \* notifications handled so far: the identity of a spawn
  faults,     \* crashes and failing calls so far (bounded by MaxFaults)
  seen,       \* history: blocks canonical by the notifications handled
  tainted     \* history: blocks whose statements lost their order or effect

env == <<canon, inbox, emitted>>
exex == <<running, tasks, table, sent, finished, handled, faults, seen, tainted>>
vars == <<env, exex>>

-----------------------------------------------------------------------------
ChainOf(seq) == {seq[i] : i \in DOMAIN seq}

\* A reth Chain: consecutive blocks, held in order of number.
Chains == UNION {[1..n -> Blocks] : n \in 1..MaxChain}

LinkedTo(b, chain) ==
  \A i \in DOMAIN chain : Parent[chain[i]] = IF i = 1 THEN b ELSE chain[i - 1]

Tip(chain) == IF chain = <<>> THEN Genesis ELSE chain[Len(chain)]

Notification(k, old, new) == [kind |-> k, old |-> old, new |-> new]

Notifications ==
  {n \in [kind : AllKinds, old : Seq(Blocks), new : Seq(Blocks)] :
     n.kind = "committed" => n.new # <<>>}

\* A task: an INSERT of `logs` or an UPDATE of the one block in `blocks`, then
\* one send per hash in `unsent`.  Hashes go out in chain order, so the set and
\* the block numbers give the Vec.  `base` is history: the block whose
\* post-state an execution started from (of no meaning for an UPDATE).
Tasks == [id : Nat, kind : {"insert", "mark"}, sql : {"todo", "done"},
          base : Blocks \cup {Genesis},
          blocks : SUBSET Blocks, logs : SUBSET Row, unsent : SUBSET Blocks]

Busy(b) == \E t \in tasks : t.sql = "todo" /\ b \in t.blocks

\* Mutant: the state after block `number`, not before it.
StateAfter(number) ==
  LET upto == number - Start IN
  Tip(SubSeq(canon, 1, IF upto <= Len(canon) THEN upto ELSE Len(canon)))

\* HistoricalStateProviderRef::new(tx, number): reth's state before block
\* `number`, found by the number alone in the chain reth has at this moment.
\* Above the tip there is no history and the plain state, the tip's, is read.
HistoricalState(number) ==
  LET before == number - Start - 1 IN
  Tip(SubSeq(canon, 1, IF before <= Len(canon) THEN before ELSE Len(canon)))

\* The logs of a block that pass the is_shadowed filter.
ShadowLogs(b) == ExecLogs[b] \cap ShadowedLog

\* Mutant: a row of each block is left out of the VALUES list.
CollectedButOne(id, blocks) ==
  {r \in [batch : {id}, block : blocks, log : Log, removed : {FALSE}] :
     /\ r.log \in ShadowLogs(r.block)
     /\ r.log # CHOOSE l \in ShadowLogs(r.block) : TRUE}

\* The rows one ChainCommitted collects.
CollectedLogs(id, blocks) ==
  {r \in [batch : {id}, block : blocks, log : Log, removed : {FALSE}] :
     r.log \in ShadowLogs(r.block)}

InsertTask(id, base, blocks) ==
  [id |-> id, kind |-> "insert", sql |-> "todo", base |-> base,
   blocks |-> blocks, logs |-> CollectedLogs(id, blocks),
   unsent |-> {b \in blocks : ShadowLogs(b) # {}}]

\* Mutant: the task of a revert has nothing to send.
MarkTaskSilent(id, b) ==
  [id |-> id, kind |-> "mark", sql |-> "todo", base |-> Genesis,
   blocks |-> {b}, logs |-> {}, unsent |-> {}]

MarkTask(id, b) ==
  [id |-> id, kind |-> "mark", sql |-> "todo", base |-> Genesis,
   blocks |-> {b}, logs |-> {}, unsent |-> {b}]

\* Mutants: the task returns after its statement; it waits for a hash to send
\* even when it has none.
AfterSqlReturns(t) == tasks \ {t}

AfterSqlWaits(t) == (tasks \ {t}) \cup {[t EXCEPT !.sql = "done"]}

\* The task after its statement: it ends when there is nothing to send.
AfterSql(t) ==
  (tasks \ {t}) \cup
    (IF t.unsent = {} THEN {} ELSE {[t EXCEPT !.sql = "done"]})

-----------------------------------------------------------------------------
Init ==
  /\ canon = <<>> /\ inbox = <<>> /\ emitted = 0
  /\ running = TRUE /\ tasks = {} /\ table = {} /\ sent = <<>>
  /\ finished = 0 /\ handled = 0 /\ faults = 0
  /\ seen = {} /\ tainted = {}

(***************************************************************************)
(* Reth: the chain grows, shrinks or switches branch, and the notification *)
(* is queued; the chain may be further on when the ExEx receives it.       *)
(***************************************************************************)
Emit(n, chain) ==
  /\ running /\ emitted < MaxNotifications /\ n.kind \in Kinds
  /\ canon' = chain
  /\ inbox' = Append(inbox, n)
  /\ emitted' = emitted + 1
  /\ UNCHANGED exex

Commit ==
  \E new \in Chains :
    /\ LinkedTo(Tip(canon), new)
    /\ Emit(Notification("committed", <<>>, new), canon \o new)

Revert ==
  \E n \in 0..(Len(canon) - 1) :
    Emit(Notification("reverted", SubSeq(canon, n + 1, Len(canon)), <<>>),
         SubSeq(canon, 1, n))

Reorg ==
  \E n \in 0..(Len(canon) - 1), new \in Chains :
    /\ LinkedTo(Tip(SubSeq(canon, 1, n)), new)
    /\ new[1] # canon[n + 1]
    /\ Emit(Notification("reorged", SubSeq(canon, n + 1, Len(canon)), new),
            SubSeq(canon, 1, n) \o new)

-----------------------------------------------------------------------------
(***************************************************************************)
(* The loop.  Its body has no await after recv(), so handling a            *)
(* notification is one action.                                             *)
(***************************************************************************)
Receive(kind) ==
  /\ running /\ inbox # <<>> /\ Head(inbox).kind = kind
  /\ inbox' = Tail(inbox)
  /\ handled' = handled + 1
  /\ UNCHANGED <<canon, emitted, table, sent>>

\* ChainCommitted up to tokio::spawn.
SpawnInsert(chain) ==
  /\ tasks' = tasks \cup
       {InsertTask(handled, HistoricalState(Number[chain[1]]), ChainOf(chain))}
  /\ tainted' = tainted \cup {b \in ChainOf(chain) : Busy(b) \/ b \in seen}
  /\ seen' = seen \cup ChainOf(chain)

HandleCommitted ==
  /\ Receive("committed")
  /\ SpawnInsert(Head(inbox).new)
  /\ finished' = Number[Tip(Head(inbox).new)]
  /\ UNCHANGED <<running, faults>>

\* A `?` of the ChainCommitted arm returns from the future: before the spawn
\* when no database provider can be opened, after it when reth no longer
\* listens for ExEx events.
HandleCommittedFails ==
  /\ Receive("committed")
  /\ faults < MaxFaults /\ faults' = faults + 1
  /\ running' = FALSE
  /\ \/ UNCHANGED <<tasks, seen, tainted>>
     \/ SpawnInsert(Head(inbox).new)
  /\ UNCHANGED finished

\* Mutant: only the tip of the reverted chain is marked.
RevertsTipOnly ==
  /\ Receive("reverted")
  /\ LET old == ChainOf(Head(inbox).old) IN
     /\ tasks' = tasks \cup {MarkTask(handled, Tip(Head(inbox).old))}
     /\ tainted' = tainted \cup {b \in old : Busy(b) \/ b \notin seen}
     /\ seen' = seen \ old
  /\ UNCHANGED <<running, finished, faults>>

\* ChainReverted: one task per reverted block, in no order among themselves.
HandleReverted ==
  /\ Receive("reverted")
  /\ LET old == ChainOf(Head(inbox).old) IN
     /\ tasks' = tasks \cup {MarkTask(handled, b) : b \in old}
     /\ tainted' = tainted \cup {b \in old : Busy(b) \/ b \notin seen}
     /\ seen' = seen \ old
  /\ UNCHANGED <<running, finished, faults>>

\* `_ => {}`: any other notification is dropped.
HandleOther ==
  /\ Receive("reorged")
  /\ LET old == ChainOf(Head(inbox).old)
         new == ChainOf(Head(inbox).new)
     IN  /\ tainted' = tainted \cup old \cup new
         /\ seen' = (seen \ old) \cup new
  /\ UNCHANGED <<running, tasks, finished, faults>>

\* recv() yields None: reth has closed the channel and the future returns.
NotificationsClosed ==
  /\ running /\ inbox = <<>>
  /\ faults < MaxFaults /\ faults' = faults + 1
  /\ running' = FALSE
  /\ UNCHANGED <<env, tasks, table, sent, finished, handled, seen, tainted>>

-----------------------------------------------------------------------------
(***************************************************************************)
(* The spawned tasks.  A statement is one step; each send is one step.     *)
(***************************************************************************)
RunInsert ==
  \E t \in tasks :
    /\ t.kind = "insert" /\ t.sql = "todo" /\ ValidInsert(t.logs)
    /\ table' = BulkInsert(table, t.logs)
    /\ tasks' = AfterSql(t)
    /\ UNCHANGED <<env, running, sent, finished, handled, faults, seen, tainted>>

\* The statement without rows is rejected; `let _ =` drops the error, and
\* there is no hash to send either.
RunEmptyInsert ==
  \E t \in tasks :
    /\ t.kind = "insert" /\ t.sql = "todo" /\ ~ValidInsert(t.logs)
    /\ tasks' = AfterSql(t)
    /\ UNCHANGED <<env, running, table, sent, finished, handled, faults, seen, tainted>>

RunMark ==
  \E t \in tasks :
    /\ t.kind = "mark" /\ t.sql = "todo"
    /\ \E b \in t.blocks : table' = HandleBlockReorg(table, b)
    /\ tasks' = AfterSql(t)
    /\ UNCHANGED <<env, running, sent, finished, handled, faults, seen, tainted>>

\* The pool times out, or SQLite is busy or out of space: `let _ =` drops the
\* error and the task goes on to send its hashes.
SqlFails ==
  \E t \in tasks :
    /\ t.sql = "todo" /\ faults < MaxFaults
    /\ faults' = faults + 1
    /\ tasks' = AfterSql(t)
    /\ tainted' = tainted \cup t.blocks
    /\ UNCHANGED <<env, running, table, sent, finished, handled, seen>>

\* Mutants: the number is sent, not the hash; the hashes are sent first.
AnnounceNumber ==
  \E t \in tasks : \E b \in t.unsent :
    /\ t.sql = "done"
    /\ sent' = Append(sent, Number[b])
    /\ tasks' = (tasks \ {t}) \cup
         (IF t.unsent = {b} THEN {} ELSE {[t EXCEPT !.unsent = t.unsent \ {b}]})
    /\ UNCHANGED <<env, running, table, finished, handled, faults, seen, tainted>>

AnnounceFirst ==
  \E t \in tasks : \E b \in t.unsent :
    /\ sent' = Append(sent, b)
    /\ tasks' = (tasks \ {t}) \cup
         (IF t.unsent = {b} /\ t.sql = "done" THEN {}
          ELSE {[t EXCEPT !.unsent = t.unsent \ {b}]})
    /\ UNCHANGED <<env, running, table, finished, handled, faults, seen, tainted>>

\* indexed_block_hash_sender.send(block_hash), in chain order.
Announce ==
  \E t \in tasks : \E b \in t.unsent :
    /\ t.sql = "done"
    /\ \A c \in t.unsent : Number[b] <= Number[c]
    /\ sent' = Append(sent, b)
    /\ tasks' = (tasks \ {t}) \cup
         (IF t.unsent = {b} THEN {} ELSE {[t EXCEPT !.unsent = t.unsent \ {b}]})
    /\ UNCHANGED <<env, running, table, finished, handled, faults, seen, tainted>>

\* The process dies and is started again: queue, tasks and channel are gone,
\* the table and reth's chain are on disk, nothing is replayed.
Crash ==
  /\ faults < MaxFaults /\ faults' = faults + 1
  /\ running' = TRUE /\ inbox' = <<>> /\ tasks' = {} /\ sent' = <<>>
  /\ tainted' = tainted \cup {b \in Blocks : Busy(b)}
  /\ UNCHANGED <<canon, emitted, table, finished, handled, seen>>

-----------------------------------------------------------------------------
Environment == Commit \/ Revert \/ Reorg

Handle ==
  \/ HandleCommitted \/ HandleCommittedFails \/ HandleReverted \/ HandleOther
  \/ NotificationsClosed

RunTask == RunInsert \/ RunEmptyInsert \/ RunMark \/ SqlFails \/ Announce

Next == Environment \/ Handle \/ RunTask \/ Crash

Spec == Init /\ [][Next]_vars

\* What tokio gets done when nothing fails: the loop receives what is queued, the
\* tasks run to their end.  Nothing obliges reth to send or a call to fail.
Receives == HandleCommitted \/ HandleReverted \/ HandleOther
Progress == RunInsert \/ RunEmptyInsert \/ RunMark \/ Announce

-----------------------------------------------------------------------------
(***************************************************************************)
(* Properties.                                                             *)
(***************************************************************************)
\* Type invariant: every variable holds values of the kind the code gives it.
TypeOK ==
  /\ canon \in Seq(Blocks) /\ inbox \in Seq(Notifications) /\ emitted \in Nat
  /\ running \in BOOLEAN /\ tasks \subseteq Tasks /\ table \subseteq Row
  /\ sent \in Seq(Blocks) /\ finished \in Nat /\ handled \in Nat
  /\ faults \in Nat /\ seen \subseteq Blocks /\ tainted \subseteq Blocks

Quiescent == inbox = <<>> /\ tasks = {}

\* Every shadow log of the block has one live row, and one only.
StoredOnce(b) ==
  /\ \A l \in ShadowLogs(b) : \E r \in Live(table, b) : r.log = l
  /\ \A r, q \in Live(table, b) : r.log = q.log => r = q

\* Whatever faults, races and dropped notifications other blocks went through,
\* a block none of whose statements overlapped another one on the same block,
\* failed, or was lost has exactly the live rows that the notifications
\* handled so far call for: each log once, or none after its revert
\* (the spawned INSERT of lib.rs:150 against the UPDATE of lib.rs:173).
IndexConsistent ==
  \A b \in Blocks \ tainted :
    ~Busy(b) => IF b \in seen THEN StoredOnce(b) ELSE Live(table, b) = {}

\* The inductive form of IndexConsistent: what an open statement on a block that
\* nothing went wrong with finds when it runs, and what a task that is about to
\* announce the block has left in the table.
HasRows(b) ==
  \A l \in ShadowLogs(b) : \E r \in table : r.block = b /\ r.log = l

TaskInv(t) ==
  /\ t.unsent \subseteq t.blocks
  /\ t.kind = "insert" => t.logs = CollectedLogs(t.id, t.blocks)
  /\ t.kind = "mark" => \E b \in Blocks : t.blocks = {b}

OpenOn(b) == {t \in tasks : t.sql = "todo" /\ b \in t.blocks}

BlockInv(b) ==
  /\ \A t, s \in OpenOn(b) : t = s
  /\ \A t \in OpenOn(b) :
       IF t.kind = "insert" THEN b \in seen /\ Live(table, b) = {}
       ELSE b \notin seen /\ StoredOnce(b)
  /\ OpenOn(b) = {} => IF b \in seen THEN StoredOnce(b) ELSE Live(table, b) = {}
  /\ \A t \in tasks : (t.sql = "done" /\ b \in t.unsent) => HasRows(b)

IndInv ==
  /\ \A t \in tasks : TaskInv(t)
  /\ \A b \in Blocks \ tainted : BlockInv(b)

\* Without faults, once the queue is empty and the tasks have ended, the live
\* rows are the logs of reth's canonical chain, but for the blocks whose
\* statements overlapped: those are the only way to lose the chain.
IndexMatchesChain ==
  (faults = 0 /\ Quiescent) =>
    \A b \in Blocks \ tainted :
      IF b \in ChainOf(canon) THEN StoredOnce(b) ELSE Live(table, b) = {}

\* A row that is stored stays: a step may set its removed flag, never clear it,
\* and no step deletes it (the subscribers' view may only go from a log to its
\* removal).
RowsOnlyGetRemoved ==
  [][\A r \in table : r \in table' \/ (~r.removed /\ [r EXCEPT !.removed = TRUE] \in table')]_vars

\* A hash is sent after the statement of its task: when the subscribers are
\* told of a block, every shadow log of the block is in the table
\* (lib.rs:150-153, 173-174), unless the block's statements went wrong.
AnnouncedRowsVisible ==
  [][\A b \in Blocks :
       (sent' = Append(sent, b) /\ b \notin tainted) => HasRows(b)]_vars

\* A backlog of commits does no harm: when every notification behind the one
\* being handled is a commit too, the state read by number is the state after
\* the parent of the first block (lib.rs:91-95).
BacklogKeepsParentState ==
  [][\A t \in tasks' \ tasks :
       (/\ t.kind = "insert" /\ t.sql = "todo"
        /\ \A i \in 2..Len(inbox) : inbox[i].kind = "committed") =>
         \E b \in t.blocks : Parent[b] = t.base /\ t.base \notin t.blocks]_vars

\* Every canonical block is eventually indexed: its logs get their live rows,
\* unless the block leaves the chain, its statements overlap, or a fault occurs.
EventuallyIndexed ==
  \A b \in Blocks :
    b \in ChainOf(canon) ~>
      (StoredOnce(b) \/ b \notin ChainOf(canon) \/ b \in tainted \/ faults > 0)

\* A task that has to announce b: every UPDATE, and an INSERT with rows of b.
Owes(t, b) ==
  \/ b \in t.unsent
  \/ t.sql = "todo" /\ b \in t.blocks /\ (t.kind = "mark" \/ ShadowLogs(b) # {})

Announced(b) == Cardinality({i \in DOMAIN sent : sent[i] = b})

\* Every notification that stores or removes rows of a block announces the block,
\* also when it has been announced before: a client told of a commit is told of
\* the revert too, and of the next commit (lib.rs:151-153, 174).  Of announcements
\* made and owed together, as many are made in the end, unless a fault occurs.
EventuallyAnnounced ==
  \A b \in Blocks, n \in 1..MaxNotifications :
    (Announced(b) + Cardinality({t \in tasks : Owes(t, b)}) >= n)
      ~> (Announced(b) >= n \/ faults > 0)

\* The tasks a notification has spawned all end, also the one whose INSERT has
\* no rows and is refused, one that has nothing to send, and one whose statement
\* fails: none lives on with its senders, which keep the channel from closing
\* (lib.rs:136-155, 171-176, subscribe.rs:83).
TasksEnd ==
  \A id \in 0..(MaxNotifications - 1) :
    (\E t \in tasks : t.id = id) ~> (\A t \in tasks : t.id # id)

-----------------------------------------------------------------------------
(***************************************************************************)
(* What the documents say and the code does not do.                        *)
(***************************************************************************)
\* "ShadowExEx handles these notifications by marking the logs as removed"
\* (crates/exex/README.md:64): once everything has been handled and every task
\* has ended, no row of a block outside the chain is live.
RevertedLogsRemoved ==
  (faults = 0 /\ Quiescent) =>
    \A r \in table : r.block \in ChainOf(canon) \/ r.removed

\* "When a block is committed to the chain, an ExExNotification is emitted and
\* handled by ShadowExEx" (README.md): a canonical block's logs are live once
\* everything has been handled.
CanonicalLogsStored ==
  (faults = 0 /\ Quiescent) =>
    \A b \in ChainOf(canon) : \A l \in ShadowLogs(b) :
      \E r \in Live(table, b) : r.log = l

\* "We're done, so send a FinishedHeight event" (lib.rs:157): a canonical block
\* the ExEx has handled, at or below the height it reported, has its logs in
\* the table or a task that is about to insert them.
FinishedIsDone ==
  \A b \in seen \cap ChainOf(canon) :
    (Number[b] <= finished /\ ~Busy(b)) => HasRows(b)

\* "the state at the first block in the notification, pre-execution"
\* (lib.rs:87-89): every execution starts from the state after the parent of
\* its first block.
ExecutedOnParentState ==
  \A t \in tasks : t.kind = "insert" =>
    \E b \in t.blocks : Parent[b] = t.base /\ t.base \notin t.blocks

=============================================================================
