-------------------------- MODULE ShadowExEx_proofs --------------------------
(***************************************************************************)
(* Proofs about ShadowExEx for every block tree, every set of shadowed     *)
(* logs and every bound: type correctness, the inductive invariant IndInv, *)
(* and what follows from it.                                               *)
(***************************************************************************)
EXTENDS ShadowExEx, TLAPS

-----------------------------------------------------------------------------
(***************************************************************************)
(* The helpers.                                                            *)
(***************************************************************************)
\* The blocks of a chain are blocks.
LEMMA ChainOfType ==
  ASSUME NEW s \in Seq(Blocks)
  PROVE  ChainOf(s) \subseteq Blocks
BY DEF ChainOf

\* The last block of a chain, or the genesis block.
LEMMA TipType ==
  ASSUME NEW s \in Seq(Blocks)
  PROVE  /\ Tip(s) \in Blocks \cup {Genesis}
         /\ s # <<>> => Tip(s) \in Blocks
BY DEF Tip

\* A reth Chain is a sequence of blocks with at least one block.
LEMMA ChainsType ==
  ASSUME NEW c \in Chains
  PROVE  c \in Seq(Blocks) /\ c # <<>>
<1>1. PICK n \in 1..MaxChain : c \in [1..n -> Blocks]
  BY DEF Chains
<1>2. MaxChain \in Nat
  BY BoundAssumption
<1>3. n \in Nat /\ n >= 1
  BY <1>1, <1>2
<1>4. c \in Seq(Blocks) /\ Len(c) = n
  BY <1>1, <1>3
<1> QED
  BY <1>3, <1>4

\* The state an execution starts from is the one after some block.
LEMMA HistoricalStateType ==
  ASSUME canon \in Seq(Blocks), NEW n \in Nat, n > Start
  PROVE  HistoricalState(n) \in Blocks \cup {Genesis}
<1> DEFINE m == IF n - Start - 1 <= Len(canon) THEN n - Start - 1 ELSE Len(canon)
<1>1. m \in 0..Len(canon)
  BY ChainAssumption
<1>2. SubSeq(canon, 1, m) \in Seq(Blocks)
  BY <1>1
<1> QED
  BY <1>2, TipType DEF HistoricalState

\* The shadow logs of a block are logs.
LEMMA ShadowLogsType ==
  ASSUME NEW b \in Blocks
  PROVE  ShadowLogs(b) \subseteq Log
BY ChainAssumption DEF ShadowLogs

LEMMA CollectedLogsType ==
  ASSUME NEW id \in Nat, NEW B \in SUBSET Blocks
  PROVE  CollectedLogs(id, B) \subseteq Row
BY DEF CollectedLogs, Row

LEMMA InsertTaskType ==
  ASSUME NEW id \in Nat, NEW base \in Blocks \cup {Genesis}, NEW B \in SUBSET Blocks
  PROVE  InsertTask(id, base, B) \in Tasks
<1>1. CollectedLogs(id, B) \in SUBSET Row
  BY CollectedLogsType
<1>2. {b \in B : ShadowLogs(b) # {}} \in SUBSET Blocks
  OBVIOUS
<1> QED
  BY <1>1, <1>2 DEF InsertTask, Tasks

LEMMA MarkTaskType ==
  ASSUME NEW id \in Nat, NEW b \in Blocks
  PROVE  MarkTask(id, b) \in Tasks
BY DEF MarkTask, Tasks

LEMMA AfterSqlType ==
  ASSUME tasks \subseteq Tasks, NEW t \in tasks
  PROVE  AfterSql(t) \subseteq Tasks
BY DEF AfterSql, Tasks

LEMMA HandleBlockReorgType ==
  ASSUME NEW T \in SUBSET Row, NEW b
  PROVE  HandleBlockReorg(T, b) \subseteq Row
BY DEF HandleBlockReorg, Row

-----------------------------------------------------------------------------
(***************************************************************************)
(* Type correctness.                                                       *)
(***************************************************************************)
LEMMA InitType == Init => TypeOK
BY DEF Init, TypeOK

\* A notification that reth queues leaves the chain and the queue well-typed.
LEMMA EmitType ==
  ASSUME TypeOK, NEW n, NEW c \in Seq(Blocks), n \in Notifications, Emit(n, c)
  PROVE  TypeOK'
BY DEF TypeOK, Emit, exex

LEMMA EnvironmentType == TypeOK /\ Environment => TypeOK'
<1> SUFFICES ASSUME TypeOK, Environment PROVE TypeOK'
  OBVIOUS
<1> USE DEF TypeOK
<1>1. CASE Commit
  <2>1. PICK new \in Chains :
          Emit(Notification("committed", <<>>, new), canon \o new)
    BY <1>1 DEF Commit
  <2>2. new \in Seq(Blocks) /\ new # <<>>
    BY ChainsType
  <2>3. Notification("committed", <<>>, new) \in Notifications
    BY <2>2 DEF Notification, Notifications, AllKinds
  <2>4. canon \o new \in Seq(Blocks)
    BY <2>2
  <2> QED
    BY <2>1, <2>3, <2>4, EmitType
<1>2. CASE Revert
  <2>1. PICK n \in 0..(Len(canon) - 1) :
          Emit(Notification("reverted", SubSeq(canon, n + 1, Len(canon)), <<>>),
               SubSeq(canon, 1, n))
    BY <1>2 DEF Revert
  <2>2. /\ SubSeq(canon, n + 1, Len(canon)) \in Seq(Blocks)
        /\ SubSeq(canon, 1, n) \in Seq(Blocks)
    BY <2>1
  <2>3. Notification("reverted", SubSeq(canon, n + 1, Len(canon)), <<>>) \in Notifications
    BY <2>2 DEF Notification, Notifications, AllKinds
  <2> QED
    BY <2>1, <2>2, <2>3, EmitType
<1>3. CASE Reorg
  <2>1. PICK n \in 0..(Len(canon) - 1), new \in Chains :
          Emit(Notification("reorged", SubSeq(canon, n + 1, Len(canon)), new),
               SubSeq(canon, 1, n) \o new)
    BY <1>3 DEF Reorg
  <2>2. /\ SubSeq(canon, n + 1, Len(canon)) \in Seq(Blocks)
        /\ SubSeq(canon, 1, n) \in Seq(Blocks)
    BY <2>1
  <2>3. new \in Seq(Blocks)
    BY ChainsType
  <2>4. Notification("reorged", SubSeq(canon, n + 1, Len(canon)), new) \in Notifications
    BY <2>2, <2>3 DEF Notification, Notifications, AllKinds
  <2>5. SubSeq(canon, 1, n) \o new \in Seq(Blocks)
    BY <2>2, <2>3
  <2> QED
    BY <2>1, <2>4, <2>5, EmitType
<1> QED
  BY <1>1, <1>2, <1>3 DEF Environment

\* What a handler finds at the head of the queue.
LEMMA HeadType ==
  ASSUME TypeOK, inbox # <<>>
  PROVE  /\ Head(inbox) \in Notifications
         /\ Tail(inbox) \in Seq(Notifications)
         /\ ChainOf(Head(inbox).old) \subseteq Blocks
         /\ ChainOf(Head(inbox).new) \subseteq Blocks
<1>1. Head(inbox) \in Notifications /\ Tail(inbox) \in Seq(Notifications)
  BY DEF TypeOK
<1>2. Head(inbox).old \in Seq(Blocks) /\ Head(inbox).new \in Seq(Blocks)
  BY <1>1 DEF Notifications
<1> QED
  BY <1>1, <1>2, ChainOfType

\* The chain of a ChainCommitted has a first block and a tip.
LEMMA CommittedType ==
  ASSUME TypeOK, inbox # <<>>, Head(inbox).kind = "committed"
  PROVE  /\ Number[Head(inbox).new[1]] \in {n \in Nat : n > Start}
         /\ Number[Tip(Head(inbox).new)] \in Nat
<1> DEFINE new == Head(inbox).new
<1>1. new \in Seq(Blocks) /\ new # <<>>
  BY HeadType DEF Notifications
<1>2. new[1] \in Blocks /\ Tip(new) \in Blocks
  BY <1>1, TipType
<1> QED
  BY <1>2, ChainAssumption

LEMMA SpawnInsertType ==
  ASSUME TypeOK, inbox # <<>>, Head(inbox).kind = "committed",
         SpawnInsert(Head(inbox).new)
  PROVE  tasks' \subseteq Tasks /\ seen' \subseteq Blocks /\ tainted' \subseteq Blocks
<1> DEFINE new == Head(inbox).new
<1>1. ChainOf(new) \in SUBSET Blocks
  BY HeadType
<1>2. HistoricalState(Number[new[1]]) \in Blocks \cup {Genesis}
  BY CommittedType, HistoricalStateType DEF TypeOK
<1>3. InsertTask(handled, HistoricalState(Number[new[1]]), ChainOf(new)) \in Tasks
  BY <1>1, <1>2, InsertTaskType DEF TypeOK
<1> QED
  BY <1>1, <1>3 DEF SpawnInsert, TypeOK

LEMMA HandleType == TypeOK /\ Handle => TypeOK'
<1> SUFFICES ASSUME TypeOK, Handle PROVE TypeOK'
  OBVIOUS
<1>1. CASE HandleCommitted
  <2>1. inbox # <<>> /\ Head(inbox).kind = "committed" /\ SpawnInsert(Head(inbox).new)
    BY <1>1 DEF HandleCommitted, Receive
  <2>2. tasks' \subseteq Tasks /\ seen' \subseteq Blocks /\ tainted' \subseteq Blocks
    BY <2>1, SpawnInsertType
  <2>3. finished' \in Nat
    BY <1>1, <2>1, CommittedType DEF HandleCommitted
  <2>4. inbox' \in Seq(Notifications)
    BY <1>1, <2>1, HeadType DEF HandleCommitted, Receive
  <2> QED
    BY <1>1, <2>2, <2>3, <2>4 DEF HandleCommitted, Receive, TypeOK
<1>2. CASE HandleCommittedFails
  <2>1. inbox # <<>> /\ Head(inbox).kind = "committed"
    BY <1>2 DEF HandleCommittedFails, Receive
  <2>2. tasks' \subseteq Tasks /\ seen' \subseteq Blocks /\ tainted' \subseteq Blocks
    <3>1. CASE UNCHANGED <<tasks, seen, tainted>>
      BY <3>1 DEF TypeOK
    <3>2. CASE SpawnInsert(Head(inbox).new)
      BY <2>1, <3>2, SpawnInsertType
    <3> QED
      BY <1>2, <3>1, <3>2 DEF HandleCommittedFails
  <2>3. inbox' \in Seq(Notifications)
    BY <1>2, <2>1, HeadType DEF HandleCommittedFails, Receive
  <2>4. faults' \in Nat /\ finished' = finished
    BY <1>2 DEF HandleCommittedFails, TypeOK
  <2>5. running' = FALSE
    BY <1>2 DEF HandleCommittedFails
  <2>6. handled' \in Nat /\ UNCHANGED <<canon, emitted, table, sent>>
    BY <1>2 DEF HandleCommittedFails, Receive, TypeOK
  <2> QED
    BY <2>2, <2>3, <2>4, <2>5, <2>6 DEF TypeOK
<1>3. CASE HandleReverted
  <2> DEFINE old == ChainOf(Head(inbox).old)
  <2>1. inbox # <<>>
    BY <1>3 DEF HandleReverted, Receive
  <2>2. old \subseteq Blocks /\ Tail(inbox) \in Seq(Notifications)
    BY <2>1, HeadType
  <2>3. {MarkTask(handled, b) : b \in old} \subseteq Tasks
    BY <2>2, MarkTaskType DEF TypeOK
  <2> QED
    BY <1>3, <2>2, <2>3 DEF HandleReverted, Receive, TypeOK
<1>4. CASE HandleOther
  <2>1. inbox # <<>>
    BY <1>4 DEF HandleOther, Receive
  <2> QED
    BY <1>4, <2>1, HeadType DEF HandleOther, Receive, TypeOK
<1>5. CASE NotificationsClosed
  <2>1. faults' \in Nat
    BY <1>5 DEF NotificationsClosed, TypeOK
  <2>2. running' = FALSE
    BY <1>5 DEF NotificationsClosed
  <2> QED
    BY <1>5, <2>1, <2>2 DEF NotificationsClosed, env, TypeOK
<1> QED
  BY <1>1, <1>2, <1>3, <1>4, <1>5 DEF Handle

LEMMA RunTaskType == TypeOK /\ RunTask => TypeOK'
<1> SUFFICES ASSUME TypeOK, RunTask PROVE TypeOK'
  OBVIOUS
<1> USE DEF TypeOK
<1>1. CASE RunInsert
  <2>1. PICK t \in tasks : table' = BulkInsert(table, t.logs) /\ tasks' = AfterSql(t)
    BY <1>1 DEF RunInsert
  <2>2. t.logs \subseteq Row
    BY <2>1 DEF Tasks
  <2>3. table' \subseteq Row /\ tasks' \subseteq Tasks
    BY <2>1, <2>2, AfterSqlType DEF BulkInsert
  <2> QED
    BY <1>1, <2>3 DEF RunInsert, env
<1>2. CASE RunEmptyInsert
  BY <1>2, AfterSqlType DEF RunEmptyInsert, env
<1>3. CASE RunMark
  <2>1. PICK t \in tasks :
          /\ \E b \in t.blocks : table' = HandleBlockReorg(table, b)
          /\ tasks' = AfterSql(t)
    BY <1>3 DEF RunMark
  <2>2. table' \subseteq Row /\ tasks' \subseteq Tasks
    BY <2>1, AfterSqlType, HandleBlockReorgType
  <2> QED
    BY <1>3, <2>2 DEF RunMark, env
<1>4. CASE SqlFails
  <2>1. PICK t \in tasks : tasks' = AfterSql(t) /\ tainted' = tainted \cup t.blocks
    BY <1>4 DEF SqlFails
  <2>2. tasks' \subseteq Tasks /\ tainted' \subseteq Blocks
    BY <2>1, AfterSqlType DEF Tasks
  <2> QED
    BY <1>4, <2>2 DEF SqlFails, env
<1>5. CASE Announce
  <2>1. PICK t \in tasks : \E b \in t.unsent :
          /\ sent' = Append(sent, b)
          /\ tasks' = (tasks \ {t}) \cup
               (IF t.unsent = {b} THEN {} ELSE {[t EXCEPT !.unsent = t.unsent \ {b}]})
    BY <1>5 DEF Announce
  <2>2. PICK b \in t.unsent :
          /\ sent' = Append(sent, b)
          /\ tasks' = (tasks \ {t}) \cup
               (IF t.unsent = {b} THEN {} ELSE {[t EXCEPT !.unsent = t.unsent \ {b}]})
    BY <2>1
  <2>3. t \in Tasks /\ b \in Blocks
    BY <2>2 DEF Tasks
  <2>4. [t EXCEPT !.unsent = t.unsent \ {b}] \in Tasks
    BY <2>3 DEF Tasks
  <2>5. tasks' \subseteq Tasks
    BY <2>2, <2>3, <2>4
  <2>6. sent' \in Seq(Blocks)
    BY <2>2, <2>3
  <2> QED
    BY <1>5, <2>5, <2>6 DEF Announce, env
<1> QED
  BY <1>1, <1>2, <1>3, <1>4, <1>5 DEF RunTask

LEMMA CrashType == TypeOK /\ Crash => TypeOK'
BY DEF TypeOK, Crash

LEMMA NextType == TypeOK /\ [Next]_vars => TypeOK'
<1>1. TypeOK /\ UNCHANGED vars => TypeOK'
  BY DEF TypeOK, vars, env, exex
<1> QED
  BY <1>1, EnvironmentType, HandleType, RunTaskType, CrashType DEF Next

\* Every variable of the ExEx and of its environment keeps its type: in
\* particular an execution always starts from the state after some block and a
\* reported height is always a block's.
THEOREM TypeCorrect == Spec => []TypeOK
<1>1. Init => TypeOK
  BY InitType
<1>2. TypeOK /\ [Next]_vars => TypeOK'
  BY NextType
<1> QED
  BY <1>1, <1>2, PTL DEF Spec

-----------------------------------------------------------------------------
(***************************************************************************)
(* The table.                                                              *)
(***************************************************************************)
\* A row is its four fields.
LEMMA RowEquality ==
  ASSUME NEW r \in Row, NEW q \in Row,
         r.batch = q.batch, r.block = q.block, r.log = q.log, r.removed = q.removed
  PROVE  r = q
BY DEF Row

\* An UPDATE leaves no live row of its block.
LEMMA MarkedBlock ==
  ASSUME NEW T \in SUBSET Row, NEW b
  PROVE  Live(HandleBlockReorg(T, b), b) = {}
BY DEF HandleBlockReorg, Live, Row

\* An UPDATE leaves the live rows of every other block alone.
LEMMA UnmarkedBlock ==
  ASSUME NEW T \in SUBSET Row, NEW b, NEW c, b # c
  PROVE  Live(HandleBlockReorg(T, b), c) = Live(T, c)
BY DEF HandleBlockReorg, Live, Row

\* An UPDATE keeps every row but for its flag.
LEMMA MarkKeepsRows ==
  ASSUME NEW T \in SUBSET Row, NEW b, NEW r \in T
  PROVE  \E q \in HandleBlockReorg(T, b) :
           /\ q.block = r.block /\ q.log = r.log
           /\ q = r \/ (~r.removed /\ q = [r EXCEPT !.removed = TRUE])
<1> DEFINE q == IF r.block = b THEN [r EXCEPT !.removed = TRUE] ELSE r
<1>1. q \in HandleBlockReorg(T, b)
  BY DEF HandleBlockReorg
<1>2. q.block = r.block /\ q.log = r.log
  BY DEF Row
<1>3. q = r \/ (~r.removed /\ q = [r EXCEPT !.removed = TRUE])
  <2>1. CASE r.block # b
    BY <2>1
  <2>2. CASE r.block = b /\ r.removed
    <3>1. [r EXCEPT !.removed = TRUE] = r
      BY <2>2 DEF Row
    <3> QED
      BY <2>2, <3>1
  <2>3. CASE r.block = b /\ ~r.removed
    BY <2>3
  <2> QED
    BY <2>1, <2>2, <2>3
<1> QED
  BY <1>1, <1>2, <1>3

\* The rows of an INSERT store each shadow log of its blocks once.
LEMMA InsertedBlock ==
  ASSUME NEW T \in SUBSET Row, NEW id \in Nat, NEW B \in SUBSET Blocks, NEW b \in B,
         Live(T, b) = {}
  PROVE  /\ \A l \in ShadowLogs(b) :
              \E r \in Live(BulkInsert(T, CollectedLogs(id, B)), b) : r.log = l
         /\ \A r, q \in Live(BulkInsert(T, CollectedLogs(id, B)), b) :
              r.log = q.log => r = q
<1>1. Live(BulkInsert(T, CollectedLogs(id, B)), b) = CollectedLogs(id, {b})
  BY DEF Live, BulkInsert, CollectedLogs
<1>2. ASSUME NEW l \in ShadowLogs(b)
      PROVE  \E r \in CollectedLogs(id, {b}) : r.log = l
  <2> DEFINE r == [batch |-> id, block |-> b, log |-> l, removed |-> FALSE]
  <2>1. l \in Log
    BY ShadowLogsType
  <2>2. r \in CollectedLogs(id, {b})
    BY <2>1, <1>2 DEF CollectedLogs
  <2> QED
    BY <2>2
<1>3. ASSUME NEW r \in CollectedLogs(id, {b})
      PROVE  r \in Row /\ r.batch = id /\ r.block = b /\ r.removed = FALSE
  <2>1. r \in [batch : {id}, block : {b}, log : Log, removed : {FALSE}]
    BY DEF CollectedLogs
  <2>2. r.batch = id /\ r.block = b
    BY <2>1
  <2>3. r.removed = FALSE
    BY <2>1
  <2>4. r \in Row
    BY <2>1 DEF Row
  <2> QED
    BY <2>2, <2>3, <2>4
<1>4. \A r, q \in CollectedLogs(id, {b}) : r.log = q.log => r = q
  BY <1>3, RowEquality
<1>5. \A l \in ShadowLogs(b) :
        \E r \in Live(BulkInsert(T, CollectedLogs(id, B)), b) : r.log = l
  BY <1>1, <1>2
<1>6. \A r, q \in Live(BulkInsert(T, CollectedLogs(id, B)), b) : r.log = q.log => r = q
  BY <1>1, <1>4
<1> QED
  BY <1>5, <1>6

\* An INSERT for other blocks leaves the live rows of a block alone.
LEMMA UninsertedBlock ==
  ASSUME NEW T, NEW id, NEW B, NEW b, b \notin B
  PROVE  Live(BulkInsert(T, CollectedLogs(id, B)), b) = Live(T, b)
BY DEF Live, BulkInsert, CollectedLogs

-----------------------------------------------------------------------------
(***************************************************************************)
(* What a step may do to one block.                                        *)
(***************************************************************************)
StillToSend(b) == \E t \in tasks : t.sql = "done" /\ b \in t.unsent

\* Nothing about the block changes, but for hashes that have been sent.
LEMMA QuietStep ==
  ASSUME NEW b, BlockInv(b),
         Live(table', b) = Live(table, b), HasRows(b) => HasRows(b)',
         OpenOn(b)' = OpenOn(b), b \in seen' <=> b \in seen,
         StillToSend(b)' => StillToSend(b)
  PROVE  BlockInv(b)'
<1>1. StoredOnce(b)' <=> StoredOnce(b)
  BY DEF StoredOnce
<1>2. \A t, s \in OpenOn(b)' : t = s
  BY DEF BlockInv
<1>3. \A t \in OpenOn(b)' :
        IF t.kind = "insert" THEN b \in seen' /\ Live(table', b) = {}
        ELSE b \notin seen' /\ StoredOnce(b)'
  BY <1>1 DEF BlockInv
<1>4. OpenOn(b)' = {} => IF b \in seen' THEN StoredOnce(b)' ELSE Live(table', b) = {}
  BY <1>1 DEF BlockInv
<1>5. \A t \in tasks' : (t.sql = "done" /\ b \in t.unsent) => HasRows(b)'
  BY DEF BlockInv, StillToSend
<1> QED
  BY <1>2, <1>3, <1>4, <1>5 DEF BlockInv

\* The first open statement on the block is spawned: an INSERT for a block that
\* was not seen, or an UPDATE for one that was.
LEMMA SpawnStep ==
  ASSUME NEW b, NEW t, BlockInv(b), OpenOn(b) = {},
         table' = table, OpenOn(b)' = {t},
         IF t.kind = "insert" THEN b \notin seen /\ b \in seen'
                              ELSE b \in seen /\ b \notin seen',
         StillToSend(b)' => StillToSend(b)
  PROVE  BlockInv(b)'
<1>1. StoredOnce(b)' <=> StoredOnce(b)
  BY DEF StoredOnce
<1>2. HasRows(b)' <=> HasRows(b)
  BY DEF HasRows
<1>3. \A s \in OpenOn(b)' :
        IF s.kind = "insert" THEN b \in seen' /\ Live(table', b) = {}
        ELSE b \notin seen' /\ StoredOnce(b)'
  BY <1>1 DEF BlockInv
<1>4. \A s \in tasks' : (s.sql = "done" /\ b \in s.unsent) => HasRows(b)'
  BY <1>2 DEF BlockInv, StillToSend
<1> QED
  BY <1>3, <1>4 DEF BlockInv

\* The only open statement on the block has run.
LEMMA ClosedStep ==
  ASSUME NEW b, OpenOn(b)' = {}, HasRows(b)',
         IF b \in seen' THEN StoredOnce(b)' ELSE Live(table', b) = {}
  PROVE  BlockInv(b)'
BY DEF BlockInv

-----------------------------------------------------------------------------
(***************************************************************************)
(* The inductive invariant.                                                *)
(***************************************************************************)
LEMMA InitInd == Init => IndInv
BY DEF Init, IndInv, BlockInv, TaskInv, OpenOn, Live

\* Reth's steps, and the end of the loop, touch nothing the invariant speaks of.
LEMMA UnchangedInd ==
  ASSUME IndInv, UNCHANGED <<tasks, table, seen, tainted>>
  PROVE  IndInv'
BY DEF IndInv, BlockInv, TaskInv, OpenOn, Live, StoredOnce, HasRows

LEMMA InsertTaskInv ==
  ASSUME NEW id, NEW base, NEW B
  PROVE  TaskInv(InsertTask(id, base, B))
BY DEF TaskInv, InsertTask

LEMMA MarkTaskInv ==
  ASSUME NEW id, NEW b \in Blocks
  PROVE  TaskInv(MarkTask(id, b))
BY DEF TaskInv, MarkTask

LEMMA SpawnInsertInd ==
  ASSUME TypeOK, IndInv, NEW chain, SpawnInsert(chain), table' = table
  PROVE  IndInv'
<1> DEFINE n == InsertTask(handled, HistoricalState(Number[chain[1]]), ChainOf(chain))
<1>1. tasks' = tasks \cup {n} /\ n.sql = "todo" /\ n.kind = "insert"
      /\ n.blocks = ChainOf(chain)
  BY DEF SpawnInsert, InsertTask
<1>2. \A t \in tasks' : TaskInv(t)'
  <2>1. \A t \in tasks' : TaskInv(t)
    BY <1>1, InsertTaskInv DEF IndInv
  <2> QED
    BY <2>1 DEF TaskInv
<1>3. ASSUME NEW b \in Blocks \ tainted'
      PROVE  BlockInv(b)'
  <2>1. b \notin tainted /\ BlockInv(b)
    BY DEF SpawnInsert, IndInv
  <2>2. StillToSend(b)' => StillToSend(b)
    BY <1>1 DEF StillToSend
  <2>3. CASE b \in ChainOf(chain)
    <3>1. ~Busy(b) /\ b \notin seen /\ b \in seen'
      BY <2>3 DEF SpawnInsert
    <3>2. OpenOn(b) = {} /\ OpenOn(b)' = {n}
      BY <1>1, <2>3, <3>1 DEF OpenOn, Busy
    <3> QED
      BY <1>1, <2>1, <2>2, <3>1, <3>2, SpawnStep
  <2>4. CASE b \notin ChainOf(chain)
    <3>1. OpenOn(b)' = OpenOn(b)
      BY <1>1, <2>4 DEF OpenOn
    <3>2. b \in seen' <=> b \in seen
      BY <2>4 DEF SpawnInsert
    <3>3. HasRows(b) => HasRows(b)'
      BY DEF HasRows
    <3> QED
      BY <2>1, <2>2, <3>1, <3>2, <3>3, QuietStep
  <2> QED
    BY <2>3, <2>4
<1> QED
  BY <1>2, <1>3 DEF IndInv

LEMMA HandleRevertedInd ==
  ASSUME TypeOK, IndInv, HandleReverted
  PROVE  IndInv'
<1> DEFINE old == ChainOf(Head(inbox).old)
<1>1. inbox # <<>> /\ table' = table
  BY DEF HandleReverted, Receive
<1>2. old \subseteq Blocks
  BY <1>1, HeadType
<1>3. /\ tasks' = tasks \cup {MarkTask(handled, b) : b \in old}
      /\ tainted' = tainted \cup {b \in old : Busy(b) \/ b \notin seen}
      /\ seen' = seen \ old
  BY DEF HandleReverted
<1> HIDE DEF old
<1>4. \A t \in tasks' : TaskInv(t)'
  <2>1. \A t \in tasks' : TaskInv(t)
    BY <1>2, <1>3, MarkTaskInv DEF IndInv
  <2> QED
    BY <2>1 DEF TaskInv
<1>5. ASSUME NEW b \in Blocks \ tainted'
      PROVE  BlockInv(b)'
  <2>1. BlockInv(b)
    BY <1>3 DEF IndInv
  <2>2. StillToSend(b)' => StillToSend(b)
    BY <1>3 DEF StillToSend, MarkTask
  <2>3. CASE b \in old
    <3>1. ~Busy(b) /\ b \in seen /\ b \notin seen'
      BY <1>3, <2>3
    <3>2. OpenOn(b) = {}
      BY <3>1 DEF OpenOn, Busy
    <3>3. OpenOn(b)' = {MarkTask(handled, b)}
      BY <1>3, <2>3, <3>2 DEF OpenOn, MarkTask
    <3>4. MarkTask(handled, b).kind # "insert"
      BY DEF MarkTask
    <3> QED
      BY <1>1, <2>1, <2>2, <3>1, <3>2, <3>3, <3>4, SpawnStep
  <2>4. CASE b \notin old
    <3>1. OpenOn(b)' = OpenOn(b)
      BY <1>3, <2>4 DEF OpenOn, MarkTask
    <3>2. b \in seen' <=> b \in seen
      BY <1>3, <2>4
    <3>3. HasRows(b) => HasRows(b)'
      BY <1>1 DEF HasRows
    <3> QED
      BY <1>1, <2>1, <2>2, <3>1, <3>2, <3>3, QuietStep
  <2> QED
    BY <2>3, <2>4
<1> QED
  BY <1>4, <1>5 DEF IndInv

LEMMA HandleInd ==
  ASSUME TypeOK, IndInv, Handle
  PROVE  IndInv'
<1>1. CASE HandleCommitted
  BY <1>1, SpawnInsertInd DEF HandleCommitted, Receive
<1>2. CASE HandleCommittedFails
  BY <1>2, SpawnInsertInd, UnchangedInd DEF HandleCommittedFails, Receive
<1>3. CASE HandleReverted
  BY <1>3, HandleRevertedInd
<1>4. CASE HandleOther
  <2>1. tasks' = tasks /\ table' = table
    BY <1>4 DEF HandleOther, Receive
  <2>2. /\ tainted \subseteq tainted'
        /\ \A b \in Blocks \ tainted' : b \in seen' <=> b \in seen
    BY <1>4 DEF HandleOther
  <2>3. \A t \in tasks' : TaskInv(t)'
    BY <2>1 DEF IndInv, TaskInv
  <2>4. \A b \in Blocks \ tainted' : BlockInv(b)'
    BY <2>1, <2>2, QuietStep DEF IndInv, OpenOn, StillToSend, HasRows
  <2> QED
    BY <2>3, <2>4 DEF IndInv
<1>5. CASE NotificationsClosed
  BY <1>5, UnchangedInd DEF NotificationsClosed
<1> QED
  BY <1>1, <1>2, <1>3, <1>4, <1>5 DEF Handle

\* What becomes of the tasks when one of them has run its statement.
LEMMA AfterSqlTasks ==
  ASSUME TypeOK, IndInv, NEW t \in tasks, t.sql = "todo", tasks' = AfterSql(t)
  PROVE  /\ \A s \in tasks' : TaskInv(s)'
         /\ \A b \in Blocks :
              IF b \in t.blocks
              THEN OpenOn(b) = {t} => OpenOn(b)' = {}
              ELSE /\ OpenOn(b)' = OpenOn(b)
                   /\ StillToSend(b)' => StillToSend(b)
<1> DEFINE u == [t EXCEPT !.sql = "done"]
<1>1. t \in Tasks /\ TaskInv(t)
  BY DEF TypeOK, IndInv
<1>2. /\ u.sql = "done" /\ u.kind = t.kind /\ u.blocks = t.blocks
      /\ u.logs = t.logs /\ u.unsent = t.unsent /\ u.id = t.id
  BY <1>1 DEF Tasks
<1>3. tasks' \subseteq (tasks \ {t}) \cup {u} /\ tasks \ {t} \subseteq tasks'
  BY DEF AfterSql
<1> HIDE DEF u
<1>4. \A s \in tasks' : TaskInv(s)'
  <2>1. TaskInv(u)
    BY <1>1, <1>2 DEF TaskInv
  <2>2. \A s \in tasks' : TaskInv(s)
    BY <1>3, <2>1 DEF IndInv
  <2> QED
    BY <2>2 DEF TaskInv
<1>5. ASSUME NEW b \in Blocks, b \in t.blocks, OpenOn(b) = {t}
      PROVE  OpenOn(b)' = {}
  BY <1>2, <1>3, <1>5 DEF OpenOn
<1>6. ASSUME NEW b \in Blocks, b \notin t.blocks
      PROVE  /\ OpenOn(b)' = OpenOn(b)
             /\ StillToSend(b)' => StillToSend(b)
  BY <1>1, <1>2, <1>3, <1>6 DEF OpenOn, StillToSend, TaskInv
<1> QED
  BY <1>4, <1>5, <1>6

\* An open statement is the only one on each untainted block of its task.
LEMMA OnlyOpen ==
  ASSUME IndInv, NEW t \in tasks, t.sql = "todo", NEW b \in Blocks \ tainted,
         b \in t.blocks
  PROVE  OpenOn(b) = {t} /\ BlockInv(b)
BY DEF IndInv, BlockInv, OpenOn

LEMMA RunInsertInd ==
  ASSUME TypeOK, IndInv, RunInsert
  PROVE  IndInv'
<1>1. PICK t \in tasks :
        /\ t.kind = "insert" /\ t.sql = "todo"
        /\ table' = BulkInsert(table, t.logs) /\ tasks' = AfterSql(t)
  BY DEF RunInsert
<1>2. seen' = seen /\ tainted' = tainted
  BY DEF RunInsert
<1>3. /\ t.logs = CollectedLogs(t.id, t.blocks)
      /\ t.id \in Nat /\ t.blocks \in SUBSET Blocks
  BY <1>1 DEF IndInv, TaskInv, TypeOK, Tasks
<1>4. ASSUME NEW b \in Blocks \ tainted'
      PROVE  BlockInv(b)'
  <2>1. CASE b \in t.blocks
    <3>1. OpenOn(b) = {t} /\ BlockInv(b) /\ OpenOn(b)' = {}
      BY <1>1, <1>2, <2>1, OnlyOpen, AfterSqlTasks
    <3>2. b \in seen' /\ Live(table, b) = {}
      BY <1>1, <1>2, <3>1 DEF BlockInv
    <3>3. StoredOnce(b)'
      <4> DEFINE T == BulkInsert(table, CollectedLogs(t.id, t.blocks))
      <4>1. table \in SUBSET Row /\ table' = T
        BY <1>1, <1>3 DEF TypeOK
      <4>2. /\ \A l \in ShadowLogs(b) : \E r \in Live(T, b) : r.log = l
            /\ \A r, q \in Live(T, b) : r.log = q.log => r = q
        BY <1>3, <2>1, <3>2, <4>1, InsertedBlock
      <4> HIDE DEF T
      <4> QED
        BY <4>1, <4>2 DEF StoredOnce
    <3>4. HasRows(b)'
      BY <3>3 DEF StoredOnce, HasRows, Live
    <3> QED
      BY <3>1, <3>2, <3>3, <3>4, ClosedStep
  <2>2. CASE b \notin t.blocks
    <3>1. OpenOn(b)' = OpenOn(b) /\ (StillToSend(b)' => StillToSend(b))
      BY <1>1, <2>2, AfterSqlTasks
    <3>2. Live(table', b) = Live(table, b)
      BY <1>1, <1>3, <2>2, UninsertedBlock
    <3>3. HasRows(b) => HasRows(b)'
      BY <1>1 DEF HasRows, BulkInsert
    <3>4. BlockInv(b)
      BY <1>2 DEF IndInv
    <3> QED
      BY <1>2, <3>1, <3>2, <3>3, <3>4, QuietStep
  <2> QED
    BY <2>1, <2>2
<1> QED
  BY <1>1, <1>4, AfterSqlTasks DEF IndInv

LEMMA RunEmptyInsertInd ==
  ASSUME TypeOK, IndInv, RunEmptyInsert
  PROVE  IndInv'
<1>1. PICK t \in tasks :
        t.kind = "insert" /\ t.sql = "todo" /\ t.logs = {} /\ tasks' = AfterSql(t)
  BY DEF RunEmptyInsert, ValidInsert
<1>2. seen' = seen /\ tainted' = tainted /\ table' = table
  BY DEF RunEmptyInsert
<1>3. ASSUME NEW b \in Blocks \ tainted'
      PROVE  BlockInv(b)'
  <2>1. CASE b \in t.blocks
    <3>1. OpenOn(b) = {t} /\ BlockInv(b) /\ OpenOn(b)' = {}
      BY <1>1, <1>2, <2>1, OnlyOpen, AfterSqlTasks
    <3>2. b \in seen' /\ Live(table, b) = {}
      BY <1>1, <1>2, <3>1 DEF BlockInv
    <3>3. ShadowLogs(b) = {}
      <4>1. t.logs = CollectedLogs(t.id, t.blocks) /\ t.id \in Nat
        BY <1>1 DEF IndInv, TaskInv, TypeOK, Tasks
      <4>2. ASSUME NEW l \in ShadowLogs(b)
            PROVE  [batch |-> t.id, block |-> b, log |-> l, removed |-> FALSE] \in t.logs
        BY <2>1, <4>1, ShadowLogsType DEF CollectedLogs
      <4> QED
        BY <1>1, <4>2
    <3>4. StoredOnce(b)' /\ HasRows(b)'
      BY <1>2, <3>2, <3>3 DEF StoredOnce, HasRows
    <3> QED
      BY <3>1, <3>2, <3>4, ClosedStep
  <2>2. CASE b \notin t.blocks
    <3>1. OpenOn(b)' = OpenOn(b) /\ (StillToSend(b)' => StillToSend(b))
      BY <1>1, <2>2, AfterSqlTasks
    <3>2. BlockInv(b) /\ (HasRows(b) => HasRows(b)')
      BY <1>2 DEF IndInv, HasRows
    <3> QED
      BY <1>2, <3>1, <3>2, QuietStep
  <2> QED
    BY <2>1, <2>2
<1> QED
  BY <1>1, <1>3, AfterSqlTasks DEF IndInv

LEMMA RunMarkInd ==
  ASSUME TypeOK, IndInv, RunMark
  PROVE  IndInv'
<1>1. PICK t \in tasks :
        /\ t.kind = "mark" /\ t.sql = "todo" /\ tasks' = AfterSql(t)
        /\ \E c \in t.blocks : table' = HandleBlockReorg(table, c)
  BY DEF RunMark
<1>2. PICK c \in Blocks : t.blocks = {c} /\ table' = HandleBlockReorg(table, c)
  BY <1>1 DEF IndInv, TaskInv
<1>3. seen' = seen /\ tainted' = tainted
  BY DEF RunMark
<1>4. ASSUME NEW b \in Blocks, HasRows(b)
      PROVE  HasRows(b)'
  <2>1. \A r \in table : \E q \in table' : q.block = r.block /\ q.log = r.log
    BY <1>2, MarkKeepsRows DEF TypeOK
  <2> QED
    BY <1>4, <2>1 DEF HasRows
<1>5. ASSUME NEW b \in Blocks \ tainted'
      PROVE  BlockInv(b)'
  <2>1. CASE b = c
    <3>1. OpenOn(b) = {t} /\ BlockInv(b) /\ OpenOn(b)' = {}
      BY <1>1, <1>2, <1>3, <2>1, OnlyOpen, AfterSqlTasks
    <3>2. b \notin seen' /\ StoredOnce(b)
      BY <1>1, <1>3, <3>1 DEF BlockInv
    <3>3. HasRows(b)'
      BY <1>4, <3>2 DEF StoredOnce, HasRows, Live
    <3>4. Live(table', b) = {}
      BY <1>2, <2>1, MarkedBlock DEF TypeOK
    <3> QED
      BY <3>1, <3>2, <3>3, <3>4, ClosedStep
  <2>2. CASE b # c
    <3>1. OpenOn(b)' = OpenOn(b) /\ (StillToSend(b)' => StillToSend(b))
      BY <1>1, <1>2, <2>2, AfterSqlTasks
    <3>2. Live(table', b) = Live(table, b)
      BY <1>2, <2>2, UnmarkedBlock DEF TypeOK
    <3>3. BlockInv(b)
      BY <1>3 DEF IndInv
    <3> QED
      BY <1>3, <1>4, <3>1, <3>2, <3>3, QuietStep
  <2> QED
    BY <2>1, <2>2
<1> QED
  BY <1>1, <1>5, AfterSqlTasks DEF IndInv

LEMMA SqlFailsInd ==
  ASSUME TypeOK, IndInv, SqlFails
  PROVE  IndInv'
<1>1. PICK t \in tasks :
        /\ t.sql = "todo" /\ tasks' = AfterSql(t)
        /\ tainted' = tainted \cup t.blocks
  BY DEF SqlFails
<1>2. seen' = seen /\ table' = table
  BY DEF SqlFails
<1>3. ASSUME NEW b \in Blocks \ tainted'
      PROVE  BlockInv(b)'
  <2>1. OpenOn(b)' = OpenOn(b) /\ (StillToSend(b)' => StillToSend(b))
    BY <1>1, AfterSqlTasks
  <2>2. BlockInv(b) /\ (HasRows(b) => HasRows(b)')
    BY <1>1, <1>2 DEF IndInv, HasRows
  <2> QED
    BY <1>2, <2>1, <2>2, QuietStep
<1> QED
  BY <1>1, <1>3, AfterSqlTasks DEF IndInv

LEMMA AnnounceInd ==
  ASSUME TypeOK, IndInv, Announce
  PROVE  IndInv'
<1>1. PICK t \in tasks : \E c \in t.unsent :
        /\ t.sql = "done"
        /\ tasks' = (tasks \ {t}) \cup
             (IF t.unsent = {c} THEN {} ELSE {[t EXCEPT !.unsent = t.unsent \ {c}]})
  BY DEF Announce
<1>2. PICK c \in t.unsent :
        tasks' = (tasks \ {t}) \cup
          (IF t.unsent = {c} THEN {} ELSE {[t EXCEPT !.unsent = t.unsent \ {c}]})
  BY <1>1
<1> DEFINE u == [t EXCEPT !.unsent = t.unsent \ {c}]
<1>3. t \in Tasks /\ TaskInv(t)
  BY DEF TypeOK, IndInv
<1>4. /\ u.sql = "done" /\ u.kind = t.kind /\ u.blocks = t.blocks
      /\ u.logs = t.logs /\ u.id = t.id /\ u.unsent \subseteq t.unsent
  BY <1>1, <1>3 DEF Tasks
<1>5. tasks' \subseteq (tasks \ {t}) \cup {u} /\ tasks \ {t} \subseteq tasks'
  BY <1>2
<1>6. UNCHANGED <<table, seen, tainted>>
  BY DEF Announce
<1> HIDE DEF u
<1>7. \A s \in tasks' : TaskInv(s)'
  <2>1. TaskInv(u)
    BY <1>3, <1>4 DEF TaskInv
  <2>2. \A s \in tasks' : TaskInv(s)
    BY <1>5, <2>1 DEF IndInv
  <2> QED
    BY <2>2 DEF TaskInv
<1>8. ASSUME NEW b \in Blocks \ tainted'
      PROVE  BlockInv(b)'
  <2>1. OpenOn(b)' = OpenOn(b)
    BY <1>1, <1>4, <1>5 DEF OpenOn
  <2>2. StillToSend(b)' => StillToSend(b)
    BY <1>1, <1>4, <1>5 DEF StillToSend
  <2>3. BlockInv(b) /\ (HasRows(b) => HasRows(b)')
    BY <1>6 DEF IndInv, HasRows
  <2> QED
    BY <1>6, <2>1, <2>2, <2>3, QuietStep
<1> QED
  BY <1>7, <1>8 DEF IndInv

LEMMA CrashInd ==
  ASSUME IndInv, Crash
  PROVE  IndInv'
<1>1. tasks' = {} /\ table' = table /\ seen' = seen
      /\ tainted' = tainted \cup {b \in Blocks : Busy(b)}
  BY DEF Crash
<1>2. ASSUME NEW b \in Blocks \ tainted'
      PROVE  BlockInv(b)'
  <2>1. OpenOn(b) = {} /\ OpenOn(b)' = {} /\ ~StillToSend(b)'
    BY <1>1 DEF Busy, OpenOn, StillToSend
  <2>2. BlockInv(b) /\ (HasRows(b) => HasRows(b)')
    BY <1>1 DEF IndInv, HasRows
  <2> QED
    BY <1>1, <2>1, <2>2, QuietStep
<1> QED
  BY <1>1, <1>2 DEF IndInv

LEMMA NextInd ==
  ASSUME TypeOK, IndInv, [Next]_vars
  PROVE  IndInv'
<1>1. CASE Environment
  <2>1. UNCHANGED exex
    BY <1>1 DEF Environment, Commit, Revert, Reorg, Emit
  <2> QED
    BY <2>1, UnchangedInd DEF exex
<1>2. CASE RunTask
  BY <1>2, RunInsertInd, RunEmptyInsertInd, RunMarkInd, SqlFailsInd, AnnounceInd
  DEF RunTask
<1>3. CASE UNCHANGED vars
  BY <1>3, UnchangedInd DEF vars, exex
<1> QED
  BY <1>1, <1>2, <1>3, HandleInd, CrashInd DEF Next

\* Of a block nothing went wrong with, there is at most one open statement; an
\* INSERT finds none of its rows live, an UPDATE finds each of its logs once, and
\* a hash is sent only when the rows are in the table.
THEOREM Inductive == Spec => []IndInv
<1>1. Init => IndInv
  BY InitInd
<1>2. TypeOK /\ IndInv /\ [Next]_vars => IndInv'
  BY NextInd
<1> QED
  BY <1>1, <1>2, TypeCorrect, PTL DEF Spec

-----------------------------------------------------------------------------
(***************************************************************************)
(* What follows from it.                                                   *)
(***************************************************************************)
\* Whatever the order in which the tasks run, and whatever fails or crashes, the
\* live rows of every untainted block are each of its shadow logs once, or none
\* when it has been reverted or was never committed.
THEOREM Consistent == Spec => []IndexConsistent
<1>1. IndInv => IndexConsistent
  BY DEF IndInv, BlockInv, IndexConsistent, OpenOn, Busy
<1> QED
  BY <1>1, Inductive, PTL

\* Only the two statements touch the table.
LEMMA TableKept ==
  ASSUME [Next]_vars, ~RunInsert, ~RunMark
  PROVE  table' = table
<1>1. CASE Environment
  BY <1>1 DEF Environment, Commit, Revert, Reorg, Emit, exex
<1>2. CASE Handle
  BY <1>2 DEF Handle, HandleCommitted, HandleCommittedFails, HandleReverted,
              HandleOther, NotificationsClosed, Receive
<1>3. CASE RunTask
  BY <1>3 DEF RunTask, RunEmptyInsert, SqlFails, Announce
<1>4. CASE Crash
  BY <1>4 DEF Crash
<1>5. CASE UNCHANGED vars
  BY <1>5 DEF vars, exex
<1> QED
  BY <1>1, <1>2, <1>3, <1>4, <1>5 DEF Next

\* Every row is still there after a step, but for its flag.
LEMMA NextKeepsRows ==
  ASSUME TypeOK, [Next]_vars, NEW r \in table
  PROVE  r \in table' \/ (~r.removed /\ [r EXCEPT !.removed = TRUE] \in table')
<1>1. CASE RunInsert
  BY <1>1 DEF RunInsert, BulkInsert
<1>2. CASE RunMark
  <2>1. PICK b : table' = HandleBlockReorg(table, b)
    BY <1>2 DEF RunMark
  <2>2. table \in SUBSET Row
    BY DEF TypeOK
  <2>3. PICK q \in HandleBlockReorg(table, b) :
          q = r \/ (~r.removed /\ q = [r EXCEPT !.removed = TRUE])
    BY <2>2, MarkKeepsRows
  <2> QED
    BY <2>1, <2>3
<1>3. CASE ~RunInsert /\ ~RunMark
  BY <1>3, TableKept
<1> QED
  BY <1>1, <1>2, <1>3

\* Rows are never deleted and never come back to life.
THEOREM Monotone == Spec => RowsOnlyGetRemoved
<1> DEFINE Kept == \A r \in table :
      r \in table' \/ (~r.removed /\ [r EXCEPT !.removed = TRUE] \in table')
<1>1. TypeOK /\ [Next]_vars => [Kept]_vars
  BY NextKeepsRows
<1> QED
  BY <1>1, TypeCorrect, PTL DEF Spec, RowsOnlyGetRemoved

\* Every row is a shadow log of its block.
LoggedInv == \A r \in table : r.log \in ShadowLogs(r.block)

LEMMA StoredLogs == Spec => []LoggedInv
<1>1. Init => LoggedInv
  BY DEF Init, LoggedInv
<1>2. TypeOK /\ IndInv /\ LoggedInv /\ [Next]_vars => LoggedInv'
  <2> SUFFICES ASSUME TypeOK, IndInv, LoggedInv, [Next]_vars, NEW r \in table'
               PROVE  r.log \in ShadowLogs(r.block)
    BY DEF LoggedInv, ShadowLogs
  <2>1. CASE RunInsert
    <3>1. PICK t \in tasks : t.kind = "insert" /\ table' = table \cup t.logs
      BY <2>1 DEF RunInsert, BulkInsert
    <3>2. t.logs = CollectedLogs(t.id, t.blocks)
      BY <3>1 DEF IndInv, TaskInv
    <3> QED
      BY <3>1, <3>2 DEF LoggedInv, CollectedLogs
  <2>2. CASE RunMark
    <3>1. PICK b : table' = HandleBlockReorg(table, b)
      BY <2>2 DEF RunMark
    <3>2. PICK q \in table : r.block = q.block /\ r.log = q.log
      BY <3>1 DEF HandleBlockReorg, TypeOK, Row
    <3> QED
      BY <3>2 DEF LoggedInv
  <2>3. CASE ~RunInsert /\ ~RunMark
    BY <2>3, TableKept DEF LoggedInv
  <2> QED
    BY <2>1, <2>2, <2>3
<1> QED
  BY <1>1, <1>2, TypeCorrect, Inductive, PTL DEF Spec

\* The hash that Announce appends is the one the property speaks of.
LEMMA AppendedHash ==
  ASSUME NEW s \in Seq(Blocks), NEW b \in Blocks, NEW c \in Blocks,
         Append(s, b) = Append(s, c)
  PROVE  b = c
<1>1. Append(s, b)[Len(s) + 1] = b /\ Append(s, c)[Len(s) + 1] = c
  OBVIOUS
<1> QED
  BY <1>1

\* A subscriber that is told of an untainted block finds all its rows.
THEOREM Visible == Spec => AnnouncedRowsVisible
<1> DEFINE Seen == \A b \in Blocks :
      (sent' = Append(sent, b) /\ b \notin tainted) => HasRows(b)
<1>1. TypeOK /\ IndInv /\ [Next]_vars => [Seen]_vars
  <2> SUFFICES ASSUME TypeOK, IndInv, Next, NEW b \in Blocks \ tainted,
                      sent' = Append(sent, b)
               PROVE  HasRows(b)
    BY DEF vars
  <2>1. sent \in Seq(Blocks) /\ sent' # sent /\ sent' # <<>>
    BY DEF TypeOK
  <2>2. Announce
    <3>1. CASE Environment
      BY <2>1, <3>1 DEF Environment, Commit, Revert, Reorg, Emit, exex
    <3>2. CASE Handle
      BY <2>1, <3>2 DEF Handle, HandleCommitted, HandleCommittedFails,
                        HandleReverted, HandleOther, NotificationsClosed, Receive
    <3>3. CASE RunTask
      BY <2>1, <3>3 DEF RunTask, RunInsert, RunEmptyInsert, RunMark, SqlFails
    <3>4. CASE Crash
      BY <2>1, <3>4 DEF Crash
    <3> QED
      BY <3>1, <3>2, <3>3, <3>4 DEF Next
  <2>3. PICK t \in tasks : \E c \in t.unsent : t.sql = "done" /\ sent' = Append(sent, c)
    BY <2>2 DEF Announce
  <2>4. PICK c \in t.unsent : t.sql = "done" /\ sent' = Append(sent, c)
    BY <2>3
  <2>5. c \in Blocks
    BY DEF TypeOK, Tasks
  <2>6. c = b
    BY <2>1, <2>4, <2>5, AppendedHash
  <2> QED
    BY <2>4, <2>6 DEF IndInv, BlockInv
<1> QED
  BY <1>1, TypeCorrect, Inductive, PTL DEF Spec, AnnouncedRowsVisible

=============================================================================
