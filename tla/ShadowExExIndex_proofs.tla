----------------------- MODULE ShadowExExIndex_proofs -----------------------
(***************************************************************************)
(* Proof that ShadowExEx implements ShadowIndex, for every block tree,     *)
(* every set of shadowed logs and every bound.                             *)
(***************************************************************************)
EXTENDS ShadowExExIndex, ShadowExEx_proofs

-----------------------------------------------------------------------------
(***************************************************************************)
(* An invariant more: rows and announcements are those of shadow logs.     *)
(***************************************************************************)
Unsent(t) ==
  IF t.kind = "insert" THEN {b \in t.blocks : ShadowLogs(b) # {}} ELSE t.blocks

MappingInv ==
  /\ \A r \in table : r.log \in ShadowLogs(r.block)
  /\ \A t \in tasks : t.sql = "todo" => t.unsent = Unsent(t)

\* A task that is spawned has still to send what it will have changed.
LEMMA SpawnedUnsent ==
  ASSUME NEW id, NEW base, NEW B, NEW b
  PROVE  /\ InsertTask(id, base, B).unsent = Unsent(InsertTask(id, base, B))
         /\ MarkTask(id, b).unsent = Unsent(MarkTask(id, b))
BY DEF InsertTask, MarkTask, Unsent

\* A step that stores nothing and spawns nothing else keeps the invariant.
LEMMA MappingStep ==
  ASSUME MappingInv, table' = table,
         \A t \in tasks' \ tasks : t.sql = "todo" => t.unsent = Unsent(t)
  PROVE  MappingInv'
BY DEF MappingInv, Unsent

\* A task whose statement has run is no open task.
LEMMA AfterSqlOpen ==
  ASSUME TypeOK, NEW t \in tasks, tasks' = AfterSql(t), NEW s \in tasks' \ tasks
  PROVE  s.sql = "done" /\ s.unsent = t.unsent /\ t.unsent # {}
<1>1. t \in Tasks
  BY DEF TypeOK
<1>2. t.unsent # {} /\ s = [t EXCEPT !.sql = "done"]
  BY DEF AfterSql
<1> QED
  BY <1>1, <1>2 DEF Tasks

LEMMA NextMapping ==
  ASSUME TypeOK, IndInv, MappingInv, [Next]_vars
  PROVE  MappingInv'
<1>1. CASE Environment \/ UNCHANGED vars
  <2>1. UNCHANGED <<table, tasks>>
    BY <1>1 DEF Environment, Commit, Revert, Reorg, Emit, exex, vars
  <2> QED
    BY <2>1, MappingStep
<1>2. CASE Handle
  <2>1. table' = table
    BY <1>2 DEF Handle, HandleCommitted, HandleCommittedFails, HandleReverted,
                HandleOther, NotificationsClosed, Receive
  <2>2. ASSUME NEW t \in tasks' \ tasks
        PROVE  t.unsent = Unsent(t)
    <3>1. \/ \E id, base, B : t = InsertTask(id, base, B)
          \/ \E id, b : t = MarkTask(id, b)
      BY <1>2, <2>2 DEF Handle, HandleCommitted, HandleCommittedFails, HandleReverted,
                        HandleOther, NotificationsClosed, SpawnInsert
    <3> QED
      BY <3>1, SpawnedUnsent
  <2> QED
    BY <2>1, <2>2, MappingStep
<1>3. CASE RunInsert
  <2>1. PICK t \in tasks :
          /\ t.kind = "insert" /\ table' = BulkInsert(table, t.logs) /\ tasks' = AfterSql(t)
    BY <1>3 DEF RunInsert
  <2>2. t.logs = CollectedLogs(t.id, t.blocks)
    BY <2>1 DEF IndInv, TaskInv
  <2>3. \A r \in table' : r.log \in ShadowLogs(r.block)
    BY <2>1, <2>2 DEF MappingInv, BulkInsert, CollectedLogs
  <2>4. \A s \in tasks' : s.sql = "todo" => s.unsent = Unsent(s)
    BY <2>1, AfterSqlOpen DEF MappingInv
  <2> QED
    BY <2>3, <2>4 DEF MappingInv, Unsent
<1>4. CASE RunMark
  <2>1. PICK t \in tasks :
          /\ \E c \in t.blocks : table' = HandleBlockReorg(table, c)
          /\ tasks' = AfterSql(t)
    BY <1>4 DEF RunMark
  <2>2. \A r \in table' : r.log \in ShadowLogs(r.block)
    <3>1. PICK c : table' = HandleBlockReorg(table, c)
      BY <2>1
    <3> QED
      BY <3>1 DEF MappingInv, HandleBlockReorg, TypeOK, Row
  <2>3. \A s \in tasks' : s.sql = "todo" => s.unsent = Unsent(s)
    BY <2>1, AfterSqlOpen DEF MappingInv
  <2> QED
    BY <2>2, <2>3 DEF MappingInv, Unsent
<1>5. CASE RunEmptyInsert \/ SqlFails
  <2>1. PICK t \in tasks : tasks' = AfterSql(t)
    BY <1>5 DEF RunEmptyInsert, SqlFails
  <2>2. table' = table
    BY <1>5 DEF RunEmptyInsert, SqlFails
  <2> QED
    BY <2>1, <2>2, AfterSqlOpen, MappingStep
<1>6. CASE Announce
  <2>1. PICK t \in tasks, b \in Blocks :
          /\ t.sql = "done"
          /\ tasks' \subseteq tasks \cup {[t EXCEPT !.unsent = t.unsent \ {b}]}
    BY <1>6 DEF Announce, TypeOK, Tasks
  <2>2. t \in Tasks
    BY DEF TypeOK
  <2>3. \A s \in tasks' \ tasks : s.sql = "done"
    BY <2>1, <2>2 DEF Tasks
  <2> QED
    BY <1>6, <2>3, MappingStep DEF Announce
<1>7. CASE Crash
  BY <1>7, MappingStep DEF Crash
<1> QED
  BY <1>1, <1>2, <1>3, <1>4, <1>5, <1>6, <1>7 DEF Next, RunTask

LEMMA MappingInductive == Spec => []MappingInv
<1>1. Init => MappingInv
  BY DEF Init, MappingInv
<1>2. TypeOK /\ IndInv /\ MappingInv /\ [Next]_vars => MappingInv'
  BY NextMapping
<1> QED
  BY <1>1, <1>2, TypeCorrect, Inductive, PTL DEF Spec

-----------------------------------------------------------------------------
(***************************************************************************)
(* The refinement mapping.                                                 *)
(***************************************************************************)
\* A block is lost exactly when it is tainted.
LEMMA LostStatus ==
  ASSUME NEW b \in Blocks
  PROVE  /\ StatusOf(b) = "lost" <=> b \in tainted
         /\ StatusOf(b)' = "lost" <=> b \in tainted'
BY DEF StatusOf

\* The status of a block is a matter of its own rows.
LEMMA SameStatus ==
  ASSUME NEW b, RowsOf(b)' = RowsOf(b), b \in tainted' <=> b \in tainted
  PROVE  StatusOf(b)' = StatusOf(b)
<1>1. Live(table, b)' = Live(table, b)
  BY DEF Live, RowsOf
<1>2. StoredOnce(b)' <=> StoredOnce(b)
  BY <1>1 DEF StoredOnce
<1> QED
  BY <1>1, <1>2 DEF StatusOf

\* The abstract step that gives the blocks of S a status.
LEMMA BecomeIf ==
  ASSUME NEW S, NEW new,
         \A b \in Blocks :
           StatusOf(b)' = IF b \in S /\ StatusOf(b) # "lost" THEN new ELSE StatusOf(b)
  PROVE  Index!Become(S, new)
BY DEF Index!Become

LEMMA LostBlocks ==
  /\ Index!Lost = Blocks \cap tainted
  /\ Index!Lost' = Blocks \cap tainted'
BY LostStatus DEF Index!Lost

\* Where the table stays as it is, a status changes only when a block is lost.
LEMMA QuietBecome ==
  ASSUME table' = table, tainted \subseteq tainted'
  PROVE  Index!Become(Index!Lost', "lost")
<1>1. ASSUME NEW b \in Blocks, b \notin tainted' \/ b \in tainted
      PROVE  StatusOf(b)' = StatusOf(b)
  BY <1>1, SameStatus DEF RowsOf
<1>2. ASSUME NEW b \in Blocks
      PROVE  StatusOf(b)' = IF b \in Index!Lost' /\ StatusOf(b) # "lost"
                            THEN "lost" ELSE StatusOf(b)
  BY <1>1, LostStatus, LostBlocks
<1> QED
  BY <1>2, BecomeIf

\* A step that leaves table and announcements alone, and owes only what is lost.
LEMMA QuietRefines ==
  ASSUME table' = table, sent' = sent, tainted \subseteq tainted',
         Owed \subseteq Owed', Owed' \subseteq Owed \cup (Blocks \cap tainted')
  PROVE  Index!Next
<1>1. Index!Become(Index!Lost', "lost")
  BY QuietBecome
<1>2. Index!Lose
  BY <1>1, LostBlocks DEF Index!Lose
<1> QED
  BY <1>2 DEF Index!Next

\* A statement that has run adds its block hashes to what is owed.
LEMMA AfterSqlOwed ==
  ASSUME TypeOK, NEW t \in tasks, t.sql = "todo", tasks' = AfterSql(t)
  PROVE  Owed' = Owed \cup t.unsent
<1> DEFINE u == [t EXCEPT !.sql = "done"]
<1>1. t \in Tasks
  BY DEF TypeOK
<1>2. u.sql = "done" /\ u.unsent = t.unsent /\ t.unsent \subseteq Blocks
  BY <1>1 DEF Tasks
<1> HIDE DEF u
<1>3. tasks' = (tasks \ {t}) \cup (IF t.unsent = {} THEN {} ELSE {u})
  BY DEF AfterSql, u
<1> QED
  BY <1>2, <1>3 DEF Owed

\* A task that is spawned owes nothing yet.
LEMMA SpawnedOwed ==
  ASSUME NEW S, tasks' = tasks \cup S, \A t \in S : t.sql = "todo"
  PROVE  Owed' = Owed
BY DEF Owed
-----------------------------------------------------------------------------
(***************************************************************************)
(* Each step is a step of ShadowIndex, or leaves its variables alone.      *)
(***************************************************************************)
LEMMA HandleRefines ==
  ASSUME TypeOK, Handle
  PROVE  Index!Next
<1>1. table' = table /\ sent' = sent /\ tainted \subseteq tainted'
  BY DEF Handle, HandleCommitted, HandleCommittedFails, HandleReverted,
         HandleOther, NotificationsClosed, Receive, SpawnInsert
<1>2. \/ tasks' = tasks
      \/ \E id, base, B : tasks' = tasks \cup {InsertTask(id, base, B)}
      \/ \E id, B : tasks' = tasks \cup {MarkTask(id, b) : b \in B}
  BY DEF Handle, HandleCommitted, HandleCommittedFails, HandleReverted,
         HandleOther, NotificationsClosed, SpawnInsert
<1>3. Owed' = Owed
  <2>1. CASE tasks' = tasks
    BY <2>1 DEF Owed
  <2>2. CASE \E id, base, B : tasks' = tasks \cup {InsertTask(id, base, B)}
    <3>1. PICK id, base, B : tasks' = tasks \cup {InsertTask(id, base, B)}
      BY <2>2
    <3> DEFINE S == {InsertTask(id, base, B)}
    <3>2. tasks' = tasks \cup S /\ \A t \in S : t.sql = "todo"
      BY <3>1 DEF InsertTask
    <3> HIDE DEF S
    <3> QED
      BY <3>2, SpawnedOwed
  <2>3. CASE \E id, B : tasks' = tasks \cup {MarkTask(id, b) : b \in B}
    <3>1. PICK id, B : tasks' = tasks \cup {MarkTask(id, b) : b \in B}
      BY <2>3
    <3>2. \A t \in {MarkTask(id, b) : b \in B} : t.sql = "todo"
      BY DEF MarkTask
    <3> QED
      BY <3>1, <3>2, SpawnedOwed
  <2> QED
    BY <1>2, <2>1, <2>2, <2>3
<1> QED
  BY <1>1, <1>3, QuietRefines

\* The INSERT makes the logs of its blocks live at once: it finds none of them
\* live, and touches no other block.
LEMMA RunInsertRefines ==
  ASSUME TypeOK, IndInv, MappingInv, RunInsert
  PROVE  Index!Next
<1>1. PICK t \in tasks :
        /\ t.kind = "insert" /\ t.sql = "todo"
        /\ table' = BulkInsert(table, t.logs) /\ tasks' = AfterSql(t)
  BY DEF RunInsert
<1>2. sent' = sent /\ tainted' = tainted
  BY DEF RunInsert
<1>3. /\ t.logs = CollectedLogs(t.id, t.blocks)
      /\ t.id \in Nat /\ t.blocks \in SUBSET Blocks
  BY <1>1 DEF IndInv, TaskInv, TypeOK, Tasks
<1> DEFINE S == t.unsent
<1>4. S = {b \in t.blocks : ShadowLogs(b) # {}}
  BY <1>1 DEF MappingInv, Unsent
<1>5. S \in SUBSET {b \in Blocks : ShadowLogs(b) # {}}
  BY <1>3, <1>4
<1>6. Owed' = Owed \cup S
  BY <1>1, AfterSqlOwed
<1>7. ASSUME NEW b \in S, b \notin tainted
      PROVE  StatusOf(b) # "live" /\ StatusOf(b)' = "live"
  <2>1. b \in Blocks \ tainted /\ b \in t.blocks /\ ShadowLogs(b) # {}
    BY <1>3, <1>4, <1>7
  <2>2. OpenOn(b) = {t} /\ BlockInv(b)
    BY <1>1, <2>1, OnlyOpen
  <2>3. Live(table, b) = {}
    BY <1>1, <2>2 DEF BlockInv
  <2>4. StoredOnce(b)'
    <3> DEFINE T == BulkInsert(table, CollectedLogs(t.id, t.blocks))
    <3>1. table \in SUBSET Row /\ table' = T
      BY <1>1, <1>3 DEF TypeOK
    <3>2. /\ \A l \in ShadowLogs(b) : \E r \in Live(T, b) : r.log = l
          /\ \A r, q \in Live(T, b) : r.log = q.log => r = q
      BY <1>3, <2>1, <2>3, <3>1, InsertedBlock
    <3> HIDE DEF T
    <3> QED
      BY <3>1, <3>2 DEF StoredOnce
  <2>5. Live(table, b)' # {}
    BY <2>1, <2>4 DEF StoredOnce
  <2>6. RowsOf(b)' # {}
    BY <2>5 DEF Live, RowsOf
  <2>7. StatusOf(b) # "live"
    BY <1>7, <2>3 DEF StatusOf
  <2>8. StatusOf(b)' = "live"
    BY <1>2, <1>7, <2>4, <2>5, <2>6 DEF StatusOf
  <2> QED
    BY <2>7, <2>8
<1>8. ASSUME NEW b \in Blocks, b \notin S \/ b \in tainted
      PROVE  StatusOf(b)' = StatusOf(b)
  <2>1. CASE b \in tainted
    BY <1>2, <2>1, LostStatus
  <2>2. CASE b \notin S
    <3>1. RowsOf(b)' = RowsOf(b)
      BY <1>1, <1>3, <1>4, <2>2 DEF RowsOf, BulkInsert, CollectedLogs
    <3> QED
      BY <1>2, <3>1, SameStatus
  <2> QED
    BY <1>8, <2>1, <2>2
<1>9. Index!Become(S, "live")
  <2>1. ASSUME NEW b \in Blocks
        PROVE  StatusOf(b)' = IF b \in S /\ StatusOf(b) # "lost" THEN "live" ELSE StatusOf(b)
    BY <1>5, <1>7, <1>8, LostStatus
  <2> QED
    BY <2>1, BecomeIf
<1>10. \A b \in S : StatusOf(b) # "live"
  BY <1>5, <1>7, LostStatus
<1> HIDE DEF S
<1>11. Index!Store
  BY <1>2, <1>5, <1>6, <1>9, <1>10 DEF Index!Store
<1> QED
  BY <1>11 DEF Index!Next

\* The statement without rows is rejected; no block of its task has logs, so
\* nothing is owed for it.
LEMMA RunEmptyInsertRefines ==
  ASSUME TypeOK, IndInv, MappingInv, RunEmptyInsert
  PROVE  Index!Next
<1>1. PICK t \in tasks :
        /\ t.kind = "insert" /\ t.sql = "todo" /\ t.logs = {} /\ tasks' = AfterSql(t)
  BY DEF RunEmptyInsert, ValidInsert
<1>2. UNCHANGED <<table, sent, tainted>>
  BY DEF RunEmptyInsert
<1>3. t.logs = CollectedLogs(t.id, t.blocks) /\ t.id \in Nat /\ t.blocks \subseteq Blocks
  BY <1>1 DEF IndInv, TaskInv, TypeOK, Tasks
<1>4. ASSUME NEW b \in t.blocks, NEW l \in ShadowLogs(b)
      PROVE  [batch |-> t.id, block |-> b, log |-> l, removed |-> FALSE] \in t.logs
  BY <1>3, ShadowLogsType DEF CollectedLogs
<1>5. t.unsent = {}
  BY <1>1, <1>4 DEF MappingInv, Unsent
<1>6. Owed' = Owed
  BY <1>1, <1>5, AfterSqlOwed
<1> QED
  BY <1>2, <1>6, QuietRefines

\* A failed statement loses the blocks of its task, whose hashes are sent.
LEMMA SqlFailsRefines ==
  ASSUME TypeOK, IndInv, SqlFails
  PROVE  Index!Next
<1>1. PICK t \in tasks :
        t.sql = "todo" /\ tasks' = AfterSql(t) /\ tainted' = tainted \cup t.blocks
  BY DEF SqlFails
<1>2. table' = table /\ sent' = sent
  BY DEF SqlFails
<1>3. t.unsent \subseteq t.blocks /\ t.blocks \subseteq Blocks
  BY DEF IndInv, TaskInv, TypeOK, Tasks
<1>4. Owed' = Owed \cup t.unsent
  BY <1>1, AfterSqlOwed
<1>5. Owed \subseteq Owed' /\ Owed' \subseteq Owed \cup (Blocks \cap tainted')
  BY <1>1, <1>3, <1>4
<1> QED
  BY <1>1, <1>2, <1>5, QuietRefines

\* The UPDATE removes the logs of one block at once: it finds them live, or
\* something went wrong with the block before.
LEMMA RunMarkRefines ==
  ASSUME TypeOK, IndInv, MappingInv, RunMark
  PROVE  Index!Next
<1>1. PICK t \in tasks :
        /\ t.kind = "mark" /\ t.sql = "todo" /\ tasks' = AfterSql(t)
        /\ \E c \in t.blocks : table' = HandleBlockReorg(table, c)
  BY DEF RunMark
<1>2. PICK c \in Blocks : t.blocks = {c} /\ table' = HandleBlockReorg(table, c)
  BY <1>1 DEF IndInv, TaskInv
<1>3. sent' = sent /\ tainted' = tainted
  BY DEF RunMark
<1>4. t.unsent = {c}
  BY <1>1, <1>2 DEF MappingInv, Unsent
<1>5. Owed' = Owed \cup {c}
  BY <1>1, <1>4, AfterSqlOwed
<1>6. ASSUME NEW b \in Blocks, b # c
      PROVE  StatusOf(b)' = StatusOf(b)
  <2>1. RowsOf(b)' = RowsOf(b)
    BY <1>2, <1>6 DEF RowsOf, HandleBlockReorg, TypeOK, Row
  <2> QED
    BY <1>3, <2>1, SameStatus
<1>7. CASE c \in tainted
  <2>1. StatusOf(c) = "lost" /\ StatusOf(c)' = "lost"
    BY <1>3, <1>7, LostStatus
  <2>2. \A b \in Blocks :
          StatusOf(b)' = IF b \in {c} /\ StatusOf(b) # "lost" THEN "removed" ELSE StatusOf(b)
    BY <1>6, <2>1
  <2>3. Index!Become({c}, "removed") /\ \A b \in Blocks : StatusOf(b)' = StatusOf(b)
    BY <1>6, <2>1, <2>2, BecomeIf
  <2>4. Index!Remove
    BY <1>3, <1>5, <2>1, <2>3 DEF Index!Remove
  <2> QED
    BY <2>4 DEF Index!Next
<1>8. CASE c \notin tainted /\ ShadowLogs(c) = {}
  <2>1. RowsOf(c) = {}
    BY <1>8 DEF MappingInv, RowsOf
  <2>2. RowsOf(c)' = RowsOf(c)
    BY <1>2, <2>1 DEF RowsOf, HandleBlockReorg
  <2>3. \A b \in Blocks : StatusOf(b)' = StatusOf(b)
    BY <1>3, <1>6, <2>2, SameStatus
  <2>4. Index!Remove
    BY <1>3, <1>5, <1>8, <2>3 DEF Index!Remove
  <2> QED
    BY <2>4 DEF Index!Next
<1>9. CASE c \notin tainted /\ ShadowLogs(c) # {}
  <2>1. OpenOn(c) = {t} /\ BlockInv(c)
    BY <1>1, <1>2, <1>9, OnlyOpen
  <2>2. StoredOnce(c)
    BY <1>1, <2>1 DEF BlockInv
  <2>3. Live(table, c) # {}
    BY <1>9, <2>2 DEF StoredOnce
  <2>4. StatusOf(c) = "live"
    <3>1. RowsOf(c) # {}
      BY <2>3 DEF Live, RowsOf
    <3> QED
      BY <1>9, <2>2, <2>3, <3>1 DEF StatusOf
  <2>5. StatusOf(c)' = "removed"
    <3>1. Live(table, c)' = {}
      BY <1>2, MarkedBlock DEF TypeOK, Live
    <3>2. PICK r \in table : r.block = c
      BY <2>3 DEF Live
    <3>3. RowsOf(c)' # {}
      BY <1>2, <3>2, MarkKeepsRows DEF TypeOK, RowsOf
    <3> QED
      BY <1>3, <1>9, <3>1, <3>3 DEF StatusOf
  <2>6. \A b \in Blocks :
          StatusOf(b)' = IF b \in {c} /\ StatusOf(b) # "lost" THEN "removed" ELSE StatusOf(b)
    BY <1>6, <2>4, <2>5
  <2>7. Index!Become({c}, "removed")
    BY <2>6, BecomeIf
  <2>8. Index!Remove
    BY <1>3, <1>5, <1>9, <2>4, <2>7 DEF Index!Remove
  <2> QED
    BY <2>8 DEF Index!Next
<1> QED
  BY <1>7, <1>8, <1>9

\* A send tells the subscribers of a block that is owed and, if it has logs,
\* has been stored.
LEMMA AnnounceRefines ==
  ASSUME TypeOK, IndInv, Announce
  PROVE  Index!Next
<1>1. PICK t \in tasks : \E b \in t.unsent :
        /\ t.sql = "done" /\ sent' = Append(sent, b)
        /\ tasks' = (tasks \ {t}) \cup
             (IF t.unsent = {b} THEN {} ELSE {[t EXCEPT !.unsent = t.unsent \ {b}]})
  BY DEF Announce
<1>2. PICK b \in t.unsent :
        /\ t.sql = "done" /\ sent' = Append(sent, b)
        /\ tasks' = (tasks \ {t}) \cup
             (IF t.unsent = {b} THEN {} ELSE {[t EXCEPT !.unsent = t.unsent \ {b}]})
  BY <1>1
<1>3. UNCHANGED <<table, tainted>>
  BY DEF Announce
<1> DEFINE u == [t EXCEPT !.unsent = t.unsent \ {b}]
<1>4. t \in Tasks
  BY DEF TypeOK
<1>5. b \in Owed
  BY <1>2, <1>4 DEF Owed, Tasks
<1>6. u.sql = "done" /\ u.unsent = t.unsent \ {b}
  BY <1>2, <1>4 DEF Tasks
<1> HIDE DEF u
<1>7. tasks' = (tasks \ {t}) \cup (IF t.unsent = {b} THEN {} ELSE {u})
  BY <1>2 DEF u
<1>8. Owed' \in {Owed, Owed \ {b}}
  <2>1. Owed' \subseteq Owed
    BY <1>2, <1>6, <1>7 DEF Owed
  <2>2. Owed \ {b} \subseteq Owed'
    BY <1>2, <1>6, <1>7 DEF Owed
  <2> QED
    BY <2>1, <2>2
<1>9. \A c \in Blocks : StatusOf(c)' = StatusOf(c)
  BY <1>3, SameStatus DEF RowsOf
<1>10. ShadowLogs(b) # {} => StatusOf(b) # "none"
  <2>1. b \in Blocks
    BY <1>4 DEF Tasks
  <2>2. CASE b \in tainted
    BY <2>1, <2>2, LostStatus
  <2>3. CASE b \notin tainted
    <3>1. HasRows(b)
      BY <1>2, <2>1, <2>3 DEF IndInv, BlockInv
    <3> QED
      BY <2>3, <3>1 DEF HasRows, RowsOf, StatusOf
  <2> QED
    BY <2>2, <2>3
<1>11. Index!Tell
  BY <1>2, <1>5, <1>8, <1>9, <1>10 DEF Index!Tell, Owed
<1> QED
  BY <1>11 DEF Index!Next

\* The process that dies takes its tasks and its channel along.
LEMMA CrashRefines ==
  ASSUME Crash
  PROVE  Index!Next
<1>1. Owed' = {}
  BY DEF Crash, Owed
<1>2. table' = table /\ sent' = <<>> /\ tainted \subseteq tainted'
  BY DEF Crash
<1>3. Index!Become(Index!Lost', "lost")
  BY <1>2, QuietBecome
<1> QED
  BY <1>1, <1>2, <1>3 DEF Index!Restart, Index!Next

LEMMA UnchangedRefines ==
  ASSUME UNCHANGED <<table, tasks, tainted, sent>>
  PROVE  UNCHANGED Index!vars
<1>1. \A b \in Blocks : StatusOf(b)' = StatusOf(b)
  BY SameStatus DEF RowsOf
<1>2. Owed' = Owed
  BY DEF Owed
<1> QED
  BY <1>1, <1>2 DEF Index!vars

LEMMA NextRefines ==
  ASSUME TypeOK, IndInv, MappingInv, [Next]_vars
  PROVE  [Index!Next]_(Index!vars)
<1>1. CASE Environment \/ UNCHANGED vars
  <2>1. UNCHANGED <<table, tasks, tainted, sent>>
    BY <1>1 DEF Environment, Commit, Revert, Reorg, Emit, exex, vars
  <2> QED
    BY <2>1, UnchangedRefines
<1>2. CASE Handle
  BY <1>2, HandleRefines
<1>3. CASE RunTask
  BY <1>3, RunInsertRefines, RunEmptyInsertRefines, RunMarkRefines, SqlFailsRefines,
     AnnounceRefines DEF RunTask
<1>4. CASE Crash
  BY <1>4, CrashRefines
<1> QED
  BY <1>1, <1>2, <1>3, <1>4 DEF Next

LEMMA InitRefines ==
  ASSUME Init
  PROVE  Index!Init
<1>1. ASSUME NEW b \in Blocks
      PROVE  StatusOf(b) = "none"
  <2>1. b \notin tainted /\ RowsOf(b) = {} /\ Live(table, b) = {}
    BY DEF Init, RowsOf, Live
  <2> QED
    BY <2>1 DEF StatusOf
<1>2. Owed = {} /\ sent = <<>>
  BY DEF Init, Owed
<1> QED
  BY <1>1, <1>2 DEF Index!Init

\* The notification loop, its tasks and the table implement the abstract index,
\* for every block tree, every set of shadowed logs and whatever interleavings,
\* failed statements and crashes there are.
THEOREM Implements == Spec => ImplementsIndex
<1>1. Init => Index!Init
  BY InitRefines
<1>2. TypeOK /\ IndInv /\ MappingInv /\ [Next]_vars => [Index!Next]_(Index!vars)
  BY NextRefines
<1> QED
  BY <1>1, <1>2, TypeCorrect, Inductive, MappingInductive, PTL
  DEF Spec, ImplementsIndex, Index!Spec

=============================================================================
