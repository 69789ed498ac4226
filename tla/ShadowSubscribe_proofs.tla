----------------------- MODULE ShadowSubscribe_proofs -----------------------
(***************************************************************************)
(* Proofs about subscriptions beside the ExEx, for every set of clients    *)
(* and parameters, every capacity of the channel, and every block tree.    *)
(***************************************************************************)
EXTENDS ShadowSubscribe, ShadowExEx_proofs

-----------------------------------------------------------------------------
(***************************************************************************)
(* Rows are unique: the number of the notification that inserted a row,    *)
(* its block and its log tell it from every other.                         *)
(***************************************************************************)
OpenInsert(t) == t.kind = "insert" /\ t.sql = "todo"

UniqueInv ==
  /\ \A r \in table : r.batch < handled
  /\ \A r, q \in table : SameRow(r, q) => r = q
  /\ \A t \in tasks : OpenInsert(t) => t.id < handled /\ \A r \in table : r.batch # t.id
  /\ \A t, s \in tasks : (OpenInsert(t) /\ OpenInsert(s) /\ t.id = s.id) => t = s

\* A step that stores nothing, and spawns at most one INSERT.
LEMMA QuietUnique ==
  ASSUME TypeOK, UniqueInv, table' = table, handled' \in {handled, handled + 1},
         \A t \in tasks' \ tasks :
           OpenInsert(t) => t.id = handled /\ handled' = handled + 1,
         \A t, s \in tasks' \ tasks : (OpenInsert(t) /\ OpenInsert(s)) => t = s
  PROVE  UniqueInv'
<1>1. handled \in Nat /\ \A r \in table : r.batch \in Nat
  BY DEF TypeOK, Row
<1>2. \A r \in table' : r.batch < handled'
  BY <1>1 DEF UniqueInv
<1>3. \A r, q \in table' : SameRow(r, q) => r = q
  BY DEF UniqueInv
<1>4. ASSUME NEW t \in tasks', OpenInsert(t)
      PROVE  t.id < handled' /\ \A r \in table' : r.batch # t.id
  <2>1. CASE t \in tasks
    <3>1. t.id \in Nat /\ t.id < handled /\ \A r \in table : r.batch # t.id
      BY <1>4, <2>1 DEF UniqueInv, TypeOK, Tasks
    <3> QED
      BY <1>1, <3>1
  <2>2. CASE t \notin tasks
    BY <1>1, <1>4, <2>2 DEF UniqueInv
  <2> QED
    BY <2>1, <2>2
<1>5. ASSUME NEW t \in tasks', NEW s \in tasks', OpenInsert(t), OpenInsert(s), t.id = s.id
      PROVE  t = s
  <2>1. \A u \in tasks : OpenInsert(u) => u.id # handled
    BY <1>1 DEF UniqueInv
  <2>2. CASE t \in tasks /\ s \in tasks
    BY <1>5, <2>2 DEF UniqueInv
  <2>3. CASE t \notin tasks /\ s \notin tasks
    BY <1>5, <2>3
  <2>4. CASE t \in tasks <=> s \notin tasks
    BY <1>5, <2>1, <2>4
  <2> QED
    BY <2>2, <2>3, <2>4
<1> QED
  BY <1>2, <1>3, <1>4, <1>5 DEF UniqueInv

\* No task is spawned, nor opened again.
LEMMA ClosedUnique ==
  ASSUME TypeOK, UniqueInv, UNCHANGED <<table, handled>>,
         \A t \in tasks' \ tasks : ~OpenInsert(t)
  PROVE  UniqueInv'
BY QuietUnique

LEMMA AfterSqlClosed ==
  ASSUME TypeOK, NEW t \in tasks, tasks' = AfterSql(t), NEW s \in tasks' \ tasks
  PROVE  ~OpenInsert(s)
<1>1. t \in Tasks /\ s = [t EXCEPT !.sql = "done"]
  BY DEF AfterSql, TypeOK
<1> QED
  BY <1>1 DEF Tasks, OpenInsert

LEMMA HandleUnique ==
  ASSUME TypeOK, UniqueInv, Handle
  PROVE  UniqueInv'
<1>1. table' = table /\ handled' \in {handled, handled + 1}
  BY DEF Handle, HandleCommitted, HandleCommittedFails, HandleReverted, HandleOther,
         NotificationsClosed, Receive
<1>2. \/ tasks' = tasks
      \/ /\ handled' = handled + 1
         /\ \E base, B : tasks' = tasks \cup {InsertTask(handled, base, B)}
      \/ \E B : tasks' = tasks \cup {MarkTask(handled, b) : b \in B}
  BY DEF Handle, HandleCommitted, HandleCommittedFails, HandleReverted, HandleOther,
         NotificationsClosed, Receive, SpawnInsert
<1>3. CASE tasks' = tasks
  BY <1>1, <1>3, QuietUnique
<1>4. CASE /\ handled' = handled + 1
           /\ \E base, B : tasks' = tasks \cup {InsertTask(handled, base, B)}
  <2>1. PICK base, B : tasks' = tasks \cup {InsertTask(handled, base, B)}
    BY <1>4
  <2>2. \A t \in tasks' \ tasks : t = InsertTask(handled, base, B)
    BY <2>1
  <2>3. InsertTask(handled, base, B).id = handled
    BY DEF InsertTask
  <2> QED
    BY <1>1, <1>4, <2>2, <2>3, QuietUnique
<1>5. CASE \E B : tasks' = tasks \cup {MarkTask(handled, b) : b \in B}
  <2>1. \A t \in tasks' \ tasks : ~OpenInsert(t)
    BY <1>5 DEF MarkTask, OpenInsert
  <2> QED
    BY <1>1, <2>1, QuietUnique
<1> QED
  BY <1>2, <1>3, <1>4, <1>5

\* The rows of an INSERT differ from each other, and from every older row by the
\* number of their notification.
LEMMA RunInsertUnique ==
  ASSUME TypeOK, IndInv, UniqueInv, RunInsert
  PROVE  UniqueInv'
<1>1. PICK t \in tasks :
        /\ OpenInsert(t) /\ table' = BulkInsert(table, t.logs) /\ tasks' = AfterSql(t)
  BY DEF RunInsert, OpenInsert
<1>2. handled' = handled /\ handled \in Nat
  BY DEF RunInsert, TypeOK
<1>3. /\ t.logs = CollectedLogs(t.id, t.blocks) /\ t.logs \subseteq Row
      /\ t.id \in Nat /\ t.id < handled
  BY <1>1 DEF IndInv, TaskInv, TypeOK, Tasks, UniqueInv, OpenInsert
<1>4. \A r \in t.logs : r.batch = t.id /\ r.removed = FALSE
  BY <1>3 DEF CollectedLogs
<1>5. table' = table \cup t.logs /\ \A r \in table : r.batch # t.id
  BY <1>1 DEF BulkInsert, UniqueInv
<1>6. \A r \in table' : r.batch < handled'
  BY <1>2, <1>3, <1>4, <1>5 DEF UniqueInv
<1>7. ASSUME NEW r \in table', NEW q \in table', SameRow(r, q)
      PROVE  r = q
  <2>1. r.batch = q.batch /\ r.block = q.block /\ r.log = q.log
    BY <1>7 DEF SameRow
  <2>2. CASE r \in table /\ q \in table
    BY <1>7, <2>2 DEF UniqueInv
  <2>3. CASE r \in t.logs /\ q \in t.logs
    BY <1>3, <1>4, <2>1, <2>3, RowEquality
  <2>4. CASE (r \in table /\ q \in t.logs) \/ (r \in t.logs /\ q \in table)
    BY <1>4, <1>5, <2>1, <2>4
  <2> QED
    BY <1>5, <2>2, <2>3, <2>4
<1>8. \A s \in tasks' : OpenInsert(s) => s \in tasks /\ s # t
  <2>1. \A s \in tasks' \ tasks : ~OpenInsert(s)
    BY <1>1, AfterSqlClosed
  <2>2. t \notin tasks'
    <3>1. t \in Tasks
      BY DEF TypeOK
    <3>2. [t EXCEPT !.sql = "done"] # t
      BY <1>1, <3>1 DEF OpenInsert, Tasks
    <3> QED
      BY <1>1, <3>2 DEF AfterSql
  <2> QED
    BY <2>1, <2>2
<1>9. ASSUME NEW s \in tasks', OpenInsert(s)
      PROVE  s.id < handled' /\ \A r \in table' : r.batch # s.id
  <2>1. s \in tasks /\ s.id # t.id
    BY <1>1, <1>8, <1>9 DEF UniqueInv
  <2> QED
    BY <1>2, <1>4, <1>5, <1>9, <2>1 DEF UniqueInv
<1>10. \A u, s \in tasks' : (OpenInsert(u) /\ OpenInsert(s) /\ u.id = s.id) => u = s
  BY <1>8 DEF UniqueInv
<1> QED
  BY <1>6, <1>7, <1>9, <1>10 DEF UniqueInv

\* An UPDATE changes no row's identity.
LEMMA RunMarkUnique ==
  ASSUME TypeOK, UniqueInv, RunMark
  PROVE  UniqueInv'
<1>1. PICK t \in tasks :
        /\ \E c \in t.blocks : table' = HandleBlockReorg(table, c)
        /\ tasks' = AfterSql(t)
  BY DEF RunMark
<1>2. PICK c : table' = HandleBlockReorg(table, c)
  BY <1>1
<1>3. handled' = handled /\ table \subseteq Row
  BY DEF RunMark, TypeOK
<1> DEFINE F(r) == IF r.block = c THEN [r EXCEPT !.removed = TRUE] ELSE r
<1>4. \A r \in table : F(r).batch = r.batch /\ F(r).block = r.block /\ F(r).log = r.log
  BY <1>3 DEF Row
<1>5. \A q \in table' : \E r \in table : q = F(r)
  BY <1>2 DEF HandleBlockReorg
<1> HIDE DEF F
<1>6. \A r, q \in table' : SameRow(r, q) => r = q
  <2> SUFFICES ASSUME NEW r \in table', NEW q \in table', SameRow(r, q)
               PROVE  r = q
    OBVIOUS
  <2>1. PICK r0 \in table : r = F(r0)
    BY <1>5
  <2>2. PICK q0 \in table : q = F(q0)
    BY <1>5
  <2>3. SameRow(r0, q0)
    BY <1>4, <2>1, <2>2 DEF SameRow
  <2> QED
    BY <2>1, <2>2, <2>3 DEF UniqueInv
<1>7. \A r \in table' : \E q \in table : q.batch = r.batch
  BY <1>4, <1>5
<1>8. \A r \in table' : r.batch < handled'
  BY <1>3, <1>7 DEF UniqueInv
<1>9. \A s \in tasks' : OpenInsert(s) => s \in tasks
  BY <1>1, AfterSqlClosed
<1>10. \A s \in tasks' : OpenInsert(s) => s.id < handled' /\ \A r \in table' : r.batch # s.id
  BY <1>3, <1>7, <1>9 DEF UniqueInv
<1>11. \A u, s \in tasks' : (OpenInsert(u) /\ OpenInsert(s) /\ u.id = s.id) => u = s
  BY <1>9 DEF UniqueInv
<1> QED
  BY <1>6, <1>8, <1>10, <1>11 DEF UniqueInv

LEMMA NextUnique ==
  ASSUME TypeOK, IndInv, UniqueInv, [Next]_vars
  PROVE  UniqueInv'
<1>1. CASE Environment \/ UNCHANGED vars
  <2>1. UNCHANGED <<table, handled, tasks>>
    BY <1>1 DEF Environment, Commit, Revert, Reorg, Emit, exex, vars
  <2> QED
    BY <2>1, ClosedUnique
<1>2. CASE RunEmptyInsert \/ SqlFails
  <2>1. PICK t \in tasks : tasks' = AfterSql(t)
    BY <1>2 DEF RunEmptyInsert, SqlFails
  <2>2. UNCHANGED <<table, handled>>
    BY <1>2 DEF RunEmptyInsert, SqlFails
  <2> QED
    BY <2>1, <2>2, AfterSqlClosed, ClosedUnique
<1>3. CASE Announce
  <2>1. PICK t \in tasks : \E b \in t.unsent :
          /\ t.sql = "done"
          /\ tasks' \subseteq tasks \cup {[t EXCEPT !.unsent = t.unsent \ {b}]}
    BY <1>3 DEF Announce
  <2>2. PICK b \in t.unsent :
          /\ t.sql = "done"
          /\ tasks' \subseteq tasks \cup {[t EXCEPT !.unsent = t.unsent \ {b}]}
    BY <2>1
  <2>3. t \in Tasks
    BY DEF TypeOK
  <2>4. \A s \in tasks' \ tasks : ~OpenInsert(s)
    BY <2>2, <2>3 DEF Tasks, OpenInsert
  <2> QED
    BY <1>3, <2>4, ClosedUnique DEF Announce
<1>4. CASE Crash
  BY <1>4, ClosedUnique DEF Crash
<1> QED
  BY <1>1, <1>2, <1>3, <1>4, HandleUnique, RunInsertUnique, RunMarkUnique
  DEF Next, RunTask

-----------------------------------------------------------------------------
(***************************************************************************)
(* What a step of the node does to the ExEx, and a client to itself.       *)
(***************************************************************************)
\* Of the ExEx's and reth's variables a client changes the count of faults only.
LEMMA ClientStep ==
  ASSUME NEW c \in Clients, Client(c)
  PROVE  /\ UNCHANGED <<canon, inbox, emitted, running, tasks, table, sent, finished,
                        handled, seen, tainted>>
         /\ faults' \in {faults, faults + 1}
<1>1. CASE QueryFails(c)
  BY <1>1 DEF QueryFails, env
<1>2. CASE UNCHANGED vars
  BY <1>2 DEF vars, env, exex
<1>3. Client(c) => QueryFails(c) \/ UNCHANGED vars
  BY DEF Client, Serve, Subscribe, Disconnect, Resubscribe, ReceiveHash, Lag, Closed,
         Query, QueryRejected, Send, SendFails
<1> QED
  BY <1>1, <1>2, <1>3

\* The invariants of the ExEx hold beside any number of clients.
LEMMA NodeKeeps ==
  ASSUME TypeOK, IndInv, UniqueInv, [NodeNext]_nodeVars
  PROVE  /\ TypeOK' /\ IndInv' /\ UniqueInv'
         /\ \A r \in table : \E s \in table' : SameRow(s, r) /\ (r.removed => s.removed)
<1>1. CASE [Next]_vars
  <2>1. TypeOK' /\ IndInv' /\ UniqueInv'
    BY <1>1, NextType, NextInd, NextUnique
  <2>2. ASSUME NEW r \in table
        PROVE  \E s \in table' : SameRow(s, r) /\ (r.removed => s.removed)
    <3> DEFINE m == [r EXCEPT !.removed = TRUE]
    <3>1. SameRow(r, r) /\ SameRow(m, r) /\ m.removed
      BY DEF TypeOK, Row, SameRow
    <3>2. r \in table' \/ m \in table'
      BY <1>1, NextKeepsRows
    <3> HIDE DEF m
    <3> QED
      BY <3>1, <3>2
  <2> QED
    BY <2>1, <2>2
<1>2. CASE \E c \in Clients : Client(c)
  <2>1. /\ UNCHANGED <<canon, inbox, emitted, running, tasks, table, sent, finished,
                       handled, seen, tainted>>
        /\ faults' \in {faults, faults + 1}
    BY <1>2, ClientStep
  <2>2. TypeOK'
    BY <2>1 DEF TypeOK
  <2>3. IndInv'
    BY <2>1, UnchangedInd
  <2>4. UniqueInv'
    BY <2>1, ClosedUnique
  <2>5. \A r \in table : SameRow(r, r)
    BY DEF SameRow
  <2> QED
    BY <2>1, <2>2, <2>3, <2>4, <2>5
<1>3. [NodeNext]_nodeVars => [Next]_vars \/ \E c \in Clients : Client(c)
  BY DEF NodeNext, Node, NodeCrash, Next, nodeVars
<1> QED
  BY <1>1, <1>2, <1>3

\* A step other than a crash takes no hash out of the channel.
LEMMA SentGrows ==
  ASSUME TypeOK, Environment \/ Handle \/ RunTask
  PROVE  Len(sent) <= Len(sent')
<1>1. CASE Announce
  <2>1. PICK t \in tasks : \E b \in t.unsent : sent' = Append(sent, b)
    BY <1>1 DEF Announce
  <2>2. sent \in Seq(Blocks) /\ t.unsent \subseteq Blocks
    BY DEF TypeOK, Tasks
  <2>3. PICK b \in Blocks : sent' = Append(sent, b)
    BY <2>1, <2>2
  <2> QED
    BY <2>2, <2>3
<1>2. CASE sent' = sent
  BY <1>2 DEF TypeOK
<1>3. CASE Environment
  BY <1>2, <1>3 DEF Environment, Commit, Revert, Reorg, Emit, exex
<1>4. CASE Handle
  BY <1>2, <1>4 DEF Handle, HandleCommitted, HandleCommittedFails, HandleReverted,
                    HandleOther, NotificationsClosed, Receive
<1>5. CASE RunTask
  BY <1>1, <1>2, <1>5 DEF RunTask, RunInsert, RunEmptyInsert, RunMark, SqlFails
<1> QED
  BY <1>3, <1>4, <1>5

-----------------------------------------------------------------------------
(***************************************************************************)
(* Type correctness of the subscriptions.                                  *)
(***************************************************************************)
SubType == [phase : Phases, open : BOOLEAN, params : Params \cup {AllRows},
            consumed : Nat, hash : Blocks \cup {Genesis}, rows : SUBSET Row]

LEMMA NoSubType == NoSub \in SubType /\ NoSub.consumed = 0
BY DEF NoSub, SubType, Phases

\* A task that has ended keeps its parameters only.
LEMMA EndedType ==
  ASSUME SubTypeOK, NEW c \in Clients
  PROVE  /\ Ended(c) \in SubType /\ Ended(c).consumed = 0 /\ Ended(c).rows = {}
         /\ Ended(c).phase = "ended" /\ Ended(c).params = sub[c].params
<1>1. sub[c].params \in Params \cup {AllRows}
  BY DEF SubTypeOK
<1> QED
  BY <1>1 DEF Ended, NoSub, SubType, Phases

LEMMA OverwrittenType ==
  ASSUME TypeOK, SubTypeOK, NEW c \in Clients
  PROVE  Overwritten(c) \subseteq Blocks
<1>1. sent \in Seq(Blocks) /\ Len(sent) \in Nat /\ sub[c].consumed \in Nat
  BY DEF TypeOK, SubTypeOK
<1>2. \A i \in (sub[c].consumed + 1)..(Len(sent) - Capacity) : i \in 1..Len(sent)
  BY <1>1, SubscribeAssumption
<1> QED
  BY <1>1, <1>2 DEF Overwritten

\* Whatever the text of the topics, rows come out of the table.
LEMMA ResultsInTable ==
  ASSUME NEW T, NEW id, NEW f, NEW R \in Results(T, id, f)
  PROVE  R \subseteq T
BY DEF Results, Select

\* What one client's step must show.
LEMMA ClientTypeStep ==
  ASSUME TypeOK, SubTypeOK, NEW c \in Clients, NEW s \in SubType, Become(c, s),
         s.consumed <= Len(sent), sent' = sent,
         since' \in [Clients -> SUBSET Row], latest' \in [Clients -> SUBSET Row],
         missed' \in [Clients -> SUBSET Blocks]
  PROVE  SubTypeOK'
<1>1. sub' \in [Clients -> SubType]
  BY DEF SubTypeOK, SubType, Become
<1>2. \A d \in Clients : sub'[d].consumed <= Len(sent')
  BY DEF SubTypeOK, Become
<1> QED
  BY <1>1, <1>2 DEF SubTypeOK, SubType

LEMMA ClientType ==
  ASSUME TypeOK, SubTypeOK, NEW c \in Clients, Client(c)
  PROVE  SubTypeOK'
<1>1. sub[c] \in SubType /\ sub[c].consumed <= Len(sent) /\ Len(sent) \in Nat
  BY DEF SubTypeOK, SubType, TypeOK
<1>2. sent' = sent
  BY ClientStep
<1>3. /\ since \in [Clients -> SUBSET Row] /\ latest \in [Clients -> SUBSET Row]
      /\ missed \in [Clients -> SUBSET Blocks] /\ table \subseteq Row
  BY DEF SubTypeOK, TypeOK
<1>4. CASE Subscribe(c)
  <2>1. PICK p \in Params :
          Become(c, [NoSub EXCEPT !.phase = "accepted", !.open = TRUE, !.params = p])
    BY <1>4 DEF Subscribe
  <2> DEFINE s == [NoSub EXCEPT !.phase = "accepted", !.open = TRUE, !.params = p]
  <2>2. s \in SubType /\ s.consumed = 0
    BY DEF NoSub, SubType, Phases
  <2>3. Become(c, s) /\ UNCHANGED <<since, latest, missed>>
    BY <1>4, <2>1 DEF Subscribe
  <2> HIDE DEF s
  <2> QED
    BY <1>1, <1>2, <1>3, <2>2, <2>3, ClientTypeStep
<1>5. CASE Resubscribe(c)
  <2> DEFINE s == [sub[c] EXCEPT !.phase = "listening", !.consumed = Len(sent)]
  <2>1. s \in SubType /\ s.consumed = Len(sent)
    BY <1>1 DEF SubType, Phases
  <2>2. Become(c, s)
    BY <1>5 DEF Resubscribe
  <2>3. /\ since' \in [Clients -> SUBSET Row] /\ latest' = latest /\ missed' = missed
    BY <1>3, <1>5 DEF Resubscribe
  <2> HIDE DEF s
  <2> QED
    BY <1>1, <1>2, <1>3, <2>1, <2>2, <2>3, ClientTypeStep
<1>6. CASE ReceiveHash(c)
  <2> DEFINE i == sub[c].consumed + 1
             s == [sub[c] EXCEPT !.phase = "querying", !.consumed = i, !.hash = sent[i]]
  <2>1. i \in 1..Len(sent)
    <3>1. Len(sent) - sub[c].consumed >= 1
      BY <1>1, <1>6, SubscribeAssumption DEF ReceiveHash, Behind, SubType
    <3> QED
      BY <1>1, <3>1 DEF SubType
  <2>2. sent[i] \in Blocks
    BY <2>1 DEF TypeOK
  <2>3. s \in SubType /\ s.consumed = i
    <3>1. i \in Nat
      BY <1>1, <2>1
    <3> HIDE DEF i
    <3> QED
      BY <1>1, <2>2, <3>1 DEF SubType, Phases
  <2>4. Ended(c) \in SubType /\ Ended(c).consumed = 0
    BY EndedType
  <2>5. Become(c, s) \/ Become(c, Ended(c))
    BY <1>6 DEF ReceiveHash
  <2>6. UNCHANGED <<since, latest>> /\ missed' \in [Clients -> SUBSET Blocks]
    BY <1>3, <1>6 DEF ReceiveHash
  <2>7. s.consumed <= Len(sent) /\ Ended(c).consumed <= Len(sent)
    BY <1>1, <2>1, <2>3, <2>4
  <2> HIDE DEF s
  <2> QED
    BY <1>2, <1>3, <2>3, <2>4, <2>5, <2>6, <2>7, ClientTypeStep
<1>7. CASE Lag(c)
  <2> DEFINE s == [sub[c] EXCEPT !.consumed = Len(sent) - Capacity]
  <2>1. Len(sent) - Capacity \in Nat /\ Len(sent) - Capacity <= Len(sent)
    BY <1>1, <1>7, SubscribeAssumption DEF Lag, Behind, SubType
  <2>2. s \in SubType /\ s.consumed = Len(sent) - Capacity
    BY <1>1, <2>1 DEF SubType
  <2>3. Become(c, s)
    BY <1>7 DEF Lag
  <2>4. since' = since /\ latest' = latest /\ missed' \in [Clients -> SUBSET Blocks]
    BY <1>3, <1>7, OverwrittenType DEF Lag
  <2> HIDE DEF s
  <2> QED
    BY <1>2, <1>3, <2>1, <2>2, <2>3, <2>4, ClientTypeStep
<1>8. CASE Query(c)
  <2>1. PICK R \in Results(table, BlockHash(sub[c].hash), sub[c].params) :
          Become(c, [sub[c] EXCEPT !.phase = IF R = {} THEN "listening" ELSE "sending",
                                   !.rows = R])
    BY <1>8 DEF Query
  <2> DEFINE s == [sub[c] EXCEPT !.phase = IF R = {} THEN "listening" ELSE "sending",
                                 !.rows = R]
  <2>2. Become(c, s) /\ UNCHANGED <<since, latest, missed>> /\ R \subseteq Row
    BY <1>3, <1>8, <2>1, ResultsInTable DEF Query
  <2>3. s \in SubType /\ s.consumed = sub[c].consumed
    BY <1>1, <2>2 DEF SubType, Phases
  <2> HIDE DEF s
  <2> QED
    BY <1>1, <1>2, <1>3, <2>2, <2>3, ClientTypeStep
<1>9. CASE Send(c)
  <2>1. PICK r \in sub[c].rows :
          /\ Become(c, [sub[c] EXCEPT
                       !.rows = @ \ {r},
                       !.phase = IF sub[c].rows = {r} THEN "listening" ELSE "sending"])
          /\ latest' = [latest EXCEPT ![c] = {q \in @ : ~SameRow(q, r)} \cup {r}]
    BY <1>9 DEF Send
  <2> DEFINE s == [sub[c] EXCEPT
                     !.rows = @ \ {r},
                     !.phase = IF sub[c].rows = {r} THEN "listening" ELSE "sending"]
  <2>2. s \in SubType /\ s.consumed = sub[c].consumed
    BY <1>1 DEF SubType, Phases
  <2>3. r \in Row
    BY <1>1 DEF SubType
  <2>4. latest' \in [Clients -> SUBSET Row] /\ since' = since /\ missed' = missed
    BY <1>3, <1>9, <2>1, <2>3 DEF Send
  <2>5. Become(c, s)
    BY <2>1
  <2> HIDE DEF s
  <2> QED
    BY <1>1, <1>2, <1>3, <2>2, <2>4, <2>5, ClientTypeStep
<1>10. CASE Disconnect(c)
  <2> DEFINE s == [sub[c] EXCEPT !.open = FALSE]
  <2>1. s \in SubType /\ s.consumed = sub[c].consumed
    BY <1>1 DEF SubType
  <2>2. Become(c, s) /\ UNCHANGED <<since, latest, missed>>
    BY <1>10 DEF Disconnect
  <2> HIDE DEF s
  <2> QED
    BY <1>1, <1>2, <1>3, <2>1, <2>2, ClientTypeStep
<1>11. CASE Closed(c) \/ QueryRejected(c) \/ QueryFails(c) \/ SendFails(c)
  <2>1. Become(c, Ended(c)) /\ UNCHANGED <<since, latest, missed>>
    BY <1>11 DEF Closed, QueryRejected, QueryFails, SendFails
  <2> QED
    BY <1>1, <1>2, <1>3, <2>1, EndedType, ClientTypeStep
<1> QED
  BY <1>4, <1>5, <1>6, <1>7, <1>8, <1>9, <1>10, <1>11 DEF Client, Serve

LEMMA NodeNextType ==
  ASSUME TypeOK, SubTypeOK, [NodeNext]_nodeVars
  PROVE  SubTypeOK'
<1>1. CASE Node
  <2>1. Len(sent) <= Len(sent') /\ UNCHANGED subVars
    BY <1>1, SentGrows DEF Node
  <2>2. Len(sent) \in Nat /\ Len(sent') \in Nat
    <3>1. TypeOK'
      BY <1>1, NextType DEF Node, Next
    <3> QED
      BY <3>1 DEF TypeOK
  <2> QED
    BY <2>1, <2>2 DEF SubTypeOK, subVars
<1>2. CASE NodeCrash
  <2>1. sub' \in [Clients -> SubType] /\ \A c \in Clients : sub'[c].consumed = 0
    BY <1>2, NoSubType DEF NodeCrash
  <2>2. Len(sent') = 0
    BY <1>2 DEF NodeCrash, Crash
  <2>3. /\ since' \in [Clients -> SUBSET Row] /\ latest' \in [Clients -> SUBSET Row]
        /\ missed' \in [Clients -> SUBSET Blocks]
    BY <1>2 DEF NodeCrash
  <2> QED
    BY <2>1, <2>2, <2>3 DEF SubTypeOK, SubType
<1>3. CASE \E c \in Clients : Client(c)
  BY <1>3, ClientType
<1>4. CASE UNCHANGED nodeVars
  BY <1>4 DEF nodeVars, subVars, vars, exex, SubTypeOK
<1> QED
  BY <1>1, <1>2, <1>3, <1>4 DEF NodeNext

\* A receiver never counts more hashes than the channel has had, and what a task
\* holds and a client has been sent are rows.
THEOREM SubTypeCorrect == NodeSpec => []SubTypeOK
<1>1. NodeInit => TypeOK /\ IndInv /\ UniqueInv /\ SubTypeOK
  <2> SUFFICES ASSUME NodeInit PROVE TypeOK /\ IndInv /\ UniqueInv /\ SubTypeOK
    OBVIOUS
  <2>1. TypeOK /\ IndInv
    BY InitType, InitInd DEF NodeInit
  <2>2. UniqueInv
    BY DEF NodeInit, Init, UniqueInv
  <2>3. SubTypeOK
    BY <2>1, NoSubType DEF NodeInit, Init, SubInit, SubTypeOK, SubType
  <2> QED
    BY <2>1, <2>2, <2>3
<1>2. TypeOK /\ IndInv /\ UniqueInv /\ SubTypeOK /\ [NodeNext]_nodeVars
        => TypeOK' /\ IndInv' /\ UniqueInv' /\ SubTypeOK'
  BY NodeKeeps, NodeNextType
<1> QED
  BY <1>1, <1>2, PTL DEF NodeSpec

\* Of the ExEx beside its clients: what TypeCorrect and Inductive say of it alone.
LEMMA NodeInductive == NodeSpec => [](TypeOK /\ IndInv /\ UniqueInv)
<1>1. NodeInit => TypeOK /\ IndInv /\ UniqueInv
  BY InitType, InitInd DEF NodeInit, Init, UniqueInv
<1>2. TypeOK /\ IndInv /\ UniqueInv /\ [NodeNext]_nodeVars
        => TypeOK' /\ IndInv' /\ UniqueInv'
  BY NodeKeeps
<1> QED
  BY <1>1, <1>2, PTL DEF NodeSpec

-----------------------------------------------------------------------------
(***************************************************************************)
(* What a subscription holds and has sent.                                 *)
(***************************************************************************)
SubInv(c) ==
  /\ \A q \in latest[c] \cup sub[c].rows :
       \E r \in table : SameRow(r, q) /\ (q.removed => r.removed)
  /\ \A r \in sub[c].rows, q \in latest[c] : (SameRow(r, q) /\ q.removed) => r.removed
  /\ \A r, q \in sub[c].rows : SameRow(r, q) => r = q
  /\ sub[c].phase \in {"none", "accepted"} => latest[c] = {}
  /\ sub[c].phase # "sending" => sub[c].rows = {}
  /\ sub[c].phase = "querying" => AddressesValid(sub[c].params) /\ TopicsValid(sub[c].params)
  /\ IllFormed(c) => latest[c] = {} /\ sub[c].phase # "sending"

\* A step of others: rows may be marked, the task itself does not move.
LEMMA OthersStep ==
  ASSUME NEW c \in Clients, SubInv(c), sub'[c] = sub[c], latest'[c] = latest[c],
         \A r \in table : \E s \in table' : SameRow(s, r) /\ (r.removed => s.removed)
  PROVE  SubInv(c)'
<1>1. \A q \in latest'[c] \cup sub'[c].rows :
        \E r \in table' : SameRow(r, q) /\ (q.removed => r.removed)
  <2> SUFFICES ASSUME NEW q \in latest[c] \cup sub[c].rows
               PROVE  \E r \in table' : SameRow(r, q) /\ (q.removed => r.removed)
    OBVIOUS
  <2>1. PICK r \in table : SameRow(r, q) /\ (q.removed => r.removed)
    BY DEF SubInv
  <2>2. PICK s \in table' : SameRow(s, r) /\ (r.removed => s.removed)
    OBVIOUS
  <2> QED
    BY <2>1, <2>2 DEF SameRow
<1> QED
  BY <1>1 DEF SubInv, IllFormed

\* A client's step leaves the other clients alone.
LEMMA OneClient ==
  ASSUME SubTypeOK, NEW c \in Clients, Client(c), NEW d \in Clients, d # c
  PROVE  sub'[d] = sub[d] /\ latest'[d] = latest[d]
<1>1. /\ \E s : Become(c, s)
      /\ latest' = latest \/ \E L : latest' = [latest EXCEPT ![c] = L]
  BY DEF Client, Serve, Subscribe, Disconnect, Resubscribe, ReceiveHash, Lag, Closed,
         Query, QueryRejected, QueryFails, Send, SendFails
<1> QED
  BY <1>1 DEF SubTypeOK, Become

\* A client's step that neither takes rows up nor sends one.
LEMMA IdleStep ==
  ASSUME NEW c \in Clients, SubInv(c), table' = table, latest'[c] = latest[c],
         sub'[c].rows = {}, sub'[c].phase # "sending",
         sub'[c].params = sub[c].params \/ latest[c] = {},
         sub'[c].phase = "accepted" => latest[c] = {}, sub'[c].phase # "none",
         sub'[c].phase = "querying" =>
           AddressesValid(sub'[c].params) /\ TopicsValid(sub'[c].params)
  PROVE  SubInv(c)'
<1>1. IllFormed(c)' => latest[c] = {}
  BY DEF SubInv, IllFormed
<1> QED
  BY <1>1 DEF SubInv

LEMMA ClientInv ==
  ASSUME TypeOK, UniqueInv, SubTypeOK, NEW c \in Clients, SubInv(c), Client(c)
  PROVE  SubInv(c)'
<1>1. /\ sub[c] \in SubType /\ sub \in [Clients -> SubType]
      /\ latest \in [Clients -> SUBSET Row]
  BY DEF SubTypeOK, SubType
<1>2. table' = table
  BY ClientStep
<1>3. ASSUME NEW s, Become(c, s)
      PROVE  sub'[c] = s
  BY <1>1, <1>3 DEF Become
<1>4. CASE Subscribe(c)
  <2>1. PICK p \in Params :
          Become(c, [NoSub EXCEPT !.phase = "accepted", !.open = TRUE, !.params = p])
    BY <1>4 DEF Subscribe
  <2>2. sub'[c].rows = {} /\ sub'[c].phase = "accepted"
    BY <1>3, <2>1 DEF NoSub
  <2>3. latest[c] = {} /\ latest' = latest
    BY <1>4 DEF Subscribe, SubInv
  <2> QED
    BY <1>2, <2>2, <2>3, IdleStep
<1>5. CASE Resubscribe(c) \/ Lag(c)
  <2>1. /\ sub[c].rows = {} /\ latest' = latest
        /\ \/ Become(c, [sub[c] EXCEPT !.phase = "listening", !.consumed = Len(sent)])
           \/ /\ sub[c].phase = "listening"
              /\ Become(c, [sub[c] EXCEPT !.consumed = Len(sent) - Capacity])
    BY <1>5 DEF Resubscribe, Lag, SubInv
  <2>2. /\ sub'[c].rows = {} /\ sub'[c].phase = "listening"
        /\ sub'[c].params = sub[c].params
    BY <1>1, <1>3, <2>1 DEF SubType
  <2> QED
    BY <1>2, <2>1, <2>2, IdleStep
<1>6. CASE ReceiveHash(c)
  <2> DEFINE i == sub[c].consumed + 1
             s == [sub[c] EXCEPT !.phase = "querying", !.consumed = i, !.hash = sent[i]]
  <2>1. /\ sub[c].rows = {} /\ latest' = latest
        /\ \/ /\ AddressesValid(sub[c].params) /\ TopicsValid(sub[c].params)
              /\ Become(c, s)
           \/ Become(c, Ended(c))
    BY <1>6 DEF ReceiveHash, SubInv
  <2>2. s.rows = sub[c].rows /\ s.phase = "querying" /\ s.params = sub[c].params
    BY <1>1 DEF SubType
  <2>3. /\ Ended(c).rows = {} /\ Ended(c).phase = "ended"
        /\ Ended(c).params = sub[c].params
    BY EndedType
  <2>4. sub'[c] = s \/ sub'[c] = Ended(c)
    BY <1>3, <2>1
  <2>5. sub'[c] = s => AddressesValid(sub[c].params) /\ TopicsValid(sub[c].params)
    BY <1>3, <2>1, <2>2, <2>3
  <2> HIDE DEF s
  <2> QED
    BY <1>2, <2>1, <2>2, <2>3, <2>4, <2>5, IdleStep
<1>7. CASE Query(c)
  <2>0. PICK R \in Results(table, BlockHash(sub[c].hash), sub[c].params) :
          Become(c, [sub[c] EXCEPT !.phase = IF R = {} THEN "listening" ELSE "sending",
                                   !.rows = R])
    BY <1>7 DEF Query
  <2> DEFINE s == [sub[c] EXCEPT !.phase = IF R = {} THEN "listening" ELSE "sending",
                                 !.rows = R]
  <2>1. Become(c, s) /\ latest' = latest /\ sub[c].phase = "querying"
    BY <1>7, <2>0 DEF Query
  <2>2. ~IllFormed(c)
    BY <2>1 DEF SubInv, IllFormed, Results
  <2>3. R \subseteq table
    BY ResultsInTable
  <2>4. /\ s.rows = R /\ s.params = sub[c].params
        /\ s.phase = IF R = {} THEN "listening" ELSE "sending"
    BY <1>1 DEF SubType
  <2>5. sub'[c] = s
    BY <1>3, <2>1
  <2> HIDE DEF s
  <2>6. ~IllFormed(c)'
    BY <2>2, <2>4, <2>5 DEF IllFormed
  <2>7. \A q \in latest'[c] \cup sub'[c].rows :
          \E r \in table' : SameRow(r, q) /\ (q.removed => r.removed)
    BY <1>2, <2>1, <2>3, <2>4, <2>5 DEF SubInv, SameRow
  <2>8. \A r, q \in sub'[c].rows : SameRow(r, q) => r = q
    BY <2>3, <2>4, <2>5 DEF UniqueInv
  <2>9. ASSUME NEW r \in sub'[c].rows, NEW q \in latest'[c], SameRow(r, q), q.removed
        PROVE  r.removed
    <3>1. PICK t \in table : SameRow(t, q) /\ (q.removed => t.removed)
      BY <2>1, <2>9 DEF SubInv
    <3>2. SameRow(t, r) /\ r \in table
      BY <2>3, <2>4, <2>5, <2>9, <3>1 DEF SameRow
    <3> QED
      BY <2>9, <3>1, <3>2 DEF UniqueInv
  <2> QED
    BY <2>4, <2>5, <2>6, <2>7, <2>8, <2>9 DEF SubInv
<1>8. CASE Send(c)
  <2>1. PICK r \in sub[c].rows :
          /\ Become(c, [sub[c] EXCEPT
                       !.rows = @ \ {r},
                       !.phase = IF sub[c].rows = {r} THEN "listening" ELSE "sending"])
          /\ latest' = [latest EXCEPT ![c] = {q \in @ : ~SameRow(q, r)} \cup {r}]
    BY <1>8 DEF Send
  <2>2. sub[c].phase = "sending" /\ ~IllFormed(c)
    BY <1>8 DEF Send, SubInv
  <2>3. /\ sub'[c].rows = sub[c].rows \ {r} /\ sub'[c].params = sub[c].params
        /\ sub'[c].phase = IF sub[c].rows = {r} THEN "listening" ELSE "sending"
    BY <1>1, <1>3, <2>1 DEF SubType
  <2>4. latest'[c] = {q \in latest[c] : ~SameRow(q, r)} \cup {r}
    BY <1>1, <2>1
  <2>5. ~IllFormed(c)'
    BY <2>2, <2>3 DEF IllFormed
  <2>6. \A q \in latest'[c] \cup sub'[c].rows :
          \E t \in table' : SameRow(t, q) /\ (q.removed => t.removed)
    BY <1>2, <2>3, <2>4 DEF SubInv
  <2>7. \A t, q \in sub'[c].rows : SameRow(t, q) => t = q
    BY <2>3 DEF SubInv
  <2>8. ASSUME NEW t \in sub'[c].rows, NEW q \in latest'[c], SameRow(t, q), q.removed
        PROVE  t.removed
    <3>1. t \in sub[c].rows /\ t # r
      BY <2>3, <2>8
    <3>2. q # r
      BY <2>8, <3>1 DEF SubInv
    <3> QED
      BY <2>4, <2>8, <3>1, <3>2 DEF SubInv
  <2>9. sub'[c].phase # "sending" => sub'[c].rows = {}
    BY <2>3
  <2> QED
    BY <2>3, <2>5, <2>6, <2>7, <2>8, <2>9 DEF SubInv
<1>9. CASE Disconnect(c)
  <2> DEFINE s == [sub[c] EXCEPT !.open = FALSE]
  <2>1. s.rows = sub[c].rows /\ s.phase = sub[c].phase /\ s.params = sub[c].params
    BY <1>1 DEF SubType
  <2>2. sub'[c] = s /\ latest' = latest
    BY <1>3, <1>9 DEF Disconnect
  <2> HIDE DEF s
  <2> QED
    BY <1>2, <2>1, <2>2 DEF SubInv, IllFormed
<1>10. CASE Closed(c) \/ QueryRejected(c) \/ QueryFails(c) \/ SendFails(c)
  <2>1. /\ Ended(c).rows = {} /\ Ended(c).phase = "ended"
        /\ Ended(c).params = sub[c].params
    BY EndedType
  <2>2. sub'[c] = Ended(c) /\ latest' = latest
    BY <1>3, <1>10 DEF Closed, QueryRejected, QueryFails, SendFails
  <2> QED
    BY <1>2, <2>1, <2>2, IdleStep
<1> QED
  BY <1>4, <1>5, <1>6, <1>7, <1>8, <1>9, <1>10 DEF Client, Serve

SubsInv == \A c \in Clients : SubInv(c)

LEMMA NodeNextInv ==
  ASSUME TypeOK, IndInv, UniqueInv, SubTypeOK, SubsInv, [NodeNext]_nodeVars
  PROVE  SubsInv'
<1>1. \A r \in table : \E s \in table' : SameRow(s, r) /\ (r.removed => s.removed)
  BY NodeKeeps
<1>2. CASE UNCHANGED subVars
  <2> SUFFICES ASSUME NEW c \in Clients PROVE SubInv(c)'
    BY DEF SubsInv
  <2>1. SubInv(c) /\ sub'[c] = sub[c] /\ latest'[c] = latest[c]
    BY <1>2 DEF SubsInv, subVars
  <2> QED
    BY <1>1, <2>1, OthersStep
<1>3. CASE NodeCrash
  <2> SUFFICES ASSUME NEW c \in Clients PROVE SubInv(c)'
    BY DEF SubsInv
  <2>1. sub'[c] = NoSub /\ latest'[c] = {}
    BY <1>3 DEF NodeCrash
  <2>2. NoSub.phase = "none" /\ NoSub.rows = {} /\ NoSub.params = AllRows
    BY DEF NoSub
  <2> QED
    BY <2>1, <2>2 DEF SubInv
<1>4. ASSUME NEW d \in Clients, Client(d)
      PROVE  SubsInv'
  <2> SUFFICES ASSUME NEW c \in Clients PROVE SubInv(c)'
    BY DEF SubsInv
  <2>1. SubInv(c) /\ SubInv(d)
    BY DEF SubsInv
  <2>2. CASE c = d
    BY <1>4, <2>1, <2>2, ClientInv
  <2>3. CASE c # d
    <3>1. sub'[c] = sub[c] /\ latest'[c] = latest[c]
      BY <1>4, <2>3, OneClient
    <3> QED
      BY <1>1, <2>1, <3>1, OthersStep
  <2> QED
    BY <2>2, <2>3
<1> QED
  BY <1>2, <1>3, <1>4 DEF NodeNext, Node, nodeVars

LEMMA SubsInductive == NodeSpec => []SubsInv
<1>1. NodeInit => SubsInv
  <2> SUFFICES ASSUME NodeInit, NEW c \in Clients PROVE SubInv(c)
    BY DEF SubsInv
  <2>1. sub[c] = NoSub /\ latest[c] = {}
    BY DEF NodeInit, SubInit
  <2>2. NoSub.phase = "none" /\ NoSub.rows = {} /\ NoSub.params = AllRows
    BY DEF NoSub
  <2> QED
    BY <2>1, <2>2 DEF SubInv
<1>2. TypeOK /\ IndInv /\ UniqueInv /\ SubTypeOK /\ SubsInv /\ [NodeNext]_nodeVars => SubsInv'
  BY NodeNextInv
<1> QED
  BY <1>1, <1>2, NodeInductive, SubTypeCorrect, PTL DEF NodeSpec

\* What a client has been sent is what the table held.
THEOREM Stored == NodeSpec => []SentRowsStored
<1>1. SubsInv => SentRowsStored
  BY DEF SubsInv, SubInv, SentRowsStored
<1> QED
  BY <1>1, SubsInductive, PTL

\* A step of a client whose parameters are bound to be refused: the SELECT that
\* would be made of them has no result but an error.
LEMMA IllFormedStep ==
  ASSUME SubTypeOK, NEW c \in Clients, SubInv(c), Client(c), IllFormed(c)
  PROVE  /\ latest'[c] = {}
         /\ sub[c].phase = "querying" => sub'[c].phase \in {"querying", "ended"}
<1>1. sub \in [Clients -> SubType] /\ latest[c] = {}
  BY DEF SubTypeOK, SubType, SubInv
<1>2. CASE Send(c)
  BY <1>2 DEF Send, SubInv
<1>3. CASE Query(c)
  BY <1>3 DEF Query, SubInv, IllFormed, Results
<1>4. CASE QueryRejected(c) \/ QueryFails(c)
  <2>1. latest' = latest /\ Become(c, Ended(c))
    BY <1>4 DEF QueryRejected, QueryFails
  <2>2. sub'[c].phase = "ended"
    BY <1>1, <2>1, EndedType DEF Become
  <2> QED
    BY <1>1, <2>1, <2>2
<1>5. CASE Disconnect(c)
  <2>1. latest' = latest /\ Become(c, [sub[c] EXCEPT !.open = FALSE])
    BY <1>5 DEF Disconnect
  <2>2. sub'[c].phase = sub[c].phase
    BY <1>1, <2>1 DEF Become, SubType
  <2> QED
    BY <1>1, <2>1, <2>2
<1>6. CASE \/ Subscribe(c) \/ Resubscribe(c) \/ ReceiveHash(c) \/ Lag(c) \/ Closed(c)
           \/ SendFails(c)
  <2>1. latest' = latest /\ sub[c].phase # "querying"
    BY <1>6 DEF Subscribe, Resubscribe, ReceiveHash, Lag, Closed, SendFails
  <2> QED
    BY <1>1, <2>1
<1> QED
  BY <1>2, <1>3, <1>4, <1>5, <1>6 DEF Client, Serve

\* A client that was accepted with parameters that the validation or SQLite is
\* bound to refuse gets nothing.
THEOREM IllFormedNothing == NodeSpec => IllFormedGetsNothing
<1> DEFINE Nothing == \A c \in Clients : IllFormed(c) =>
             /\ latest'[c] = {}
             /\ sub[c].phase = "querying" => sub'[c].phase \in {"querying", "ended", "none"}
<1>1. ASSUME SubTypeOK, SubsInv, NodeNext
      PROVE  Nothing
  <2> SUFFICES ASSUME NEW c \in Clients, IllFormed(c)
               PROVE  /\ latest'[c] = {}
                      /\ sub[c].phase = "querying" =>
                           sub'[c].phase \in {"querying", "ended", "none"}
    OBVIOUS
  <2>1. SubInv(c) /\ latest[c] = {}
    BY <1>1 DEF SubsInv, SubInv
  <2>2. CASE Node
    BY <2>1, <2>2 DEF Node, subVars
  <2>3. CASE NodeCrash
    <3>1. sub'[c] = NoSub /\ latest'[c] = {}
      BY <2>3 DEF NodeCrash
    <3> QED
      BY <3>1 DEF NoSub
  <2>4. CASE Client(c)
    BY <1>1, <2>1, <2>4, IllFormedStep
  <2>5. ASSUME NEW d \in Clients, Client(d), d # c
        PROVE  sub'[c] = sub[c] /\ latest'[c] = latest[c]
    BY <1>1, <2>5, OneClient
  <2> QED
    BY <1>1, <2>1, <2>2, <2>3, <2>4, <2>5 DEF NodeNext
<1>2. SubTypeOK /\ SubsInv /\ [NodeNext]_nodeVars => [Nothing]_nodeVars
  BY <1>1
<1> QED
  BY <1>2, SubTypeCorrect, SubsInductive, PTL DEF NodeSpec, IllFormedGetsNothing

\* A message replaces the removal of a row by no live one: the row that is being
\* sent is removed too, so it is the same message.
LEMMA FinalStep ==
  ASSUME SubTypeOK, NEW c \in Clients, SubInv(c), Client(c),
         NEW q \in latest[c], q.removed
  PROVE  q \in latest'[c]
<1>1. sub[c] \in SubType /\ latest \in [Clients -> SUBSET Row]
  BY DEF SubTypeOK, SubType
<1>2. CASE Send(c)
  <2>1. PICK r \in sub[c].rows :
          latest' = [latest EXCEPT ![c] = {p \in @ : ~SameRow(p, r)} \cup {r}]
    BY <1>2 DEF Send
  <2>2. latest'[c] = {p \in latest[c] : ~SameRow(p, r)} \cup {r}
    BY <1>1, <2>1
  <2>3. CASE SameRow(q, r)
    <3>1. r.removed /\ SameRow(r, q)
      BY <2>3 DEF SubInv, SameRow
    <3>2. r \in Row /\ q \in Row
      BY <1>1 DEF SubType
    <3>3. r.removed = q.removed
      BY <3>1, <3>2 DEF Row
    <3> QED
      BY <2>2, <3>1, <3>2, <3>3, RowEquality DEF SameRow
  <2> QED
    BY <2>2, <2>3
<1>3. CASE latest' = latest
  BY <1>3
<1> QED
  BY <1>2, <1>3
  DEF Client, Serve, Subscribe, Disconnect, Resubscribe, ReceiveHash, Lag, Closed,
      Query, QueryRejected, QueryFails, SendFails

\* A client never sees a removed row come back.
THEOREM Final == NodeSpec => RemovalIsFinal
<1> DEFINE Kept == \A c \in Clients : \A q \in latest[c] :
             (q.removed /\ ~Quotes(sub[c].params)) =>
               (q \in latest'[c] \/ latest'[c] = {})
<1>1. ASSUME SubTypeOK, SubsInv, NodeNext
      PROVE  Kept
  <2> SUFFICES ASSUME NEW c \in Clients, NEW q \in latest[c], q.removed
               PROVE  q \in latest'[c] \/ latest'[c] = {}
    OBVIOUS
  <2>1. SubInv(c)
    BY <1>1 DEF SubsInv
  <2>2. CASE Node
    BY <2>2 DEF Node, subVars
  <2>3. CASE NodeCrash
    BY <2>3 DEF NodeCrash
  <2>4. CASE Client(c)
    BY <1>1, <2>1, <2>4, FinalStep
  <2>5. ASSUME NEW d \in Clients, Client(d), d # c
        PROVE  latest'[c] = latest[c]
    BY <1>1, <2>5, OneClient
  <2> QED
    BY <1>1, <2>2, <2>3, <2>4, <2>5 DEF NodeNext
<1>2. SubTypeOK /\ SubsInv /\ [NodeNext]_nodeVars => [Kept]_nodeVars
  BY <1>1
<1> QED
  BY <1>2, SubTypeCorrect, SubsInductive, PTL DEF NodeSpec, RemovalIsFinal

-----------------------------------------------------------------------------
(***************************************************************************)
(* Nothing is lost between the table and a client: a row that a listening  *)
(* client has not been sent in its current version is on its way.          *)
(***************************************************************************)
\* Until its statement has run, a task has still to announce every block that
\* the statement can change.
ToldInFull(t) ==
  t.sql = "todo" =>
    \A b \in t.blocks : (t.kind = "mark" \/ ShadowLogs(b) # {}) => b \in t.unsent

StillInv == \A t \in tasks : ToldInFull(t)

Queued(c, b) == \E i \in (sub[c].consumed + 1)..Len(sent) : sent[i] = b

OnItsWay(c, r) ==
  \/ r \in latest[c]
  \/ StillToSend(r.block) \/ Queued(c, r.block)
  \/ sub[c].phase = "querying" /\ sub[c].hash = r.block
  \/ r \in sub[c].rows
  \/ r.block \in missed[c]

Following(c) == sub[c].phase \in {"listening", "querying", "sending"} /\ ValidSub(c)

DeliveryInv(c) ==
  Following(c) => \A r \in table \ since[c] : Matches(c, r) => OnItsWay(c, r)

DeliveriesInv == StillInv /\ \A c \in Clients : DeliveryInv(c)

\* A statement that has run leaves a task behind for what it changed.
LEMMA AfterSqlDue ==
  ASSUME TypeOK, NEW t \in tasks, t.sql = "todo", tasks' = AfterSql(t)
  PROVE  /\ \A b \in t.unsent : StillToSend(b)'
         /\ \A b : StillToSend(b) => StillToSend(b)'
<1>1. t \in Tasks
  BY DEF TypeOK
<1> DEFINE s == [t EXCEPT !.sql = "done"]
<1>2. s.sql = "done" /\ s.unsent = t.unsent
  BY <1>1 DEF Tasks
<1>3. t.unsent # {} => s \in tasks'
  BY DEF AfterSql
<1>4. \A u \in tasks : u.sql = "done" => u \in tasks'
  BY DEF AfterSql
<1> HIDE DEF s
<1> QED
  BY <1>2, <1>3, <1>4 DEF StillToSend

\* What a step of the node stores is due, and what is due is sent or stays due.
LEMMA NodeDue ==
  ASSUME TypeOK, IndInv, StillInv, Environment \/ Handle \/ RunTask
  PROVE  /\ \A r \in table' : r \in table \/ StillToSend(r.block)'
         /\ \A b : StillToSend(b) => StillToSend(b)' \/ sent' = Append(sent, b)
         /\ sent' = sent \/ \E b \in Blocks : sent' = Append(sent, b)
<1>1. CASE Environment
  BY <1>1 DEF Environment, Commit, Revert, Reorg, Emit, exex, StillToSend
<1>2. CASE Handle
  <2>1. table' = table /\ sent' = sent /\ tasks \subseteq tasks'
    BY <1>2 DEF Handle, HandleCommitted, HandleCommittedFails, HandleReverted,
                HandleOther, NotificationsClosed, Receive, SpawnInsert
  <2> QED
    BY <2>1 DEF StillToSend
<1>3. CASE RunInsert
  <2>1. PICK t \in tasks :
          /\ t.kind = "insert" /\ t.sql = "todo"
          /\ table' = table \cup t.logs /\ tasks' = AfterSql(t)
    BY <1>3 DEF RunInsert, BulkInsert
  <2>2. \A r \in t.logs : r.block \in t.blocks /\ ShadowLogs(r.block) # {}
    <3>1. t.logs = CollectedLogs(t.id, t.blocks)
      BY <2>1 DEF IndInv, TaskInv
    <3>2. ASSUME NEW r \in t.logs
          PROVE  r.block \in t.blocks /\ r.log \in ShadowLogs(r.block)
      BY <3>1, <3>2 DEF CollectedLogs
    <3> QED
      BY <3>2
  <2>3. \A r \in t.logs : r.block \in t.unsent
    BY <2>1, <2>2 DEF StillInv, ToldInFull
  <2>4. sent' = sent
    BY <1>3 DEF RunInsert
  <2> QED
    BY <2>1, <2>3, <2>4, AfterSqlDue
<1>4. CASE RunMark
  <2>1. PICK t \in tasks :
          /\ t.kind = "mark" /\ t.sql = "todo" /\ tasks' = AfterSql(t)
          /\ \E b \in t.blocks : table' = HandleBlockReorg(table, b)
    BY <1>4 DEF RunMark
  <2>2. PICK b \in t.blocks : table' = HandleBlockReorg(table, b)
    BY <2>1
  <2>3. b \in t.unsent
    BY <2>1 DEF StillInv, ToldInFull
  <2>4. \A r \in table' : r \in table \/ r.block = b
    BY <2>2 DEF HandleBlockReorg, TypeOK, Row
  <2>5. sent' = sent
    BY <1>4 DEF RunMark
  <2> QED
    BY <2>1, <2>3, <2>4, <2>5, AfterSqlDue
<1>5. CASE RunEmptyInsert \/ SqlFails
  <2>1. PICK t \in tasks : t.sql = "todo" /\ tasks' = AfterSql(t)
    BY <1>5 DEF RunEmptyInsert, SqlFails
  <2>2. table' = table /\ sent' = sent
    BY <1>5 DEF RunEmptyInsert, SqlFails
  <2> QED
    BY <2>1, <2>2, AfterSqlDue
<1>6. CASE Announce
  <2>1. PICK t \in tasks : \E b \in t.unsent :
          /\ t.sql = "done" /\ sent' = Append(sent, b)
          /\ tasks' = (tasks \ {t}) \cup
               (IF t.unsent = {b} THEN {} ELSE {[t EXCEPT !.unsent = t.unsent \ {b}]})
    BY <1>6 DEF Announce
  <2>2. PICK b \in t.unsent :
          /\ t.sql = "done" /\ sent' = Append(sent, b)
          /\ tasks' = (tasks \ {t}) \cup
               (IF t.unsent = {b} THEN {} ELSE {[t EXCEPT !.unsent = t.unsent \ {b}]})
    BY <2>1
  <2>3. t \in Tasks /\ b \in Blocks
    BY DEF TypeOK, Tasks
  <2> DEFINE s == [t EXCEPT !.unsent = t.unsent \ {b}]
  <2>4. s.sql = "done" /\ s.unsent = t.unsent \ {b}
    BY <2>2, <2>3 DEF Tasks
  <2>5. tasks \ {t} \subseteq tasks' /\ (t.unsent # {b} => s \in tasks')
    BY <2>2
  <2> HIDE DEF s
  <2>6. ASSUME NEW c, StillToSend(c), c # b
        PROVE  StillToSend(c)'
    <3>1. PICK u \in tasks : u.sql = "done" /\ c \in u.unsent
      BY <2>6 DEF StillToSend
    <3>2. CASE u = t
      <4>1. c \in t.unsent \ {b}
        BY <2>6, <3>1, <3>2
      <4> QED
        BY <2>4, <2>5, <4>1 DEF StillToSend
    <3>3. CASE u # t
      BY <2>5, <3>1, <3>3 DEF StillToSend
    <3> QED
      BY <3>2, <3>3
  <2>7. table' = table
    BY <1>6 DEF Announce
  <2> QED
    BY <2>2, <2>3, <2>6, <2>7
<1> QED
  BY <1>1, <1>2, <1>3, <1>4, <1>5, <1>6 DEF RunTask

\* The spawned tasks announce what they can change, and the others' have run.
LEMMA NextStill ==
  ASSUME TypeOK, StillInv, [Next]_vars
  PROVE  StillInv'
<1> SUFFICES ASSUME NEW t \in tasks', t \notin tasks, t.sql = "todo"
             PROVE  ToldInFull(t)
  BY DEF StillInv, ToldInFull, ShadowLogs
<1>1. CASE Environment \/ UNCHANGED vars \/ Crash
  BY <1>1 DEF Environment, Commit, Revert, Reorg, Emit, exex, vars, Crash
<1>2. CASE RunInsert \/ RunEmptyInsert \/ RunMark \/ SqlFails
  <2>1. PICK s \in tasks : tasks' = AfterSql(s)
    BY <1>2 DEF RunInsert, RunEmptyInsert, RunMark, SqlFails
  <2>2. s \in Tasks /\ t = [s EXCEPT !.sql = "done"]
    BY <2>1 DEF AfterSql, TypeOK
  <2> QED
    BY <2>2 DEF Tasks
<1>3. CASE Announce
  <2>1. PICK s \in tasks : \E b \in s.unsent :
          /\ s.sql = "done"
          /\ tasks' \subseteq tasks \cup {[s EXCEPT !.unsent = s.unsent \ {b}]}
    BY <1>3 DEF Announce
  <2>2. PICK b : t = [s EXCEPT !.unsent = s.unsent \ {b}]
    BY <2>1
  <2>3. s \in Tasks
    BY DEF TypeOK
  <2> QED
    BY <2>1, <2>2, <2>3 DEF Tasks
<1>4. CASE Handle
  <2>1. CASE HandleReverted
    BY <2>1 DEF HandleReverted, MarkTask, ToldInFull
  <2>2. CASE HandleCommitted \/ HandleCommittedFails
    <3>1. t = InsertTask(handled, HistoricalState(Number[Head(inbox).new[1]]),
                         ChainOf(Head(inbox).new))
      BY <2>2 DEF HandleCommitted, HandleCommittedFails, SpawnInsert
    <3> QED
      BY <3>1 DEF InsertTask, ToldInFull
  <2>3. CASE HandleOther \/ NotificationsClosed
    BY <2>3 DEF HandleOther, NotificationsClosed
  <2> QED
    BY <1>4, <2>1, <2>2, <2>3 DEF Handle
<1> QED
  BY <1>1, <1>2, <1>3, <1>4 DEF Next, RunTask

\* What is on its way to a client that does not move stays so, and so is what
\* the node adds.
LEMMA OthersDeliver ==
  ASSUME TypeOK, IndInv, StillInv, SubTypeOK, NEW c \in Clients, DeliveryInv(c),
         \/ Environment \/ Handle \/ RunTask
         \/ UNCHANGED <<tasks, table, sent>>,
         sub'[c] = sub[c], since'[c] = since[c], latest'[c] = latest[c],
         missed'[c] = missed[c]
  PROVE  DeliveryInv(c)'
<1>1. /\ \A r \in table' : r \in table \/ StillToSend(r.block)'
      /\ \A b : StillToSend(b) => StillToSend(b)' \/ sent' = Append(sent, b)
      /\ sent' = sent \/ \E b \in Blocks : sent' = Append(sent, b)
  <2>1. CASE UNCHANGED <<tasks, table, sent>>
    BY <2>1 DEF StillToSend
  <2> QED
    BY <2>1, NodeDue
<1>2. /\ Len(sent) \in Nat /\ sub[c].consumed \in Nat /\ sub[c].consumed <= Len(sent)
      /\ sent \in Seq(Blocks)
  BY DEF TypeOK, SubTypeOK
<1>3. ASSUME NEW b, Queued(c, b)
      PROVE  Queued(c, b)'
  <2>1. PICK i \in (sub[c].consumed + 1)..Len(sent) : sent[i] = b
    BY <1>3 DEF Queued
  <2>2. Len(sent) <= Len(sent') /\ Len(sent') \in Nat /\ sent'[i] = sent[i]
    <3>1. i \in 1..Len(sent)
      BY <1>2
    <3>2. \A a \in Blocks : /\ Len(Append(sent, a)) = Len(sent) + 1
                           /\ Append(sent, a)[i] = sent[i]
      BY <1>2, <3>1
    <3>3. CASE sent' = sent
      BY <1>2, <3>3
    <3>4. ASSUME NEW a \in Blocks, sent' = Append(sent, a)
          PROVE  Len(sent') = Len(sent) + 1 /\ sent'[i] = sent[i]
      BY <3>2, <3>4
    <3> QED
      BY <1>1, <1>2, <3>3, <3>4
  <2>3. i \in (sub'[c].consumed + 1)..Len(sent')
    BY <1>2, <2>2
  <2> QED
    BY <2>1, <2>2, <2>3 DEF Queued
<1>4. ASSUME NEW b, sent' = Append(sent, b)
      PROVE  Queued(c, b)'
  <2>1. Len(sent') = Len(sent) + 1 /\ sent'[Len(sent) + 1] = b
    BY <1>2, <1>4
  <2>2. Len(sent) + 1 \in (sub'[c].consumed + 1)..Len(sent')
    BY <1>2, <2>1
  <2> QED
    BY <2>1, <2>2 DEF Queued
<1> SUFFICES ASSUME Following(c)', NEW r \in table' \ since'[c], Matches(c, r)'
             PROVE  OnItsWay(c, r)'
  BY DEF DeliveryInv
<1>5. Following(c) /\ Matches(c, r)
  BY DEF Following, ValidSub, Matches
<1>6. CASE StillToSend(r.block)'
  BY <1>6 DEF OnItsWay
<1>7. CASE r \in table
  <2>1. OnItsWay(c, r)
    BY <1>5, <1>7 DEF DeliveryInv
  <2>2. StillToSend(r.block) => StillToSend(r.block)' \/ Queued(c, r.block)'
    BY <1>1, <1>4
  <2>3. Queued(c, r.block) => Queued(c, r.block)'
    BY <1>3
  <2> QED
    BY <2>1, <2>2, <2>3 DEF OnItsWay
<1> QED
  BY <1>1, <1>6, <1>7

\* A client's step moves what is on its way one stage further.
LEMMA ClientDelivers ==
  ASSUME TypeOK, UniqueInv, SubTypeOK, NEW c \in Clients, SubInv(c), DeliveryInv(c), Client(c)
  PROVE  DeliveryInv(c)'
<1>1. /\ sub[c] \in SubType /\ sub \in [Clients -> SubType]
      /\ since \in [Clients -> SUBSET Row] /\ latest \in [Clients -> SUBSET Row]
      /\ missed \in [Clients -> SUBSET Blocks]
  BY DEF SubTypeOK, SubType
<1>2. tasks' = tasks /\ table' = table /\ sent' = sent
  BY ClientStep
<1>3. ASSUME NEW s, Become(c, s)
      PROVE  sub'[c] = s
  BY <1>1, <1>3 DEF Become
<1>4. \A b : StillToSend(b)' <=> StillToSend(b)
  BY <1>2 DEF StillToSend
<1>5. CASE Subscribe(c)
  <2>1. PICK p \in Params :
          Become(c, [NoSub EXCEPT !.phase = "accepted", !.open = TRUE, !.params = p])
    BY <1>5 DEF Subscribe
  <2>2. sub'[c].phase = "accepted"
    BY <1>3, <2>1 DEF NoSub
  <2> QED
    BY <2>2 DEF DeliveryInv, Following
<1>6. CASE Resubscribe(c)
  <2>1. since'[c] = table
    BY <1>1, <1>6 DEF Resubscribe
  <2> QED
    BY <1>2, <2>1 DEF DeliveryInv
<1>7. CASE ReceiveHash(c)
  <2> DEFINE i == sub[c].consumed + 1
             s == [sub[c] EXCEPT !.phase = "querying", !.consumed = i, !.hash = sent[i]]
  <2>1. /\ UNCHANGED <<since, latest>> /\ sub[c].phase = "listening"
        /\ missed'[c] = missed[c] \ {sent[i]}
    BY <1>1, <1>7 DEF ReceiveHash
  <2>2. sub'[c] = s \/ sub'[c] = Ended(c)
    BY <1>3, <1>7 DEF ReceiveHash
  <2>3. /\ s.phase = "querying" /\ s.consumed = i /\ s.hash = sent[i]
        /\ s.params = sub[c].params /\ s.rows = sub[c].rows
    BY <1>1 DEF SubType
  <2> HIDE DEF s
  <2>5. CASE sub'[c] = Ended(c)
    BY <2>5, EndedType DEF DeliveryInv, Following
  <2>6. CASE sub'[c] = s
    <3> SUFFICES ASSUME Following(c)', NEW r \in table \ since[c], Matches(c, r)'
                 PROVE  OnItsWay(c, r)'
      BY <1>2, <2>1 DEF DeliveryInv
    <3>1. Following(c) /\ Matches(c, r)
      BY <2>1, <2>3, <2>6 DEF Following, ValidSub, Matches
    <3>2. OnItsWay(c, r)
      BY <3>1 DEF DeliveryInv
    <3>3. ASSUME Queued(c, r.block)
          PROVE  sent[i] = r.block \/ Queued(c, r.block)'
      <4>1. PICK j \in (sub[c].consumed + 1)..Len(sent) : sent[j] = r.block
        BY <3>3 DEF Queued
      <4>2. Len(sent) \in Nat /\ sub[c].consumed \in Nat
        BY <1>1 DEF TypeOK, SubType
      <4>3. CASE j = i
        BY <4>1, <4>3
      <4>4. CASE j # i
        <5>1. j \in (sub'[c].consumed + 1)..Len(sent')
          BY <1>2, <2>3, <2>6, <4>1, <4>2, <4>4
        <5> QED
          BY <1>2, <4>1, <5>1 DEF Queued
      <4> QED
        BY <4>3, <4>4
    <3> QED
      BY <1>4, <2>1, <2>3, <2>6, <3>2, <3>3 DEF OnItsWay
  <2> QED
    BY <2>2, <2>5, <2>6
<1>8. CASE Lag(c)
  <2> DEFINE s == [sub[c] EXCEPT !.consumed = Len(sent) - Capacity]
  <2>1. /\ UNCHANGED <<since, latest>> /\ sub[c].phase = "listening" /\ sub'[c] = s
        /\ missed'[c] = missed[c] \cup Overwritten(c)
    BY <1>1, <1>3, <1>8 DEF Lag
  <2>2. /\ s.phase = sub[c].phase /\ s.consumed = Len(sent) - Capacity
        /\ s.params = sub[c].params /\ s.rows = sub[c].rows
    BY <1>1 DEF SubType
  <2> HIDE DEF s
  <2> SUFFICES ASSUME Following(c)', NEW r \in table \ since[c], Matches(c, r)'
               PROVE  OnItsWay(c, r)'
    BY <1>2, <2>1 DEF DeliveryInv
  <2>3. Following(c) /\ Matches(c, r)
    BY <2>1, <2>2 DEF Following, ValidSub, Matches
  <2>4. OnItsWay(c, r)
    BY <2>3 DEF DeliveryInv
  <2>5. ASSUME Queued(c, r.block)
        PROVE  r.block \in Overwritten(c) \/ Queued(c, r.block)'
    <3>1. PICK j \in (sub[c].consumed + 1)..Len(sent) : sent[j] = r.block
      BY <2>5 DEF Queued
    <3>2. Len(sent) \in Nat /\ sub[c].consumed \in Nat /\ Capacity \in Nat
      BY <1>1, SubscribeAssumption DEF TypeOK, SubType
    <3>3. CASE j <= Len(sent) - Capacity
      <4>1. j \in (sub[c].consumed + 1)..(Len(sent) - Capacity)
        BY <3>1, <3>2, <3>3
      <4> QED
        BY <3>1, <4>1 DEF Overwritten
    <3>4. CASE j > Len(sent) - Capacity
      <4>1. j \in (sub'[c].consumed + 1)..Len(sent')
        BY <1>2, <2>1, <2>2, <3>1, <3>2, <3>4
      <4> QED
        BY <1>2, <3>1, <4>1 DEF Queued
    <3> QED
      BY <3>1, <3>2, <3>3, <3>4
  <2> QED
    BY <1>4, <2>1, <2>2, <2>4, <2>5 DEF OnItsWay
<1>9. CASE Query(c)
  <2>0. PICK R \in Results(table, BlockHash(sub[c].hash), sub[c].params) :
          Become(c, [sub[c] EXCEPT !.phase = IF R = {} THEN "listening" ELSE "sending",
                                   !.rows = R])
    BY <1>9 DEF Query
  <2> DEFINE s == [sub[c] EXCEPT !.phase = IF R = {} THEN "listening" ELSE "sending",
                                 !.rows = R]
  <2>1. /\ UNCHANGED <<since, latest, missed>> /\ sub[c].phase = "querying"
        /\ sub'[c] = s
    BY <1>3, <1>9, <2>0 DEF Query
  <2>2. /\ s.rows = R /\ s.params = sub[c].params /\ s.consumed = sub[c].consumed
        /\ s.phase \in {"listening", "sending"}
    BY <1>1 DEF SubType
  <2>3. HexTopics(sub[c].params) =>
          \A r \in table : (r.block = sub[c].hash /\ Matches(c, r)) => r \in R
    BY DEF Results, Select, BlockClause, BlockHash, Matches
  <2> HIDE DEF s
  <2> SUFFICES ASSUME Following(c)', NEW r \in table \ since[c], Matches(c, r)'
               PROVE  OnItsWay(c, r)'
    BY <1>2, <2>1 DEF DeliveryInv
  <2>4. Following(c) /\ Matches(c, r)
    BY <2>1, <2>2 DEF Following, ValidSub, Matches
  <2>5. OnItsWay(c, r) /\ sub[c].rows = {} /\ HexTopics(sub[c].params)
    BY <2>1, <2>4 DEF DeliveryInv, SubInv, Following, ValidSub
  <2>6. Queued(c, r.block)' <=> Queued(c, r.block)
    BY <1>2, <2>1, <2>2 DEF Queued
  <2> QED
    BY <1>4, <2>1, <2>2, <2>3, <2>4, <2>5, <2>6 DEF OnItsWay
<1>10. CASE Send(c)
  <2>1. PICK q \in sub[c].rows :
          /\ Become(c, [sub[c] EXCEPT
                       !.rows = @ \ {q},
                       !.phase = IF sub[c].rows = {q} THEN "listening" ELSE "sending"])
          /\ latest' = [latest EXCEPT ![c] = {p \in @ : ~SameRow(p, q)} \cup {q}]
    BY <1>10 DEF Send
  <2>2. UNCHANGED <<since, missed>> /\ sub[c].phase = "sending"
    BY <1>10 DEF Send
  <2>3. /\ sub'[c].rows = sub[c].rows \ {q} /\ sub'[c].params = sub[c].params
        /\ sub'[c].consumed = sub[c].consumed
        /\ sub'[c].phase \in {"listening", "sending"}
    BY <1>1, <1>3, <2>1 DEF SubType
  <2>4. latest'[c] = {p \in latest[c] : ~SameRow(p, q)} \cup {q}
    BY <1>1, <2>1
  <2> SUFFICES ASSUME Following(c)', NEW r \in table \ since[c], Matches(c, r)'
               PROVE  OnItsWay(c, r)'
    BY <1>2, <2>2 DEF DeliveryInv
  <2>5. Following(c) /\ Matches(c, r)
    BY <2>2, <2>3 DEF Following, ValidSub, Matches
  <2>6. OnItsWay(c, r)
    BY <2>5 DEF DeliveryInv
  <2>7. Queued(c, r.block)' <=> Queued(c, r.block)
    BY <1>2, <2>3 DEF Queued
  <2>8. ASSUME r \in latest[c], SameRow(r, q)
        PROVE  r = q
    <3>1. PICK s \in table : SameRow(s, q) /\ (q.removed => s.removed)
      BY DEF SubInv
    <3>2. s = r
      BY <2>8, <3>1 DEF UniqueInv, SameRow
    <3>3. SameRow(q, r)
      BY <2>8 DEF SameRow
    <3>4. r.removed => q.removed
      BY <2>8, <3>3 DEF SubInv
    <3>5. r \in Row /\ q \in Row
      BY <1>1 DEF SubType, TypeOK
    <3>6. r.removed = q.removed
      BY <3>1, <3>2, <3>4, <3>5 DEF Row
    <3> QED
      BY <2>8, <3>5, <3>6, RowEquality DEF SameRow
  <2> QED
    BY <1>4, <2>2, <2>3, <2>4, <2>6, <2>7, <2>8 DEF OnItsWay
<1>11. CASE Disconnect(c)
  <2> DEFINE s == [sub[c] EXCEPT !.open = FALSE]
  <2>1. /\ s.rows = sub[c].rows /\ s.phase = sub[c].phase /\ s.params = sub[c].params
        /\ s.consumed = sub[c].consumed /\ s.hash = sub[c].hash
    BY <1>1 DEF SubType
  <2>2. sub'[c] = s /\ UNCHANGED <<since, latest, missed>>
    BY <1>3, <1>11 DEF Disconnect
  <2> HIDE DEF s
  <2>3. \A b : Queued(c, b)' <=> Queued(c, b)
    BY <1>2, <2>1, <2>2 DEF Queued
  <2> QED
    BY <1>2, <1>4, <2>1, <2>2, <2>3 DEF DeliveryInv, Following, ValidSub, Matches, OnItsWay
<1>12. CASE Closed(c) \/ QueryRejected(c) \/ QueryFails(c) \/ SendFails(c)
  <2>1. Become(c, Ended(c))
    BY <1>12 DEF Closed, QueryRejected, QueryFails, SendFails
  <2>2. sub'[c].phase = "ended"
    BY <1>3, <2>1, EndedType
  <2> QED
    BY <2>2 DEF DeliveryInv, Following
<1> QED
  BY <1>5, <1>6, <1>7, <1>8, <1>9, <1>10, <1>11, <1>12 DEF Client, Serve

LEMMA NodeNextDelivers ==
  ASSUME TypeOK, IndInv, UniqueInv, SubTypeOK, SubsInv, DeliveriesInv, [NodeNext]_nodeVars
  PROVE  DeliveriesInv'
<1>1. StillInv'
  <2>1. CASE [Next]_vars
    BY <2>1, NextStill DEF DeliveriesInv
  <2>2. CASE UNCHANGED tasks
    BY <2>2 DEF DeliveriesInv, StillInv, ToldInFull, ShadowLogs
  <2>3. (\E c \in Clients : Client(c)) => UNCHANGED tasks
    BY ClientStep
  <2> QED
    BY <2>1, <2>2, <2>3 DEF NodeNext, Node, NodeCrash, Next, nodeVars
<1> SUFFICES ASSUME NEW c \in Clients PROVE DeliveryInv(c)'
  BY <1>1 DEF DeliveriesInv
<1>2. DeliveryInv(c) /\ SubInv(c) /\ StillInv
  BY DEF DeliveriesInv, SubsInv
<1>3. CASE Node
  BY <1>2, <1>3, OthersDeliver DEF Node, subVars
<1>4. CASE UNCHANGED nodeVars
  <2>1. /\ UNCHANGED <<tasks, table, sent>> /\ sub'[c] = sub[c] /\ since'[c] = since[c]
        /\ latest'[c] = latest[c] /\ missed'[c] = missed[c]
    BY <1>4 DEF nodeVars, vars, env, exex, subVars
  <2> QED
    BY <1>2, <2>1, OthersDeliver
<1>5. CASE NodeCrash
  <2>1. sub'[c].phase = "none"
    BY <1>5 DEF NodeCrash, NoSub
  <2> QED
    BY <2>1 DEF DeliveryInv, Following
<1>6. CASE Client(c)
  BY <1>2, <1>6, ClientDelivers
<1>7. ASSUME NEW d \in Clients, Client(d), d # c
      PROVE  DeliveryInv(c)'
  <2>1. UNCHANGED <<tasks, table, sent>>
    BY <1>7, ClientStep
  <2>2. sub'[c] = sub[c] /\ latest'[c] = latest[c]
    BY <1>7, OneClient
  <2>3. /\ since' = since \/ since' = [since EXCEPT ![d] = table]
        /\ missed' = missed \/ \E S : missed' = [missed EXCEPT ![d] = S]
    BY <1>7 DEF Client, Serve, Subscribe, Disconnect, Resubscribe, ReceiveHash, Lag,
                Closed, Query, QueryRejected, QueryFails, Send, SendFails
  <2>4. since'[c] = since[c] /\ missed'[c] = missed[c]
    BY <1>7, <2>3 DEF SubTypeOK
  <2> QED
    BY <1>2, <2>1, <2>2, <2>4, OthersDeliver
<1> QED
  BY <1>3, <1>4, <1>5, <1>6, <1>7 DEF NodeNext

\* A row that a listening client has not been sent in its current version is on
\* its way: its task has still to announce it, the hash is in the channel, or
\* the client's task is about to query it or to send it.  Else its block's last
\* hash is one that the receiver has skipped.
LEMMA Delivered == NodeSpec => []DeliveriesInv
<1>1. NodeInit => DeliveriesInv
  <2> SUFFICES ASSUME NodeInit PROVE DeliveriesInv
    OBVIOUS
  <2>1. tasks = {} /\ table = {}
    BY DEF NodeInit, Init
  <2> QED
    BY <2>1 DEF DeliveriesInv, StillInv, DeliveryInv
<1>2. TypeOK /\ IndInv /\ UniqueInv /\ SubTypeOK /\ SubsInv /\ DeliveriesInv
        /\ [NodeNext]_nodeVars => DeliveriesInv'
  BY NodeNextDelivers
<1> QED
  BY <1>1, <1>2, NodeInductive, SubTypeCorrect, SubsInductive, PTL DEF NodeSpec

\* A client that has consumed every hash has the current version of every row it
\* asked for, whatever the order in which statements, announcements, SELECTs
\* and sends took place, but for the blocks it has skipped by lagging.
THEOREM CaughtUp == NodeSpec => []CaughtUpIsCurrent
<1>1. ASSUME TypeOK, SubTypeOK, SubsInv, DeliveriesInv
      PROVE  CaughtUpIsCurrent
  <2> SUFFICES ASSUME NEW c \in Clients, sub[c].phase = "listening", Behind(c) = 0,
                      tasks = {}, ValidSub(c),
                      NEW r \in table \ since[c], Matches(c, r), r.block \notin missed[c]
               PROVE  r \in latest[c]
    BY DEF CaughtUpIsCurrent
  <2>1. OnItsWay(c, r) /\ sub[c].rows = {}
    BY <1>1 DEF DeliveriesInv, DeliveryInv, Following, SubsInv, SubInv
  <2>2. ~StillToSend(r.block)
    BY DEF StillToSend
  <2>3. ~Queued(c, r.block)
    <3>1. Len(sent) \in Nat /\ sub[c].consumed \in Nat
      BY <1>1 DEF TypeOK, SubTypeOK
    <3> QED
      BY <3>1 DEF Queued, Behind
  <2> QED
    BY <2>1, <2>2, <2>3 DEF OnItsWay
<1> QED
  BY <1>1, NodeInductive, SubTypeCorrect, SubsInductive, Delivered, PTL
=============================================================================
