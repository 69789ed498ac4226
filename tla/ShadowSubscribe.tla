--------------------------- MODULE ShadowSubscribe ---------------------------
(***************************************************************************)
(* shadow_subscribe (crates/rpc/src/apis/subscribe.rs): the task of each   *)
(* accepted subscription receives the hashes the ExEx announces from a     *)
(* tokio broadcast channel, queries the block's rows and sends them to its *)
(* client, while the ExEx goes on writing the table.                       *)
(***************************************************************************)
EXTENDS ShadowExEx, ShadowLogsQuery

CONSTANTS Clients,
          Params,     \* the SubscribeParameters a client may send
          Capacity    \* of the channel: 4096 in main.rs

ASSUME SubscribeAssumption ==
  /\ Params \subseteq Filters
  /\ Capacity \in Nat \ {0}

VARIABLES
  sub,        \* the state of each client's subscription task
  since,      \* history: the table when the receiver was created
  latest,     \* history: the last version sent of each row
  missed      \* history: the blocks whose last hash the receiver has skipped

subVars == <<sub, since, latest, missed>>
nodeVars == <<vars, subVars>>

\* Subscribe parameters without addresses or topics.
AllRows == [parses |-> TRUE, addresses |-> {}, topics |-> <<>>]

\* A task; its receiver is the number of hashes it has consumed or skipped of
\* `sent`, of which the channel keeps the last Capacity.
NoSub == [phase |-> "none", open |-> FALSE, params |-> AllRows, consumed |-> 0,
          hash |-> Genesis, rows |-> {}]

Phases == {"none", "accepted", "listening", "querying", "sending", "ended"}

Behind(c) == Len(sent) - sub[c].consumed

Become(c, s) == sub' = [sub EXCEPT ![c] = s]

\* handle_accepted has returned: receiver and sink are dropped.
Ended(c) == [NoSub EXCEPT !.phase = "ended", !.params = sub[c].params]

-----------------------------------------------------------------------------
\* pending.accept(): the client is told that it is subscribed ...
Subscribe(c) ==
  /\ running /\ sub[c].phase = "none"
  /\ \E p \in Params :
       Become(c, [NoSub EXCEPT !.phase = "accepted", !.open = TRUE, !.params = p])
  /\ UNCHANGED <<vars, since, latest, missed>>

\* ... and resubscribe() creates its receiver, at the end of the channel.
Resubscribe(c) ==
  /\ sub[c].phase = "accepted"
  /\ Become(c, [sub[c] EXCEPT !.phase = "listening", !.consumed = Len(sent)])
  /\ since' = [since EXCEPT ![c] = table]
  /\ UNCHANGED <<vars, latest, missed>>

\* Mutant: an error of the validation leaves the filter it has got so far.
ReceiveUnvalidated(c) ==
  /\ sub[c].phase = "listening" /\ Behind(c) \in 1..Capacity
  /\ LET i == sub[c].consumed + 1 IN
     /\ Become(c, [sub[c] EXCEPT !.phase = "querying", !.consumed = i, !.hash = sent[i]])
     /\ missed' = [missed EXCEPT ![c] = @ \ {sent[i]}]
  /\ UNCHANGED <<vars, since, latest>>

\* recv() yields a hash.  Only now are the parameters validated; the error of
\* from_subscribe_parameters ends the task.
ReceiveHash(c) ==
  /\ sub[c].phase = "listening" /\ Behind(c) \in 1..Capacity
  /\ LET i == sub[c].consumed + 1
         valid == AddressesValid(sub[c].params) /\ TopicsValid(sub[c].params)
     IN  /\ Become(c, IF valid
                   THEN [sub[c] EXCEPT !.phase = "querying", !.consumed = i, !.hash = sent[i]]
                   ELSE Ended(c))
         /\ missed' = [missed EXCEPT ![c] = @ \ {sent[i]}]
  /\ UNCHANGED <<vars, since, latest>>

\* The blocks of the hashes that are no longer kept for a receiver.
Overwritten(c) == {sent[i] : i \in (sub[c].consumed + 1)..(Len(sent) - Capacity)}

\* Mutants: the receiver moves one hash too far; it drops what is still kept.
LagTooFar(c) ==
  /\ sub[c].phase = "listening" /\ Behind(c) > Capacity
  /\ Become(c, [sub[c] EXCEPT !.consumed = Len(sent) + 1])
  /\ missed' = [missed EXCEPT ![c] = @ \cup Overwritten(c)]
  /\ UNCHANGED <<vars, since, latest>>

LagToEnd(c) ==
  /\ sub[c].phase = "listening" /\ Behind(c) > Capacity
  /\ Become(c, [sub[c] EXCEPT !.consumed = Len(sent)])
  /\ missed' = [missed EXCEPT ![c] = @ \cup Overwritten(c)]
  /\ UNCHANGED <<vars, since, latest>>

\* RecvError::Lagged: the receiver moves on to the oldest hash that is kept.
Lag(c) ==
  /\ sub[c].phase = "listening" /\ Behind(c) > Capacity
  /\ Become(c, [sub[c] EXCEPT !.consumed = Len(sent) - Capacity])
  /\ missed' = [missed EXCEPT ![c] = @ \cup Overwritten(c)]
  /\ UNCHANGED <<vars, since, latest>>

\* RecvError::Closed: the ExEx future and the last task have dropped their
\* senders, and the receiver has drained the channel.
Closed(c) ==
  /\ sub[c].phase = "listening" /\ Behind(c) = 0
  /\ ~running /\ tasks = {}
  /\ Become(c, Ended(c))
  /\ UNCHANGED <<vars, since, latest, missed>>

\* exec_query: one SELECT, some time after the hash was received.
Query(c) ==
  /\ sub[c].phase = "querying"
  /\ \E rows \in Results(table, BlockHash(sub[c].hash), sub[c].params) :
       Become(c, [sub[c] EXCEPT !.phase = IF rows = {} THEN "listening" ELSE "sending",
                                !.rows = rows])
  /\ UNCHANGED <<vars, since, latest, missed>>

\* Topics are not checked to be hex: with one that is not the statement may be,
\* and without a quote always is, one that SQLite refuses.
QueryRejected(c) ==
  /\ sub[c].phase = "querying" /\ ~HexTopics(sub[c].params)
  /\ Become(c, Ended(c))
  /\ UNCHANGED <<vars, since, latest, missed>>

\* An error of SQLite ends the task; the client is not told why.
QueryFails(c) ==
  /\ sub[c].phase = "querying" /\ faults < MaxFaults
  /\ faults' = faults + 1
  /\ Become(c, Ended(c))
  /\ UNCHANGED <<env, running, tasks, table, sent, finished, handled, seen, tainted>>
  /\ UNCHANGED <<since, latest, missed>>

SameRow(r, q) == r.batch = q.batch /\ r.block = q.block /\ r.log = q.log

\* Mutant: only the first row of the block is sent.
SendOne(c) ==
  /\ sub[c].phase = "sending" /\ sub[c].open
  /\ \E r \in sub[c].rows :
       /\ Become(c, [sub[c] EXCEPT !.rows = {}, !.phase = "listening"])
       /\ latest' = [latest EXCEPT ![c] = {q \in @ : ~SameRow(q, r)} \cup {r}]
  /\ UNCHANGED <<vars, since, missed>>

\* The SELECT has no ORDER BY: the rows go out in any order, one await each.
Send(c) ==
  /\ sub[c].phase = "sending" /\ sub[c].open
  /\ \E r \in sub[c].rows :
       /\ Become(c, [sub[c] EXCEPT
                    !.rows = @ \ {r},
                    !.phase = IF sub[c].rows = {r} THEN "listening" ELSE "sending"])
       /\ latest' = [latest EXCEPT ![c] = {q \in @ : ~SameRow(q, r)} \cup {r}]
  /\ UNCHANGED <<vars, since, missed>>

\* The connection is gone: the first send that fails ends the task.
SendFails(c) ==
  /\ sub[c].phase = "sending" /\ ~sub[c].open
  /\ Become(c, Ended(c))
  /\ UNCHANGED <<vars, since, latest, missed>>

\* The client unsubscribes or hangs up; the task is not told.
Disconnect(c) ==
  /\ sub[c].open
  /\ Become(c, [sub[c] EXCEPT !.open = FALSE])
  /\ UNCHANGED <<vars, since, latest, missed>>

-----------------------------------------------------------------------------
Serve(c) ==
  \/ Resubscribe(c) \/ ReceiveHash(c) \/ Lag(c) \/ Closed(c)
  \/ Query(c) \/ QueryRejected(c) \/ Send(c) \/ SendFails(c)

Client(c) == Subscribe(c) \/ Disconnect(c) \/ QueryFails(c) \/ Serve(c)

Node == (Environment \/ Handle \/ RunTask) /\ UNCHANGED subVars

SubInit ==
  /\ sub = [c \in Clients |-> NoSub]
  /\ since = [c \in Clients |-> {}]
  /\ latest = [c \in Clients |-> {}]
  /\ missed = [c \in Clients |-> {}]

NodeInit == Init /\ SubInit

\* The RPC server dies with the process, its subscriptions with it.
NodeCrash ==
  /\ Crash
  /\ sub' = [c \in Clients |-> NoSub]
  /\ since' = [c \in Clients |-> {}]
  /\ latest' = [c \in Clients |-> {}]
  /\ missed' = [c \in Clients |-> {}]

NodeNext == Node \/ NodeCrash \/ \E c \in Clients : Client(c)

NodeSpec == NodeInit /\ [][NodeNext]_nodeVars

\* Tokio runs every task that is ready: the loop of the ExEx, the tasks it has
\* spawned, and each subscription's.
NodeFairness ==
  /\ WF_nodeVars(Receives /\ UNCHANGED subVars)
  /\ WF_nodeVars(Progress /\ UNCHANGED subVars)
  /\ \A c \in Clients : WF_nodeVars(Serve(c))

FairNodeSpec == NodeSpec /\ NodeFairness

-----------------------------------------------------------------------------
\* Type invariant of the subscriptions.
SubTypeOK ==
  /\ sub \in [Clients -> [phase : Phases, open : BOOLEAN, params : Params \cup {AllRows},
                          consumed : Nat, hash : Blocks \cup {Genesis},
                          rows : SUBSET Row]]
  /\ since \in [Clients -> SUBSET Row] /\ latest \in [Clients -> SUBSET Row]
  /\ missed \in [Clients -> SUBSET Blocks]
  /\ \A c \in Clients : sub[c].consumed <= Len(sent)

Matches(c, r) == AddressClause(sub[c].params, r) /\ TopicClauses(sub[c].params, r)

ValidSub(c) ==
  /\ AddressesValid(sub[c].params) /\ TopicsValid(sub[c].params)
  /\ HexTopics(sub[c].params)

\* Parameters that the validation or SQLite is bound to refuse.
IllFormed(c) ==
  \/ ~AddressesValid(sub[c].params) \/ ~TopicsValid(sub[c].params)
  \/ ~HexTopics(sub[c].params) /\ ~Quotes(sub[c].params)

\* A client that has been sent the removal of a row is never sent the row as
\* live again, although each message comes from a SELECT made some steps before
\* and the table changes in between (subscribe.rs:69-80, db.rs:94-103).
RemovalIsFinal ==
  [][\A c \in Clients : \A q \in latest[c] :
       (q.removed /\ ~Quotes(sub[c].params)) =>
         (q \in latest'[c] \/ latest'[c] = {})]_nodeVars

\* A client is told that it is subscribed before its parameters have been looked
\* at: with an address that is none, a fifth topic, or a topic that is no hex and
\* has no quote either, it is never sent a row, and its task ends with the first
\* hash instead of listening on (subscribe.rs:38, 64-69).
IllFormedGetsNothing ==
  [][\A c \in Clients : IllFormed(c) =>
       /\ latest'[c] = {}
       /\ sub[c].phase = "querying" => sub'[c].phase \in {"querying", "ended", "none"}]_nodeVars

\* A client whose task has consumed every hash has the last version of every
\* row it asked for that was stored or marked since its receiver was created:
\* no statement can slip between two announcements unnoticed, whatever the
\* order of the tasks.  A client that lags loses the blocks it has skipped, until
\* it hears of them again, and no other (lib.rs:150-153, subscribe.rs:62-82).
CaughtUpIsCurrent ==
  \A c \in Clients :
    (/\ sub[c].phase = "listening" /\ sub[c].open /\ Behind(c) = 0
     /\ tasks = {} /\ ValidSub(c)) =>
      \A r \in table \ since[c] :
        (Matches(c, r) /\ r.block \notin missed[c]) => r \in latest[c]

\* What a client has been sent is what the table held: a row never goes out
\* before it is stored, and a removal never before its UPDATE.
SentRowsStored ==
  \A c \in Clients : ~Quotes(sub[c].params) =>
    \A q \in latest[c] : \E r \in table : SameRow(r, q) /\ (q.removed => r.removed)

\* Every row that is stored or marked while a client listens is eventually sent to
\* it in its current version, unless the client leaves, skips the block's hash by
\* lagging, or a fault occurs (subscribe.rs:62-82).
EventuallyDelivered ==
  \A c \in Clients : \A b \in Blocks :
    (sub[c].phase = "listening" /\ ValidSub(c) /\ \E t \in tasks : b \in t.blocks)
      ~> (\/ \A r \in table \ since[c] : (r.block = b /\ Matches(c, r)) => r \in latest[c]
          \/ ~sub[c].open \/ b \in missed[c] \/ faults > 0)
=============================================================================
