---------------------------- MODULE ShadowGetLogs ----------------------------
(***************************************************************************)
(* One shadow_getLogs request (crates/rpc/src/apis/get_logs.rs and         *)
(* validate_block_id of shadow_logs_query.rs) served while reth moves the  *)
(* chain and the tasks of the ExEx write the table.  The bounds of the     *)
(* range are read from the provider one at a time, the rows later.         *)
(***************************************************************************)
EXTENDS ShadowExEx, ShadowLogsQuery

CONSTANTS Requests,   \* the requests that may be made
          NoHash,     \* blockHash is absent
          Settled     \* bound: heights up to Start at which blocks may be final

\* A bound of the range: absent, a number, a tag, or a string that is neither.
Bounds == [tag : {"absent", "latest", "finalized", "safe", "earliest", "pending",
                  "malformed"}]
            \cup [tag : {"number"}, n : Nat]

ASSUME RequestAssumption ==
  /\ NoHash \notin Blocks /\ Settled \subseteq 0..Start
  /\ Requests \subseteq [hash : Blocks \cup {NoHash}, from : Bounds, to : Bounds,
                         filter : Filters]

VARIABLES
  call,       \* the request in progress
  shrunk      \* history: the chain has become shorter since it arrived

callVars == <<vars, call, shrunk>>

NoCall == [phase |-> "idle"]
Failed == [phase |-> "failed"]

Phases == {"hash", "from", "to", "topics", "select"}

-----------------------------------------------------------------------------
TipNumber == Start + Len(canon)

\* Mutant: the head comes from a cache that may be behind.
ResolvedStale(bound) ==
  CASE bound.tag = "number" -> {bound.n}
    [] bound.tag = "earliest" -> {0}
    [] bound.tag = "pending" -> {TipNumber, TipNumber + 1}
    [] bound.tag = "malformed" -> {}
    [] OTHER -> Settled \cup Start..TipNumber

\* What a bound may resolve to.  Only a number is not looked up.  The pending
\* block is the head's child or, without one, the head.
Resolved(bound) ==
  CASE bound.tag = "number" -> {bound.n}
    [] bound.tag = "earliest" -> {0}
    [] bound.tag \in {"finalized", "safe"} -> Settled \cup Start..TipNumber
    [] bound.tag \in {"absent", "latest"} -> {TipNumber}
    [] bound.tag = "pending" -> {TipNumber, TipNumber + 1}
    [] bound.tag = "malformed" -> {}

\* The provider has no such block (yet), or the string is no number and no tag.
MayFail(bound) == bound.tag \in {"finalized", "safe", "pending", "malformed"}

Fail == call' = Failed

\* The addresses come first, then blockHash excludes fromBlock and toBlock.
Request ==
  \E req \in Requests :
    /\ call = NoCall /\ running
    /\ LET bounded == req.from.tag # "absent" \/ req.to.tag # "absent"
       IN  IF ~AddressesValid(req.filter) \/ (req.hash # NoHash /\ bounded) THEN Fail
           ELSE call' = [phase |-> IF req.hash = NoHash THEN "from" ELSE "hash",
                         req |-> req]
    /\ UNCHANGED <<vars, shrunk>>

\* Mutant: the hash itself becomes the bound.
ResolveToHash ==
  /\ call.phase = "hash"
  /\ LET b == call.req.hash IN
     call' = [phase |-> "topics", req |-> call.req, from |-> b, to |-> b]
  /\ UNCHANGED <<vars, shrunk>>

\* block_by_hash finds every canonical block, and may find a block that is off
\* the chain in reth's block tree; only its number is kept.
ResolveHash ==
  /\ call.phase = "hash"
  /\ LET b == call.req.hash IN
     \/ call' = [phase |-> "topics", req |-> call.req,
                 from |-> Number[b], to |-> Number[b]]
     \/ b \notin ChainOf(canon) /\ Fail
  /\ UNCHANGED <<vars, shrunk>>

\* Without bounds a single read gives both.
ReadFrom ==
  /\ call.phase = "from"
  /\ \/ \E n \in Resolved(call.req.from) :
          call' = IF call.req.from.tag = "absent" /\ call.req.to.tag = "absent"
                  THEN [phase |-> "topics", req |-> call.req, from |-> n, to |-> n]
                  ELSE [phase |-> "to", req |-> call.req, from |-> n]
     \/ MayFail(call.req.from) /\ Fail
  /\ UNCHANGED <<vars, shrunk>>

ReadTo ==
  /\ call.phase = "to"
  /\ \/ \E n \in Resolved(call.req.to) :
          call' = [phase |-> "topics", req |-> call.req, from |-> call.from, to |-> n]
     \/ MayFail(call.req.to) /\ Fail
  /\ UNCHANGED <<vars, shrunk>>

CheckTopics ==
  /\ call.phase = "topics"
  /\ IF TopicsValid(call.req.filter) THEN call' = [call EXCEPT !.phase = "select"]
     ELSE Fail
  /\ UNCHANGED <<vars, shrunk>>

\* The SELECT is one statement: it sees the table as it is at this instant.
Answer ==
  /\ call.phase = "select"
  /\ \E rows \in Results(table, BlockRange(call.from, call.to), call.req.filter) :
       call' = [phase |-> "answered", req |-> call.req, from |-> call.from,
                to |-> call.to, rows |-> rows]
  /\ UNCHANGED <<vars, shrunk>>

\* The provider or SQLite returns an error, which becomes the answer; for a
\* statement that SQLite refuses it is the only answer.
CallFails ==
  /\ call.phase \in Phases \ {"topics"}
  /\ Fail
  /\ UNCHANGED <<vars, shrunk>>

-----------------------------------------------------------------------------
GetLogs ==
  \/ Request \/ ResolveHash \/ ReadFrom \/ ReadTo \/ CheckTopics \/ Answer \/ CallFails

\* The rest of the node moves on; a crash takes the connection with it.
Node ==
  /\ Environment \/ Handle \/ RunTask
  /\ shrunk' = (shrunk \/ (call.phase \in Phases /\ Len(canon') < Len(canon)))
  /\ UNCHANGED call

NodeCrash == Crash /\ call' = NoCall /\ shrunk' = FALSE

CallInit == Init /\ call = NoCall /\ shrunk = FALSE

CallNext == Node \/ NodeCrash \/ GetLogs

CallSpec == CallInit /\ [][CallNext]_callVars

-----------------------------------------------------------------------------
\* Type invariant of the request in progress.
CallTypeOK ==
  /\ shrunk \in BOOLEAN
  /\ \/ call \in {NoCall, Failed}
     \/ call \in [phase : {"hash"}, req : {q \in Requests : q.hash # NoHash}]
     \/ call \in [phase : {"from"}, req : {q \in Requests : q.hash = NoHash}]
     \/ call \in [phase : {"to"}, req : Requests, from : Nat]
     \/ call \in [phase : {"topics", "select"}, req : Requests, from : Nat, to : Nat]
     \/ call \in [phase : {"answered"}, req : Requests, from : Nat, to : Nat,
                  rows : SUBSET Row]

\* A request without topics, or with topics in hex, is answered.
Answering ==
  call.phase = "select" /\ call'.phase = "answered" /\ HexTopics(call.req.filter)

Wanted(r) == AddressClause(call.req.filter, r) /\ TopicClauses(call.req.filter, r)

\* A range from a block of the chain, or the first one, up to the head.
UpToHead(q) ==
  /\ q.hash = NoHash
  /\ q.from.tag \in {"absent", "latest", "finalized", "safe", "earliest"}
  /\ q.to.tag \in {"absent", "latest", "pending"}

\* The two bounds are read one after the other and need not come from one state
\* of the chain.  Still, a range up to the head is never turned upside down, which
\* BETWEEN would answer with no row: the lower bound is read first, and only a
\* chain that becomes shorter meanwhile has its head below it
\* (shadow_logs_query.rs:206-219, 239-254, 270-289).
RangeInOrder ==
  (/\ call.phase \in {"topics", "select", "answered"}
   /\ UpToHead(call.req) /\ ~shrunk) => call.from <= call.to

\* Among the blocks whose number has as many digits as both bounds, the answer
\* is the range that was asked for (the TEXT comparison of
\* shadow_logs_query.rs:383 orders equal widths as numbers).
SameWidthRangeExact ==
  [][Answering =>
       \A r \in table :
         (Wanted(r) /\ SameWidth(Number[r.block], call.from)
                    /\ SameWidth(Number[r.block], call.to)) =>
           (r \in call'.rows <=> Number[r.block] \in call.from..call.to)]_callVars

\* A request for one number, by number or by the hash of a block, returns no
\* row of another number, whatever the widths.
OneNumberExact ==
  [][(Answering /\ call.from = call.to) =>
       \A r \in table : Wanted(r) => (r \in call'.rows <=> Number[r.block] = call.from)]_callVars

\* End to end: without faults, when the ExEx has handled everything, the live
\* rows returned for one number are the wanted shadow logs of the canonical block
\* of that number, each once, unless the statements of a block there overlapped.
AnswerIsCanonical ==
  [][(Answering /\ call.from = call.to /\ faults = 0 /\ Quiescent) =>
       \A b \in Blocks \ tainted :
         Number[b] = call.from =>
           LET live == {r \in call'.rows : r.block = b /\ ~r.removed}
               logs == IF b \in ChainOf(canon) THEN ShadowLogs(b) ELSE {}
           IN  /\ \A r, q \in live : r.log = q.log => r = q
               /\ {r.log : r \in live} = {l \in logs : Wanted([log |-> l])}]_callVars

-----------------------------------------------------------------------------
(***************************************************************************)
(* What the documents say and the code does not do.                        *)
(***************************************************************************)
\* "Start of block range from which logs should originate", "End of block range
\* from which logs should originate" (get_logs.rs:21-24): every wanted row of
\* the range is returned, and no other.
RangeExact ==
  [][Answering =>
       \A r \in table :
         Wanted(r) =>
           (r \in call'.rows <=> Number[r.block] \in call.from..call.to)]_callVars
=============================================================================
