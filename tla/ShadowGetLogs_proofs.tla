------------------------ MODULE ShadowGetLogs_proofs ------------------------
(***************************************************************************)
(* Proofs about shadow_getLogs beside the ExEx, for every set of requests, *)
(* every block tree and every height.                                      *)
(***************************************************************************)
EXTENDS ShadowGetLogs, ShadowExExChain_proofs, ShadowLogsQuery_proofs

-----------------------------------------------------------------------------
(***************************************************************************)
(* The node under a request is the node of ShadowExEx: whatever is proved  *)
(* of Spec holds of it.                                                    *)
(***************************************************************************)
LEMMA GetLogsKeepsNode == GetLogs => UNCHANGED vars
BY DEF GetLogs, Request, ResolveHash, ReadFrom, ReadTo, CheckTopics, Answer, CallFails

LEMMA NodeUnderCall == CallSpec => Spec
<1>1. CallInit => Init
  BY DEF CallInit
<1>2. [CallNext]_callVars => [Next]_vars
  BY GetLogsKeepsNode DEF CallNext, Node, NodeCrash, Next, callVars
<1> QED
  BY <1>1, <1>2, PTL DEF CallSpec, Spec

-----------------------------------------------------------------------------
(***************************************************************************)
(* Type correctness.                                                       *)
(***************************************************************************)
LEMMA TipNumberType ==
  ASSUME TypeOK
  PROVE  Start \in Nat /\ TipNumber \in Nat /\ Start <= TipNumber
<1>1. Start \in Nat
  BY ChainAssumption
<1>2. Len(canon) \in Nat
  BY DEF TypeOK
<1> QED
  BY <1>1, <1>2 DEF TipNumber

LEMMA ResolvedType ==
  ASSUME TypeOK, NEW bound \in Bounds
  PROVE  Resolved(bound) \subseteq Nat
<1>1. TipNumber \in Nat
  BY TipNumberType
<1>2. CASE bound \in [tag : {"number"}, n : Nat]
  BY <1>2 DEF Resolved
<1>3. CASE bound.tag = "earliest"
  BY <1>3 DEF Resolved
<1>4. CASE bound.tag \in {"finalized", "safe"}
  BY <1>1, <1>4, ChainAssumption, RequestAssumption DEF Resolved
<1>5. CASE bound.tag \in {"absent", "latest"}
  BY <1>1, <1>5 DEF Resolved
<1>6. CASE bound.tag \in {"pending", "malformed"}
  BY <1>1, <1>6 DEF Resolved
<1> QED
  BY <1>2, <1>3, <1>4, <1>5, <1>6 DEF Bounds

LEMMA RequestType ==
  ASSUME NEW req \in Requests
  PROVE  /\ req.hash \in Blocks \cup {NoHash}
         /\ req.from \in Bounds /\ req.to \in Bounds
BY RequestAssumption

\* What is known of a request in each phase.
LEMMA PhaseType ==
  ASSUME CallTypeOK
  PROVE  /\ shrunk \in BOOLEAN
         /\ call.phase \in {"hash", "from", "to", "topics", "select", "answered"} =>
              call.req \in Requests
         /\ call.phase = "hash" => call.req.hash # NoHash
         /\ call.phase = "from" => call.req.hash = NoHash
         /\ call.phase \in {"to", "topics", "select"} => call.from \in Nat
         /\ call.phase \in {"topics", "select"} =>
              call \in [phase : {"topics", "select"}, req : Requests, from : Nat, to : Nat]
BY DEF CallTypeOK, NoCall, Failed

LEMMA GetLogsType ==
  ASSUME TypeOK, CallTypeOK, GetLogs
  PROVE  CallTypeOK'
<1> USE DEF Fail
<1>s. shrunk' \in BOOLEAN
  BY PhaseType DEF GetLogs, Request, ResolveHash, ReadFrom, ReadTo, CheckTopics, Answer, CallFails
<1>0. CASE call' = Failed
  BY <1>s, <1>0 DEF CallTypeOK
<1>1. CASE Request
  <2>1. PICK req \in Requests :
          \/ call' = Failed
          \/ call' = [phase |-> IF req.hash = NoHash THEN "from" ELSE "hash", req |-> req]
    BY <1>1 DEF Request
  <2> QED
    BY <1>s, <2>1 DEF CallTypeOK
<1>2. CASE ResolveHash /\ call' # Failed
  <2>1. call.req \in Requests /\ call.req.hash # NoHash
    BY <1>2, PhaseType DEF ResolveHash
  <2>2. call' = [phase |-> "topics", req |-> call.req,
                 from |-> Number[call.req.hash], to |-> Number[call.req.hash]]
    BY <1>2 DEF ResolveHash
  <2>3. Number[call.req.hash] \in Nat
    BY <2>1, RequestType, ChainAssumption
  <2> QED
    BY <1>s, <2>1, <2>2, <2>3 DEF CallTypeOK
<1>3. CASE ReadFrom /\ call' # Failed
  <2>1. call.req \in Requests
    BY <1>3, PhaseType DEF ReadFrom
  <2>2. PICK n \in Resolved(call.req.from) :
          \/ call' = [phase |-> "topics", req |-> call.req, from |-> n, to |-> n]
          \/ call' = [phase |-> "to", req |-> call.req, from |-> n]
    BY <1>3 DEF ReadFrom
  <2>3. n \in Nat
    BY <2>1, RequestType, ResolvedType
  <2> QED
    BY <1>s, <2>1, <2>2, <2>3 DEF CallTypeOK
<1>4. CASE ReadTo /\ call' # Failed
  <2>1. call.req \in Requests /\ call.from \in Nat
    BY <1>4, PhaseType DEF ReadTo
  <2>2. PICK n \in Resolved(call.req.to) :
          call' = [phase |-> "topics", req |-> call.req, from |-> call.from, to |-> n]
    BY <1>4 DEF ReadTo
  <2>3. n \in Nat
    BY <2>1, RequestType, ResolvedType
  <2> QED
    BY <1>s, <2>1, <2>2, <2>3 DEF CallTypeOK
<1>5. CASE CheckTopics /\ call' # Failed
  <2>1. call \in [phase : {"topics", "select"}, req : Requests, from : Nat, to : Nat]
    BY <1>5, PhaseType DEF CheckTopics
  <2>2. call' = [call EXCEPT !.phase = "select"]
    BY <1>5 DEF CheckTopics
  <2> QED
    BY <1>s, <2>1, <2>2 DEF CallTypeOK
<1>6. CASE Answer
  <2>1. call.req \in Requests /\ call.from \in Nat /\ call.to \in Nat
    BY <1>6, PhaseType DEF Answer
  <2>2. PICK rows \in Results(table, BlockRange(call.from, call.to), call.req.filter) :
          call' = [phase |-> "answered", req |-> call.req, from |-> call.from,
                   to |-> call.to, rows |-> rows]
    BY <1>6 DEF Answer
  <2>3. rows \in SUBSET Row
    BY <2>2 DEF Results, Select, TypeOK
  <2> QED
    BY <1>s, <2>1, <2>2, <2>3 DEF CallTypeOK
<1>7. CASE CallFails
  BY <1>0, <1>7 DEF CallFails
<1> QED
  BY <1>0, <1>1, <1>2, <1>3, <1>4, <1>5, <1>6, <1>7 DEF GetLogs

\* A request in progress holds what its phase calls for, numbers included: a
\* bound that reaches the SELECT is a number, whichever way it was read.
THEOREM CallTypeCorrect == CallSpec => []CallTypeOK
<1>1. CallInit => CallTypeOK
  BY DEF CallInit, CallTypeOK
<1>2. TypeOK /\ CallTypeOK /\ [CallNext]_callVars => CallTypeOK'
  <2> SUFFICES ASSUME TypeOK, CallTypeOK, [CallNext]_callVars PROVE CallTypeOK'
    OBVIOUS
  <2>0. shrunk' \in BOOLEAN
    BY PhaseType, GetLogsType DEF CallNext, Node, NodeCrash, callVars, CallTypeOK
  <2>1. CASE call' = call
    BY <2>0, <2>1 DEF CallTypeOK
  <2>2. CASE NodeCrash
    BY <2>2 DEF NodeCrash, CallTypeOK
  <2> QED
    BY <2>1, <2>2, GetLogsType DEF CallNext, Node, callVars
<1> QED
  BY <1>1, <1>2, NodeUnderCall, TypeCorrect, PTL DEF CallSpec

-----------------------------------------------------------------------------
(***************************************************************************)
(* The order of the bounds.                                                *)
(***************************************************************************)
\* Between the two reads the lower bound is no more than the head, unless the
\* chain has become shorter.
BoundsInv ==
  /\ RangeInOrder
  /\ (call.phase = "to" /\ UpToHead(call.req) /\ ~shrunk) => call.from <= TipNumber

\* What the lower bound resolves to is no more than the head ...
LEMMA LowerBound ==
  ASSUME TypeOK, NEW bound \in Bounds, NEW n \in Resolved(bound),
         bound.tag \in {"absent", "latest", "finalized", "safe", "earliest"}
  PROVE  n <= TipNumber
<1>1. TipNumber \in Nat /\ Start \in Nat /\ Start <= TipNumber
  BY TipNumberType
<1>2. CASE bound.tag \in {"finalized", "safe"}
  BY <1>1, <1>2, RequestAssumption DEF Resolved
<1>3. CASE bound.tag \in {"absent", "latest", "earliest"}
  BY <1>1, <1>3 DEF Resolved
<1> QED
  BY <1>2, <1>3

\* ... and the upper bound no less.
LEMMA UpperBound ==
  ASSUME TypeOK, NEW bound \in Bounds, NEW n \in Resolved(bound),
         bound.tag \in {"absent", "latest", "pending"}
  PROVE  TipNumber <= n
BY TipNumberType DEF Resolved

LEMMA GetLogsBounds ==
  ASSUME TypeOK, CallTypeOK, BoundsInv, GetLogs
  PROVE  BoundsInv'
<1> USE DEF Fail, UpToHead, Failed
<1>0. shrunk' = shrunk /\ TipNumber' = TipNumber
  BY DEF GetLogs, Request, ResolveHash, ReadFrom, ReadTo, CheckTopics, Answer, CallFails,
         TipNumber, vars, env
<1>1. CASE call' = Failed
  BY <1>1 DEF BoundsInv, RangeInOrder
<1>2. CASE Request
  <2>1. call'.phase \in {"from", "hash", "failed"}
    BY <1>2 DEF Request
  <2> QED
    BY <2>1 DEF BoundsInv, RangeInOrder
<1>3. CASE ResolveHash /\ call' # Failed
  <2>1. call.req.hash # NoHash
    BY <1>3, PhaseType DEF ResolveHash
  <2>2. call'.req.hash # NoHash
    BY <1>3, <2>1 DEF ResolveHash
  <2> QED
    BY <2>2 DEF BoundsInv, RangeInOrder
<1>4. CASE ReadFrom /\ call' # Failed
  <2>1. call.req.from \in Bounds
    BY <1>4, PhaseType, RequestType DEF ReadFrom
  <2>2. PICK n \in Resolved(call.req.from) :
          \/ call' = [phase |-> "topics", req |-> call.req, from |-> n, to |-> n]
          \/ call' = [phase |-> "to", req |-> call.req, from |-> n]
    BY <1>4 DEF ReadFrom
  <2>3. n \in Nat
    BY <2>1, ResolvedType
  <2>4. UpToHead(call.req) => n <= TipNumber
    BY <2>1, LowerBound
  <2> QED
    BY <1>0, <2>2, <2>3, <2>4 DEF BoundsInv, RangeInOrder
<1>5. CASE ReadTo /\ call' # Failed
  <2>1. call.phase = "to" /\ call.req.to \in Bounds /\ call.from \in Nat
    BY <1>5, PhaseType, RequestType DEF ReadTo
  <2>2. PICK n \in Resolved(call.req.to) :
          call' = [phase |-> "topics", req |-> call.req, from |-> call.from, to |-> n]
    BY <1>5 DEF ReadTo
  <2>3. n \in Nat
    BY <2>1, ResolvedType
  <2>4. UpToHead(call.req) => TipNumber <= n
    BY <2>1, UpperBound
  <2>5. (UpToHead(call.req) /\ ~shrunk) => call.from <= n
    BY <2>1, <2>3, <2>4, TipNumberType DEF BoundsInv
  <2> QED
    BY <1>0, <2>2, <2>5 DEF BoundsInv, RangeInOrder
<1>6. CASE CheckTopics /\ call' # Failed
  <2>1. /\ call.phase = "topics" /\ call'.phase = "select" /\ call'.req = call.req
        /\ call'.from = call.from /\ call'.to = call.to
    BY <1>6, PhaseType DEF CheckTopics
  <2> QED
    BY <1>0, <2>1 DEF BoundsInv, RangeInOrder
<1>7. CASE Answer
  <2>1. /\ call.phase = "select" /\ call'.phase = "answered" /\ call'.req = call.req
        /\ call'.from = call.from /\ call'.to = call.to
    BY <1>7 DEF Answer
  <2> QED
    BY <1>0, <2>1 DEF BoundsInv, RangeInOrder
<1>8. CASE CallFails
  BY <1>1, <1>8 DEF CallFails
<1> QED
  BY <1>1, <1>2, <1>3, <1>4, <1>5, <1>6, <1>7, <1>8 DEF GetLogs

LEMMA NodeBounds ==
  ASSUME TypeOK, TypeOK', CallTypeOK, BoundsInv, Node
  PROVE  BoundsInv'
<1>1. call' = call /\ (~shrunk' => ~shrunk)
  BY DEF Node
<1>2. RangeInOrder'
  BY <1>1 DEF BoundsInv, RangeInOrder
<1>3. ASSUME call.phase = "to", UpToHead(call.req), ~shrunk'
      PROVE  call.from <= TipNumber'
  <2>1. ~(Len(canon') < Len(canon))
    BY <1>3 DEF Node, Phases
  <2>2. Len(canon) \in Nat /\ Len(canon') \in Nat /\ Start \in Nat
    BY ChainAssumption DEF TypeOK
  <2>3. TipNumber <= TipNumber'
    BY <2>1, <2>2 DEF TipNumber
  <2>4. call.from <= TipNumber
    BY <1>1, <1>3 DEF BoundsInv
  <2>5. call.from \in Nat
    BY <1>3, PhaseType
  <2> QED
    BY <2>2, <2>3, <2>4, <2>5 DEF TipNumber
<1> QED
  BY <1>1, <1>2, <1>3 DEF BoundsInv, UpToHead

\* For every pair of tags, whatever the chain does between the two reads, a range
\* up to the head is not turned upside down unless the chain became shorter.
THEOREM BoundsInOrder == CallSpec => []RangeInOrder
<1>1. CallInit => BoundsInv
  BY DEF CallInit, NoCall, BoundsInv, RangeInOrder
<1>2. TypeOK /\ TypeOK' /\ CallTypeOK /\ BoundsInv /\ [CallNext]_callVars => BoundsInv'
  <2> SUFFICES ASSUME TypeOK, TypeOK', CallTypeOK, BoundsInv, [CallNext]_callVars
               PROVE  BoundsInv'
    OBVIOUS
  <2>1. CASE NodeCrash
    BY <2>1 DEF NodeCrash, NoCall, BoundsInv, RangeInOrder
  <2>2. CASE UNCHANGED callVars
    BY <2>2 DEF callVars, vars, env, BoundsInv, RangeInOrder, UpToHead, TipNumber
  <2> QED
    BY <2>1, <2>2, NodeBounds, GetLogsBounds DEF CallNext
<1>3. BoundsInv => RangeInOrder
  BY DEF BoundsInv
<1> QED
  BY <1>1, <1>2, <1>3, NodeUnderCall, TypeCorrect, CallTypeCorrect, PTL DEF CallSpec

-----------------------------------------------------------------------------
(***************************************************************************)
(* The answer.                                                             *)
(***************************************************************************)
\* Only Answer answers.
LEMMA AnsweringStep ==
  ASSUME CallTypeOK, [CallNext]_callVars, Answering
  PROVE  /\ call.from \in Nat /\ call.to \in Nat
         /\ call'.rows = Select(table, BlockRange(call.from, call.to), call.req.filter)
<1>0. HexTopics(call.req.filter)
  BY DEF Answering
<1>1. call.phase = "select" /\ call'.phase = "answered"
  BY DEF Answering
<1>2. call' \notin {call, NoCall, Failed} /\ call.phase # "topics"
  BY <1>1 DEF NoCall, Failed
<1>3. Answer
  BY <1>1, <1>2 DEF CallNext, callVars, Node, NodeCrash, GetLogs, Request, ResolveHash,
                   ReadFrom, ReadTo, CheckTopics, CallFails, Fail, NoCall
<1>4. Results(table, BlockRange(call.from, call.to), call.req.filter)
        = {Select(table, BlockRange(call.from, call.to), call.req.filter)}
  BY <1>0 DEF Results
<1> QED
  BY <1>1, <1>3, <1>4, PhaseType DEF Answer

\* A wanted row is returned if its number is within the bounds, as texts go.
LEMMA AnsweredRow ==
  ASSUME TypeOK, CallTypeOK, [CallNext]_callVars, Answering, NEW r \in table
  PROVE  /\ Number[r.block] \in Nat /\ call.from \in Nat /\ call.to \in Nat
         /\ r \in call'.rows <=>
              Wanted(r) /\ NumberBetween(Number[r.block], call.from, call.to)
<1>1. Number[r.block] \in Nat
  BY ChainAssumption DEF TypeOK, Row
<1>2. r \in call'.rows <=>
        /\ BlockClause(BlockRange(call.from, call.to), r)
        /\ AddressClause(call.req.filter, r) /\ TopicClauses(call.req.filter, r)
  BY AnsweringStep DEF Select
<1> QED
  BY <1>1, <1>2, AnsweringStep DEF BlockClause, BlockRange, Wanted

\* Whatever the widths of the numbers in the table, a request for one number
\* gets the wanted rows of that number and no other.
THEOREM OneNumberCorrect == CallSpec => OneNumberExact
<1> DEFINE Exact == (Answering /\ call.from = call.to) =>
       \A r \in table : Wanted(r) => (r \in call'.rows <=> Number[r.block] = call.from)
<1>1. ASSUME TypeOK, CallTypeOK, [CallNext]_callVars
      PROVE  Exact
  <2> SUFFICES ASSUME Answering, call.from = call.to, NEW r \in table, Wanted(r)
               PROVE  r \in call'.rows <=> Number[r.block] = call.from
    OBVIOUS
  <2> QED
    BY <1>1, AnsweredRow, OneNumber
<1>2. TypeOK /\ CallTypeOK /\ [CallNext]_callVars => [Exact]_callVars
  BY <1>1
<1> QED
  BY <1>2, NodeUnderCall, TypeCorrect, CallTypeCorrect, PTL DEF CallSpec, OneNumberExact

\* Among the blocks whose number is as wide as both bounds, the answer is the
\* range that was asked for.
THEOREM SameWidthCorrect == CallSpec => SameWidthRangeExact
<1> DEFINE Exact == Answering =>
       \A r \in table :
         (Wanted(r) /\ SameWidth(Number[r.block], call.from)
                    /\ SameWidth(Number[r.block], call.to)) =>
           (r \in call'.rows <=> Number[r.block] \in call.from..call.to)
<1>1. ASSUME TypeOK, CallTypeOK, [CallNext]_callVars
      PROVE  Exact
  <2> SUFFICES ASSUME Answering, NEW r \in table, Wanted(r),
                      SameWidth(Number[r.block], call.from),
                      SameWidth(Number[r.block], call.to)
               PROVE  r \in call'.rows <=> Number[r.block] \in call.from..call.to
    OBVIOUS
  <2> QED
    BY <1>1, AnsweredRow, SameWidthRange
<1>2. TypeOK /\ CallTypeOK /\ [CallNext]_callVars => [Exact]_callVars
  BY <1>1
<1> QED
  BY <1>2, NodeUnderCall, TypeCorrect, CallTypeCorrect, PTL DEF CallSpec, SameWidthRangeExact

-----------------------------------------------------------------------------
(***************************************************************************)
(* The answer and the chain.                                               *)
(***************************************************************************)
\* What a SELECT for one number finds of a block with that number, when the
\* table matches the chain.
LEMMA LiveAnswer ==
  ASSUME TypeOK, LoggedInv, IndexMatchesChain, CallTypeOK, [CallNext]_callVars, Answering,
         call.from = call.to, faults = 0, Quiescent,
         NEW b \in Blocks \ tainted, Number[b] = call.from
  PROVE  LET live == {r \in call'.rows : r.block = b /\ ~r.removed}
             logs == IF b \in ChainOf(canon) THEN ShadowLogs(b) ELSE {}
         IN  /\ \A r, q \in live : r.log = q.log => r = q
             /\ {r.log : r \in live} = {l \in logs : Wanted([log |-> l])}
<1> DEFINE live == {r \in call'.rows : r.block = b /\ ~r.removed}
           logs == IF b \in ChainOf(canon) THEN ShadowLogs(b) ELSE {}
<1>1. IF b \in ChainOf(canon) THEN StoredOnce(b) ELSE Live(table, b) = {}
  BY DEF IndexMatchesChain
<1>2. \A r : Wanted(r) <=> Wanted([log |-> r.log])
  BY DEF Wanted, AddressClause, TopicClauses
<1>3. \A r : r \in live <=> r \in Live(table, b) /\ Wanted(r)
  <2>1. call'.rows \subseteq table
    BY AnsweringStep DEF Select
  <2>2. \A r \in table : r.block = b => (r \in call'.rows <=> Wanted(r))
    BY AnsweredRow, OneNumber
  <2> QED
    BY <2>1, <2>2 DEF Live
<1> HIDE DEF live
<1> DEFINE Right == /\ \A r, q \in live : r.log = q.log => r = q
                    /\ {r.log : r \in live} = {l \in logs : Wanted([log |-> l])}
<1>4. CASE b \notin ChainOf(canon)
  <2>1. live = {} /\ logs = {}
    BY <1>1, <1>3, <1>4
  <2>2. Right
    BY <2>1
  <2> QED
    BY <2>2 DEF live
<1>5. CASE b \in ChainOf(canon)
  <2>1. \A r, q \in live : r.log = q.log => r = q
    BY <1>1, <1>3, <1>5 DEF StoredOnce
  <2>2. \A r \in live : r.log \in ShadowLogs(b) /\ Wanted([log |-> r.log])
    BY <1>2, <1>3 DEF LoggedInv, Live
  <2>3. ASSUME NEW l \in ShadowLogs(b), Wanted([log |-> l])
        PROVE  \E r \in live : r.log = l
    <3>1. PICK r \in Live(table, b) : r.log = l
      BY <1>1, <1>5 DEF StoredOnce
    <3> QED
      BY <1>2, <1>3, <2>3, <3>1
  <2>4. {r.log : r \in live} = {l \in logs : Wanted([log |-> l])}
    BY <1>5, <2>2, <2>3
  <2>5. Right
    BY <2>1, <2>4
  <2> QED
    BY <2>5 DEF live
<1> QED
  BY <1>4, <1>5

\* From reth's chain to the client: without faults, when the ExEx has handled
\* everything, the live rows returned for one number are the wanted shadow logs
\* of the canonical block there, each once.
THEOREM AnswerCorrect == CallSpec => AnswerIsCanonical
<1> DEFINE Right ==
      (Answering /\ call.from = call.to /\ faults = 0 /\ Quiescent) =>
        \A b \in Blocks \ tainted :
          Number[b] = call.from =>
            LET live == {r \in call'.rows : r.block = b /\ ~r.removed}
                logs == IF b \in ChainOf(canon) THEN ShadowLogs(b) ELSE {}
            IN  /\ \A r, q \in live : r.log = q.log => r = q
                /\ {r.log : r \in live} = {l \in logs : Wanted([log |-> l])}
<1>1. ASSUME TypeOK, LoggedInv, IndexMatchesChain, CallTypeOK, [CallNext]_callVars
      PROVE  Right
  BY <1>1, LiveAnswer
<1>2. TypeOK /\ LoggedInv /\ IndexMatchesChain /\ CallTypeOK /\ [CallNext]_callVars
        => [Right]_callVars
  BY <1>1
<1> QED
  BY <1>2, NodeUnderCall, TypeCorrect, StoredLogs, MatchesCanonical, CallTypeCorrect, PTL
     DEF CallSpec, AnswerIsCanonical
=============================================================================
