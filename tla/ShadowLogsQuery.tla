--------------------------- MODULE ShadowLogsQuery ---------------------------
(***************************************************************************)
(* ValidatedQueryParams and exec_query of                                  *)
(* crates/rpc/src/shadow_logs_query.rs: which requests are well-formed and *)
(* which rows the SELECT built from them returns.  A row's address and     *)
(* topics are those of its log.                                            *)
(***************************************************************************)
EXTENDS Integers, Sequences, ShadowSqliteDb

CONSTANTS Address, Topic,
          NotHex,       \* topic texts that are not a prefix of two and bytes in hex
          Quoting,      \* those of them with a quote after the prefix
          LogAddress,   \* the contract that emitted a log
          LogTopics     \* its topics, at most four

ASSUME LogAssumption ==
  /\ Quoting \subseteq NotHex /\ NotHex \subseteq Topic
  /\ LogAddress \in [Log -> Address]
  /\ LogTopics \in [Log -> Seq(Topic \ NotHex)]

\* The part of a request that getLogs and subscribe share.  `parses`: every
\* address string is one; no address at all is the empty set.
Filters == [parses : BOOLEAN, addresses : SUBSET Address, topics : Seq(Topic)]

AddressesValid(f) == f.parses

\* Only their number is looked at.
TopicsValid(f) == Len(f.topics) <= 4

-----------------------------------------------------------------------------
(***************************************************************************)
(* block_number is a TEXT column.  SQLite gives the integer literals of    *)
(* BETWEEN the affinity of the column, so numbers compare as their decimal *)
(* texts do, digit by digit.                                               *)
(***************************************************************************)
Digits[n \in Nat] ==
  IF n < 10 THEN <<n>> ELSE Append(Digits[n \div 10], n % 10)

TextLeq(s, t) ==
  \/ Len(s) <= Len(t) /\ \A i \in DOMAIN s : s[i] = t[i]
  \/ \E i \in DOMAIN s \cap DOMAIN t :
       s[i] < t[i] /\ \A j \in 1..(i - 1) : s[j] = t[j]

\* Mutants: the upper bound is excluded; it is forgotten.
NumberBelow(n, from, to) ==
  /\ TextLeq(Digits[from], Digits[n]) /\ TextLeq(Digits[n], Digits[to])
  /\ Digits[n] # Digits[to]

NumberFrom(n, from, to) == TextLeq(Digits[from], Digits[n])

NumberBetween(n, from, to) ==
  TextLeq(Digits[from], Digits[n]) /\ TextLeq(Digits[n], Digits[to])

SameWidth(m, n) == Len(Digits[m]) = Len(Digits[n])

-----------------------------------------------------------------------------
\* ValidatedBlockIdParam.
BlockHash(b) == [kind |-> "hash", hash |-> b]
BlockRange(from, to) == [kind |-> "range", from |-> from, to |-> to]

BlockClause(id, r) ==
  IF id.kind = "hash" THEN r.block = id.hash
  ELSE NumberBetween(Number[r.block], id.from, id.to)

\* No address, no clause.
AddressClause(f, r) == f.addresses # {} => LogAddress[r.log] \in f.addresses

\* A topic the log does not have is NULL, which equals nothing.
TopicClauses(f, r) ==
  \A i \in DOMAIN f.topics :
    i \in DOMAIN LogTopics[r.log] /\ LogTopics[r.log][i] = f.topics[i]

\* The WHERE clause as a whole; the SELECT returns removed rows too.
Select(table, id, f) ==
  {r \in table : BlockClause(id, r) /\ AddressClause(f, r) /\ TopicClauses(f, r)}

\* The text of a topic, less its first two characters, is pasted between the
\* quotes of X'..'.
HexTopics(f) == \A i \in DOMAIN f.topics : f.topics[i] \notin NotHex
Quotes(f) == \E i \in DOMAIN f.topics : f.topics[i] \in Quoting

\* What exec_query may return besides an error.  Text in a literal that is not
\* hex makes a statement SQLite refuses to parse; text with a quote goes on
\* outside the literal, and what the condition then is depends on the text (rows
\* that are not in the table are left out: no property speaks of such a request).
Results(table, id, f) ==
  IF HexTopics(f) THEN {Select(table, id, f)}
  ELSE IF Quotes(f) THEN SUBSET table ELSE {}
=============================================================================
