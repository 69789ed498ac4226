--------------------------- MODULE MCShadowGetLogs ---------------------------
(***************************************************************************)
(* The fork a1 <- b2, a1 <- c2 with a shadow log in each block, and one    *)
(* request of each form.                                                   *)
(***************************************************************************)
EXTENDS ShadowGetLogs, TLC

CONSTANTS a1, b2, c2, l1, l2, u, weth, dai, other, transfer, deposit, junk,
          quote

MCParent == [b \in Blocks |-> IF b = a1 THEN Genesis ELSE a1]

MCNumber == [b \in Blocks |-> IF b = a1 THEN Start + 1 ELSE Start + 2]

MCExecLogs ==
  [b \in Blocks |-> CASE b = a1 -> {l1} [] b = b2 -> {l1, l2, u} [] b = c2 -> {l2, u}]

MCLogAddress == (l1 :> weth) @@ (l2 :> dai) @@ (u :> other)

MCLogTopics == (l1 :> <<transfer>>) @@ (l2 :> <<deposit, transfer>>) @@ (u :> <<>>)

Absent == [tag |-> "absent"]
At(n) == [tag |-> "number", n |-> n]
Tag(t) == [tag |-> t]

Every == [parses |-> TRUE, addresses |-> {}, topics |-> <<>>]

Ask(hash, from, to, filter) == [hash |-> hash, from |-> from, to |-> to, filter |-> filter]

\* Requests that get as far as the SELECT ...
MCRequests ==
  {Ask(NoHash, Absent, Absent, Every),
   Ask(NoHash, Absent, At(Start + 1), Every),
   Ask(NoHash, At(Start + 1), Tag("latest"), [Every EXCEPT !.topics = <<transfer>>]),
   Ask(NoHash, Tag("latest"), Absent, [Every EXCEPT !.topics = <<deposit, transfer>>]),
   Ask(b2, Absent, Absent, [Every EXCEPT !.addresses = {dai}])}

\* ... and those that may not.
MCAllRequests ==
  MCRequests \cup
  {Ask(NoHash, Tag("finalized"), Tag("latest"), [Every EXCEPT !.topics = <<junk>>]),
   Ask(NoHash, Tag("earliest"), Tag("pending"),
       [Every EXCEPT !.topics = [i \in 1..5 |-> transfer]]),
   Ask(NoHash, Tag("malformed"), Absent, Every),
   Ask(NoHash, Absent, Absent, [Every EXCEPT !.parses = FALSE]),
   Ask(NoHash, Absent, Absent, [Every EXCEPT !.topics = <<quote>>]),
   Ask(b2, At(Start + 1), Absent, Every)}
=============================================================================
