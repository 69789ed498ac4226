-------------------------- MODULE MCShadowSubscribe --------------------------
(***************************************************************************)
(* A chain of two blocks whose logs come from two contracts, and clients   *)
(* that want all of them, one contract's, or have sent invalid parameters. *)
(***************************************************************************)
EXTENDS ShadowSubscribe, TLC

CONSTANTS a1, b2, l1, l2, weth, dai, transfer, junk

MCParent == [b \in Blocks |-> IF b = a1 THEN Genesis ELSE a1]

MCNumber == [b \in Blocks |-> Start + (IF b = a1 THEN 1 ELSE 2)]

MCExecLogs == [b \in Blocks |-> IF b = a1 THEN {l1} ELSE {l1, l2}]

\* Of two blocks, one without shadow logs.
MCLiveLogs == [b \in Blocks |-> IF b = a1 THEN {l1, l2} ELSE {}]

MCLogAddress == (l1 :> weth) @@ (l2 :> dai)

MCLogTopics == (l1 :> <<transfer>>) @@ (l2 :> <<>>)

MCAll == {AllRows}

MCParams ==
  {AllRows,
   [AllRows EXCEPT !.addresses = {dai}],
   [AllRows EXCEPT !.topics = <<transfer>>],
   [AllRows EXCEPT !.parses = FALSE],
   [AllRows EXCEPT !.topics = <<junk>>]}
=============================================================================
