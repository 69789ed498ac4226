---------------------------- MODULE MCShadowExEx ----------------------------
(***************************************************************************)
(* A small block tree for TLC, cut to the Blocks of each .cfg:             *)
(* a1 <- b2 <- d3 and a1 <- c2.  b2 also emits a log of a contract that is *)
(* not shadowed, c2 nothing else.                                          *)
(***************************************************************************)
EXTENDS ShadowExExIndex, TLC

CONSTANTS a1, b2, c2, d3, l1, l2, u

MCParent ==
  [b \in Blocks |-> CASE b = a1 -> Genesis [] b = d3 -> b2 [] OTHER -> a1]

MCNumber == [b \in Blocks |-> CASE b = a1 -> 1 [] b = d3 -> 3 [] OTHER -> 2]

MCExecLogs ==
  [b \in Blocks |-> CASE b = a1 -> {l1} [] b = b2 -> {l1, l2, u}
                      [] b = c2 -> {u}  [] b = d3 -> {l2}]
=============================================================================
