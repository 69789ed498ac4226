-------------------------- MODULE MCShadowExecutor --------------------------
(***************************************************************************)
(* weth and vault are shadowed, with one bytecode for both; vault does not *)
(* exist at first, or has been sent money before it is deployed.  pair and *)
(* twin share a bytecode that may fail to be read; t2 has no sender.       *)
(***************************************************************************)
EXTENDS ShadowExecutor

CONSTANTS a1, b2, c3, t1, t2, t3, t4, t5, weth, vault, pair, twin,
          wethCode, vaultCode, pairCode, shadowCode

MCShadowJson == (weth :> shadowCode) @@ (vault :> shadowCode)

MCTransactions == (a1 :> <<t1, t2, t3>>) @@ (b2 :> <<t4, t5>>) @@ (c3 :> <<>>)

CallOf(a) == [kind |-> "call", to |-> a]
CreateOf(a, c) == [kind |-> "create", to |-> a, code |-> c]

MCDoes ==
  (t1 :> <<CallOf(pair), CallOf(weth)>>) @@ (t2 :> <<CallOf(weth)>>)
    @@ (t3 :> <<CreateOf(vault, vaultCode), CallOf(twin), CallOf(vault)>>)
    @@ (t4 :> <<CallOf(weth), CallOf(vault)>>) @@ (t5 :> <<CallOf(twin)>>)

MCEmits ==
  (NoCode :> 0) @@ (wethCode :> 1) @@ (vaultCode :> 1) @@ (pairCode :> 1) @@ (shadowCode :> 2)

MCWorld(v) == (weth :> wethCode) @@ (vault :> v) @@ (pair :> pairCode) @@ (twin :> pairCode)

MCHistories ==
  [world : {MCWorld(Absent), MCWorld(NoCode)},
   chains : {<<<<a1>>, <<b2>>>>, <<<<a1, c3, b2>>>>}]
=============================================================================
