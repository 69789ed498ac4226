CONSTANTS
  a1 = a1
  b2 = b2
  c3 = c3
  t1 = t1
  t2 = t2
  t3 = t3
  t4 = t4
  t5 = t5
  weth = weth
  vault = vault
  pair = pair
  twin = twin
  wethCode = wethCode
  vaultCode = vaultCode
  pairCode = pairCode
  shadowCode = shadowCode
  NoCode = NoCode
  Absent = Absent
  Unloaded = Unloaded
  Blocks = {a1, b2, c3}
  Tx = {t1, t2, t3, t4, t5}
  Address = {weth, vault, pair, twin}
  Code = {wethCode, vaultCode, pairCode, shadowCode}
  ShadowJson <- MCShadowJson
  Transactions <- MCTransactions
  Signed = {t1, t3, t4, t5}
  Does <- MCDoes
  Emits <- MCEmits
  Unreliable = {pairCode}
  Histories <- MCHistories
SPECIFICATION Spec
CHECK_DEADLOCK FALSE
INVARIANTS ShadowBytecodeInjected
