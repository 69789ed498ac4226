CONSTANTS
  a1 = a1
  b2 = b2
  l1 = l1
  l2 = l2
  weth = weth
  dai = dai
  transfer = transfer
  junk = junk
  NotHex = {junk}
  Quoting = {}
  Genesis = Genesis
  Start = 0
  Clients = {c1}
  Capacity = 2
  Params <- MCParams
  Blocks = {a1, b2}
  Log = {l1, l2}
  Address = {weth, dai}
  Topic = {transfer, junk}
  Parent <- MCParent
  Number <- MCNumber
  ExecLogs <- MCExecLogs
  LogAddress <- MCLogAddress
  LogTopics <- MCLogTopics
  ShadowedLog = {l1, l2}
  Kinds = {"committed", "reverted"}
  MaxChain = 1
  MaxNotifications = 3
  MaxFaults = 1
SPECIFICATION NodeSpec
CHECK_DEADLOCK FALSE
INVARIANTS SubTypeOK CaughtUpIsCurrent SentRowsStored
PROPERTIES RemovalIsFinal IllFormedGetsNothing
