CONSTANTS
  a1 = a1
  b2 = b2
  c2 = c2
  l1 = l1
  l2 = l2
  u = u
  weth = weth
  dai = dai
  other = other
  transfer = transfer
  junk = junk
  quote = quote
  NotHex = {junk, quote}
  Quoting = {quote}
  deposit = deposit
  Genesis = Genesis
  NoHash = NoHash
  Settled = {0}
  Start = 8
  Blocks = {a1, b2, c2}
  Log = {l1, l2, u}
  Address = {weth, dai, other}
  Topic = {transfer, deposit, junk, quote}
  Parent <- MCParent
  Number <- MCNumber
  ExecLogs <- MCExecLogs
  LogAddress <- MCLogAddress
  LogTopics <- MCLogTopics
  Requests <- MCRequests
  ShadowedLog = {l1, l2}
  Kinds = {"committed", "reverted"}
  MaxChain = 2
  MaxNotifications = 1
  MaxFaults = 0
SPECIFICATION CallSpec
CHECK_DEADLOCK FALSE
PROPERTIES RangeExact
