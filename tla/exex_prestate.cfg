CONSTANTS
  a1 = a1
  b2 = b2
  c2 = c2
  d3 = d3
  l1 = l1
  l2 = l2
  u = u
  Genesis = Genesis
  Start = 0
  Blocks = {a1, b2, c2, d3}
  Log = {l1, l2, u}
  Parent <- MCParent
  Number <- MCNumber
  ExecLogs <- MCExecLogs
  ShadowedLog = {l1, l2}
  Kinds = {"committed", "reverted"}
  MaxChain = 1
  MaxNotifications = 6
  MaxFaults = 0
SPECIFICATION Spec
CHECK_DEADLOCK FALSE
INVARIANTS ExecutedOnParentState
