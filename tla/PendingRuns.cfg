CONSTANTS
  t1 = t1
  t2 = t2
  t3 = t3
  v1 = v1
  v2 = v2
  a = a
  b = b
  Row = {a, b}
  Kinds <- MCKinds
  Worker = {w1, w2}
  Trigger = {t1, t2, t3}
  PinOf <- MCPinOf
  DepthOf <- MCDepthOf
  Checked = {t2, t3}
  Fits <- MCFits
  WithTtl = {t2}
  Date = {mon, tue}
  MaxAttempts = 2
  MaxFaults <- MCMaxFaults
  MaxRearms = 1
  None = None
SPECIFICATION FairSpec
CHECK_DEADLOCK FALSE
INVARIANTS
  OneRunPerOccurrence
  BurstFiresAsOne
  OneWaitingOccurrence
PROPERTIES
  ParkedStartsSettle
