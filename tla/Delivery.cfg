CONSTANTS
  hookA = hookA
  hookB = hookB
  event = event
  ping = ping
  empty = empty
  sw1 = sw1
  sw2 = sw2
  Sweeper = {sw1, sw2}
  Source = {hookA, hookB}
  EndpointOf <- MCEndpointOf
  Body = {event, empty, ping}
  Deliveries <- MCDeliveries
  Pings = {ping}
  BytesOf <- MCBytesOf
  m1 = m1
  m2 = m2
  m3 = m3
  Id = {m1, m2}
  RankOf <- MCRankOf
  MaxOther = 1
  EndpointNonTerminal = 1
  WorkspaceNonTerminal = 2
  WorkspaceRawBytes = 2
  Batch = 1
  Nothing = Nothing
SPECIFICATION FairSpec
CHECK_DEADLOCK FALSE
INVARIANTS
  RetryGetsTheReceipt
  RetentionKeepsItsPromise
  BacklogWithinLimits
PROPERTIES
  AcceptsOnce
  SweepEnds
