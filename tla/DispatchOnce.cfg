CONSTANTS
  hook = hook
  r1 = r1
  r2 = r2
  d1 = d1
  d2 = d2
  Work = {hook}
  RunId = {r1, r2}
  NoWork = NoWork
  Nothing = Nothing
  ClassOf <- MCClassOf
  AgentOf <- MCAgentOf
  SessionOf <- MCSessionOf
  CrewOf <- MCCrewOf
  CrewRow <- MCCrewRow
  MinMemoryMB = 2048
  HostChat = {}
  Assigned = {}
  Deadlined = {}
  Kinds <- MCKinds
  Limits <- MCLimits
  MaxAttempts = 2
  Targets <- States
  Outputs = {"partial", "exit0", "exit1"}
  Server = {d1, d2}
  Nobody = Nobody
  Resolutions = {}
  MaxRestarts = 1
SPECIFICATION DispatchSpec
SYMMETRY MCSymmetry
CHECK_DEADLOCK FALSE
INVARIANTS
  DispatchTypeOK
  LiveProcessHoldsItsSlot
  AtMostOneExecution
  CompletedIsNotUndone
  StopIsProof
PROPERTY
  ImplementsLedger
