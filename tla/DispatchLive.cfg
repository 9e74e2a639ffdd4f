CONSTANTS
  hook = hook
  r1 = r1
  r2 = r2
  d1 = d1
  d2 = d2
  Work = {hook}
  RunId = {r1}
  NoWork = NoWork
  Nothing = Nothing
  ClassOf <- MCClassOf
  AgentOf <- MCAgentOf
  SessionOf <- MCSessionOf
  CrewOf <- MCCrewOf
  CrewRow <- MCCrewRow
  MinMemoryMB = 2048
  HostChat = {}
  Assigned = {}
  Deadlined = {}
  Kinds <- MCKinds
  Limits <- MCLimits
  MaxAttempts = 1
  Targets <- States
  Outputs = {"partial", "exit0", "exit1"}
  Server = {d1}
  Nobody = Nobody
  Resolutions = {"succeeded", "failed", "cancelled"}
  MaxRestarts = 1
SPECIFICATION FairDispatchSpec
CHECK_DEADLOCK FALSE
PROPERTIES
  CancelSettles
  DrainReturns
