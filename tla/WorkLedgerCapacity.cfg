CONSTANTS
  chat = chat
  hook = hook
  task = task
  r1 = r1
  r2 = r2
  r3 = r3
  r4 = r4
  Work = {chat, hook, task}
  RunId = {r1, r2}
  NoWork = NoWork
  Nothing = Nothing
  ClassOf <- MCClassOf
  AgentOf <- MCPairAgent
  SessionOf <- MCNoSession
  CrewOf <- MCPairCrew
  CrewRow <- MCPairCrewRow
  MinMemoryMB = 2048
  HostChat = {chat}
  Assigned = {task}
  Deadlined = {}
  Kinds <- MCDispatchable
  Limits <- MCPairLimits
  MaxAttempts = 1
  Targets <- MCShippedTargets
  Outputs = {}
SPECIFICATION Spec
SYMMETRY MCSymmetry
CHECK_DEADLOCK FALSE
INVARIANT
  SlotsWithinLimits
