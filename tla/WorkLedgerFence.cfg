CONSTANTS
  chat = chat
  hook = hook
  task = task
  r1 = r1
  r2 = r2
  r3 = r3
  r4 = r4
  Work = {hook, task}
  RunId = {r1, r2, r3}
  NoWork = NoWork
  Nothing = Nothing
  ClassOf <- MCClassOf
  AgentOf <- MCAgentOf
  SessionOf <- MCSessionOf
  CrewOf <- MCCrewOf
  CrewRow <- MCCrewRow
  MinMemoryMB = 2048
  HostChat = {}
  Assigned = {task}
  Deadlined = {hook}
  Kinds <- MCDispatchable
  Limits <- MCSerialLimits
  MaxAttempts = 1
  Targets <- States
  Outputs = {}
SPECIFICATION Spec
SYMMETRY MCSymmetry
CHECK_DEADLOCK FALSE
INVARIANTS
  TypeOK
  Fence
  RuntimeBudget
  OneTurnPerSession
