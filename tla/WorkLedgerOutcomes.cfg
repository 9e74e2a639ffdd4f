CONSTANTS
  chat = chat
  hook = hook
  task = task
  r1 = r1
  r2 = r2
  r3 = r3
  r4 = r4
  Work = {chat, hook}
  RunId = {r1, r2}
  NoWork = NoWork
  Nothing = Nothing
  ClassOf <- MCClassOf
  AgentOf <- MCAgentOf
  SessionOf <- MCNoSession
  CrewOf <- MCCrewOf
  CrewRow <- MCCrewRow
  MinMemoryMB = 2048
  HostChat = {chat}
  Assigned = {}
  Deadlined = {}
  Kinds <- MCDispatchable
  Limits <- MCRoomyLimits
  MaxAttempts = 1
  Targets <- MCShippedTargets
  Outputs = {"partial", "exit0"}
SPECIFICATION Spec
SYMMETRY MCSymmetry
CHECK_DEADLOCK FALSE
INVARIANTS
  ReportedOutcomeIsTheWorks
  JournalAgrees
  ParkedHoldsItsSlot
PROPERTY
  OutcomesAreFinal
  ItemsKeepThePromise
