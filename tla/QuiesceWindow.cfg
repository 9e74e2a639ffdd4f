CONSTANTS
  w1 = w1
  w2 = w2
  run1 = run1
  run2 = run2
  b1 = b1
  b2 = b2
  Writer = {w1}
  Run = {run1}
  Backup = {b1, b2}
  Detached = {}
  None = None
SPECIFICATION FairSpec
CHECK_DEADLOCK FALSE
INVARIANTS
  TypeOK
  HeldIsQuiet
  KeptCopyIsConsistent
  DrainWakes
  GuardsEndWithWindow
PROPERTIES
  AdmissionReopens
  BeginReturns
