CONSTANTS
  w1 = w1
  w2 = w2
  run1 = run1
  run2 = run2
  b1 = b1
  b2 = b2
  Writer = {w1, w2}
  Run = {}
  Backup = {b1}
  Detached = {w2}
  None = None
SPECIFICATION Spec
CHECK_DEADLOCK FALSE
INVARIANT
  HeldIsQuiet
