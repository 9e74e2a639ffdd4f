CONSTANTS
  r1 = r1
  r2 = r2
  Replica = {r1, r2}
  NoOne = NoOne
  TTL = 4
  Second = 2
  MaxLag = 2
SPECIFICATION FairSpec
PROPERTY
  SomeoneLeads
INVARIANTS
  OneLease
  GateOutlivesLeaseBriefly
