CONSTANTS
  Start = {s1, s2}
  Policy <- MCPolicy
  Host = {"ample", "short"}
  TTL <- MCTTL
  MaxLag = 1
  None = None
SPECIFICATION FairSpec
INVARIANTS
  StartsWithinLimit
PROPERTIES
  RecentFacts
  HeldStartsGoOn
