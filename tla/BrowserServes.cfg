SPECIFICATION FairSpec
CONSTANTS
  p1 = p1 p2 = p2 p3 = p3 p4 = p4 p5 = p5
  Research = {r1}
  Owner = {}
  Janitor = {j}
  Pages <- ThreePages
  MaxOpen = 1
  MaxAttempts = 4
  EscalateAfter = 2
INVARIANT ProfileIsFree
INVARIANT NeverDirectAgainstPolicy
PROPERTY CallEnds
CHECK_DEADLOCK FALSE
