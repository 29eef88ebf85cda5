SPECIFICATION Spec
CONSTANTS
  p1 = p1 p2 = p2 p3 = p3 p4 = p4 p5 = p5
  Research = {r1}
  Owner = {o}
  Janitor = {}
  Pages <- FourPages
  MaxOpen = 1
  MaxAttempts = 4
  EscalateAfter = 2
SYMMETRY PageSymmetry
PROPERTY OwnerTabStays
CHECK_DEADLOCK FALSE
