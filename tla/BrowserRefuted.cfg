\* Every statement below is false of the code: leave one line to see its trace.
SPECIFICATION Spec
CONSTANTS
  p1 = p1 p2 = p2 p3 = p3 p4 = p4 p5 = p5
  Research = {r1, r2}
  Owner = {o}
  Janitor = {j}
  Pages <- ThreePages
  MaxOpen = 1
  MaxAttempts = 4
  EscalateAfter = 2
CHECK_DEADLOCK FALSE
INVARIANT GuardedIsInUse
PROPERTY HandleIsStopped
PROPERTY NeverYanked
PROPERTY OpenedPageIsOpen
INVARIANT PoolIsBounded
PROPERTY SamePageAfterPause
PROPERTY SessionTabStays
PROPERTY VerdictHonoured
