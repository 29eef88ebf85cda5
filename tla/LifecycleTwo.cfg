CONSTANTS
  Sessions = {s1, s2}
  Slots = {1}
  None = None
  MaxConcurrent = 1
  MaxSessions = 2
  HealAttempts = 0
  EntryStates = {"planning"}
  PreflightWalks = FALSE
SPECIFICATION Spec
SYMMETRY Symmetry
INVARIANT CapUntilCancelled
