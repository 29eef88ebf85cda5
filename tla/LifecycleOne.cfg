CONSTANTS
  Sessions = {s1}
  Slots = {1, 2}
  None = None
  MaxConcurrent = 1
  MaxSessions = 1
  HealAttempts = 1
  EntryStates <- AllEntryStates
  PreflightWalks = TRUE
SPECIFICATION Spec
INVARIANT RunningHasRunner
INVARIANT OneRunnerUntilCancelled
PROPERTY CompletedIsFinal
PROPERTY BootLeavesNoOrphan
