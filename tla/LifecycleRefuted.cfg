\* Every statement below is false of the code: leave one line to see its trace.
CONSTANTS
  Sessions = {s1, s2}
  Slots = {1, 2}
  None = None
  MaxConcurrent = 1
  MaxSessions = 1
  HealAttempts = 1
  EntryStates = {"planning"}
  PreflightWalks = TRUE
SPECIFICATION FairSpec
PROPERTY CancelIsDurable
INVARIANT CapEnforced
PROPERTY FinishedIsCorrected
INVARIANT NeverRaisesOutward
PROPERTY QueuedIsTakenUp
PROPERTY RestartResumes
INVARIANT SessionCap
INVARIANT SignInResumesOnlyAuthPauses
