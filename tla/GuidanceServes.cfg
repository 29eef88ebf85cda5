CONSTANTS
  Kinds <- MCKinds
  Decided = {1, 3}
  Phases = 2
  BriefTarget = 0
  DefaultTarget = 4
  NoteRoom = 3
  PhaseRoom = 2
  PriorRoom = 5
  JournalLimit = 2
  FailureLimit = 2
  Repairs = 1
  MaxHeals = 1
  Plans <- MCPlans
SPECIFICATION Spec
INVARIANT TypeOK
INVARIANT PromptHasEveryNote
INVARIANT RowsAreOfPages
CHECK_DEADLOCK FALSE
