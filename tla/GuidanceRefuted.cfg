\* Every statement below is false of the code: leave one line to see its trace.
CONSTANTS
  Kinds <- AllKinds
  Decided = {1, 3}
  Phases = 4
  BriefTarget = 0
  DefaultTarget = 4
  NoteRoom = 3
  PhaseRoom = 2
  PriorRoom = 5
  JournalLimit = 2
  FailureLimit = 2
  Repairs = 1
  MaxHeals = 1
  Plans <- Apart
SPECIFICATION Spec
CHECK_DEADLOCK FALSE
INVARIANT JournalIsWhole
INVARIANT LastTargetStands
INVARIANT LostTabIsNoEvidence
INVARIANT NewestNoteIsShown
PROPERTY OwnersNameStays
INVARIANT PictureIsTheLastAction
INVARIANT PriorPhasesAreShown
PROPERTY ReplyIsHarmless
INVARIANT TabsAreReturned
INVARIANT WallIsNoEvidence
