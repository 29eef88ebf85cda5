\* Every statement below is false of the code: leave one line to see its trace.
CONSTANTS
  Last = 3
  Adversarial = 2
  EntryState <- Entry3
  MaxIter = 2
  MaxPivots = 0
  MaxRefills = 1
  MaxJumps = 1
  MayRunOut = FALSE
  MaxStops = 2
SPECIFICATION Spec
CHECK_DEADLOCK FALSE
PROPERTY CursorOfThisPass
PROPERTY PauseKeepsPlace
PROPERTY PostWorkOnce
PROPERTY RefillKeepsAnalyses
PROPERTY ResumesAtFirstIncomplete
PROPERTY ScreenedBeforeSynthesis
PROPERTY SwitchIsAccepted
PROPERTY SwitchSurvivesRestart
INVARIANT WholeReportScreened
