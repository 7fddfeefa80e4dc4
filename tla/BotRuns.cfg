CONSTANTS
  Parent = {p1}
  Followed = p1
  NoRun = none
  Outcome = {"completed", "awaiting_tool"}
  PageSize = 1
  MaxFrames = 1
  MaxTurns = 2
  MaxResumes = 1
  MaxStarts = 2
SPECIFICATION Spec
INVARIANTS ReplayExact ResultOnce
PROPERTIES TerminalIsFinal LeftRunTaken
CHECK_DEADLOCK FALSE
