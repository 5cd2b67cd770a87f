SPECIFICATION ServedSpec
CONSTANTS
  OutCap = 2
  SockCap = 1
  InCap = 2
  MaxCommands = 4
  MaxPdus = 2
  MaxReplies = 2
  MaxSteps = 2
CHECK_DEADLOCK FALSE
INVARIANTS
  NoFrameSkipped
PROPERTIES
  ReadsNeverStall
  QuitIsBounded
