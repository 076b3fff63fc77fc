SPECIFICATION ModeSpec
CONSTANTS
  Uses <- UsedTogether
  States <- TriedStates
  QueueMax = 3
  Buffer = 2
  MaxChunks = 5
  MaxInputs = 2
  MaxFlips = 4
  MaxTimeouts = 2
  MaxStarts = 3
  Modes = {"default", "plan"}
  MaxToggles = 2
  MaxUnderWay = 2
  None = None
INVARIANTS
  ModeTypeOK
  OutputInOrder
PROPERTIES
  OutputDrains
  InputTyped
  PausedCatchesUp
  ModeFollows
CHECK_DEADLOCK FALSE
