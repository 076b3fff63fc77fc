CONSTANTS
  Clients = {c1}
  MaxChunks = 2
  MaxRestarts = 1
  MaxFrames = 3
  None = None
SPECIFICATION Spec
INVARIANTS
  TypeOK
  ViewInOrder
  NoHoleAfterSnapshot
  TerminalPerSession
PROPERTY ChunksArrive
CHECK_DEADLOCK FALSE
