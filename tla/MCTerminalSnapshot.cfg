CONSTANTS
  Clients = {c1}
  MaxChunks = 2
  MaxRestarts = 1
  MaxFrames = 2
  None = None
SPECIFICATION Spec
INVARIANT SnapshotShowsSeq
CHECK_DEADLOCK FALSE
