CONSTANTS
  s1 = s1
  f1 = f1
  t1 = t1
  main = main
  task = task
  None = None
  Requests <- MCRequests
  Subagents = {task}
  ToolOf <- MCToolOf
  Sessions = {s1}
  Fingerprints = {f1}
  ToolUseIds = {t1}
  Clients = {a1, a2}
  ActionsClients = {a1, a2}
  Asks <- MCAsks
  Children = {k1, k2}
  BusEvents = {"agent-internal", "user-prompt", "tool-call", "tool-result",
               "agent-output", "error"}
SPECIFICATION Spec
SYMMETRY Symmetry
INVARIANTS
  TypeOK
  SlotsFollowTable
  HeldIsWaiting
  LiveCards
  PendingBelongs
  AwaitingHasRequest
CHECK_DEADLOCK FALSE
