CONSTANTS
  s1 = s1
  s2 = s2
  f1 = f1
  t1 = t1
  main = main
  task = task
  None = None
  Requests <- MCRequests
  Subagents = {task}
  ToolOf <- MCToolOf
  Sessions <- MCSessions
  Fingerprints = {f1}
  ToolUseIds = {t1}
  Clients = {a1}
  ActionsClients = {a1}
  Asks <- MCAsks
  Children = {}
  BusEvents = {}
SPECIFICATION Spec
PROPERTIES
  LastClientReleases
  ImplementsManager
  ImplementsGate
  EveryCallAnswered
CHECK_DEADLOCK FALSE
