CONSTANTS
  a1 = a1
  a2 = a2
  v1 = v1
  Clients <- MCClients
  ActionsClients <- MCActionsClients
  Sessions = {s1, s2}
SPECIFICATION Spec
SYMMETRY Symmetry
INVARIANTS
  TypeOK
  CountExact
PROPERTY ReleaseSignalExact
CHECK_DEADLOCK FALSE
