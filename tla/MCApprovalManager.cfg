CONSTANTS
  Requests = {r1, r2, r3}
  Sessions = {s1, s2}
  Fingerprints = {f1, f2}
  ToolUseIds = {t1}
  TimeoutDecision = "ask"
  None = None
SPECIFICATION Spec
SYMMETRY Symmetry
INVARIANTS
  TypeOK
  PendingXorSettled
  FingerprintIndexExact
  ToolUseIdIndexExact
PROPERTY SettledOnce
CHECK_DEADLOCK FALSE
