SPECIFICATION Spec
CONSTANTS
  Sessions = {s1, s2}
  Busy = {s1}
  Mortal = {s1}
  Timeout = 2
  Settings = {v1}
  Progress = {w1}
  MaxStarts = 2
  MaxSleeps = 1
  None = None
INVARIANTS
  TypeOK
  LivingSessionKept
  CheckpointCurrent
  SettingsSavedByHeartbeat
PROPERTIES
  DeadSessionForgotten
CHECK_DEADLOCK FALSE
