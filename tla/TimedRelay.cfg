SPECIFICATION Spec
CONSTANTS
  c1 = c1
  c2 = c2
  Channels = {c1, c2}
  Restored = {c1, c2}
  Counting = {c2}
  Configured = {c1}
  ResetButton = TRUE
  SlotCount = 2
  Durations = {6}
  Lights = {3}
  MinPeriod = 2
  MaxPeriod = 3
  Part = 2
  SaveDelay = 2
INVARIANTS
  TypeOK
  StaircaseGuarded
  Punctual
  RestartKeepsRelay
  RestartKeepsCountdown
PROPERTIES
  KeepsPlans
