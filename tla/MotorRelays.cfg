SPECIFICATION Spec
CONSTANTS
  StartDelay = 6
  StopDelay = 4
  MinDelay = 2
  BusyWait = 1
  ClockWrap = 16
INVARIANTS
  TypeOK
  Interlock
  PendingMatchesMotor
PROPERTY PauseKept
