SPECIFICATION Spec
CONSTANTS
  N = 4
  Shutters <- RightTimes
  StartDelay = 3
  StopDelay = 2
  MinDelay = 2
  Window = 2
  FilterTime = 1
  MinTime = 2
  MaxTime = 5
  MaxRun = 8
  NearEnd = 40
  CommPeriod = 1
  TimeWrap = 1000
ACTION_CONSTRAINT OneRetimingPerTick
INVARIANTS
  PositionAgrees
  MeasuredAgrees
  NoFalseAlarm
PROPERTIES
  TaskReaches
