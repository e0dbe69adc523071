SPECIFICATION Spec
CONSTANTS
  N = 2
  Shutters <- AnyConfiguration
  StartDelay = 3
  StopDelay = 2
  MinDelay = 2
  Window = 2
  FilterTime = 1
  MinTime = 2
  MaxTime = 5
  MaxRun = 4
  NearEnd = 40
  CommPeriod = 1
  TimeWrap = 1000
INVARIANTS
  TypeOK
PROPERTIES
  TimesVoidPosition
  QuietStays
  MotorSafe
