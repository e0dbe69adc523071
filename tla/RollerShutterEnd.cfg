SPECIFICATION Spec
CONSTANTS
  N = 4
  Shutters <- MadeRoller
  StartDelay = 3
  StopDelay = 2
  MinDelay = 2
  Window = 2
  FilterTime = 1
  MinTime = 2
  MaxTime = 5
  MaxRun = 8
  NearEnd = 40
  CommPeriod = 2
  TimeWrap = 1000
INVARIANTS
  EndStops
