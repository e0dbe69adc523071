SPECIFICATION LiveSpec
CONSTANTS
  N = 3
  Shutters <- TimesTaken
  StartDelay = 3
  StopDelay = 2
  MinDelay = 2
  Window = 2
  FilterTime = 1
  MinTime = 2
  MaxTime = 5
  MaxRun = 6
  NearEnd = 40
  CommPeriod = 2
  TimeWrap = 1000
  MaxAsks = 2
PROPERTIES
  StoredTaskDone
