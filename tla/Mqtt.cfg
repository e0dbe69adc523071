SPECIFICATION FairSpec
CONSTANTS
  Topics = 2
  BoardMax = 1
  Subs = 1
  QueueMax = 2
  InFlight = 1
  PoolDelay = 1
  FullHold = 1
  StuckHold = 1
  Retry = 2
  KeepAlive = 2
  Watchdog = 4
  Faults = 2
INVARIANTS TypeOK Fresh
PROPERTIES Recovers
