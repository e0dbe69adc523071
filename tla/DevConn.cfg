SPECIFICATION FairSpec
CONSTANTS
  Watchdog = 7
  Soft = 5
  ActivityTimeout = 2
  ServerTimeout = 3
  PingMargin = 1
  Grace = 1
  ReconnectDelay = 2
  ApTimeout = 2
  Sector = 2
  Header = 2
  Space = 3
  Segments = {1, 3}
  Files = {0, 2, 3}
  UpdateDelay = 1
  UpdateTimeout = 3
  JoinTime = 3
  Latency = 1
  DnsServers = 2
  DnsTimeout = 1
  Faults = 2
INVARIANTS TypeOK ResolverAlive ServerHears
PROPERTIES Recovers UpdateLands
