SPECIFICATION FairSpec
CONSTANTS
  Inbound <- MCInbound
  Outbound <- MCOutbound
  Chunk = 3
  RecvMax = 3
  SendMax = 3
  BufferMax = 5
  QueueSize = 2
  Replies = 3
INVARIANTS TypeOK InOrder WholePackets
PROPERTIES Delivers
