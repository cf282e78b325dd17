SPECIFICATION Spec
CONSTANTS
  Bytes <- AllBytes
  Marks <- Braces
  ShortLen = 2
  MaxLen = 6
  Chars <- AddressChars
  Ports <- BorderPorts
  MaxIp = 5
  SlotCount = 3
  PortMax = 1
  Ips = {"a", "b", "c"}
  Peers <- MCPeers
  Nodes <- MCNodes
  MaxNodes = 2
  Seed <- MCSeed
INVARIANTS
  Crc16IsRemainder
  TagDecidesSlot
  NameIdentifiesServer
  PickInvertsMake
  SlotsFollowReply
  RemovedIsNotSelected
CHECK_DEADLOCK FALSE
