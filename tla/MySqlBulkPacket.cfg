SPECIFICATION Spec
CONSTANTS
  Sources <- MCJson
  None = None
  Failed = Failed
  Dropped = Dropped
  TargetRows = 3
  MaxPlaceholders = 5
  ByteBudget = 3
  Columns = 1
  JsonEstimate = 1
  WireOf <- MCWireOf
  MaxPacket = 7
CHECK_DEADLOCK FALSE
INVARIANTS PacketBound
