SPECIFICATION EnginesSpec
CONSTANTS
  Sources <- MCSources
  None = None
  Failed = Failed
  Dropped = Dropped
  FlushRows = 2
  FlushBytes = 4
  SizeOf <- MCSizeOf
  TargetRows = 3
  MaxPlaceholders = 5
  ByteBudget = 3
  Columns = 2
  JsonEstimate = 1
  WireOf <- MCWireOf
  MaxPacket = 7
CHECK_DEADLOCK FALSE
INVARIANTS BulkTypeOK AllOrNothing OkMeansWritten BufferBound PlaceholderCap PacketBound EnginesAgree
PROPERTIES ImplementsBulkWrite MySqlImplements
