SPECIFICATION ParitySpec
CONSTANTS
  s1 = s1
  r1 = r1
  r2 = r2
  r3 = r3
  NullKey = NullKey
  Absent = Absent
  NoBound = NoBound
  Streams <- MCOneStream
  RowIds <- MCRows
  Keys <- MCKeys
  RangeOf <- MCRange
  BadRows <- MCBad
  BatchSizes <- MCBatchSizes
  MaxWrites = 1
  MaxAlters = 1
CHECK_DEADLOCK FALSE
INVARIANTS TypeOK ExactlyOnce BadRowIsAnError SameRowsWhenQuiet MySqlTypeOK
PROPERTIES ImplementsRowStream MySqlImplements BothStreamsEnd
