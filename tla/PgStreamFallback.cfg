SPECIFICATION Spec
CONSTANTS
  s1 = s1
  s2 = s2
  s3 = s3
  r1 = r1
  r2 = r2
  r3 = r3
  NullKey = NullKey
  Absent = Absent
  NoBound = NoBound
  Streams <- MCOneStream
  RowIds <- MCRows
  Keys <- MCKeys
  RangeOf <- MCWhole
  BadRows <- MCNone
  BatchSizes <- MCOneBatchSize
  MaxWrites = 1
  MaxAlters = 1
CHECK_DEADLOCK FALSE
INVARIANTS FallbackOnlyAdHoc
