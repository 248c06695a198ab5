SPECIFICATION EnginesSpec
CONSTANTS
  parent = parent
  child = child
  Gone <- MCGone
  Every = Every
  Whole = Whole
  Home = "public"
  KeyedIdentity = FALSE
  DroppedName = DroppedName
  Tables <- MCTables
  Schemas <- MCSchemas
  Objects <- MCObjects
  Enums <- MCEnums
  Definitions <- MCDefinitions
  MyDefinitions <- MCMyDefinitions
  MaxDdl = 2
CHECK_DEADLOCK FALSE
INVARIANTS EnginesTypeOK EitherIsExact EitherCopyIsIdentical
PROPERTIES EitherReflectionEnds
