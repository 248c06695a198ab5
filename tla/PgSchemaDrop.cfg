SPECIFICATION Spec
CONSTANTS
  parent = parent
  child = child
  Gone <- MCGone
  Every = Every
  Whole = Whole
  Home = "public"
  KeyedIdentity = FALSE
  DroppedName = DroppedName
  Tables <- MCTables
  Schemas <- MCSchemas
  Objects <- MCObjects
  Enums <- MCEnums
  Definitions <- MCDefinitions
  MaxDdl = 1
CHECK_DEADLOCK FALSE
INVARIANTS NobodyInTheWay
