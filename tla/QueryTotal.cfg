SPECIFICATION QuerySpec
CONSTANTS
  Fields = {"f", "g"}
  Values <- FieldValues
  IntLimit = 4
  Schemas <- TableSchemas
  Queries <- TheQueries
  PageSlots = 2
  MaxRecords = 3
  NoSort = NoSort
  NoQuery = NoQuery
INVARIANT TotalIsBeforeLimit
CHECK_DEADLOCK FALSE
