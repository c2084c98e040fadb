SPECIFICATION EngineSpec
CONSTANTS
  Tables = {t1, t2}
  Ids = {0, 2, 6}
  Payloads = {"v", "bad"}
  Rejected = {"bad"}
  OwnIds <- OwnFields
  Foreign <- ForeignArrays
  MaxHeld = 2
  IntSpan = 4
  IdSpan = 16
  NoId = NoId
  Text = Text
  Absent = Absent
  NoFile = NoFile
  Garbage = Garbage
  NoJob = NoJob
  NumTables = 3
  Workers = {w1, w2}
  Operations = {"save", "rebuild"}
  Infallible = {"rebuild"}
  Verdicts = {"OK", "IO_ERROR", "INVALID_TYPE"}
  MaxCalls = 3
  Pending = Pending
  Throws = Throws
  Idle = Idle
  Fields = {"f", "g"}
  Values <- FieldValues
  IntLimit = 4
  Schemas <- TableSchemas
  Queries <- TheQueries
  PageSlots = 2
  MaxRecords = 3
  NoSort = NoSort
  NoQuery = NoQuery
INVARIANTS
  TransferTypeOK ImportIsPrefix RoundTrip
  PoolTypeOK OneTaskPerTable
  QueryTypeOK AnswerIsRight SortIsDefined
PROPERTIES
  ImportEnds
  FanOutSpec CallsReturn
  QueryEnds
CHECK_DEADLOCK FALSE
