SPECIFICATION PoolSpec
CONSTANTS
  NumTables = 3
  Workers = {w1, w2}
  Operations = {"save", "rebuild"}
  Infallible = {"rebuild"}
  Verdicts = {"OK", "IO_ERROR", "INVALID_TYPE"}
  MaxCalls = 3
  Pending = Pending
  Throws = Throws
  Idle = Idle
INVARIANT CallWaitsForAll
CHECK_DEADLOCK FALSE
