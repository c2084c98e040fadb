SPECIFICATION Spec
CONSTANTS
  Dbs = {d1, d2}
  Names = {n1, n2}
  Contents = {0, 1}
  New = 0
  MaxTables = 2
  MaxId = 2
  MaxChanges = 1
  HeapSize = 3
  NullTable = NullTable
  BadTable = BadTable
  NoFile = NoFile
  Gone = Gone
  Lost = Lost
SYMMETRY Interchangeable
PROPERTY LoadAllOrNothing
CHECK_DEADLOCK FALSE
