SPECIFICATION Spec
CONSTANTS
  Dead = Dead
  Garbled = Garbled
  Ids = {0, 1}
  Data = {a, b, bad}
  ValidData = {a, b}
  PageCap = 2
  MaxPages = 2
  IntSpan = 4
  IdSpan = 16
  InPlaceLoads = TRUE
INVARIANTS TypeOK IndicesAgree PageIdsBelowCounter PagesWithinCapacity
PROPERTY RecordMapSpec
