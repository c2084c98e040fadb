SPECIFICATION FilesSpec
CONSTANTS
  short = short
  long = long
  Nothing = Nothing
  Contents <- MCContents
  Size <- MCSize
  Slots = {k1, k2}
  PageContents = {c1, c2, big}
  Oversized = {big}
  Empty = Empty
  Torn = Torn
  Capacity = 1
INVARIANTS
  TypeOK PathIsWhole ReadNeverMixes
  CacheTypeOK LatestHeld FetchSeesLatest
PROPERTIES
  RegisterSpec
  OnlyOverflowDropsDirty
