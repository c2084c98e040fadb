SPECIFICATION CacheSpec
CONSTANTS
  Slots = {k1, k2}
  PageContents = {c1, c2, big}
  Oversized = {big}
  Empty = Empty
  Torn = Torn
  Capacity = 1
PROPERTY DirtyNeverDropped
