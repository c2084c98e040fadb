SPECIFICATION FairSpec
CONSTANTS
  short = short
  twin = twin
  long = long
  Terms = {1}
  Payloads <- MCPayloads
  Blocks <- MCBlocks
  ShortReads <- MCShortReads
  MaxIndex = 2
  PowerLossPossible = TRUE
INVARIANT TypeOK
INVARIANT IndexMatchesFile
INVARIANT AckedOnDisk
INVARIANT AckedVisible
INVARIANT AtMostOneGhost
PROPERTY CallsReturn
PROPERTY DurableLogSpec
