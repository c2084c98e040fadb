SPECIFICATION Spec
CONSTANTS
  short = short
  twin = twin
  long = long
  Terms = {1, 2}
  Payloads <- MCPayloads
  Blocks <- MCBlocks
  ShortReads <- MCShortReads
  MaxIndex = 2
  PowerLossPossible = FALSE
PROPERTY OpenKeepsConfirmed
