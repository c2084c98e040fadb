SPECIFICATION Spec
CONSTANTS
  Cols <- MCCols
  Rank <- MCRank
  First <- MCFirst
  Letters <- MCLetters
  Digits <- MCDigits
  Tags <- MCTags
  Worlds <- MCWorlds
  Argvs <- MCArgvs
  Live = Live
INVARIANTS TypeOK ReportIsFaithful TablesAreWhole ListingIsFaithful
CHECK_DEADLOCK FALSE
