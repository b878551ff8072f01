CONSTANTS
  Bank = {"saman", "melli"}
  TotalsInHeader = {"saman"}
  Headers <- MCHeaders
  Amounts <- MCAmounts
  Opening = 10
  LastDay = 2
  MaxEntries = 3
  MaxLost = 2
  MaxImports = 2
SPECIFICATION Spec
INVARIANT TypeOK
PROPERTIES
  BooksKept
  ValidMeansComplete
  PreviewExact
CHECK_DEADLOCK FALSE
