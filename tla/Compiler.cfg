\* Programs of up to four declarations, one of them broken at a time.
SPECIFICATION CompileSpec
CONSTANTS
  Files <- MCFiles
  LongerName <- MCLongerName
  StoreNames <- MCStoreNames
  Programs <- MCPrograms
  MaxBroken = 1
INVARIANTS
  AcceptedCompiles
  SchemaInstalls
PROPERTY
  ExtensionCodeIsKept
