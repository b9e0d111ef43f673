SPECIFICATION FairSpec
CONSTANTS
  Main = "_start"
  Routines <- MCRoutines
  Names <- MCNames
  Arity <- MCArity
  Frame <- MCFrame
  Functions <- MCFunctions
  Imports <- MCImports
  Offered <- MCOffered
  Top = 10
  HeapEnd = 4
  Values = {0, 1}
  Statuses = {0, 3}
  MaxString = 2
  Strings <- MCStrings
  Addresses <- MCAddresses
  AllLimits <- MCLimits
  MaxCalls = 3
  MaxDepth = 3
CHECK_DEADLOCK FALSE
INVARIANTS GlobalsKept
