\* Eight slots; a string area the longest vectors overflow.
SPECIFICATION CompileSpec
CONSTANTS
  MaxArgs = 8
  ArgBufCap = 34
  SlotSize = 6
  MaxDefines = 2
  MaxObjArgs = 2
  MaxReports = 2
  Many = FALSE
  OptionSets <- MCOptions
  Escaping <- MCEscaping
  Reports <- MCReports
INVARIANTS OptionsArrive ReportsTrue
CHECK_DEADLOCK FALSE
