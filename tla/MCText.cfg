\* Two variables, a file that exists and one that does not, buffers of two
\* bytes, two opens.
SPECIFICATION Spec
CONSTANTS
  Old = Old
  New = New
  Files = {f, g}
  Names = {Old, New}
  Chars = {"x", "cr", "lf"}
  Granted <- MCGranted
  Strings <- MCStrings
  Preopen = 3
  BufSize = 2
  MaxLine = 1
  MaxBytes = 3
  MaxOpens = 2
  Shared = FALSE
  Failures = {"open"}
INVARIANTS TypeOK DescriptorsOwned
PROPERTIES LinesEnd KeepsTextSpec
CHECK_DEADLOCK FALSE
