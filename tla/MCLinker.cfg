\* Two units, one of them compiled again at most, and a program.
SPECIFICATION Spec
CONSTANTS
  A = A
  B = B
  Units = {A, B}
  Program = P
  Routines = {1, 2}
  Sigs = {s1}
  Hosts = {h}
  HelperSlots = 2
  ExternFuncBase = 100
  MaxFuncs = 6
  DataSizes = {2}
  Aligns = {4}
  Plan <- MCPlan
  MaxNest = 2
  MaxWork = 4
  Constructs = {}
INVARIANTS NumbersLand ObjectsJust
PROPERTIES LinkEnds
CHECK_DEADLOCK FALSE
