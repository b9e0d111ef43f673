\* Two string variables, two pieces a level, slots for three levels, up to
\* four +'s, calls and further arguments a statement.
SPECIFICATION Spec
CONSTANTS
  Vars = {0, 1}
  MaxPieces = 2
  ScratchSlots = 7
  Base = 20
  MaxSteps = 4
  Constructs = {}
INVARIANTS
  ValuesRight
  OperandsAlive
  BaseKept
