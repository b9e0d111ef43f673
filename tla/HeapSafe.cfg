\* 60 bytes of memory, 4 of them data: three blocks, one of them large, or
\* one large block and a frame.  No symmetry: a liveness property is checked.
SPECIFICATION FairSpec
CONSTANTS
  Word = 256
  PageSize = 12
  MemPages = 4
  StackSize = 50
  DataEnd = 4
  Sizes = {4, 12}
  FrameSizes = {24}
  Ptrs = {p1, p2, p3}
  NoPtr = NoPtr
INVARIANTS
  TypeOK
  HeapBelowStack
  FreeListExact
  BlocksTileHeap
PROPERTIES
  ReusesMemory
  StackSizeHonoured
  KeepsMemorySpec
  NewReturns
