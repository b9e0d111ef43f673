\* Four display globals for four levels, and room for six activations.
SPECIFICATION Spec
CONSTANTS
  Procs <- MCProcs
  Main = "Main"
  Chain <- MCChain
  FrameSize <- MCFrameSize
  BufferSizes = {2}
  Args = {0}
  Top = 16
  HeapEnd = 1
  MaxNestLevel = 4
  MaxDisplayDepth = 4
  MaxCalls = 6
INVARIANTS
  TypeOK
  FramesReached
  FramesKept
PROPERTIES
  CallerRestored
  KeepsScope
