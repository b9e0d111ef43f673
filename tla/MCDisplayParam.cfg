\* Two values for the value parameters.
SPECIFICATION Spec
CONSTANTS
  Procs <- MCProcs
  Main = "Main"
  Chain <- MCChain
  FrameSize <- MCFrameSize
  BufferSizes = {2}
  Args = {1, 2}
  Top = 16
  HeapEnd = 1
  MaxNestLevel = 4
  MaxDisplayDepth = 4
  MaxCalls = 6
INVARIANT ParamsReached
