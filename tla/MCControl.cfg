SPECIFICATION BodySpec
CONSTANTS
  OptLevel = 1
  MaxTokens = 6
  MaxFor = 2
  Shapes <- MCShapes
  Simples <- MCSimples
  RepeatContinues = FALSE
INVARIANTS DepthsTrue InStep LoopsRelease
PROPERTIES KeepsPace
