SPECIFICATION BodySpec
CONSTANTS
  OptLevel = 1
  MaxTokens = 3
  MaxFor = 2
  Shapes <- MCShapes
  Simples <- MCNested
  RepeatContinues = FALSE
INVARIANT InStep
