SPECIFICATION Spec
CONSTANTS
  NUM_WRDS = 4
  WRD_BITS = 4
  P = 3571
  Inputs <- AllInputs
  RestartInputs <- SomeInputs
  MaxSquarings = 3
CHECK_DEADLOCK FALSE
INVARIANTS
  TypeOK
  ResultIsSquareOrKnownCase
