SPECIFICATION UncoincidedSpec
CONSTANTS
  MaxSquarings = 4
  MaxJobs = 2
CHECK_DEADLOCK FALSE
PROPERTIES
  IteratesSquares
