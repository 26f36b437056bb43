SPECIFICATION Spec
CONSTANTS
  REDUNDANT_ELEMENTS = 2
  NONREDUNDANT_ELEMENTS = 8
  NUM_SEGMENTS = 4
  BIT_LEN = 5
  WORD_LEN = 4
  Moduli <- SomeModuli
  SqrIns <- Inputs
  num_tests = 3
CHECK_DEADLOCK FALSE
INVARIANTS
  TypeOK
  ResidueKept
  OverflowAddressesTable
PROPERTIES
  ImplementsVdf
