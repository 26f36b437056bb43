SPECIFICATION Spec
CONSTANTS
  REDUNDANT_ELEMENTS = 2
  NONREDUNDANT_ELEMENTS = 4
  NUM_SEGMENTS = 4
  EXTRA_ELEMENTS = 2
  WORD_LEN = 2
  BIT_LEN = 3
  M = 239
  URAMS = 3
  Addresses <- SomeAddresses
INVARIANTS
  TypeOK
  LoadedInOrder
  LookUpIsShiftedEntry
