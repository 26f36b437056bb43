SPECIFICATION FairSpec
CONSTANTS
  LP_DW_BYTES = 2
  LP_LOG_BURST_LEN = 1
  LP_TRANSACTION_CNTR_WIDTH = 2
  LP_LOG_MAX_W_TO_AW = 2
  C_MAX_OUTSTANDING = 2
  LP_OUTSTANDING_CNTR_WIDTH = 2
  LP_FIFO_DEPTH = 2
  FifoDelays = {0, 2}
  Sizes = {1, 4, 5, 7, 12, 16}
  Offsets = {0, 6}
  MaxTransfers = 2
  MaxResets = 1
  ResetEdges = 2
INVARIANTS
  TypeOK
  AddressFollowsData
  OutstandingLimit
  BurstsMatch
PROPERTIES
  OffersHold
  TransfersAll
  TransfersEnd
