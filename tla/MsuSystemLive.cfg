SPECIFICATION FairSpec
CONSTANTS
  T_LEN = 2
  MinGap = 3
  MaxGap = 4
  Jobs = {1, 2}
  Lanes = {l1, l2}
  SyncDelays = {1, 2}
  FifoResetEdges = 2
  MinRatio = 1
  MaxRatio = 4
  Requests <- FewRequests
  MaxJobs = 2
  MaxResets = 1
  ResetEdges = 2
PROPERTIES
  JobsEnd
