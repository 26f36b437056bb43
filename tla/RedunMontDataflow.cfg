SPECIFICATION Spec
CONSTANTS
  MaxSquarings = 4
  MaxJobs = 2
CHECK_DEADLOCK FALSE
INVARIANTS
  TypeOK
  ResultIsNextIterate
  Schedule
  Paced
