SPECIFICATION FairSpec
CONSTANTS
  reducerbits = 6
  WRD_BITS = 2
  Inputs <- SomeInputs
  Intermediates = {0, 1, 2, 5}
  t_final = 3
  test_iterations = 2
INVARIANTS
  TypeOK
  EachLaunchOneJob
  AnswerIsPow
  ZeroIsNoInput
PROPERTIES
  ImplementsVdf
  ProgramReturns
