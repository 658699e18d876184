SPECIFICATION Spec
CONSTANTS
  NumSteps = 3
  MaxConcurrency = 1
  MaxCount = 3
  Var <- XY
  Workflows <- Retrying
INVARIANTS
  RetryBounded
