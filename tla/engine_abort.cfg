SPECIFICATION Spec
CONSTANTS
  NumSteps = 3
  MaxConcurrency = 3
  MaxCount = 3
  Var <- XY
  Workflows <- Parallel
INVARIANTS
  AbortStopsEverything
