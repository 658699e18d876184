SPECIFICATION FairRunnerSpec
CONSTANTS
  NumSteps = 3
  MaxConcurrency = 1
  MaxCount = 3
  MaxRuns = 3
  Var <- X
  Workflows <- Edited
INVARIANTS
  ResumeKeepsWork
  StoredVerdictsHold
  MetricsMatchStates
PROPERTIES
  ResumeReturns
  ResumeSeesOutput
