SPECIFICATION FairSpec
CONSTANTS
  NumSteps = 3
  MaxConcurrency = 1
  MaxCount = 3
  Var <- XY
  Workflows <- Everything
INVARIANTS
  TypeOK
  NothingRunsBetweenBatches
  DependenciesRespected
  MetricsMatchStates
  DeadlockVerdictJustified
PROPERTIES
  DownstreamSeesOutput
  TerminalIsFinal
  Terminates
  ImplementsLife
  KeepsGoing
