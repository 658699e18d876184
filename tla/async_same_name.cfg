SPECIFICATION Spec
CONSTANTS
  Agent <- Two
  Name <- Names
  MaxConcurrency = 2
INVARIANTS
  DoneMeansAllDone
