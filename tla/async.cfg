SPECIFICATION FairSpec
CONSTANTS
  Agent <- Three
  Name <- Names
  MaxConcurrency = 2
INVARIANTS
  TypeOK
  StatusIsHonest
  LimitRespected
PROPERTIES
  StatusIsFinal
  RunEnds
