SPECIFICATION FairSpec
CONSTANTS
  a1 = a1
  Agent <- One
  MaxLines = 3
INVARIANTS
  TypeOK
  CloseMeansComplete
  NoOrphans
  RegistryReachesLive
PROPERTIES
  KillEndsReading
