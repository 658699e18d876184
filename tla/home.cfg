SPECIFICATION Spec
CONSTANTS
  s1 = s1
  s2 = s2
  c1 = c1
  n1 = n1
  n2 = n2
  t1 = t1
  t2 = t2
  u = u
  Servers <- TwoServers
  Commands <- OneCommand
  Name <- TwoNames
  Embedded <- OneEmbedded
  Text <- Texts
  Breaks <- Splices
  Required <- TextRequires
  Shelves <- SomeShelves
  Setups <- SomeSetups
  MaxStarts = 4
INVARIANTS
  SchemaComplete
  AloneIsReachable
  SavedIsRun
CHECK_DEADLOCK FALSE
