SPECIFICATION FairSpec
CONSTANTS
  c1 = c1
  c2 = c2
  c3 = c3
  Client <- Three
  MaxConcurrency = 2
  Window = 2
  rpm_limit = 2
  MaxBackoff = 1
  MaxNotify = 1
INVARIANTS
  ConcurrencyLimited
  OvershootBounded
  NothingForgotten
PROPERTIES
  BackpressureKept
  AcquireReturns
