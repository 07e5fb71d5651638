CONSTANTS
  Main = Main
  Tasks = {t1}
  t1 = t1
  s1 = s1
  s2 = s2
  Sessions = {s1, s2}
  None = None
  Delegation = FALSE
  MaxEvents = 9
  MaxVersions = 3
  MaxSends = 3
  MaxAsides = 1
  KeepGroups = 1
  SummarySize = 3
  Deliveries <- MCDeliveries
  Limits <- MCLimits
SPECIFICATION Spec
INVARIANTS DerivedRowsOnce
PROPERTIES RetryKeepsCheckpoint PromiseSpec
CHECK_DEADLOCK FALSE
