CONSTANTS
  Rows = {r1, r2}
  Addresses = {a1}
  States = {s1, s2}
  Workers = {w1}
  MaxCrashes = 1
  None = None
SPECIFICATION FairSpec
INVARIANTS LifecycleTypeOK ActiveHasCursor
PROPERTY DueIsTried
CHECK_DEADLOCK FALSE
