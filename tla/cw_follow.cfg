SPECIFICATION Spec
CONSTANTS
  k1 = k1
  k2 = k2
  v1 = v1
  v2 = v2
  NoValue = NoValue
  Nil = Nil
  Keys = {k1, k2}
  Values = {v1, v2}
  Operations <- Followed
  Faults = {"read", "crash"}
  MaxWrites = 4
  MaxCrashes = 1
INVARIANTS TypeOK LiveConfigInForce UpToDate
CHECK_DEADLOCK FALSE
