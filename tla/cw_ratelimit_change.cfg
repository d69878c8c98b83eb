SPECIFICATION Spec
CONSTANTS
  k1 = k1
  v1 = v1
  v2 = v2
  NoValue = NoValue
  Nil = Nil
  Keys = {k1}
  Values = {v1, v2}
  Operations <- Changing
  Faults = {}
  MaxWrites = 3
  MaxCrashes = 0
INVARIANTS UpToDate
CHECK_DEADLOCK FALSE
