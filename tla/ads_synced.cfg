SPECIFICATION Spec
CONSTANTS
  lds = lds
  sds = sds
  a = a
  b = b
  Types = {lds, sds}
  Named = {sds}
  Parent = lds
  Names = {a, b}
  Contents <- AnyContents
  Faults = {"reject"}
  MaxVersion = 2
  MaxFaults = 2
INVARIANTS SyncedMeansApplied
CHECK_DEADLOCK FALSE
