SPECIFICATION FairSpec
CONSTANTS
  lds = lds
  sds = sds
  a = a
  b = b
  Types = {lds, sds}
  Named = {sds}
  Parent = lds
  Names = {a, b}
  Contents <- AnyContents
  Faults = {"reject", "reconnect", "write", "restart", "reboot"}
  MaxVersion = 3
  MaxFaults = 2
INVARIANTS TypeOK NeverAheadOfEnvoy
PROPERTIES Convergence
CHECK_DEADLOCK FALSE
