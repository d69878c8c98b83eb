SPECIFICATION Spec
CONSTANTS
  n1 = n1
  x1 = x1
  a = a
  h1 = h1
  h2 = h2
  NoDoc = NoDoc
  Nodes = {n1}
  Names = {x1}
  Payloads = {a}
  Handlers = {h1, h2}
  Operations <- AllOperations
  Faults = {"write", "read", "crash"}
  MaxRequests = 3
  MaxCrashes = 1
SYMMETRY Permuted
INVARIANTS TypeOK VersionIdentifiesContent ChangesAreVersioned
PROPERTIES NoVersionRollback ImplementsDelivery
CHECK_DEADLOCK FALSE
