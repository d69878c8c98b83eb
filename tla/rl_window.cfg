SPECIFICATION Spec
CONSTANTS
  r1 = r1
  r2 = r2
  h1 = h1
  h2 = h2
  d1 = d1
  d2 = d2
  e1 = e1
  Replicas = {r1, r2}
  Handlers = {h1, h2}
  Domains = {d1, d2}
  Entries = {e1}
  Configs <- Policies
  Requests <- Asks
  Wrap = 4
  Faults = {"redis"}
  MaxTime = 3
  MaxRequests = 2
SYMMETRY Permuted
INVARIANTS TypeOK NoOverAdmission NoFalseRefusal
CHECK_DEADLOCK FALSE
