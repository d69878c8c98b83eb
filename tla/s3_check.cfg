SPECIFICATION FairSpec
CONSTANTS
  u1 = u1
  h1 = h1
  ns1 = ns1
  ns2 = ns2
  src = src
  Absent = Absent
  Broken = Broken
  Users = {u1}
  Namespaces = {ns1, ns2}
  Sources = {src}
  Handlers = {h1}
  Configs <- Policies
  Requests <- Asks
  Faults = {"silent", "garbled", "error"}
  MaxFaults = 1
  MaxChanges = 2
  MaxChecks = 2
INVARIANTS TypeOK AnswersAreImplied
PROPERTIES UsersAreFromStorage Convergence
CHECK_DEADLOCK FALSE
