SPECIFICATION FairSpec
CONSTANTS
  n1 = n1
  x1 = x1
  a = a
  h1 = h1
  h2 = h2
  NoDoc = NoDoc
  Nodes = {n1}
  Names = {x1}
  Payloads = {a}
  Handlers = {h1, h2}
  Operations <- Churn
  Faults = {"write", "read", "crash"}
  MaxRequests = 3
  MaxCrashes = 1
PROPERTIES Convergence
CHECK_DEADLOCK FALSE
