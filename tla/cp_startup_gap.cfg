SPECIFICATION FairSpec
CONSTANTS
  n1 = n1
  x1 = x1
  a = a
  h1 = h1
  NoDoc = NoDoc
  Nodes = {n1}
  Names = {x1}
  Payloads = {a}
  Handlers = {h1}
  Operations <- Churn
  Faults = {}
  MaxRequests = 2
  MaxCrashes = 0
PROPERTIES ConfigurationReachesNode
CHECK_DEADLOCK FALSE
