SPECIFICATION Spec
CONSTANTS
  eth = eth
  a1 = a1
  a2 = a2
  r1 = r1
  u1 = u1
  h1 = h1
  h2 = h2
  Ifaces = {eth}
  Addrs = {a1, a2}
  Routes = {r1}
  Unparsed = {u1}
  Handlers = {h1, h2}
  Faults = {"lost", "nmcli", "activate", "crash"}
  MaxItems = 2
  MaxRequests = 3
SYMMETRY Symmetry
INVARIANTS TypeOK InForce GrantedIsStored
CHECK_DEADLOCK FALSE
