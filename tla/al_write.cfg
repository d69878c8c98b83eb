SPECIFICATION Spec
CONSTANTS
  None = None
  Streams = {s1, s2}
  Workers = {w1}
  Messages <- MCMessages
  MaxEntries = 2
  Backends = {"es", "ch"}
  Retries = 1
  Second = 10
  Word = 43
  Radix = 2
  FirstTime = 7
  MaxTime = 8
  MaxMessages = 2
INVARIANTS TypeOK Accounted IndexedInTime LoggedAsSent
PROPERTIES Settled
CHECK_DEADLOCK FALSE
