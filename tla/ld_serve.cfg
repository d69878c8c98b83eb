SPECIFICATION Spec
CONSTANTS
  x1 = x1
  x2 = x2
  h1 = h1
  h2 = h2
  None = None
  Garbled = Garbled
  VhOptions = {"INCLUDE", "OVERRIDE", "IGNORE"}
  Names = {x1, x2}
  Handlers = {h1, h2}
  Bodies <- MCBodies
  Databases <- MCDatabases
  HttpRequests <- Asked
  MaxRequests = 3
INVARIANTS TypeOK ServedAsMeant RoutedAsWritten SettingsAsWritten
SYMMETRY Permuted
CHECK_DEADLOCK FALSE
