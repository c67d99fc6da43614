CONSTANTS
  Addr = {a1, a2}
  PathLens = {2}
  MaxWindows = 1
  MaxClients = 2
SPECIFICATION MainSpec
PROPERTY StopsWithoutClients
CHECK_DEADLOCK FALSE
