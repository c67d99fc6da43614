CONSTANTS
  Addr = {a1, a2}
  PathLens = {1, 2, 14, 15}
  MaxWindows = 2
  MaxClients = 3
  Levels = {0, 1, 2}
  Scans = {1, 2}
  Runes = {0, 97, 98, 65633, 65536}
  MaxLines = 3
  FIRST = 2
SPECIFICATION MCSpec
INVARIANT FidsReady
INVARIANT OnlyChildTakesOver
INVARIANT KeymapAgrees
CHECK_DEADLOCK FALSE
