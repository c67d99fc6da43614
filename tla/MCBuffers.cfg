CONSTANTS
  ENTBIT = 3
  MaxLen = 3
  BUF = 12
  MSIZE = 10
  MaxSent = 30
  WBUF = 12
  TSIZE = 10
  CAP = 3
  MaxPut = 30
  W = 4
  H = 3
  STRIDE = 3
  ROWS = 2
  BUFLEN = 32
  LIMIT = 32
  Coord <- SomeCoords
  Extent = {0, 1, 2, 4}
  MaxRequests = 2
  ClientMsizes = {4095, 4096, 8192, 140000}
  ServerMsizes = {4096, 8192, 140000}
  Lengths = {0, 1, 3, 65486, 65535, 65536}
  Paths <- SomePaths
  Dirs <- SomeDirs
  Counts = {0, 1, 54, 60, 110}
  Margins = {10, 11, 22, 23, 24}
SPECIFICATION MCSpec
INVARIANT RoomToRead
INVARIANT UnsentIntact
INVARIANT DamageDrawn
INVARIANT MessageFits
PROPERTY ImplementsPool
PROPERTY MessagesWhole
PROPERTY BeginReturns
PROPERTY DrawEnds
INVARIANT RequestsArrive
INVARIANT RepliesArrive
INVARIANT SizesAgree
