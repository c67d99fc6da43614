CONSTANTS
  Window = {w1, w2}
  MaxFid = 9
  Files <- SomeFiles
  NameLen = {20}
  MaxRefusals = 1
  MaxRoles = 2
SPECIFICATION Spec
SYMMETRY Sym
INVARIANT FidsAgree
INVARIANT ReadersKnown
PROPERTY ReadersGoOn
PROPERTY ImagesKept
CHECK_DEADLOCK FALSE
