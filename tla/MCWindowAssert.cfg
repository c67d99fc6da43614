CONSTANTS
  Window = {w1}
  Files <- AllFiles
  MaxFid = 6
  NameLen = {26, 27}
  MaxRefusals = 0
  MaxRoles = 1
SPECIFICATION Spec
INVARIANT AssertHolds
CHECK_DEADLOCK FALSE
