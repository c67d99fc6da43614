CONSTANTS
  Window = {w1}
  Files <- AllFiles
  MaxFid = 6
  NameLen = {20}
  MaxRefusals = 0
  MaxRoles = 2
SPECIFICATION FairSpec
PROPERTY CommitConfigured
CHECK_DEADLOCK FALSE
