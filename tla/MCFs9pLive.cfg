CONSTANTS
  MaxTag = 3
  Reader = {r1}
  None = None
  MaxOps = 3
SPECIFICATION FairSpec
PROPERTY WaitEnds
PROPERTY RequestSent
PROPERTY QueuedHandled
