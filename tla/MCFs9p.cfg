CONSTANTS
  MaxTag = 3
  Reader = {r1, r2}
  None = None
  MaxOps = 5
SPECIFICATION Spec
INVARIANT TagsUnique
INVARIANT CallbackMatches
INVARIANT WaitNotBuried
INVARIANT NoTagLost
PROPERTY ImplementsAsyncReads
SYMMETRY Symmetry
