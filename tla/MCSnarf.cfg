CONSTANTS
  Sources = {s1, s2}
  Gets = {g1}
  MaxChunks = 2
  PipeSize = 1
SPECIFICATION Spec
PROPERTY TransfersEnd
INVARIANT SnarfWhole
INVARIANT PasteWhole
CHECK_DEADLOCK FALSE
