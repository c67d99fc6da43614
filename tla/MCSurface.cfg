CONSTANTS
  Buffers = {b1, b2}
  Callbacks = {c1, c2}
  Cells = {1, 2}
  Values = {v, w}
SPECIFICATION Spec
INVARIANT LinksAgree
INVARIANT BusyIsCurrent
INVARIANT ScreenShowsCommitted
PROPERTY DoneWhenShown
