CONSTANTS
  w1 = w1
  w2 = w2
  w3 = w3
  p1 = p1
  p2 = p2
  k1 = k1
  k2 = k2
  x = x
  y = y
  shift = shift
  Windows = {w1, w2, w3}
  Pointers = {p1, p2}
  Keyboards = {k1, k2}
  Buttons = {1}
  Keys = {x, y, shift}
  Owner <- MCOwner
  ModBit <- MCModBit
  MaxEvents = 1
  MaxQueue = 2
  Runes <- MCRunes
  Bad <- MCBad
  MaxKeys = 2
  MaxMessages = 2
  COUNT = 10
SPECIFICATION MCSpec
INVARIANT MouseAgrees
INVARIANT FocusAgrees
INVARIANT NoStuckKeys
INVARIANT KeysAgree
INVARIANT TextAgrees
