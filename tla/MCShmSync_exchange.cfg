\* Two writers and two readers share two slots; any of them may crash.
CONSTANTS
  w1 = w1
  w2 = w2
  r1 = r1
  r2 = r2
  f1 = f1
  f2 = f2
  Torn = Torn
  Empty = Empty
  Writers = {w1, w2}
  Readers = {r1, r2}
  MayCrash = {w1, w2, r1, r2}
  SlotCount = 2
  CursorMod = 2
  GenMod = 1
  Fields <- OneField
  Frames = {f1, f2}
  Timeouts = {0}
SPECIFICATION Spec
INVARIANT TypeOK
INVARIANT SlotOwnership
INVARIANT WholeFrames
PROPERTY ExchangeSpec
SYMMETRY Symmetry
CHECK_DEADLOCK FALSE
