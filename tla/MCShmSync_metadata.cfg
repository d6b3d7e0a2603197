\* One publisher, two readers, two slots, every metadata word; a cursor that
\* wraps on a multiple of SlotCount.
CONSTANTS
  w1 = w1
  w2 = w2
  r1 = r1
  r2 = r2
  f1 = f1
  f2 = f2
  Torn = Torn
  Empty = Empty
  Writers = {w1}
  Readers = {r1, r2}
  MayCrash = {r1, r2, w1}
  SlotCount = 2
  CursorMod = 4
  GenMod = 1
  Fields <- SlotFields
  Frames = {f1, f2}
  Timeouts = {0, 1}
SPECIFICATION Spec
INVARIANT MetadataSettled
INVARIANT FullTableSeen
SYMMETRY Symmetry
CHECK_DEADLOCK FALSE
