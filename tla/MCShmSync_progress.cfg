\* Two publishers and two readers, of which one reader may crash.
CONSTANTS
  w1 = w1
  w2 = w2
  r1 = r1
  r2 = r2
  f1 = f1
  f2 = f2
  Torn = Torn
  Empty = Empty
  Writers = {w1, w2}
  Readers = {r1, r2}
  MayCrash = {r1}
  SlotCount = 2
  CursorMod = 2
  GenMod = 2
  Fields <- OneField
  Frames = {f1}
  Timeouts = {0}
SPECIFICATION FairSpec
INVARIANT GenerationCounts
PROPERTY LowestSlotServed
PROPERTY DrainedWhenQuiet
