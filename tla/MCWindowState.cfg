SPECIFICATION Spec
CONSTANTS
  t1 = t1
  t2 = t2
  w1 = w1
  w2 = w2
  Threads <- ConstThreads
  Windows <- TwoWindows
  Users <- ConstUsers
  Sizes <- TwoSizes
  MaxDepth = 3
INVARIANTS
  KeyAnnouncedOnce
  CompositorCurrent
  ClosedForgotten
CHECK_DEADLOCK FALSE

