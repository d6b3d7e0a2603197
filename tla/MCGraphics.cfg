SPECIFICATION Spec
CONSTANTS
  t1 = t1
  t2 = t2
  h1 = h1
  h2 = h2
  i1 = i1
  Null = Null
  Threads <- ConstThreads
  Handles <- ConstHandles
  Images <- ConstImages
  Offers <- ConstOffers
  IdMod = 4
  MaxGen = 2
SYMMETRY HandleSymmetry
INVARIANTS
  SelectionIsBest
  HandlesAccounted
  MemorySuits
CHECK_DEADLOCK FALSE
