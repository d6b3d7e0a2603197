\* Two processes of two and one threads, tables with fewer slots than there are
\* addresses, and two objects, so that a name is left behind and taken over.
CONSTANTS
  t1 = t1
  t2 = t2
  t3 = t3
  maker = maker
  viewer = viewer
  Threads <- ThreadSet
  ProcessOf <- ProcessTable
  TableSize = 1
  Addresses = {a1, a2}
  MaxObjects = 2
  Nowhere = Nowhere
SPECIFICATION Spec
INVARIANTS TableTracksSurfaces NameFollowsOwner
CHECK_DEADLOCK FALSE
