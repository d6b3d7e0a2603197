\* Two users and the callbacks, two slots, four ids, batches of one event.
CONSTANTS
  user1 = user1
  user2 = user2
  Users <- TwoUsers
  Loop = Loop
  SlotCount = 2
  MaxEvents = 1
  MaxId = 4
SPECIFICATION FairSpec
INVARIANT SlotsMatchKernel
PROPERTIES NoLateLookup FiredIsDelivered StopReturns
