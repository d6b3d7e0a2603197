\* Two clients that connect twice and submit two surfaces each, a port of two
\* messages, a queue of two frames, one consumer.
CONSTANTS
  c1 = c1
  c2 = c2
  k1 = k1
  k2 = k2
  Clients = {c1, c2}
  Consumers = {k1}
  PortLimit = 2
  MaxConnects = 2
  MaxFrames = 2
  Capacity = 2
  MaxClients = 2
  NoMsg = NoMsg
SPECIFICATION Spec
INVARIANT TypeOK
INVARIANT RightsAccounted
INVARIANT ReplyRightCurrent
INVARIANT FramesInOrder
PROPERTY QueueSpec
SYMMETRY Symmetry
CHECK_DEADLOCK FALSE
