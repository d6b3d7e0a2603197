\* The host as QmvServer runs it: nobody pops frames.  Two clients compete for one
\* record of the table and for a port of one message.
CONSTANTS
  c1 = c1
  c2 = c2
  k1 = k1
  k2 = k2
  Clients = {c1, c2}
  Consumers = {}
  PortLimit = 1
  MaxConnects = 2
  MaxFrames = 2
  Capacity = 1
  MaxClients = 1
  NoMsg = NoMsg
SPECIFICATION FairSpec
INVARIANT CallbackPortLive
INVARIANT NotificationsMatch
PROPERTY StopReturns
PROPERTY SendersUnblock
CHECK_DEADLOCK FALSE
