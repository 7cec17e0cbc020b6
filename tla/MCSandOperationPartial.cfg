SPECIFICATION Spec
CONSTANTS
  MaxRequests = 3
  MaxEvents = 2
  ReplayCapacity = 3
  MaxQueue = 3
  ChannelCapacity = 1
  SubscriberLimit = 2
INVARIANT ReplayIsWhole
CHECK_DEADLOCK FALSE
