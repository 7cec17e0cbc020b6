SPECIFICATION FairSpec
CONSTANTS
  MaxRequests = 3
  MaxEvents = 2
  ReplayCapacity = 3
  MaxQueue = 3
  ChannelCapacity = 1
  SubscriberLimit = 2
INVARIANTS TypeOK OneInvocation AnswersFaithful
PROPERTIES ResponsesEnd
CHECK_DEADLOCK FALSE
