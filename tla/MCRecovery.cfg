SPECIFICATION FairSpec
CONSTANTS
  MaxOpens = 2
  MaxQueue = 2
  MaxChunks = 4
  MaxStreams = 3
  MaxBatches = 2
INVARIANTS TypeOK NothingTwice HonestEnd
PROPERTIES SuccessAtEnd EpisodeEnds
CHECK_DEADLOCK FALSE
