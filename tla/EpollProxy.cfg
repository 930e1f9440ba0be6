SPECIFICATION FairSpec
CONSTANTS
  N = 2
  MaxFd = 7
  MaxChunks = 1
  Scripts <- Visits
  Users <- MCUsers
  Bucket <- OneBucket
  Indexes = {0}
INVARIANTS EpollTypeOK BatchIsLive PairsAreCounted CacheHoldsWholeAnswers
PROPERTIES StrangersOnlyAfterClose OnlySilenceStalls
CHECK_DEADLOCK FALSE
