SPECIFICATION FairSpec
CONSTANTS
  N = 2
  MaxFd = 7
  MaxChunks = 1
  Scripts <- Visits
  Users <- MCUsers
  Bucket <- OneBucket
  Indexes = {0}
INVARIANTS EfficientTypeOK BatchIsLive CacheKeepsKeysApart
PROPERTIES EventsAreServed
CHECK_DEADLOCK FALSE
