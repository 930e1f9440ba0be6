SPECIFICATION Spec
CONSTANTS
  NALLOC = 4
  MAXALLOC = 96
  Units = 11
  Requests = {16, 40, 96, 97}
  BUFSIZ = 2
  OPEN_MAX = 2
  Bytes = {"a", "b"}
  MaxDisk = 3
  HASHSIZE = 2
  Names <- MCNames
  Hash <- MCHash
  Sources <- MCSources
  Letters <- MCLetters
  Variables <- MCVariables
  Documents <- MCDocuments
  Keywords <- MCKeywords
  NoiseWords <- MCNoiseWords
  Prefix = 1
INVARIANTS BlocksArePartition BytesKeepTheirPlace TableHoldsDefinitions ListingIsExact
CHECK_DEADLOCK FALSE
