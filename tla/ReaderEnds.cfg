SPECIFICATION FairSpec
CONSTANTS
  Parts = {1, 2, 3}
  Slices = {1, 2}
  SliceOf <- MCSliceOf
  SlicesInMemory = 1
  RequestsLimit = 1
  Cached <- Third
  CachedHeaders <- Third
  UseCache = TRUE
  CanFail = TRUE
  MaxStarts = 1
  MaxDownloads = 0
  MaxReleases = 1
  MaxPosted = 0
PROPERTIES
  ReadEnds
  StopReturns
CHECK_DEADLOCK FALSE
