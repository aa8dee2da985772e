SPECIFICATION FairSpec
CONSTANTS
  Parts = {1}
  Slices = {1}
  SliceOf <- MCSliceOf
  SlicesInMemory = 1
  RequestsLimit = 1
  Cached <- Nothing
  CachedHeaders <- Nothing
  UseCache = TRUE
  CanFail = TRUE
  MaxStarts = 1
  MaxDownloads = 1
  MaxReleases = 1
  MaxPosted = 1
PROPERTIES
  ErrorIsReported
CHECK_DEADLOCK FALSE
