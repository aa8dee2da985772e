SPECIFICATION FairSpec
CONSTANTS
  Parts = {1, 2}
  Slices = {1}
  SliceOf <- MCSliceOf
  SlicesInMemory = 1
  RequestsLimit = 1
  Cached <- First
  CachedHeaders <- First
  UseCache = TRUE
  CanFail = FALSE
  MaxStarts = 1
  MaxDownloads = 1
  MaxReleases = 1
  MaxPosted = 0
PROPERTIES
  DownloadAlwaysEnds
CHECK_DEADLOCK FALSE
