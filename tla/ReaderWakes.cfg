SPECIFICATION FairSpec
CONSTANTS
  Parts = {1, 2}
  Slices = {1}
  SliceOf <- MCSliceOf
  SlicesInMemory = 1
  RequestsLimit = 1
  Cached <- First
  CachedHeaders <- First
  UseCache = TRUE
  CanFail = FALSE
  MaxStarts = 2
  MaxDownloads = 1
  MaxReleases = 1
  MaxPosted = 0
INVARIANTS
  BlockedIsWoken
  OnlyOneThreadWorks
PROPERTIES
  DownloadEnds
CHECK_DEADLOCK FALSE
