SPECIFICATION Spec
CONSTANTS
  Parts = {1, 2, 3}
  Slices = {1, 2}
  SliceOf <- MCSliceOf
  SlicesInMemory = 1
  RequestsLimit = 1
  Cached <- Second
  CachedHeaders <- Nothing
  UseCache = TRUE
  CanFail = FALSE
  MaxStarts = 1
  MaxDownloads = 0
  MaxReleases = 1
  MaxPosted = 1
INVARIANTS
  LoadingIsMissing
CHECK_DEADLOCK FALSE
