SPECIFICATION FairSpec
CONSTANTS
  Chats = {c1}
  MaxMessage = 2
  MaxRequests = 2
  MaxFails = 1
  MaxAsked = 1
  ChannelDeletes = {}
INVARIANTS
  HistoryWaitsForDeletes
  ReadsGoForward
  PostponedEntryIsRequested
PROPERTIES
  HistoryIsLoaded
  EntryIsLoaded
  ReadIsReported
CHECK_DEADLOCK FALSE
