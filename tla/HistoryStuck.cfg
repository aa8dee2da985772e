SPECIFICATION FairSpec
CONSTANTS
  Chats = {c1}
  MaxMessage = 1
  MaxRequests = 2
  MaxFails = 1
  MaxAsked = 1
  ChannelDeletes = {c1}
PROPERTIES
  HistoryIsLoaded
CHECK_DEADLOCK FALSE
