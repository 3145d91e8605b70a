CONSTANTS
  h = h
  a = a
  HOST_ID = h
  NoId = NoId
  PlayerId = {h, a}
  PLAYER_REQUEST_BUFFER_SIZE = 1
  ROOM_NOTIFICATION_CAPACITY = 2
  NEW_CLIENT_CHANNEL_BUFFER_SIZE = 1
  PlayerLimits = {2}
  MessageLimits = {1}
  UniqueIds = TRUE
  MaxArrivals = 1
  MaxRequests = 1
  MaxReconfigs = 0
  MayShutdown = FALSE
  MayAbort = FALSE
SPECIFICATION FairSpec
PROPERTIES
  ClosingEnds
  HostLeavingEndsRoom
  LeaverIsRemoved
  ToldToEndEnds
