CONSTANTS
  h = h
  a = a
  HOST_ID = h
  NoId = NoId
  PlayerId = {h, a}
  PLAYER_REQUEST_BUFFER_SIZE = 1
  ROOM_NOTIFICATION_CAPACITY = 3
  NEW_CLIENT_CHANNEL_BUFFER_SIZE = 1
  PlayerLimits = {2}
  MessageLimits = {1, 2}
  UniqueIds = TRUE
  MaxArrivals = 1
  MaxRequests = 3
  MaxReconfigs = 1
  MayShutdown = FALSE
  MayAbort = FALSE
SPECIFICATION Spec
INVARIANTS
  FloodsAreCounted
