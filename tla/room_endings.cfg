CONSTANTS
  h = h
  a = a
  b = b
  HOST_ID = h
  NoId = NoId
  PlayerId = {h, a, b}
  PLAYER_REQUEST_BUFFER_SIZE = 1
  ROOM_NOTIFICATION_CAPACITY = 2
  NEW_CLIENT_CHANNEL_BUFFER_SIZE = 1
  PlayerLimits = {2}
  MessageLimits = {1}
  UniqueIds = TRUE
  MaxArrivals = 2
  MaxRequests = 1
  MaxReconfigs = 0
  MayShutdown = TRUE
  MayAbort = TRUE
SPECIFICATION Spec
SYMMETRY Peers
CHECK_DEADLOCK FALSE
INVARIANTS
  AwaitedTaskIsOver
  ClosedMeansQuiet
  DrainsMeetNobody
  RoomInv
PROPERTY
  KeepsLifecycle
