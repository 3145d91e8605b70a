CONSTANTS
  c1 = c1
  c2 = c2
  c3 = c3
  h1 = h1
  h2 = h2
  k1 = k1
  k2 = k2
  r1 = r1
  r2 = r2
  NoClient = NoClient
  NoHandle = NoHandle
  NoCode = NoCode
  NoRoom = NoRoom
  Client = {c1, c2, c3}
  HandleId = {h1, h2}
  RoomCode = {k1, k2}
  RoomId = {r1, r2}
  LOBBY_CONNECTION_CHANNEL_BUFFER_SIZE = 1
  LOBBY_REQUEST_CHANNEL_BUFFER_SIZE = 1
  LOBBY_CONTROL_CHANNEL_BUFFER_SIZE = 2
  NEW_CLIENT_CHANNEL_BUFFER_SIZE = 1
  RoomLimits = {1, 2}
  QueueLimits = {1, 2}
  UniqueCodes = TRUE
  MaxReconfigs = 1
  MayShutdown = TRUE
SPECIFICATION Spec
SYMMETRY Names
INVARIANTS
  StoppedMeansQuiet
  LobbyTypeOK
  QueueFollowsTasks
  RoomsAreListed
  RoomsWithinLimit
  AwaitedRoomIsDone
PROPERTIES
  ListingsKeepLifecycle
