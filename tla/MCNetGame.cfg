SPECIFICATION Spec
CONSTANTS
  PlayerIds = {p1, p2}
  NoPlayer = NoPlayer
  MaxInbox = 2
  ClassWait = 1
  FrameTimes = {1, 2}
  MaxRequests = 1
  ServerRpcs <- AnyServer
  MidTick = TRUE
  JoinWait = 2
  ReadyAtStart = FALSE
INVARIANTS FlagsNest FsmFollowsBridge IdleIsClean IdentityKnown SpawnsOnce
PROPERTIES AutoSpawnIsFresh ImplementsSession ImplementsSpawnFsm
