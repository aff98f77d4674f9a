SPECIFICATION FairSpec
CONSTANTS
  PlayerIds = {p1}
  NoPlayer = NoPlayer
  MaxInbox = 1
  ClassWait = 1
  FrameTimes = {1, 2}
  MaxRequests = 1
  ServerRpcs <- ClassServer
  MidTick = FALSE
  JoinWait = 2
  ReadyAtStart = TRUE
PROPERTY UnspawnedIsServed
