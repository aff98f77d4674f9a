CONSTANTS
  LastHour = 2
  LastMinute = 1
  Models = {0, 7, 8}
  BootSkin = 7
  PlayerIds = {0, 1}
SPECIFICATION WorldSpec
INVARIANTS ClockPinned WearsOwnOrder
PROPERTIES ServerSwapsLoaded
