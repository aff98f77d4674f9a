SPECIFICATION Spec
CONSTANTS
  Wrap = 11
  LoadTick = 1
  BodyRate = 3
  OnfootRate = 3
  IncarRate = 2
  FiringRate = 2
  FrameTimes = {1, 2, 4}
  SilenceCap = 6
  Vehicles = {v1}
  NoVehicle = NoVehicle
INVARIANTS BodyPaced SilenceBounded AimFollowsBody
