SPECIFICATION Spec
CONSTANTS
  Wrap = 36
  LoadTick = 1
  BodyRate = 5
  OnfootRate = 5
  IncarRate = 4
  FiringRate = 4
  FrameTimes = {2}
  SilenceCap = 10
  Vehicles = {v1, v2}
  NoVehicle = NoVehicle
PROPERTIES DrivenVehicle
