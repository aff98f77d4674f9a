SPECIFICATION FairOverlaySpec
CONSTANTS
  Devices = {d1, d2}
  NoDevice = NoDevice
  MaxTries = 2
  MaxTrouble = 2
INVARIANTS NeverItself OriginalsKnown
PROPERTIES DeviceRecovers HooksReturn
