SPECIFICATION FairStartupSpec
CONSTANTS
  ReadyPolls = 1
  Devices = {d1}
  NoDevice = NoDevice
  MaxTries = 1
  MaxTrouble = 1
  MinFrames = 2
  SettleFrames = 1
INVARIANTS NothingLeft FailureLeavesNoGame SuccessMeansLoaded VanillaOnlyUnasked OneClient
PROPERTIES FreedUnderReaderDies RunGameReturns LaunchEndsWell
