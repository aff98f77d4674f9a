CONSTANTS
  LastId = 1
  bohdana = bohdana
  bo = bo
  chris = chris
  Names <- ThreeNames
  NameLength <- Lengths
  Cut <- Cuts
  Places = {origin, ganton}
  Origin = origin
SPECIFICATION LocalPlayerSpec
INVARIANTS BodyReportsPed
