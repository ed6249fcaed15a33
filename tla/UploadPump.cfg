SPECIFICATION FairSpec
CONSTANTS
  Keys = {"exterior", "interior"}
  Slices = 2
  PlacedInWorld = TRUE
  MaxRestarts = 2
  MaxTimeouts = 1
  MaxDeaths = 2
INVARIANTS
  UploadSound
PROPERTIES
  UploadEnds
