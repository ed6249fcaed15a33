SPECIFICATION TableSpec
CONSTANTS
  Instances = 4
  MaxViews = 2
  MaxTimeouts = 1
  MaxFails = 2
INVARIANTS
  IdsSound
  SharesSound
PROPERTIES
  FreedUnviewed
\* Every vector of the run may have been made and freed.
CHECK_DEADLOCK FALSE
