SPECIFICATION VisSpec
CONSTANTS
  GroupCount = 2
  Cells = {c1, c2}
  NoCell = NoCell
  MaxTimeouts = 1
  MaxVisChanges = 4
INVARIANTS
  SidesFollow
PROPERTIES
  UpdatesInOrder
  EventuallyShown
