SPECIFICATION Spec
CONSTANTS
  Slots = 2
  Reservations = {2, 4}
  Initials = {1, 4}
  Writers = {"host", "client"}
  MaxElements = 5
  MaxBatches = 2
  Requests <- AllRequests
  Granularity = 65536
  Header = 1
  Granules = 65536
INVARIANTS
  WindowsSound
  LayoutAgrees
PROPERTIES
  ImplementsStream
  BatchPasses
CHECK_DEADLOCK FALSE
