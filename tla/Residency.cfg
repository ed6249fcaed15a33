SPECIFICATION StreamFairSpec
CONSTANTS
  Bytes <- MCBytes
  Where <- MCWhere
  CellSize = 2
  Admission = 3
  Retain = 5
  Headings = {0, 1}
  PlanCells = 3
  PlanRes = 2
  FirstCaps = {2, 5}
  Candidates = {2, 3}
  Samples = 2
  Places = {0, 6}
  FirstPlaces = {0}
  AdmitRes = 2
  EvictRes = 1
  ReadyLimit = 2
  FreezeAfter = 2
  MaxMoves = 1
  MaxLateRpcs = 2
  MaxFaults = 1
INVARIANTS
  InStep
PROPERTIES
  GrowsWithinCap
  Settles
\* A failed upload ends the session without distant land.
CHECK_DEADLOCK FALSE
