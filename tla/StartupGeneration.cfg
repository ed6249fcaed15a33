SPECIFICATION FairSpec
CONSTANTS
  Hosts = {h1, h2}
  Guis = {g1}
  Inputs <- MCInputs
  Jobs = {"sea", "isle"}
  Files = {"old", "new"}
  Reads <- MCReads
  FirstJob = "sea"
  FirstFiles = "new"
  None = None
  InitTrees <- MCInitTrees
  MaxStarts = 1
  MaxChanges = 1
  Faults = TRUE
INVARIANTS
  RunsKeepApart
PROPERTIES
  TreeChangesWhenFree
  EveryoneIsTold
