SPECIFICATION Spec
CONSTANTS
    Meshes = {"a", "b", "c", "d"}
    Textures = {"t1", "t2"}
    Pages = {1, 2}
    Cells = {1, 2}
    MaxSpot = 2
    Shards = {1, 2, 3}
    Looks <- MCLooks
    Refs <- MCRefs
    MeshShard <- MCMeshShard
    GroupShard <- MCGroupShard
    FirstInputs <- MCFirst
    MaxEdits = 2
    MaxRuns = 3
INVARIANTS
  WayMakesNoDifference
  AtlasKeepsPictures
PROPERTIES
  ShardsWrittenAsNeeded
CHECK_DEADLOCK FALSE
