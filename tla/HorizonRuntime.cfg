SPECIFICATION LiveSpec
CONSTANTS
  EvalWindow = 1
  GainFloor = 1
  SuspendWindows = 2
  ProbeInterval = 1
  BackoffCap = 2
  MoveTrigger = 3
  FastWindow = 2
  FastEnter = 2
  FastExit = 0
  WarmTimeout = 2
  NoEye = NoEye
  Eyes = {0, 1, 3, 4}
  Inside = {0, 1, 3}
  ParamSets = {1}
  EyeThreshold = 1
  MaxStale = 2
  MaxPending = 2
  Gated = TRUE
  SpawnMayFail = TRUE
  MaxGain = 1
  MaxChanges = 1
INVARIANTS
  CullingSound
PROPERTIES
  NeverFarther
  CullingComesBack
CHECK_DEADLOCK TRUE
