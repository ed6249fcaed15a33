SPECIFICATION Spec
CONSTANTS
  Procs = {"gui", "game"}
  Gui = "gui"
  Keys = {"near", "far"}
  Low = "near"
  High = "far"
  Values = {0, 1, 2}
  Default = 1
  Absent = Absent
  Bad = Bad
  Jobs = {0, 1}
  Choices <- MCChoices
  HandMade <- MCHandMade
  MaxEdits = 1
  MaxFaults = 1
INVARIANTS
  HeldIsInStep
PROPERTIES
  SavedIsSettings
  NothingOverwritten
CHECK_DEADLOCK TRUE
