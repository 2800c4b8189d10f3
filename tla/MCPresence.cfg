CONSTANTS
  MaxRuns = 2
  MaxFrames = 4
  MaxGestures = 2
  MaxReports = 3
  MaxPath = 2
SPECIFICATION PresenceSpec
CHECK_DEADLOCK FALSE
INVARIANTS
  HeldPathWasTheAuthors
  FrozenPointsAgree
  NewestFrameRules
  ClearingFrameIsOwed
PROPERTIES
  WatermarkAdvances
