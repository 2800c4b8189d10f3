CONSTANTS
  Frontend <- MCBoth
  Me = 1
  Other <- MCOther
  Solo = 0
  MaxMine = 2
  MaxOthers = 1
  MaxActs = 4
SPECIFICATION DoorsSpec
INVARIANTS
  NativeDropsNothing
  ServedIsShown
  SoloIsSolo
PROPERTIES
  ReturningReusesOnlyTheForgotten
CHECK_DEADLOCK FALSE
