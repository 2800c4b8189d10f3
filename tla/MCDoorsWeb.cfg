CONSTANTS
  Frontend <- MCWeb
  Me = 1
  Other <- MCOther
  Solo = 0
  MaxMine = 2
  MaxOthers = 1
  MaxActs = 3
SPECIFICATION DoorsSpec
INVARIANTS
  NothingIsDropped
CHECK_DEADLOCK FALSE
