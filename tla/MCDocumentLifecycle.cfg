CONSTANTS
  NoId = NoId
  UndoKind = UndoKind
  Blank = Blank
  edit = edit
  Actor <- MCActor
  Kind = {edit}
  Cell <- MCCell
  Reads <- MCReads
  Writes <- MCWrites
  Solo = 0
  Me = 1
  Peer = 2
  MinUndoDepth = 1
  MaxClock = 3
  MaxResets = 2
SPECIFICATION Spec
INVARIANTS
  PaintingIsWhole
  IdsNameOneAction
  FilesOpenAsSaved
PROPERTIES
  NavigationKeepsWalk
CHECK_DEADLOCK FALSE
