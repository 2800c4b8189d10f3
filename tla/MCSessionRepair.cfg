CONSTANTS
  Peer = {1, 2, 3}
  Host = 1
  Action = {1, 2, 3, 4}
  Author <- MCAuthor
  Base = {}
  RECOVER_BATCH = 2
  Leavers = {2}
  Cycle = 2
  MaxFaults = 1
  shipped = shipped
  imported = imported
  stamp = stamp
  Substrate = {shipped, imported}
  Brush = {stamp}
  Catalog = {shipped}
  PromiseFails = TRUE
  Early = TRUE
  MaxActions = 2
  Scenes = {"sweep", "recover"}
SPECIFICATION MCSpec
CHECK_DEADLOCK FALSE
PROPERTIES
  GapsClose
