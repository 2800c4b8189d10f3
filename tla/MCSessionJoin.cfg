CONSTANTS
  Peer = {1, 2, 3}
  Host = 1
  Action = {1, 2, 3, 4}
  Author <- MCAuthor
  Base = {1}
  RECOVER_BATCH = 1
  Leavers = {1}
  Cycle = 2
  MaxFaults = 0
  shipped = shipped
  imported = imported
  stamp = stamp
  Substrate = {shipped, imported}
  Brush = {stamp}
  Catalog = {shipped}
  PromiseFails = TRUE
  Early = TRUE
  MaxActions = 2
  Scenes = {"join", "content"}
SPECIFICATION MCSafety
CHECK_DEADLOCK FALSE
INVARIANTS
  MembersHoldTheSession
  SnapshotsAreCurrent
  OwnSubstratesTravel
