CONSTANTS
  Tile <- MCTile
  Actor <- MCActor
  Resampling <- MCResampling
  Neutral <- MCNeutral
  Scene <- MCScenes
SPECIFICATION Spec
CHECK_DEADLOCK FALSE
INVARIANTS
  TypeOK
  InverseIsExact
  FoldsStayInFootprint
  NeighboursCommute
  SnapshotsAreReplays
  MergeKeepsPicture
