CONSTANTS
  None = None
  Me = 2
  Peer = {1}
  Tiles = 2
  Kind = {"stroke", "fill", "marquee"}
  Brush = {"plain", "tapered", "broad", "stamp"}
  Imported = {"stamp"}
  Taper <- MCTaper
  Limit <- MCLimit
  Curves <- MCCurves
  MaxOrdinal = 2
  MaxRevision = 2
  Scenes = {"brushes", "doors", "together"}
SPECIFICATION MCSpec
CHECK_DEADLOCK FALSE
INVARIANTS
  ShownIsTheFold
  PreparedIsCurrent
PROPERTIES
  StrokesCommitAsReplayed
  DrawKeyNamesThePicture
