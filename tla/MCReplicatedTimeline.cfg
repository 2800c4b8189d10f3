CONSTANTS
  NoId = NoId
  UndoKind = UndoKind
  Blank = Blank
  strokeA = strokeA
  strokeB = strokeB
  substrate = substrate
  tileA = tileA
  tileB = tileB
  tooth = tooth
  Actor <- MCActor
  Kind = {strokeA, strokeB, substrate}
  Cell <- MCCell
  Reads <- MCReads
  Writes <- MCWrites
  Host = 1
  MaxActions = 4
SPECIFICATION Spec
INVARIANTS
  CachesFresh
  HistoryIsEffective
  SnapshotsAreReplays
  DistinctIds
PROPERTIES
  CausalOrder
  PeersLeaveMineAlone
  NavigationMovesOne
  ImplementsSharedDocument
