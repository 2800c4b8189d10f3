CONSTANTS
  tip = tip
  paper = paper
  stroke = stroke
  switch = switch
  mine = mine
  NoNeed = NoNeed
  Doors = {"flood", "sweep"}
  Action = {stroke, switch, mine}
  Own = {mine}
  Need = {tip, paper}
  Brush = {tip}
  Resolvable = {paper}
  Bare = {stroke}
  ContentOf <- MCContentOf
  BrushAttempts = 1
  MaxFetches = 2
SPECIFICATION Spec
CHECK_DEADLOCK FALSE
INVARIANTS
  NothingParksUnattended
  SurfacedOnce
  NoFallbackForSubstrates
PROPERTIES
  MirroredContentIsInstalled
  BrushesAreLetThrough
