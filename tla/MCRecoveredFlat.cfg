CONSTANTS
  host = host
  guest = guest
  other = other
  shipped = shipped
  imported = imported
  stamp = stamp
  Member <- MCMember
  Host = host
  Substrate <- MCSubstrate
  Brush = {stamp}
  Catalog = {shipped}
  PromiseFails = FALSE
  Early = FALSE
  MaxActions = 2
SPECIFICATION Spec
CHECK_DEADLOCK FALSE
INVARIANTS
  SubstratesComeFirst
