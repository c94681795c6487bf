CONSTANTS
  g = g
  a1 = a1
  c1 = c1
  d2 = d2
  f2 = f2
  e3 = e3
  Hashes = {g, a1, c1, d2, f2, e3}
  Keys <- MCKeys
  Parent <- MCParent
  Number <- MCNumber
  StateOf <- MCState
  Starts <- MCStarts
  MaxPerLevel = 2
  MaxBlocks = 1
  MaxHeld = 2
  MaxUnsynced = 2
  Read = {a1, c1, d2}
SPECIFICATION Spec
INVARIANTS
  CountsExact
  Recovers
  DataExact
  StateReadable
PROPERTIES
  PrunesEnough
