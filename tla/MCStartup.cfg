SPECIFICATION FairSpec
CONSTANTS
  old = old
  new = new
  twin = twin
  fork = fork
  base = base
  next = next
  other = other
  last = last
  autumn = autumn
  Spring = Spring
  spring = spring
  Processes = {old, new, twin, fork}
  Ships <- MCShips
  TermCode <- MCTermCode
  Normal <- MCNormal
  MaxCrashes = 2
INVARIANTS
  TypeOK
  SchemaOfOneRelease
  ServesOwnSchema
  SeededOnce
PROPERTIES
  StartsUnlessRefused
