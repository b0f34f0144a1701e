SPECIFICATION FairSpec
CONSTANTS
  c1 = c1
  c2 = c2
  d1 = d1
  d2 = d2
  Workers = {c1, c2}
  DataPlanes = {d1, d2}
  MaxWrites = 2
  MaxFailures = 1
INVARIANTS
  TypeOK
  SlotIsWatched
  QuietMeansInSync
PROPERTIES
  BackOnlyElsewhere
  InSync
