\* Growth from 2 to 8 buckets and back: four keys, three of them on one chain.
SPECIFICATION FairSpec
CONSTANTS
  k1 = k1
  k2 = k2
  k3 = k3
  k4 = k4
  Keys = {k1, k2, k3, k4}
  Vals = {v1, v2}
  Uses <- OneTypePerKey
  Obj = Obj
  None = None
  Hash <- MCHash
  InitialSize = 2
  MaxRefer = 2
  MinRefer = 30
  MaxDoublings = 3
  MaxUsed = 4
INVARIANTS
  TypeOK
  UsedCounts
  NothingBehindCursor
  CursorInBounds
  OnItsChain
  MaskIsRemainder
  KeysListsMatching
PROPERTIES
  MapSpec
  MigrationKeepsEntities
  RehashEnds
