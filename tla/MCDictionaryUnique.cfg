\* Commands of another type on a key that is still in table 0 during a rehash.
SPECIFICATION Spec
CONSTANTS
  k1 = k1
  k2 = k2
  k3 = k3
  k4 = k4
  Keys = {k1, k2, k3, k4}
  Vals = {v1}
  Uses <- MixedTypes
  Obj = Obj
  None = None
  Hash <- MCHash
  InitialSize = 2
  MaxRefer = 2
  MinRefer = 30
  MaxDoublings = 4
  MaxUsed = 6
INVARIANT
  UniqueKeys
