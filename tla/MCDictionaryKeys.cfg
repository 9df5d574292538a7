\* KEYS * while a rehash is in progress.
SPECIFICATION Spec
CONSTANTS
  k1 = k1
  k2 = k2
  k3 = k3
  k4 = k4
  Keys = {k1, k2, k3, k4}
  Vals = {v1}
  Uses <- OneTypePerKey
  Obj = Obj
  None = None
  Hash <- MCHash
  InitialSize = 2
  MaxRefer = 2
  MinRefer = 30
  MaxDoublings = 3
  MaxUsed = 4
INVARIANT
  KeysListsAll
