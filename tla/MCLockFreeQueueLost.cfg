\* The same instance: is a value ever lost?
SPECIFICATION Spec
CONSTANTS
  main = main
  append = append
  head = head
  n1 = n1
  n2 = n2
  n3 = n3
  Producers = {main}
  Consumers = {append}
  Nodes = {head, n1, n2, n3}
  Sentinel = head
  Null = Null
  Junk = Junk
  LoadOrders = {"load first", "swap first"}
  MaxCalls = 4
SYMMETRY NodeSymmetry
INVARIANT
  NothingLost
CHECK_DEADLOCK FALSE
