\* One producer, one consumer, both operand orders, memory for three nodes.
SPECIFICATION Spec
CONSTANTS
  main = main
  append = append
  head = head
  n1 = n1
  n2 = n2
  n3 = n3
  Producers = {main}
  Consumers = {append}
  Nodes = {head, n1, n2, n3}
  Sentinel = head
  Null = Null
  Junk = Junk
  LoadOrders = {"load first", "swap first"}
  MaxCalls = 4
SYMMETRY NodeSymmetry
INVARIANTS
  TypeOK
  IntactUnlessRaced
  ListIsSoundUnlessRaced
PROPERTY
  QueueSpec
\* After a race a thread may follow a pointer into freed memory, and stops.
CHECK_DEADLOCK FALSE
