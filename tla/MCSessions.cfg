\* Two sessions for clients and one that dials; three connections.
SPECIFICATION Spec
CONSTANTS
  AcceptSess = {s1, s2}
  Dialer = dialer
  None = None
  MaxAccept = 1
  MaxConn = 3
  MaxSent = 1
SYMMETRY SessionSymmetry
INVARIANTS
  TypeOK
  HeardInOrder
  NothingDropped
  NoStaleKill
  AgentOfItsConnection
  CountIsExact
  NoSessionLeaks
CHECK_DEADLOCK FALSE
