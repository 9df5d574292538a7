\* Two sessions for clients and one that dials; three connections.
SPECIFICATION Spec
CONSTANTS
  AcceptSess = {s1, s2}
  Dialer = dialer
  None = None
  MaxAccept = 1
  MaxConn = 2
  MaxSent = 1
SYMMETRY SessionSymmetry
INVARIANTS
  MasterIsHeard
CHECK_DEADLOCK FALSE
