----------------------------- MODULE ConnectInfo -----------------------------
(***************************************************************************)
(* The two pools of the command line client's ConnectInfo, as functions on *)
(* their state.  The pool for sending is the sequence of the cells in it.  *)
(* In the pool for what is received only a part is in use: the cells from  *)
(* m_iStartPtr to m_iEndPtr.                                               *)
(***************************************************************************)
EXTENDS Integers, Sequences

CONSTANT MaxNetPool  \* MAXNETPOOL, the cells of either pool

\* A pool is empty at its beginning when the client has connected.
EmptyPool == [start |-> 0, cells |-> <<>>]

\* What is left behind m_iEndPtr.
Room(p) == MaxNetPool - (p.start + Len(p.cells))

MutMoveToFront(p, n) == IF Room(p) < n THEN [p EXCEPT !.cells = <<>>, !.start = 0] ELSE p

\* When that is too little the part in use moves to the front.
MoveToFront(p, n) == IF Room(p) < n THEN [p EXCEPT !.start = 0] ELSE p

\* When it still is too little, what was received is thrown away.
HasRoom(p, n) == Room(MoveToFront(p, n)) >= n

SaveData(p, cells) ==
  LET q == MoveToFront(p, Len(cells))
  IN  IF HasRoom(p, Len(cells)) THEN [q EXCEPT !.cells = @ \o cells] ELSE q

\* A packet of n cells has been copied out.
GetData(p, n) == [start |-> p.start + n, cells |-> SubSeq(p.cells, n + 1, Len(p.cells))]

\* A message that does not fit is not sent, and its command is told nothing.
HasRoomToSend(pool, n) == MaxNetPool - Len(pool) >= n
=============================================================================
