---------------------------- MODULE CircuitQueue ----------------------------
(***************************************************************************)
(* The ring of CircuitQueue, as functions on its state.  Behind the size   *)
(* cells of the ring lie extra cells, into which what wraps round can be   *)
(* copied so that it is read in one piece.  Each of these runs under the   *)
(* lock of the queue.                                                      *)
(***************************************************************************)
EXTENDS Integers, Sequences

CONSTANT Junk  \* what a cell holds that nothing has been written to

Create(size, extra) ==
  [data |-> [i \in 0 .. size + extra - 1 |-> Junk], size |-> size, extra |-> extra,
   head |-> 0, tail |-> 0, length |-> 0]

GetSpace(q) == q.size - q.length

\* What lies between the head and the end of the ring.
GetBackDataCount(q) == q.size - q.head

GetReadableLen(q) ==
  IF q.head = q.tail THEN IF q.length > 0 THEN q.size - q.head ELSE 0
  ELSE IF q.head < q.tail THEN q.tail - q.head ELSE q.size - q.head

MutGetWritableLen(q) ==
  IF q.head <= q.tail THEN q.size - q.tail ELSE q.head - q.tail

GetWritableLen(q) ==
  IF q.head = q.tail THEN IF q.length > 0 THEN 0 ELSE q.size - q.tail
  ELSE IF q.head < q.tail THEN q.size - q.tail ELSE q.head - q.tail

\* memcpy of a sequence of cells to an index.
Copy(q, at, cells) ==
  [q EXCEPT !.data = [i \in DOMAIN @ |-> IF i \in at .. at + Len(cells) - 1
                                         THEN cells[i - at + 1] ELSE @[i]]]

\* The n cells from an index on, as a pointer to them sees them.
ReadAt(q, at, n) == [i \in 1 .. n |-> q.data[at + i - 1]]

MutCopyHeadDataToExtraBuffer(q, n) == Copy(q, q.size, ReadAt(q, 0, n - 1))

CopyHeadDataToExtraBuffer(q, n) == Copy(q, q.size, ReadAt(q, 0, n))

\* The queue GetReadPtr leaves; the pointer it returns is the head.
GetReadPtr(q) ==
  IF q.head > q.tail /\ GetBackDataCount(q) < q.extra
  THEN CopyHeadDataToExtraBuffer(q, q.extra - GetBackDataCount(q))
  ELSE q

\* Enqueue( NULL, n ): what lies behind the tail already becomes readable.
Commit(q, n) == [q EXCEPT !.tail = (@ + n) % q.size, !.length = @ + n]

\* Enqueue, once GetSpace has said that the cells fit.
Enqueue(q, cells) ==
  LET back == q.size - q.tail
      n    == Len(cells)
  IN  Commit(IF n <= back THEN Copy(q, q.tail, cells)
             ELSE Copy(Copy(q, q.tail, SubSeq(cells, 1, back)), 0, SubSeq(cells, back + 1, n)),
             n)

\* Dequeue( NULL, n ).
Dequeue(q, n) == [q EXCEPT !.head = (@ + n) % q.size, !.length = @ - n]

\* The first n cells, wherever the ring ends.
Peek(q, n) == [i \in 1 .. n |-> q.data[(q.head + i - 1) % q.size]]
=============================================================================
