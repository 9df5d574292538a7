------------------------------- MODULE DList -------------------------------
(***************************************************************************)
(* JK_DList, as functions on the list and the memory of its nodes.  Pops   *)
(* free a node and leave the pointers to it as they are; the node at an    *)
(* end may also point to what malloc left there.  Only the count says      *)
(* where a list ends.                                                      *)
(***************************************************************************)
EXTENDS Integers, SequencesExt

CONSTANTS
  Nodes,  \* memory for nodes
  Null,   \* NULL
  Junk    \* what memory holds that nothing was written to

EmptyList ==
  [head |-> Null, tail |-> Null, count |-> 0, used |-> {},
   data |-> [n \in Nodes |-> Junk], next |-> [n \in Nodes |-> Junk],
   prev |-> [n \in Nodes |-> Junk]]

\* The node an allocation returns.
NewNode(l) == CHOOSE n \in Nodes \ l.used : \A m \in Nodes \ l.used : n <= m

\* A node with an element, whose pointers are NULL (JK_NEW) or not set (JK_MALLOC).
With(l, n, x, end) ==
  [l EXCEPT !.count = @ + 1, !.used = @ \cup {n},
            !.data[n] = x, !.next[n] = end, !.prev[n] = end]

RPush(l, x) ==
  LET n == NewNode(l)
      m == With(l, n, x, Null)
  IN  IF l.count = 0 THEN [m EXCEPT !.head = n, !.tail = n]
      ELSE [m EXCEPT !.next[l.tail] = n, !.prev[n] = l.tail, !.tail = n]

LPush(l, x) ==
  LET n == NewNode(l)
      m == With(l, n, x, Junk)
  IN  IF l.count = 0 THEN [m EXCEPT !.head = n, !.tail = n]
      ELSE [m EXCEPT !.prev[l.head] = n, !.next[n] = l.head, !.head = n]

\* JK_FREE: what the node held is gone.
Without(l, n) ==
  [l EXCEPT !.count = @ - 1, !.used = @ \ {n},
            !.data[n] = Junk, !.next[n] = Junk, !.prev[n] = Junk]


\* The pops of a list that is not empty.
LPop(l) == [Without(l, l.head) EXCEPT !.head = l.next[l.head]]

RPop(l) == [Without(l, l.tail) EXCEPT !.tail = l.prev[l.tail]]

Pointers == Nodes \cup {Null, Junk}

\* The lists of some elements, by their types only.
Lists(elements) ==
  [head : Pointers, tail : Pointers, count : Nat, used : SUBSET Nodes,
   data : [Nodes -> elements \cup {Junk}], next : [Nodes -> Pointers],
   prev : [Nodes -> Pointers]]

\* The nodes from one on along a pointer, as many as the list counts.
Walk(l, from, pointer) ==
  LET node[i \in 1 .. l.count] ==
        IF i = 1 THEN from
        ELSE IF node[i - 1] \in l.used THEN pointer[node[i - 1]] ELSE Junk
  IN  [i \in 1 .. l.count |-> node[i]]

\* What as many pops from the left would return.
Elements(l) ==
  LET forth == Walk(l, l.head, l.next)
  IN  [i \in 1 .. l.count |-> IF forth[i] \in l.used THEN l.data[forth[i]] ELSE Junk]

\* From either end the pointers lead through the same nodes, all of them and no
\* other, and in opposite orders.
IsList(l) ==
  LET forth == Walk(l, l.head, l.next)
  IN  /\ {forth[i] : i \in 1 .. l.count} = l.used
      /\ Walk(l, l.tail, l.prev) = Reverse(forth)
=============================================================================
