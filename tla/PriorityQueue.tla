--------------------------- MODULE PriorityQueue ---------------------------
(***************************************************************************)
(* JK_PriorityQueue: the timers of EXPIRE in a binary heap that starts at  *)
(* index 0, where the parent of i is i / 2 all the same.  A heap is its    *)
(* m_iSize and its m_elements, which keep what earlier timers left behind  *)
(* the size: deleteMin reads one such element.                             *)
(***************************************************************************)
LOCAL INSTANCE Integers

CONSTANTS
  Capacity,   \* m_iCapacity: 128
  NoTimer     \* an element as initialize leaves it, with time 0

ASSUME PriorityQueueAssumption == Capacity \in Nat \ {0}

EmptyHeap == [size |-> 0, elements |-> [i \in 0 .. Capacity |-> NoTimer]]

IsFull(h) == h.size = Capacity

\* findMin of a heap that is not empty.
FindMin(h) == h.elements[0]

\* The queue holds the timers below the size.
TimersOf(h) == {h.elements[i] : i \in 0 .. h.size - 1}

MutInsert(h, x) ==
  [size |-> h.size + 1, elements |-> [h.elements EXCEPT ![h.size] = x]]

\* insert: from the new place up to the last ancestor that x is earlier than, what is
\* above comes down, and x takes the place that is left.
Insert(h, x) ==
  LET e == h.elements
      Up[i \in 0 .. Capacity] ==
        IF i > 0 /\ x.time < e[i \div 2].time THEN {i} \cup Up[i \div 2] ELSE {i}
      trail == Up[h.size]
  IN  IF IsFull(h) THEN h
      ELSE [size |-> h.size + 1,
            elements |-> [i \in 0 .. Capacity |->
                            IF i \notin trail THEN e[i]
                            ELSE IF \A k \in trail : i <= k THEN x
                            ELSE e[i \div 2]]]

\* deleteMin of a heap that is not empty: the last element takes the place of
\* the first, and the earlier child of every place it passes moves up.
DeleteMin(h) ==
  LET n    == h.size - 1
      last == h.elements[n]
      e    == [h.elements EXCEPT ![0] = last]
      Child(i) ==
        LET left == IF i = 0 THEN 1 ELSE 2 * i
        IN  IF left < n /\ e[left].time > e[left + 1].time THEN left + 1 ELSE left
      Down[i \in 0 .. Capacity] ==
        IF 2 * i <= n /\ e[Child(i)].time <= last.time
        THEN {i} \cup Down[Child(i)] ELSE {i}
      trail == Down[0]
      Below(i) == CHOOSE j \in trail : j > i /\ \A k \in trail : k > i => j <= k
  IN  [size |-> n,
       elements |-> [i \in 0 .. Capacity |->
                       IF i \notin trail THEN e[i]
                       ELSE IF \A k \in trail : k <= i THEN last
                       ELSE e[Below(i)]]]

MutPopDue(h, now) ==
  IF h.size = 0 \/ FindMin(h).time > now THEN [heap |-> h, keys |-> {}]
  ELSE [heap |-> DeleteMin(h), keys |-> {FindMin(h).key}]

\* The earliest timers, popped for as long as they are due.
PopDue(h, now) ==
  LET After[n \in 0 .. Capacity] ==
        IF n = 0 THEN [heap |-> h, keys |-> {}]
        ELSE LET was == After[n - 1]
             IN  IF was.heap.size = 0 \/ FindMin(was.heap).time > now THEN was
                 ELSE [heap |-> DeleteMin(was.heap),
                       keys |-> was.keys \cup {FindMin(was.heap).key}]
  IN  After[Capacity]
=============================================================================
