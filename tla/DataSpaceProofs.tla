-------------------------- MODULE DataSpaceProofs --------------------------
(***************************************************************************)
(* Theorems about DataSpace, for any keys, values, fields, scores and      *)
(* timers, any memory for nodes, any number of rows and any capacity.      *)
(*                                                                         *)
(* Lists: there is a path through the nodes that next follows forth and    *)
(* prev back (Chained), and every push and pop keeps one.                  *)
(* Sorted sets: the rows are in order and each stands on the one below     *)
(* (Tiered); FindNode then ends where a search of the lowest row would,    *)
(* and InsertNode puts its key there into as many rows as it is promoted   *)
(* to.                                                                     *)
(* The key space and the one the log rebuilds consist of such values, and  *)
(* the second is the first as it is read back, but for fields that were    *)
(* freed (IInv); every command and the line it logs keep that.             *)
(* Timers: no element of the heap is later than those below it (IsHeap),   *)
(* through insert and deleteMin, whose ways are sets of places closed      *)
(* under a step (Reach).                                                   *)
(***************************************************************************)
EXTENDS DataSpace, SequenceTheorems, WellFoundedInduction, TLAPS

-----------------------------------------------------------------------------
(* Numbers.                                                                *)

\* A set of numbers has a smallest one.
LEMMA SmallestOf ==
  ASSUME NEW S \in SUBSET Nat, S # {}
  PROVE  \E m \in S : \A n \in S : m <= n
<1>1. PICK m \in S : \A n \in S : ~ (<<n, m>> \in OpToRel(<, Nat))
  BY NatLessThanWellFounded, WFMin
<1>2. \A n \in S : ~ (n < m)
  BY <1>1 DEF OpToRel
<1>3. QED
  BY <1>2

\* Induction, as a fact about sets of numbers.
LEMMA NaturalsByInduction ==
  ASSUME NEW S, 0 \in S, \A n \in Nat : n \in S => n + 1 \in S
  PROVE  Nat \subseteq S
<1>1. ASSUME Nat \ S # {} PROVE FALSE
  <2>1. PICK m \in Nat \ S : \A n \in Nat \ S : m <= n
    BY <1>1, SmallestOf
  <2>2. m - 1 \in Nat /\ m - 1 \in S
    BY <2>1
  <2>3. QED
    BY <2>1, <2>2
<1>2. QED
  BY <1>1

\* A bounded set of numbers has a largest one.
LEMMA LargestOf ==
  ASSUME NEW k \in Nat, NEW S \in SUBSET (0 .. k), S # {}
  PROVE  \E m \in S : \A n \in S : n <= m
<1>1. PICK T : T = {n \in 0 .. k : k - n \in S}
  OBVIOUS
<1>2. PICK m \in S : TRUE
  OBVIOUS
<1>3. k - m \in T /\ T \in SUBSET Nat
  BY <1>1
<1>4. PICK n \in T : \A i \in T : n <= i
  BY <1>3, SmallestOf
<1>5. \A i \in S : k - i \in T
  BY <1>1
<1>6. k - n \in S /\ \A i \in S : n <= k - i
  BY <1>1, <1>4, <1>5
<1>7. \A i \in S : i <= k - n
  BY <1>1, <1>6
<1>8. QED
  BY <1>6, <1>7

-----------------------------------------------------------------------------
(* Lists.  Behind the pointers lies a path through the nodes.              *)

PathOf(l, w) ==
  /\ w \in [1 .. l.count -> l.used]
  /\ \A n \in l.used : \E i \in 1 .. l.count : w[i] = n
  /\ \A i, j \in 1 .. l.count : w[i] = w[j] => i = j
  /\ l.count # 0 => l.head = w[1] /\ l.tail = w[l.count]
  /\ \A i \in 1 .. l.count - 1 : l.next[w[i]] = w[i + 1] /\ l.prev[w[i + 1]] = w[i]

HasPath(l) == \E w : PathOf(l, w)

\* As many steps along a pointer as the list counts, if each leads to the next node of
\* a path.
LEMMA WalkIs ==
  ASSUME NEW l, l.count \in Nat, NEW w \in [1 .. l.count -> l.used], NEW from, NEW pointer,
         l.count # 0 => from = w[1],
         \A i \in 1 .. l.count - 1 : pointer[w[i]] = w[i + 1]
  PROVE  List!Walk(l, from, pointer) = w
<1> DEFINE Is(g) == g = [i \in 1 .. l.count |->
                           IF i = 1 THEN from
                           ELSE IF g[i - 1] \in l.used THEN pointer[g[i - 1]] ELSE Junk]
<1>1. Is(w)
  BY SMTT(30)
<1>2. \E g : Is(g)
  BY <1>1
<1>3. Is(CHOOSE g : Is(g))
  BY <1>2, Zenon
<1> DEFINE node == CHOOSE g : Is(g)
<1>5. node = [i \in 1 .. l.count |->
                           IF i = 1 THEN from
                           ELSE IF node[i - 1] \in l.used THEN pointer[node[i - 1]] ELSE Junk]
  BY <1>3, Zenon
<1>6. List!Walk(l, from, pointer) = [i \in 1 .. l.count |-> node[i]]
  BY Zenon DEF List!Walk
<1> HIDE DEF node
<1>7. PICK S : S = {n \in Nat : n + 1 \in 1 .. l.count => node[n + 1] = w[n + 1]}
  OBVIOUS
<1>8. 0 \in S
  BY <1>5, <1>7
<1>9. ASSUME NEW n \in Nat, n \in S PROVE n + 1 \in S
  <2>1. CASE n + 2 \in 1 .. l.count
    <3>1. n + 1 \in 1 .. l.count - 1 /\ n + 1 \in 1 .. l.count /\ n + 2 # 1 /\ (n + 2) - 1 = n + 1
      BY <2>1
    <3>2. node[n + 1] = w[n + 1]
      BY <1>7, <1>9, <3>1
    <3>3. node[n + 2] = IF node[n + 1] \in l.used THEN pointer[node[n + 1]] ELSE Junk
      BY <1>5, <2>1, <3>1
    <3>4. pointer[w[n + 1]] = w[(n + 1) + 1] /\ w[n + 1] \in l.used
      BY <3>1
    <3>5. node[n + 2] = w[n + 2]
      BY <3>2, <3>3, <3>4
    <3>6. QED
      BY <1>7, <3>5
  <2>2. QED
    BY <1>7, <2>1
<1>10. \A n \in Nat : n \in S
  BY <1>8, <1>9, NaturalsByInduction
<1>11. \A i \in 1 .. l.count : node[i] = w[i]
  <2>1. ASSUME NEW i \in 1 .. l.count PROVE node[i] = w[i]
    <3>1. i - 1 \in Nat /\ (i - 1) + 1 = i
      OBVIOUS
    <3>2. QED
      BY <1>7, <1>10, <3>1
  <2>2. QED
    BY <2>1
<1>12. QED
  BY <1>6, <1>11

\* Such a list is one: its pointers lead along the path from either end.
LEMMA PathIsList ==
  ASSUME NEW l, l.count \in Nat, HasPath(l)
  PROVE  List!IsList(l)
<1>1. PICK w : PathOf(l, w)
  BY DEF HasPath
<1>2. w \in [1 .. l.count -> l.used]
  BY <1>1 DEF PathOf
<1>3. List!Walk(l, l.head, l.next) = w
  BY <1>1, WalkIs DEF PathOf
<1>4. PICK b : b = [i \in 1 .. l.count |-> w[l.count - i + 1]]
  OBVIOUS
<1>5. List!Walk(l, l.tail, l.prev) = b
  <2>1. \A i \in 1 .. l.count : l.count - i + 1 \in 1 .. l.count
    OBVIOUS
  <2>2. b \in [1 .. l.count -> l.used]
    BY <1>2, <1>4, <2>1
  <2>3. l.count # 0 => l.tail = b[1]
    BY <1>1, <1>4 DEF PathOf
  <2>4. ASSUME NEW i \in 1 .. l.count - 1 PROVE l.prev[b[i]] = b[i + 1]
    <3>1. PICK j : j = l.count - i
      OBVIOUS
    <3>2. j \in 1 .. l.count - 1 /\ b[i] = w[j + 1] /\ b[i + 1] = w[j]
      BY <1>4, <3>1
    <3>3. l.prev[w[j + 1]] = w[j]
      BY <1>1, <3>2 DEF PathOf
    <3>4. QED
      BY <3>2, <3>3
  <2>5. QED
    BY <2>2, <2>3, <2>4, WalkIs
<1>6. Len(w) = l.count
  BY <1>2
<1>7. List!Reverse(w) = b
  BY <1>4, <1>6, Zenon DEF List!Reverse
<1>8. {w[i] : i \in 1 .. l.count} = l.used
  BY <1>1, <1>2 DEF PathOf
<1>9. QED
  BY <1>3, <1>5, <1>7, <1>8 DEF List!IsList

\* The memory an allocation returns is free.
LEMMA NewNodeIs ==
  ASSUME NEW l, l.used \subseteq Nodes, l.used # Nodes
  PROVE  List!NewNode(l) \in Nodes /\ List!NewNode(l) \notin l.used
<1>1. Nodes \ l.used \in SUBSET Nat /\ Nodes \ l.used # {}
  BY DataSpaceAssumption
<1>2. \E n \in Nodes \ l.used : \A m \in Nodes \ l.used : n <= m
  BY <1>1, SmallestOf
<1>3. List!NewNode(l) \in Nodes \ l.used
  BY <1>2, Zenon DEF List!NewNode
<1>4. QED
  BY <1>3

\* A list with a path, and all its parts of their types.
Chained(l) == l \in List!Lists(Stored) /\ HasPath(l)

\* A list of List!Lists is its seven parts.
LEMMA ChainedIs ==
  ASSUME NEW l
  PROVE  l \in List!Lists(Stored) <=>
           /\ l = [head |-> l.head, tail |-> l.tail, count |-> l.count, used |-> l.used,
                   data |-> l.data, next |-> l.next, prev |-> l.prev]
           /\ l.head \in List!Pointers /\ l.tail \in List!Pointers
           /\ l.count \in Nat /\ l.used \subseteq Nodes
           /\ l.data \in [Nodes -> Stored \cup {Junk}]
           /\ l.next \in [Nodes -> List!Pointers] /\ l.prev \in [Nodes -> List!Pointers]
BY DEF List!Lists

\* A new JK_DList has the empty path.
LEMMA EmptyIsChained == Chained(List!EmptyList)
<1> DEFINE l == List!EmptyList
<1>1. /\ l.head = Null /\ l.tail = Null /\ l.count = 0 /\ l.used = {}
      /\ l.data = [n \in Nodes |-> Junk] /\ l.next = [n \in Nodes |-> Junk]
      /\ l.prev = [n \in Nodes |-> Junk]
      /\ l = [head |-> l.head, tail |-> l.tail, count |-> l.count, used |-> l.used,
              data |-> l.data, next |-> l.next, prev |-> l.prev]
  BY DEF List!EmptyList
<1> HIDE DEF l
<1>2. l \in List!Lists(Stored)
  BY <1>1, SMTT(30) DEF List!Lists, List!Pointers
<1>3. PathOf(l, <<>>)
  BY <1>1 DEF PathOf
<1>4. QED
  BY <1>2, <1>3 DEF Chained, HasPath, l

\* A list given by its parts.
Record(head, tail, count, used, data, next, prev) ==
  [head |-> head, tail |-> tail, count |-> count, used |-> used,
   data |-> data, next |-> next, prev |-> prev]

\* What a node that is malloc'ed changes of a list, part by part.
LEMMA WithIs ==
  ASSUME NEW l, l \in List!Lists(Stored),
         NEW n, NEW x, NEW end
  PROVE  List!With(l, n, x, end) =
           Record(l.head, l.tail, l.count + 1, l.used \cup {n}, [l.data EXCEPT ![n] = x],
                  [l.next EXCEPT ![n] = end], [l.prev EXCEPT ![n] = end])
<1>1. PICK d, s, p, c, u :
        /\ d = [l.data EXCEPT ![n] = x]
        /\ s = [l.next EXCEPT ![n] = end] /\ p = [l.prev EXCEPT ![n] = end]
        /\ c = l.count + 1 /\ u = l.used \cup {n}
  OBVIOUS
<1>2. PICK h, t, k, f, g, i, j : /\ l = Record(h, t, k, f, g, i, j)
                                 /\ h = l.head /\ t = l.tail
  BY ChainedIs DEF Record
<1>3. PICK m : m = [l EXCEPT !.count = c, !.used = u, !.data = d, !.next = s, !.prev = p]
  OBVIOUS
<1>4. m = Record(h, t, c, u, d, s, p)
  BY <1>2, <1>3, Zenon DEF Record
<1>5. List!With(l, n, x, end) = m
  BY <1>1, <1>3 DEF List!With
<1>6. QED
  BY <1>1, <1>2, <1>4, <1>5, Zenon

\* What a node that is freed changes of a list, part by part.
LEMMA WithoutIs ==
  ASSUME NEW l, l \in List!Lists(Stored), NEW n
  PROVE  List!Without(l, n) =
           Record(l.head, l.tail, l.count - 1, l.used \ {n}, [l.data EXCEPT ![n] = Junk],
                  [l.next EXCEPT ![n] = Junk], [l.prev EXCEPT ![n] = Junk])
<1>1. PICK d, s, p, c, u :
        /\ d = [l.data EXCEPT ![n] = Junk]
        /\ s = [l.next EXCEPT ![n] = Junk] /\ p = [l.prev EXCEPT ![n] = Junk]
        /\ c = l.count - 1 /\ u = l.used \ {n}
  OBVIOUS
<1>2. PICK h, t, k, f, g, i, j : /\ l = Record(h, t, k, f, g, i, j)
                                 /\ h = l.head /\ t = l.tail
  BY ChainedIs DEF Record
<1>3. PICK m : m = [l EXCEPT !.count = c, !.used = u, !.data = d, !.next = s, !.prev = p]
  OBVIOUS
<1>4. m = Record(h, t, c, u, d, s, p)
  BY <1>2, <1>3, Zenon DEF Record
<1>5. List!Without(l, n) = m
  BY <1>1, <1>3 DEF List!Without
<1>6. QED
  BY <1>1, <1>2, <1>4, <1>5, Zenon

\* RPUSH, part by part.
LEMMA RPushIs ==
  ASSUME NEW l, l \in List!Lists(Stored), NEW v,
         NEW n, n = List!NewNode(l), NEW m, m = List!RPush(l, v)
  PROVE  /\ m.count = l.count + 1 /\ m.used = l.used \cup {n}
         /\ m.data = [l.data EXCEPT ![n] = v]
         /\ m.head = IF l.count = 0 THEN n ELSE l.head
         /\ m.tail = n
         /\ m.next = IF l.count = 0 THEN [l.next EXCEPT ![n] = Null]
                     ELSE [[l.next EXCEPT ![n] = Null] EXCEPT ![l.tail] = n]
         /\ m.prev = IF l.count = 0 THEN [l.prev EXCEPT ![n] = Null]
                     ELSE [[l.prev EXCEPT ![n] = Null] EXCEPT ![n] = l.tail]
         /\ m = [head |-> m.head, tail |-> m.tail, count |-> m.count, used |-> m.used,
                 data |-> m.data, next |-> m.next, prev |-> m.prev]
<1>1. PICK r : r = List!With(l, n, v, Null)
  OBVIOUS
<1>2. r = Record(l.head, l.tail, l.count + 1, l.used \cup {n}, [l.data EXCEPT ![n] = v],
                 [l.next EXCEPT ![n] = Null], [l.prev EXCEPT ![n] = Null])
  BY <1>1, WithIs
<1>3. m = IF l.count = 0 THEN [r EXCEPT !.head = n, !.tail = n]
          ELSE [r EXCEPT !.next[l.tail] = n, !.prev[n] = l.tail, !.tail = n]
  BY <1>1, Zenon DEF List!RPush
<1>4. CASE l.count = 0
  BY <1>2, <1>3, <1>4 DEF Record
<1>5. CASE l.count # 0
  BY <1>2, <1>3, <1>5 DEF Record
<1>6. QED
  BY <1>4, <1>5

\* RPUSH: the path goes one node further.
LEMMA RPushIsChained ==
  ASSUME NEW l, Chained(l), l.used # Nodes, NEW v \in Stored
  PROVE  Chained(List!RPush(l, v))
<1>1. PICK w : PathOf(l, w)
  BY DEF Chained, HasPath
<1>2. PICK n : n = List!NewNode(l)
  OBVIOUS
<1>3. PICK m : m = List!RPush(l, v)
  OBVIOUS
<1>4. l \in List!Lists(Stored)
  BY DEF Chained
<1>5. n \in Nodes /\ n \notin l.used /\ l.used \subseteq Nodes
  BY <1>2, <1>4, NewNodeIs, ChainedIs
<1>6. /\ m.count = l.count + 1 /\ m.used = l.used \cup {n}
      /\ m.data = [l.data EXCEPT ![n] = v]
      /\ m.head = IF l.count = 0 THEN n ELSE l.head
      /\ m.tail = n
      /\ m.next = IF l.count = 0 THEN [l.next EXCEPT ![n] = Null]
                  ELSE [[l.next EXCEPT ![n] = Null] EXCEPT ![l.tail] = n]
      /\ m.prev = IF l.count = 0 THEN [l.prev EXCEPT ![n] = Null]
                  ELSE [[l.prev EXCEPT ![n] = Null] EXCEPT ![n] = l.tail]
      /\ m = [head |-> m.head, tail |-> m.tail, count |-> m.count, used |-> m.used,
              data |-> m.data, next |-> m.next, prev |-> m.prev]
  BY <1>2, <1>3, <1>4, RPushIs
<1>7. m \in List!Lists(Stored)
  <2>1. /\ l.head \in List!Pointers /\ l.tail \in List!Pointers
        /\ l.count \in Nat /\ l.used \subseteq Nodes
        /\ l.data \in [Nodes -> Stored \cup {Junk}]
        /\ l.next \in [Nodes -> List!Pointers] /\ l.prev \in [Nodes -> List!Pointers]
    BY <1>4, ChainedIs
  <2>2. n \in List!Pointers /\ Null \in List!Pointers
    BY <1>5 DEF List!Pointers
  <2>3. m.head \in List!Pointers /\ m.tail \in List!Pointers
    BY <1>6, <2>1, <2>2
  <2>4. m.count \in Nat /\ m.used \subseteq Nodes
    BY <1>5, <1>6, <2>1
  <2>5. m.data \in [Nodes -> Stored \cup {Junk}]
    <3>1. PICK D : D = Stored \cup {Junk}
      OBVIOUS
    <3>2. [l.data EXCEPT ![n] = v] \in [Nodes -> D]
      BY <2>1, <3>1
    <3>3. m.data = [l.data EXCEPT ![n] = v]
      BY <1>6
    <3>4. QED
      BY <3>1, <3>2, <3>3, Zenon
  <2>6. m.next \in [Nodes -> List!Pointers] /\ m.prev \in [Nodes -> List!Pointers]
    <3>1. PICK P : P = List!Pointers
      OBVIOUS
    <3>2. /\ [l.next EXCEPT ![n] = Null] \in [Nodes -> P]
          /\ [l.prev EXCEPT ![n] = Null] \in [Nodes -> P]
      BY <2>1, <2>2, <3>1
    <3>3. /\ [[l.next EXCEPT ![n] = Null] EXCEPT ![l.tail] = n] \in [Nodes -> P]
          /\ [[l.prev EXCEPT ![n] = Null] EXCEPT ![n] = l.tail] \in [Nodes -> P]
      BY <2>1, <2>2, <3>1, <3>2
    <3>4. QED
      BY <1>6, <3>1, <3>2, <3>3, Zenon
  <2>7. QED
    BY <1>6, <2>3, <2>4, <2>5, <2>6, ChainedIs
<1>8. PICK z : z = [i \in 1 .. m.count |-> IF i = m.count THEN n ELSE w[i]]
  OBVIOUS
<1>9. /\ l.count \in Nat /\ w \in [1 .. l.count -> l.used]
      /\ l.next \in [Nodes -> List!Pointers] /\ l.prev \in [Nodes -> List!Pointers]
  BY <1>1, <1>4, ChainedIs DEF PathOf
<1>10. m.count \in Nat /\ m.count = l.count + 1
  BY <1>6, <1>9
<1>11. /\ z \in [1 .. m.count -> m.used] /\ z[m.count] = n
       /\ \A i \in 1 .. l.count : z[i] = w[i]
  BY <1>6, <1>8, <1>9
<1>12. ASSUME NEW x \in m.used PROVE \E i \in 1 .. m.count : z[i] = x
  <2>1. CASE x = n
    <3>1. m.count \in 1 .. m.count
      BY <1>9, <1>10
    <3>2. QED
      BY <1>11, <2>1, <3>1
  <2>2. CASE x # n
    <3>1. x \in l.used
      BY <1>6, <2>2
    <3>2. PICK i \in 1 .. l.count : w[i] = x
      BY <1>1, <3>1 DEF PathOf
    <3>3. i \in 1 .. m.count /\ z[i] = x
      BY <1>9, <1>10, <1>11, <3>2
    <3>4. QED
      BY <3>3
  <2>3. QED
    BY <2>1, <2>2
<1>13. \A i, j \in 1 .. m.count : z[i] = z[j] => i = j
  <2>1. \A i \in 1 .. m.count : i = m.count \/ i \in 1 .. l.count
    BY <1>9, <1>10
  <2>2. \A i \in 1 .. l.count : z[i] # n
    BY <1>5, <1>9, <1>11
  <2>3. \A i, j \in 1 .. l.count : z[i] = z[j] => i = j
    BY <1>1, <1>11 DEF PathOf
  <2>4. QED
    BY <1>11, <2>1, <2>2, <2>3
<1>14. m.head = z[1] /\ m.tail = z[m.count]
  BY <1>1, <1>6, <1>8, <1>9, <1>10, <1>11 DEF PathOf
<1>15. ASSUME NEW i \in 1 .. m.count - 1
       PROVE  m.next[z[i]] = z[i + 1] /\ m.prev[z[i + 1]] = z[i]
  <2>1. i \in 1 .. l.count /\ l.count # 0 /\ z[i] = w[i] /\ w[i] \in l.used
    BY <1>9, <1>10, <1>11
  <2>2. w[i] # n /\ w[i] \in Nodes /\ l.tail = w[l.count]
    BY <1>1, <1>5, <2>1 DEF PathOf
  <2>3. CASE i = l.count
    <3>1. z[i + 1] = n /\ l.tail = w[i]
      BY <1>10, <1>11, <2>2, <2>3
    <3>2. m.next[w[i]] = n /\ m.prev[n] = w[i]
      BY <1>5, <1>6, <1>9, <2>1, <2>2, <3>1
    <3>3. QED
      BY <2>1, <3>1, <3>2
  <2>4. CASE i # l.count
    <3>1. i \in 1 .. l.count - 1 /\ i + 1 \in 1 .. l.count
      BY <1>9, <2>1, <2>4
    <3>2. z[i + 1] = w[i + 1] /\ w[i + 1] \in l.used /\ w[i] # l.tail
      BY <1>1, <1>9, <1>11, <2>1, <2>2, <2>4, <3>1 DEF PathOf
    <3>3. l.next[w[i]] = w[i + 1] /\ l.prev[w[i + 1]] = w[i]
      BY <1>1, <3>1 DEF PathOf
    <3>4. m.next[w[i]] = l.next[w[i]] /\ m.prev[w[i + 1]] = l.prev[w[i + 1]]
      BY <1>5, <1>6, <1>9, <2>1, <2>2, <3>2
    <3>5. QED
      BY <2>1, <3>2, <3>3, <3>4
  <2>5. QED
    BY <2>3, <2>4
<1>16. PathOf(m, z)
  BY <1>11, <1>12, <1>13, <1>14, <1>15 DEF PathOf
<1>17. QED
  BY <1>3, <1>7, <1>16, SMTT(30) DEF Chained, HasPath

\* LPUSH, part by part.
LEMMA LPushIs ==
  ASSUME NEW l, l \in List!Lists(Stored), NEW v,
         NEW n, n = List!NewNode(l), NEW m, m = List!LPush(l, v)
  PROVE  /\ m.count = l.count + 1 /\ m.used = l.used \cup {n}
         /\ m.data = [l.data EXCEPT ![n] = v]
         /\ m.tail = IF l.count = 0 THEN n ELSE l.tail
         /\ m.head = n
         /\ m.prev = IF l.count = 0 THEN [l.prev EXCEPT ![n] = Junk]
                     ELSE [[l.prev EXCEPT ![n] = Junk] EXCEPT ![l.head] = n]
         /\ m.next = IF l.count = 0 THEN [l.next EXCEPT ![n] = Junk]
                     ELSE [[l.next EXCEPT ![n] = Junk] EXCEPT ![n] = l.head]
         /\ m = [head |-> m.head, tail |-> m.tail, count |-> m.count, used |-> m.used,
                 data |-> m.data, next |-> m.next, prev |-> m.prev]
<1>1. PICK r : r = List!With(l, n, v, Junk)
  OBVIOUS
<1>2. r = Record(l.head, l.tail, l.count + 1, l.used \cup {n}, [l.data EXCEPT ![n] = v],
                 [l.next EXCEPT ![n] = Junk], [l.prev EXCEPT ![n] = Junk])
  BY <1>1, WithIs
<1>3. m = IF l.count = 0 THEN [r EXCEPT !.head = n, !.tail = n]
          ELSE [r EXCEPT !.prev[l.head] = n, !.next[n] = l.head, !.head = n]
  BY <1>1, Zenon DEF List!LPush
<1>4. CASE l.count = 0
  BY <1>2, <1>3, <1>4 DEF Record
<1>5. CASE l.count # 0
  BY <1>2, <1>3, <1>5 DEF Record
<1>6. QED
  BY <1>4, <1>5

\* LPUSH: the path starts one node earlier.
LEMMA LPushIsChained ==
  ASSUME NEW l, Chained(l), l.used # Nodes, NEW v \in Stored
  PROVE  Chained(List!LPush(l, v))
<1>1. PICK w : PathOf(l, w)
  BY DEF Chained, HasPath
<1>2. PICK n : n = List!NewNode(l)
  OBVIOUS
<1>3. PICK m : m = List!LPush(l, v)
  OBVIOUS
<1>4. l \in List!Lists(Stored)
  BY DEF Chained
<1>5. n \in Nodes /\ n \notin l.used /\ l.used \subseteq Nodes
  BY <1>2, <1>4, NewNodeIs, ChainedIs
<1>6. /\ m.count = l.count + 1 /\ m.used = l.used \cup {n}
      /\ m.data = [l.data EXCEPT ![n] = v]
      /\ m.tail = IF l.count = 0 THEN n ELSE l.tail
      /\ m.head = n
      /\ m.prev = IF l.count = 0 THEN [l.prev EXCEPT ![n] = Junk]
                  ELSE [[l.prev EXCEPT ![n] = Junk] EXCEPT ![l.head] = n]
      /\ m.next = IF l.count = 0 THEN [l.next EXCEPT ![n] = Junk]
                  ELSE [[l.next EXCEPT ![n] = Junk] EXCEPT ![n] = l.head]
      /\ m = [head |-> m.head, tail |-> m.tail, count |-> m.count, used |-> m.used,
              data |-> m.data, next |-> m.next, prev |-> m.prev]
  BY <1>2, <1>3, <1>4, LPushIs
<1>7. m \in List!Lists(Stored)
  <2>1. /\ l.head \in List!Pointers /\ l.tail \in List!Pointers
        /\ l.count \in Nat /\ l.used \subseteq Nodes
        /\ l.data \in [Nodes -> Stored \cup {Junk}]
        /\ l.next \in [Nodes -> List!Pointers] /\ l.prev \in [Nodes -> List!Pointers]
    BY <1>4, ChainedIs
  <2>2. n \in List!Pointers /\ Junk \in List!Pointers
    BY <1>5 DEF List!Pointers
  <2>3. m.head \in List!Pointers /\ m.tail \in List!Pointers
    BY <1>6, <2>1, <2>2
  <2>4. m.count \in Nat /\ m.used \subseteq Nodes
    BY <1>5, <1>6, <2>1
  <2>5. m.data \in [Nodes -> Stored \cup {Junk}]
    <3>1. PICK D : D = Stored \cup {Junk}
      OBVIOUS
    <3>2. [l.data EXCEPT ![n] = v] \in [Nodes -> D]
      BY <2>1, <3>1
    <3>3. m.data = [l.data EXCEPT ![n] = v]
      BY <1>6
    <3>4. QED
      BY <3>1, <3>2, <3>3, Zenon
  <2>6. m.next \in [Nodes -> List!Pointers] /\ m.prev \in [Nodes -> List!Pointers]
    <3>1. PICK P : P = List!Pointers
      OBVIOUS
    <3>2. /\ [l.next EXCEPT ![n] = Junk] \in [Nodes -> P]
          /\ [l.prev EXCEPT ![n] = Junk] \in [Nodes -> P]
      BY <2>1, <2>2, <3>1
    <3>3. /\ [[l.next EXCEPT ![n] = Junk] EXCEPT ![n] = l.head] \in [Nodes -> P]
          /\ [[l.prev EXCEPT ![n] = Junk] EXCEPT ![l.head] = n] \in [Nodes -> P]
      BY <2>1, <2>2, <3>1, <3>2
    <3>4. QED
      BY <1>6, <3>1, <3>2, <3>3, Zenon
  <2>7. QED
    BY <1>6, <2>3, <2>4, <2>5, <2>6, ChainedIs
<1>8. PICK z : z = [i \in 1 .. m.count |-> IF i = 1 THEN n ELSE w[i - 1]]
  OBVIOUS
<1>9. /\ l.count \in Nat /\ w \in [1 .. l.count -> l.used]
      /\ l.next \in [Nodes -> List!Pointers] /\ l.prev \in [Nodes -> List!Pointers]
  BY <1>1, <1>4, ChainedIs DEF PathOf
<1>10. m.count \in Nat /\ m.count = l.count + 1
  BY <1>6, <1>9
<1>11. /\ z \in [1 .. m.count -> m.used] /\ z[1] = n
       /\ \A i \in 1 .. l.count : z[i + 1] = w[i]
  <2>1. \A i \in 1 .. m.count : i # 1 => i - 1 \in 1 .. l.count
    BY <1>9, <1>10
  <2>2. \A i \in 1 .. l.count : i + 1 \in 1 .. m.count /\ i + 1 # 1 /\ (i + 1) - 1 = i
    BY <1>9, <1>10
  <2>3. 1 \in 1 .. m.count
    BY <1>9, <1>10
  <2>4. z \in [1 .. m.count -> m.used]
    BY <1>6, <1>8, <1>9, <2>1
  <2>5. QED
    BY <1>8, <2>2, <2>3, <2>4
<1>12. ASSUME NEW x \in m.used PROVE \E i \in 1 .. m.count : z[i] = x
  <2>1. CASE x = n
    <3>1. 1 \in 1 .. m.count
      BY <1>9, <1>10
    <3>2. QED
      BY <1>11, <2>1, <3>1
  <2>2. CASE x # n
    <3>1. x \in l.used
      BY <1>6, <2>2
    <3>2. PICK i \in 1 .. l.count : w[i] = x
      BY <1>1, <3>1 DEF PathOf
    <3>3. i + 1 \in 1 .. m.count /\ z[i + 1] = x
      BY <1>9, <1>10, <1>11, <3>2
    <3>4. QED
      BY <3>3
  <2>3. QED
    BY <2>1, <2>2
<1>13. \A i, j \in 1 .. m.count : z[i] = z[j] => i = j
  <2>1. ASSUME NEW i \in 1 .. m.count PROVE i = 1 \/ \E k \in 1 .. l.count : i = k + 1
    <3>1. i # 1 => i - 1 \in 1 .. l.count /\ i = (i - 1) + 1
      BY <1>9, <1>10
    <3>2. QED
      BY <3>1
  <2>2. \A i \in 1 .. l.count : z[i + 1] # n
    BY <1>5, <1>9, <1>11
  <2>3. \A i, j \in 1 .. l.count : z[i + 1] = z[j + 1] => i = j
    BY <1>1, <1>11 DEF PathOf
  <2>4. QED
    BY <1>11, <2>1, <2>2, <2>3
<1>14. m.head = z[1] /\ m.tail = z[m.count]
  <2>1. CASE l.count = 0
    BY <1>6, <1>10, <1>11, <2>1
  <2>2. CASE l.count # 0
    <3>1. l.tail = w[l.count] /\ l.count \in 1 .. l.count
      BY <1>1, <1>9, <2>2 DEF PathOf
    <3>2. QED
      BY <1>6, <1>10, <1>11, <2>2, <3>1
  <2>3. QED
    BY <2>1, <2>2
<1>15. ASSUME NEW i \in 1 .. m.count - 1
       PROVE  m.next[z[i]] = z[i + 1] /\ m.prev[z[i + 1]] = z[i]
  <2>1. i \in 1 .. l.count /\ l.count # 0 /\ z[i + 1] = w[i] /\ w[i] \in l.used
    BY <1>9, <1>10, <1>11
  <2>2. w[i] # n /\ w[i] \in Nodes /\ l.head = w[1]
    BY <1>1, <1>5, <2>1 DEF PathOf
  <2>3. CASE i = 1
    <3>1. z[i] = n /\ l.head = w[i]
      BY <1>10, <1>11, <2>2, <2>3
    <3>2. m.next[n] = w[i] /\ m.prev[w[i]] = n
      BY <1>5, <1>6, <1>9, <2>1, <2>2, <3>1
    <3>3. QED
      BY <2>1, <3>1, <3>2
  <2>4. CASE i # 1
    <3>1. PICK j : j = i - 1
      OBVIOUS
    <3>2. j \in 1 .. l.count - 1 /\ j \in 1 .. l.count /\ i = j + 1
      BY <1>9, <2>1, <2>4, <3>1
    <3>3. z[i] = w[j] /\ w[j] \in l.used /\ w[i] # l.head
      <4>1. z[j + 1] = w[j] /\ w[j] \in l.used
        BY <1>9, <1>11, <3>2
      <4>2. 1 \in 1 .. l.count /\ w[i] # w[1]
        BY <1>1, <1>9, <2>1, <2>4 DEF PathOf
      <4>3. QED
        BY <2>2, <3>2, <4>1, <4>2
    <3>4. l.next[w[j]] = w[i] /\ l.prev[w[i]] = w[j]
      BY <1>1, <3>2 DEF PathOf
    <3>5. m.next[w[j]] = l.next[w[j]] /\ m.prev[w[i]] = l.prev[w[i]]
      BY <1>5, <1>6, <1>9, <2>1, <2>2, <3>3
    <3>6. QED
      BY <2>1, <3>3, <3>4, <3>5
  <2>5. QED
    BY <2>3, <2>4
<1>16. PathOf(m, z)
  BY <1>11, <1>12, <1>13, <1>14, <1>15 DEF PathOf
<1>17. QED
  BY <1>3, <1>7, <1>16, SMTT(30) DEF Chained, HasPath

\* LPOP, part by part.
LEMMA LPopIs ==
  ASSUME NEW l, l \in List!Lists(Stored),
         NEW n, n = l.head, NEW m, m = List!LPop(l)
  PROVE  /\ m.count = l.count - 1 /\ m.used = l.used \ {n}
         /\ m.data = [l.data EXCEPT ![n] = Junk]
         /\ m.next = [l.next EXCEPT ![n] = Junk] /\ m.prev = [l.prev EXCEPT ![n] = Junk]
         /\ m.head = l.next[n] /\ m.tail = l.tail
         /\ m = [head |-> m.head, tail |-> m.tail, count |-> m.count, used |-> m.used,
                 data |-> m.data, next |-> m.next, prev |-> m.prev]
<1>1. PICK r : r = List!Without(l, n)
  OBVIOUS
<1>2. r = Record(l.head, l.tail, l.count - 1, l.used \ {n}, [l.data EXCEPT ![n] = Junk],
                 [l.next EXCEPT ![n] = Junk], [l.prev EXCEPT ![n] = Junk])
  BY <1>1, WithoutIs
<1>3. m = [r EXCEPT !.head = l.next[n]]
  BY <1>1, Zenon DEF List!LPop
<1>4. QED
  BY <1>2, <1>3 DEF Record

\* LPOP: the path loses its first node.
LEMMA LPopIsChained ==
  ASSUME NEW l, Chained(l), l.count # 0
  PROVE  Chained(List!LPop(l))
<1>1. PICK w : PathOf(l, w)
  BY DEF Chained, HasPath
<1>2. PICK n : n = l.head
  OBVIOUS
<1>3. PICK m : m = List!LPop(l)
  OBVIOUS
<1>4. l \in List!Lists(Stored)
  BY DEF Chained
<1>5. /\ l.head \in List!Pointers /\ l.tail \in List!Pointers
      /\ l.count \in Nat /\ l.used \subseteq Nodes
      /\ l.data \in [Nodes -> Stored \cup {Junk}]
      /\ l.next \in [Nodes -> List!Pointers] /\ l.prev \in [Nodes -> List!Pointers]
  BY <1>4, ChainedIs
<1>6. PICK c : c = l.count - 1
  OBVIOUS
<1>7. c \in Nat /\ l.count = c + 1 /\ l.count - 1 = c
  BY <1>5, <1>6
<1>8. /\ w \in [1 .. l.count -> l.used] /\ l.head = w[1] /\ l.tail = w[l.count]
  BY <1>1 DEF PathOf
<1>9. n \in l.used /\ n \in Nodes
  BY <1>2, <1>5, <1>7, <1>8
<1>10. /\ m.count = c /\ m.used = l.used \ {n}
       /\ m.data = [l.data EXCEPT ![n] = Junk]
       /\ m.next = [l.next EXCEPT ![n] = Junk] /\ m.prev = [l.prev EXCEPT ![n] = Junk]
       /\ m.head = l.next[n] /\ m.tail = l.tail
       /\ m = [head |-> m.head, tail |-> m.tail, count |-> m.count, used |-> m.used,
               data |-> m.data, next |-> m.next, prev |-> m.prev]
  BY <1>2, <1>3, <1>4, <1>6, LPopIs
<1>11. m \in List!Lists(Stored)
  <2>1. Junk \in List!Pointers
    BY DEF List!Pointers
  <2>2. m.head \in List!Pointers /\ m.tail \in List!Pointers
    BY <1>5, <1>9, <1>10
  <2>3. m.count \in Nat /\ m.used \subseteq Nodes
    BY <1>5, <1>7, <1>10
  <2>4. m.data \in [Nodes -> Stored \cup {Junk}]
    BY <1>5, <1>10
  <2>5. m.next \in [Nodes -> List!Pointers] /\ m.prev \in [Nodes -> List!Pointers]
    <3>1. PICK P : P = List!Pointers
      OBVIOUS
    <3>2. /\ [l.next EXCEPT ![n] = Junk] \in [Nodes -> P]
          /\ [l.prev EXCEPT ![n] = Junk] \in [Nodes -> P]
      BY <1>5, <2>1, <3>1
    <3>3. QED
      BY <1>10, <3>1, <3>2, Zenon
  <2>6. QED
    BY <1>10, <2>2, <2>3, <2>4, <2>5, ChainedIs
<1>12. PICK z : z = [i \in 1 .. c |-> w[i + 1]]
  OBVIOUS
<1>13. \A i \in 1 .. c : i + 1 \in 1 .. l.count /\ i + 1 # 1 /\ z[i] = w[i + 1]
  BY <1>7, <1>12
<1>14. \A i, j \in 1 .. l.count : w[i] = w[j] => i = j
  BY <1>1 DEF PathOf
<1>15. ASSUME NEW i \in 1 .. c PROVE z[i] \in m.used
  <2>1. z[i] \in l.used
    BY <1>8, <1>13
  <2>2. z[i] # n
    BY <1>2, <1>7, <1>8, <1>13, <1>14
  <2>3. QED
    BY <1>10, <2>1, <2>2
<1>16. z \in [1 .. m.count -> m.used]
  BY <1>10, <1>12, <1>15
<1>17. ASSUME NEW x \in m.used PROVE \E i \in 1 .. m.count : z[i] = x
  <2>1. x \in l.used /\ x # n
    BY <1>10
  <2>2. PICK j \in 1 .. l.count : w[j] = x
    BY <1>1, <2>1 DEF PathOf
  <2>3. j - 1 \in 1 .. c /\ (j - 1) + 1 = j
    BY <1>2, <1>7, <1>8, <2>1, <2>2
  <2>4. QED
    BY <1>10, <1>13, <2>2, <2>3
<1>18. \A i, j \in 1 .. m.count : z[i] = z[j] => i = j
  BY <1>7, <1>10, <1>13, <1>14
<1>19. ASSUME NEW i \in 1 .. c - 1
       PROVE  m.next[z[i]] = z[i + 1] /\ m.prev[z[i + 1]] = z[i]
  <2>1. PICK j : j = i + 1
    OBVIOUS
  <2>2. /\ i \in 1 .. c /\ i + 1 \in 1 .. c /\ j \in 1 .. l.count - 1
        /\ z[i] = w[j] /\ z[i + 1] = w[j + 1]
    BY <1>7, <1>13, <2>1
  <2>3. l.next[w[j]] = w[j + 1] /\ l.prev[w[j + 1]] = w[j]
    BY <1>1, <2>2 DEF PathOf
  <2>4. z[i] # n /\ z[i] \in Nodes /\ z[i + 1] # n /\ z[i + 1] \in Nodes
    BY <1>5, <1>10, <1>15, <2>2
  <2>5. m.next[z[i]] = l.next[z[i]] /\ m.prev[z[i + 1]] = l.prev[z[i + 1]]
    BY <1>5, <1>10, <2>4
  <2>6. QED
    BY <2>2, <2>3, <2>5
<1>20. ASSUME c # 0 PROVE m.head = z[1] /\ m.tail = z[c]
  <2>1. 1 \in 1 .. c /\ c \in 1 .. c /\ 1 \in 1 .. l.count - 1 /\ c \in 1 .. l.count - 1 /\ 1 + 1 = 2
    BY <1>7, <1>20
  <2>2. l.next[w[1]] = w[2] /\ l.prev[w[c + 1]] = w[c]
    BY <1>1, <1>7, <2>1 DEF PathOf
  <2>3. QED
    BY <1>2, <1>7, <1>8, <1>10, <1>13, <2>1, <2>2
<1>21. PathOf(m, z)
  BY <1>10, <1>16, <1>17, <1>18, <1>19, <1>20 DEF PathOf
<1>22. QED
  BY <1>3, <1>11, <1>21 DEF Chained, HasPath

\* RPOP, part by part.
LEMMA RPopIs ==
  ASSUME NEW l, l \in List!Lists(Stored),
         NEW n, n = l.tail, NEW m, m = List!RPop(l)
  PROVE  /\ m.count = l.count - 1 /\ m.used = l.used \ {n}
         /\ m.data = [l.data EXCEPT ![n] = Junk]
         /\ m.next = [l.next EXCEPT ![n] = Junk] /\ m.prev = [l.prev EXCEPT ![n] = Junk]
         /\ m.tail = l.prev[n] /\ m.head = l.head
         /\ m = [head |-> m.head, tail |-> m.tail, count |-> m.count, used |-> m.used,
                 data |-> m.data, next |-> m.next, prev |-> m.prev]
<1>1. PICK r : r = List!Without(l, n)
  OBVIOUS
<1>2. r = Record(l.head, l.tail, l.count - 1, l.used \ {n}, [l.data EXCEPT ![n] = Junk],
                 [l.next EXCEPT ![n] = Junk], [l.prev EXCEPT ![n] = Junk])
  BY <1>1, WithoutIs
<1>3. m = [r EXCEPT !.tail = l.prev[n]]
  BY <1>1, Zenon DEF List!RPop
<1>4. QED
  BY <1>2, <1>3 DEF Record

\* RPOP: the path loses its last node.
LEMMA RPopIsChained ==
  ASSUME NEW l, Chained(l), l.count # 0
  PROVE  Chained(List!RPop(l))
<1>1. PICK w : PathOf(l, w)
  BY DEF Chained, HasPath
<1>2. PICK n : n = l.tail
  OBVIOUS
<1>3. PICK m : m = List!RPop(l)
  OBVIOUS
<1>4. l \in List!Lists(Stored)
  BY DEF Chained
<1>5. /\ l.head \in List!Pointers /\ l.tail \in List!Pointers
      /\ l.count \in Nat /\ l.used \subseteq Nodes
      /\ l.data \in [Nodes -> Stored \cup {Junk}]
      /\ l.next \in [Nodes -> List!Pointers] /\ l.prev \in [Nodes -> List!Pointers]
  BY <1>4, ChainedIs
<1>6. PICK c : c = l.count - 1
  OBVIOUS
<1>7. c \in Nat /\ l.count = c + 1 /\ l.count - 1 = c
  BY <1>5, <1>6
<1>8. /\ w \in [1 .. l.count -> l.used] /\ l.head = w[1] /\ l.tail = w[l.count]
  BY <1>1 DEF PathOf
<1>9. n \in l.used /\ n \in Nodes
  BY <1>2, <1>5, <1>7, <1>8
<1>10. /\ m.count = c /\ m.used = l.used \ {n}
       /\ m.data = [l.data EXCEPT ![n] = Junk]
       /\ m.next = [l.next EXCEPT ![n] = Junk] /\ m.prev = [l.prev EXCEPT ![n] = Junk]
       /\ m.tail = l.prev[n] /\ m.head = l.head
       /\ m = [head |-> m.head, tail |-> m.tail, count |-> m.count, used |-> m.used,
               data |-> m.data, next |-> m.next, prev |-> m.prev]
  BY <1>2, <1>3, <1>4, <1>6, RPopIs
<1>11. m \in List!Lists(Stored)
  <2>1. Junk \in List!Pointers
    BY DEF List!Pointers
  <2>2. m.head \in List!Pointers /\ m.tail \in List!Pointers
    BY <1>5, <1>9, <1>10
  <2>3. m.count \in Nat /\ m.used \subseteq Nodes
    BY <1>5, <1>7, <1>10
  <2>4. m.data \in [Nodes -> Stored \cup {Junk}]
    BY <1>5, <1>10
  <2>5. m.next \in [Nodes -> List!Pointers] /\ m.prev \in [Nodes -> List!Pointers]
    <3>1. PICK P : P = List!Pointers
      OBVIOUS
    <3>2. /\ [l.next EXCEPT ![n] = Junk] \in [Nodes -> P]
          /\ [l.prev EXCEPT ![n] = Junk] \in [Nodes -> P]
      BY <1>5, <2>1, <3>1
    <3>3. QED
      BY <1>10, <3>1, <3>2, Zenon
  <2>6. QED
    BY <1>10, <2>2, <2>3, <2>4, <2>5, ChainedIs
<1>12. PICK z : z = [i \in 1 .. c |-> w[i]]
  OBVIOUS
<1>13. \A i \in 1 .. c : i \in 1 .. l.count /\ i # l.count /\ z[i] = w[i]
  BY <1>7, <1>12
<1>14. \A i, j \in 1 .. l.count : w[i] = w[j] => i = j
  BY <1>1 DEF PathOf
<1>15. ASSUME NEW i \in 1 .. c PROVE z[i] \in m.used
  <2>1. z[i] \in l.used
    BY <1>8, <1>13
  <2>2. z[i] # n
    BY <1>2, <1>7, <1>8, <1>13, <1>14
  <2>3. QED
    BY <1>10, <2>1, <2>2
<1>16. z \in [1 .. m.count -> m.used]
  BY <1>10, <1>12, <1>15
<1>17. ASSUME NEW x \in m.used PROVE \E i \in 1 .. m.count : z[i] = x
  <2>1. x \in l.used /\ x # n
    BY <1>10
  <2>2. PICK j \in 1 .. l.count : w[j] = x
    BY <1>1, <2>1 DEF PathOf
  <2>3. j \in 1 .. c
    BY <1>2, <1>7, <1>8, <2>1, <2>2
  <2>4. QED
    BY <1>10, <1>13, <2>2, <2>3
<1>18. \A i, j \in 1 .. m.count : z[i] = z[j] => i = j
  BY <1>7, <1>10, <1>13, <1>14
<1>19. ASSUME NEW i \in 1 .. c - 1
       PROVE  m.next[z[i]] = z[i + 1] /\ m.prev[z[i + 1]] = z[i]
  <2>1. PICK j : j = i
    OBVIOUS
  <2>2. /\ i \in 1 .. c /\ i + 1 \in 1 .. c /\ j \in 1 .. l.count - 1
        /\ z[i] = w[j] /\ z[i + 1] = w[j + 1]
    BY <1>7, <1>13, <2>1
  <2>3. l.next[w[j]] = w[j + 1] /\ l.prev[w[j + 1]] = w[j]
    BY <1>1, <2>2 DEF PathOf
  <2>4. z[i] # n /\ z[i] \in Nodes /\ z[i + 1] # n /\ z[i + 1] \in Nodes
    BY <1>5, <1>10, <1>15, <2>2
  <2>5. m.next[z[i]] = l.next[z[i]] /\ m.prev[z[i + 1]] = l.prev[z[i + 1]]
    BY <1>5, <1>10, <2>4
  <2>6. QED
    BY <2>2, <2>3, <2>5
<1>20. ASSUME c # 0 PROVE m.head = z[1] /\ m.tail = z[c]
  <2>1. 1 \in 1 .. c /\ c \in 1 .. c /\ 1 \in 1 .. l.count - 1 /\ c \in 1 .. l.count - 1 /\ 1 + 1 = 2
    BY <1>7, <1>20
  <2>2. l.next[w[1]] = w[2] /\ l.prev[w[c + 1]] = w[c]
    BY <1>1, <1>7, <2>1 DEF PathOf
  <2>3. QED
    BY <1>2, <1>7, <1>8, <1>10, <1>13, <2>1, <2>2
<1>21. PathOf(m, z)
  BY <1>10, <1>16, <1>17, <1>18, <1>19, <1>20 DEF PathOf
<1>22. QED
  BY <1>3, <1>11, <1>21 DEF Chained, HasPath

-----------------------------------------------------------------------------
(* Sorted sets.  Every search ends at the last key of a row that is not    *)
(* above the one looked for, whichever row it started in.                  *)

\* A row: keys in order, without the head's.
IsRow(row) ==
  /\ row \in Seq(Scores)
  /\ \A i \in 1 .. Len(row) : row[i] # 0
  /\ \A i, j \in 1 .. Len(row) : i < j => row[i] < row[j]

\* The place of the last key of a row that is not above a key, 0 for none.
IsLast(row, key, p) ==
  /\ p \in 0 .. Len(row)
  /\ \A i \in 1 .. p : row[i] <= key
  /\ \A i \in 1 .. Len(row) : i > p => row[i] > key

Last(row, key) == CHOOSE p : IsLast(row, key, p)

\* The keys of a row are scores, and no two places have the same.
LEMMA RowIs ==
  ASSUME NEW row, IsRow(row)
  PROVE  /\ Len(row) \in Nat /\ DOMAIN row = 1 .. Len(row)
         /\ \A i \in 1 .. Len(row) : row[i] \in Nat /\ row[i] \in Scores /\ row[i] # 0
         /\ \A i, j \in 1 .. Len(row) : row[i] = row[j] => i = j
         /\ \A i, j \in 1 .. Len(row) : row[i] <= row[j] => i <= j
<1>1. Len(row) \in Nat /\ DOMAIN row = 1 .. Len(row)
  BY LenProperties DEF IsRow
<1>2. \A i \in 1 .. Len(row) : row[i] \in Nat /\ row[i] \in Scores /\ row[i] # 0
  <2>1. \A i \in 1 .. Len(row) : row[i] \in Scores
    BY ElementOfSeq DEF IsRow
  <2>2. QED
    BY <2>1, DataSpaceAssumption DEF IsRow
<1>3. ASSUME NEW i \in 1 .. Len(row), NEW j \in 1 .. Len(row), row[i] <= row[j]
      PROVE  i <= j
  <2>1. j < i => row[j] < row[i]
    BY DEF IsRow
  <2>2. QED
    BY <1>1, <1>2, <1>3, <2>1
<1>4. ASSUME NEW i \in 1 .. Len(row), NEW j \in 1 .. Len(row), row[i] = row[j]
      PROVE  i = j
  <2>1. row[i] <= row[j] /\ row[j] <= row[i]
    BY <1>2, <1>4
  <2>2. i <= j /\ j <= i
    BY <1>3, <2>1
  <2>3. QED
    BY <1>1, <2>2
<1>5. QED
  BY <1>1, <1>2, <1>3, <1>4

\* There is one place that a search of a row ends at.
LEMMA LastIs ==
  ASSUME NEW row, IsRow(row), NEW key \in Nat
  PROVE  /\ IsLast(row, key, Last(row, key))
         /\ \A p : IsLast(row, key, p) => p = Last(row, key)
<1>1. PICK n : n = Len(row) /\ n \in Nat
  BY RowIs
<1>2. PICK S : S = {p \in 0 .. n : \A i \in 1 .. p : row[i] <= key}
  OBVIOUS
<1>3. 0 \in S /\ S \in SUBSET (0 .. n)
  BY <1>1, <1>2
<1>4. PICK p \in S : \A q \in S : q <= p
  BY <1>1, <1>3, LargestOf
<1>5. ASSUME NEW i \in 1 .. n, i > p PROVE row[i] > key
  <2>1. p + 1 \in 1 .. n /\ p + 1 \in 0 .. n
    BY <1>1, <1>3, <1>5
  <2>2. ~ (row[p + 1] <= key)
    <3>1. ASSUME row[p + 1] <= key PROVE FALSE
      <4>1. \A j \in 1 .. p + 1 : j \in 1 .. p \/ j = p + 1
        BY <1>3, <2>1
      <4>2. p + 1 \in S
        BY <1>2, <2>1, <3>1, <4>1
      <4>3. QED
        BY <1>3, <1>4, <4>2
    <3>2. QED
      BY <3>1
  <2>3. row[p + 1] \in Nat /\ row[i] \in Nat
    BY <1>1, <2>1, RowIs
  <2>4. i = p + 1 \/ row[p + 1] < row[i]
    BY <1>1, <1>3, <1>5, <2>1 DEF IsRow
  <2>5. QED
    BY <2>2, <2>3, <2>4
<1>6. IsLast(row, key, p)
  BY <1>1, <1>2, <1>5 DEF IsLast
<1>7. IsLast(row, key, Last(row, key))
  BY <1>6, Zenon DEF Last
<1>8. ASSUME NEW a, NEW b, IsLast(row, key, a), IsLast(row, key, b), a < b PROVE FALSE
  <2>1. a \in 0 .. n /\ b \in 1 .. n /\ b \in 1 .. b
    BY <1>1, <1>8 DEF IsLast
  <2>2. row[b] <= key /\ row[b] > key /\ row[b] \in Nat
    BY <1>1, <1>8, <2>1, RowIs DEF IsLast
  <2>3. QED
    BY <2>2
<1>9. \A q : IsLast(row, key, q) => q \in 0 .. n
  BY <1>1 DEF IsLast
<1>10. ASSUME NEW a, NEW b, IsLast(row, key, a), IsLast(row, key, b) PROVE a = b
  <2>1. a \in Nat /\ b \in Nat
    BY <1>1, <1>9, <1>10
  <2>2. ~ (a < b) /\ ~ (b < a)
    BY <1>8, <1>10
  <2>3. QED
    BY <2>1, <2>2
<1>11. QED
  BY <1>7, <1>10

\* The place of a key that a row has, and of one that it has not.
LEMMA PlaceIs ==
  ASSUME NEW row, IsRow(row)
  PROVE  /\ \A i \in 1 .. Len(row) : ZSet!PlaceOf(row, row[i]) = i
         /\ \A key : (\A i \in 1 .. Len(row) : row[i] # key) => ZSet!PlaceOf(row, key) = 0
<1>1. DOMAIN row = 1 .. Len(row)
  BY RowIs
<1>2. ASSUME NEW i \in 1 .. Len(row) PROVE ZSet!PlaceOf(row, row[i]) = i
  <2>1. \E j \in DOMAIN row : row[j] = row[i]
    BY <1>1
  <2>2. PICK k : k = CHOOSE j \in DOMAIN row : row[j] = row[i]
    OBVIOUS
  <2>3. k \in DOMAIN row /\ row[k] = row[i]
    BY <2>1, <2>2, Zenon
  <2>4. k = i
    BY <1>1, <2>3, RowIs
  <2>5. QED
    BY <2>1, <2>2, <2>4, Zenon DEF ZSet!PlaceOf
<1>3. ASSUME NEW key, \A i \in 1 .. Len(row) : row[i] # key PROVE ZSet!PlaceOf(row, key) = 0
  <2>1. ~ \E i \in DOMAIN row : row[i] = key
    BY <1>1, <1>3
  <2>2. QED
    BY <2>1 DEF ZSet!PlaceOf
<1>4. QED
  BY <1>2, <1>3

\* From any place before it a row leads to that key.
LEMMA RightwardIs ==
  ASSUME NEW row, IsRow(row), NEW key \in Nat, NEW from \in 0 .. Last(row, key)
  PROVE  ZSet!Rightward(row, from, key) = Last(row, key)
<1>1. PICK n, p : n = Len(row) /\ p = Last(row, key)
  OBVIOUS
<1>2. n \in Nat /\ IsLast(row, key, p)
  BY <1>1, RowIs, LastIs
<1>3. p \in 0 .. n /\ from \in 0 .. p
  BY <1>1, <1>2 DEF IsLast
<1>4. PICK S : S = {i \in from .. n : \A j \in from + 1 .. i : row[j] <= key}
  OBVIOUS
<1>5. p \in S
  <2>1. p \in from .. n
    BY <1>2, <1>3
  <2>2. \A j \in from + 1 .. p : j \in 1 .. p
    BY <1>3
  <2>3. QED
    BY <1>2, <1>4, <2>1, <2>2 DEF IsLast
<1>6. ASSUME NEW i \in S PROVE i <= p
  <2>1. i \in from .. n /\ \A j \in from + 1 .. i : row[j] <= key
    BY <1>4
  <2>2. ASSUME i > p PROVE FALSE
    <3>1. i \in from + 1 .. i /\ i \in 1 .. n
      BY <1>2, <1>3, <2>1, <2>2
    <3>2. row[i] <= key /\ row[i] > key /\ row[i] \in Nat
      BY <1>1, <1>2, <2>1, <2>2, <3>1, RowIs DEF IsLast
    <3>3. QED
      BY <3>2
  <2>3. QED
    BY <1>2, <1>3, <2>1, <2>2
<1>7. S \subseteq Nat
  BY <1>2, <1>3, <1>4
<1>8. ZSet!Max(S) = p
  <2>1. \A y \in S : p >= y
    BY <1>5, <1>6, <1>7
  <2>2. \E x \in S : \A y \in S : x >= y
    BY <1>5, <2>1
  <2>3. PICK m : m = ZSet!Max(S)
    OBVIOUS
  <2>4. m \in S /\ \A y \in S : m >= y
    BY <2>2, <2>3, Zenon DEF ZSet!Max
  <2>5. m \in Nat /\ p \in Nat /\ m >= p /\ m <= p
    BY <1>5, <1>6, <1>7, <2>4
  <2>6. QED
    BY <2>3, <2>5
<1>9. ZSet!Rightward(row, from, key) = ZSet!Max(S)
  BY <1>1, <1>4, Zenon DEF ZSet!Rightward
<1>10. QED
  BY <1>1, <1>8, <1>9

\* A skip list: rows, each key of which is on the row below, and on the lowest one
\* every key with a value.
Tiers(rows) ==
  /\ \A r \in 1 .. MaxLevel : IsRow(rows[r])
  /\ \A r \in 1 .. MaxLevel - 1 : \A i \in 1 .. Len(rows[r + 1]) :
       \E j \in 1 .. Len(rows[r]) : rows[r][j] = rows[r + 1][i]

Tiered(l) ==
  /\ l \in ZSet!SkipLists(Scores, Stored)
  /\ Tiers(l.rows)
  /\ l.size = Len(l.rows[1])
  /\ \A k \in Scores \ {0} : l.value[k] # None =>
       \E i \in 1 .. Len(l.rows[1]) : l.rows[1][i] = k

\* A skip list of ZSet!SkipLists is its three parts.
LEMMA TieredIs ==
  ASSUME NEW l
  PROVE  l \in ZSet!SkipLists(Scores, Stored) <=>
           /\ l = [rows |-> l.rows, size |-> l.size, value |-> l.value]
           /\ l.rows \in [1 .. MaxLevel -> Seq(Scores)]
           /\ l.size \in Nat /\ l.value \in [Scores -> Stored \cup {None}]
BY DEF ZSet!SkipLists

\* What the constants' assumption says of rows and scores.
LEMMA LevelsAre == MaxLevel \in Nat /\ MaxLevel # 0 /\ 1 \in 1 .. MaxLevel /\ Scores \subseteq Nat
BY DataSpaceAssumption

\* The way down from the last key of a row does not lead beyond that of the row below.
LEMMA DownIs ==
  ASSUME NEW rows, Tiers(rows), NEW r \in 1 .. MaxLevel - 1, NEW key \in Nat
  PROVE  ZSet!PlaceOf(rows[r], ZSet!KeyAt(rows[r + 1], Last(rows[r + 1], key)))
           \in 0 .. Last(rows[r], key)
<1>1. r \in 1 .. MaxLevel /\ r + 1 \in 1 .. MaxLevel
  BY LevelsAre
<1>2. PICK row, above : row = rows[r] /\ above = rows[r + 1]
  OBVIOUS
<1>3. IsRow(row) /\ IsRow(above)
  BY <1>1, <1>2 DEF Tiers
<1>4. PICK p, q : p = Last(row, key) /\ q = Last(above, key)
  OBVIOUS
<1>5. IsLast(row, key, p) /\ IsLast(above, key, q)
  BY <1>3, <1>4, LastIs
<1>6. p \in Nat /\ q \in 0 .. Len(above) /\ Len(row) \in Nat /\ Len(above) \in Nat
  BY <1>3, <1>5, RowIs DEF IsLast
<1>7. CASE q = 0
  <2>1. ZSet!KeyAt(above, q) = 0
    BY <1>7 DEF ZSet!KeyAt
  <2>2. ZSet!PlaceOf(row, 0) = 0
    BY <1>3, PlaceIs, RowIs
  <2>3. QED
    BY <1>2, <1>4, <1>6, <2>1, <2>2
<1>8. CASE q # 0
  <2>1. q \in 1 .. Len(above) /\ q \in 1 .. q /\ ZSet!KeyAt(above, q) = above[q]
    BY <1>6, <1>8 DEF ZSet!KeyAt
  <2>2. PICK j \in 1 .. Len(row) : row[j] = above[q]
    BY <1>2, <2>1 DEF Tiers
  <2>3. ZSet!PlaceOf(row, above[q]) = j
    BY <1>3, <2>2, PlaceIs
  <2>4. row[j] <= key /\ row[j] \in Nat
    BY <1>3, <1>5, <2>1, <2>2, RowIs DEF IsLast
  <2>5. ~ (j > p)
    <3>1. j > p => row[j] > key
      BY <1>5 DEF IsLast
    <3>2. QED
      BY <2>4, <3>1
  <2>6. j \in 0 .. p
    BY <1>6, <2>5
  <2>7. QED
    BY <1>2, <1>4, <2>1, <2>3, <2>6
<1>9. QED
  BY <1>7, <1>8

\* FindNode ends at that key of the lowest row.
LEMMA FindIs ==
  ASSUME NEW l, Tiers(l.rows), NEW key \in Nat
  PROVE  ZSet!FindNode(l, key) = Last(l.rows[1], key)
<1> DEFINE Is(g) == g = [r \in 1 .. MaxLevel |->
             LET from == IF r = MaxLevel THEN 0
                         ELSE ZSet!PlaceOf(l.rows[r], ZSet!KeyAt(l.rows[r + 1], g[r + 1]))
             IN  ZSet!Rightward(l.rows[r], from, key)]
<1> DEFINE last == [r \in 1 .. MaxLevel |-> Last(l.rows[r], key)]
<1>1. ASSUME NEW r \in 1 .. MaxLevel
      PROVE  LET from == IF r = MaxLevel THEN 0
                         ELSE ZSet!PlaceOf(l.rows[r], ZSet!KeyAt(l.rows[r + 1], last[r + 1]))
             IN  ZSet!Rightward(l.rows[r], from, key) = last[r]
  <2>1. IsRow(l.rows[r]) /\ last[r] = Last(l.rows[r], key)
    BY DEF Tiers
  <2>2. Last(l.rows[r], key) \in Nat
    BY <2>1, LastIs, RowIs DEF IsLast
  <2>3. CASE r = MaxLevel
    <3>1. 0 \in 0 .. Last(l.rows[r], key)
      BY <2>2
    <3>2. QED
      BY <2>1, <2>3, <3>1, RightwardIs
  <2>4. CASE r # MaxLevel
    <3>1. r \in 1 .. MaxLevel - 1 /\ r + 1 \in 1 .. MaxLevel
      BY <2>4, LevelsAre
    <3>2. last[r + 1] = Last(l.rows[r + 1], key)
      BY <3>1
    <3>3. PICK from : from = ZSet!PlaceOf(l.rows[r], ZSet!KeyAt(l.rows[r + 1], last[r + 1]))
      OBVIOUS
    <3>4. from \in 0 .. Last(l.rows[r], key)
      BY <3>1, <3>2, <3>3, DownIs
    <3>5. ZSet!Rightward(l.rows[r], from, key) = last[r]
      BY <2>1, <3>4, RightwardIs
    <3>6. QED
      BY <2>4, <3>3, <3>5, Zenon
  <2>5. QED
    BY <2>3, <2>4
<1>2. \E g : Is(g)
  <2>1. Is(last)
    BY <1>1, Zenon
  <2>2. QED
    BY <2>1
<1>3. Is(CHOOSE g : Is(g))
  BY <1>2, Zenon
<1> DEFINE place == CHOOSE g : Is(g)
<1>4. Is(place)
  BY <1>3
<1>5. ZSet!FindNode(l, key) = place[1]
  BY Zenon DEF ZSet!FindNode
<1> HIDE DEF place
<1>6. \A r \in 1 .. MaxLevel : place[r] =
        ZSet!Rightward(l.rows[r],
          IF r = MaxLevel THEN 0
          ELSE ZSet!PlaceOf(l.rows[r], ZSet!KeyAt(l.rows[r + 1], place[r + 1])), key)
  BY <1>4, Zenon
<1>7. \A r \in 1 .. MaxLevel : last[r] =
        ZSet!Rightward(l.rows[r],
          IF r = MaxLevel THEN 0
          ELSE ZSet!PlaceOf(l.rows[r], ZSet!KeyAt(l.rows[r + 1], last[r + 1])), key)
  BY <1>1, Zenon
<1> HIDE DEF Is, last
<1>8. PICK S : S = {n \in Nat : MaxLevel - n \in 1 .. MaxLevel =>
                                  place[MaxLevel - n] = last[MaxLevel - n]}
  OBVIOUS
<1>9. 0 \in S
  <2>1. MaxLevel - 0 = MaxLevel /\ MaxLevel \in 1 .. MaxLevel
    BY LevelsAre
  <2>2. place[MaxLevel] = last[MaxLevel]
    BY <1>6, <1>7, <2>1
  <2>3. QED
    BY <1>8, <2>1, <2>2
<1>10. ASSUME NEW n \in Nat, n \in S PROVE n + 1 \in S
  <2>1. PICK r : r = MaxLevel - (n + 1)
    OBVIOUS
  <2>2. CASE r \in 1 .. MaxLevel
    <3>1. r + 1 = MaxLevel - n /\ r + 1 \in 1 .. MaxLevel /\ r # MaxLevel
      BY <2>1, <2>2, LevelsAre
    <3>2. place[r + 1] = last[r + 1]
      BY <1>8, <1>10, <3>1
    <3>3. place[r] = last[r]
      BY <1>6, <1>7, <2>2, <3>1, <3>2
    <3>4. QED
      BY <1>8, <2>1, <3>3
  <2>3. CASE r \notin 1 .. MaxLevel
    BY <1>8, <2>1, <2>3
  <2>4. QED
    BY <2>2, <2>3
<1>11. \A n \in Nat : n \in S
  BY <1>9, <1>10, NaturalsByInduction
<1>12. place[1] = last[1]
  <2>1. MaxLevel - 1 \in S /\ MaxLevel - (MaxLevel - 1) = 1 /\ 1 \in 1 .. MaxLevel
    BY <1>11, LevelsAre
  <2>2. QED
    BY <1>8, <2>1
<1>13. QED
  BY <1>5, <1>12, LevelsAre DEF last

\* A row with one more key.
With1(row, key) == ZSet!InsertAt(row, Last(row, key) + 1, key)

\* A row with a key put behind the last key below it: its shape, and where each key is.
LEMMA InsertedIs ==
  ASSUME NEW row, IsRow(row), NEW key \in Scores \ {0},
         \A i \in 1 .. Len(row) : row[i] # key
  PROVE  LET z == With1(row, key)
             p == Last(row, key)
         IN  /\ IsRow(z) /\ Len(z) = Len(row) + 1
             /\ z[p + 1] = key /\ p + 1 \in 1 .. Len(row) + 1
             /\ \A i \in 1 .. p : z[i] = row[i]
             /\ \A i \in 1 .. Len(row) : i > p => z[i + 1] = row[i]
<1>1. PICK p, z, n : p = Last(row, key) /\ z = With1(row, key) /\ n = Len(row)
  OBVIOUS
<1>2. key \in Nat /\ key \in Scores /\ key # 0
  BY LevelsAre
<1>3. IsLast(row, key, p) /\ n \in Nat /\ row \in Seq(Scores)
  BY <1>1, <1>2, LastIs, RowIs DEF IsRow
<1>4. p \in 0 .. n
  BY <1>1, <1>3 DEF IsLast
<1>5. PICK a, b : a = SubSeq(row, 1, p) /\ b = SubSeq(row, p + 1, n)
  OBVIOUS
<1>6. /\ a \in Seq(Scores) /\ Len(a) = p
      /\ \A i \in 1 .. p : a[i] = row[i]
  BY <1>1, <1>3, <1>4, <1>5, SubSeqProperties
<1>7. /\ b \in Seq(Scores) /\ Len(b) = n - p
      /\ \A i \in 1 .. n - p : b[i] = row[p + i]
  BY <1>1, <1>3, <1>4, <1>5, SubSeqProperties
<1>8. z = (a \o <<key>>) \o b
  <2>1. (p + 1) - 1 = p
    BY <1>4
  <2>2. z = (SubSeq(row, 1, (p + 1) - 1) \o <<key>>) \o SubSeq(row, p + 1, Len(row))
    BY <1>1, Zenon DEF With1, ZSet!InsertAt
  <2>3. QED
    BY <1>1, <1>5, <2>1, <2>2
<1>9. PICK c : c = a \o <<key>>
  OBVIOUS
<1>10. /\ c \in Seq(Scores) /\ Len(c) = p + 1 /\ c[p + 1] = key
       /\ \A i \in 1 .. p : c[i] = a[i]
  BY <1>2, <1>4, <1>6, <1>9
<1>11. /\ z \in Seq(Scores) /\ Len(z) = n + 1
       /\ \A i \in 1 .. p + 1 : z[i] = c[i]
       /\ \A i \in 1 .. n - p : z[p + 1 + i] = b[i]
  <2>1. p + 1 \in Nat /\ n - p \in Nat /\ (p + 1) + (n - p) = n + 1
    BY <1>3, <1>4
  <2>2. z = c \o b
    BY <1>8, <1>9
  <2>3. /\ z \in Seq(Scores) /\ Len(z) = n + 1
        /\ \A i \in 1 .. n + 1 : z[i] = IF i <= p + 1 THEN c[i] ELSE b[i - (p + 1)]
    <3>1. /\ c \o b \in Seq(Scores) /\ Len(c \o b) = Len(c) + Len(b)
          /\ \A i \in 1 .. Len(c) + Len(b) :
               (c \o b)[i] = IF i <= Len(c) THEN c[i] ELSE b[i - Len(c)]
      BY <1>7, <1>10, ConcatProperties, ZenonT(30)
    <3>2. Len(c) = p + 1 /\ Len(c) + Len(b) = n + 1
      BY <1>7, <1>10, <2>1
    <3>3. QED
      BY <2>2, <3>1, <3>2
  <2>4. \A i \in 1 .. p + 1 : i \in 1 .. n + 1 /\ i <= p + 1
    BY <1>3, <1>4
  <2>5. \A i \in 1 .. n - p : /\ p + 1 + i \in 1 .. n + 1 /\ ~ (p + 1 + i <= p + 1)
                              /\ (p + 1 + i) - (p + 1) = i
    BY <1>3, <1>4
  <2>6. QED
    BY <2>3, <2>4, <2>5
<1>12. z[p + 1] = key /\ \A i \in 1 .. p : z[i] = row[i]
  BY <1>4, <1>6, <1>10, <1>11
<1>13. ASSUME NEW i \in 1 .. n, i > p PROVE z[i + 1] = row[i]
  <2>1. i - p \in 1 .. n - p /\ p + 1 + (i - p) = i + 1 /\ p + (i - p) = i
    BY <1>3, <1>4, <1>13
  <2>2. QED
    BY <1>7, <1>11, <2>1
<1>14. ASSUME NEW i \in 1 .. n + 1
       PROVE  \/ i \in 1 .. p /\ z[i] = row[i] /\ row[i] \in Nat \ {0} /\ row[i] < key
              \/ i = p + 1 /\ z[i] = key
              \/ i > p + 1 /\ i - 1 \in 1 .. n /\ i - 1 > p /\ z[i] = row[i - 1]
                 /\ row[i - 1] \in Nat \ {0} /\ row[i - 1] > key
  <2>1. CASE i \in 1 .. p
    <3>1. row[i] <= key /\ i \in 1 .. n
      BY <1>3, <1>4, <2>1 DEF IsLast
    <3>2. row[i] \in Nat /\ row[i] # 0 /\ row[i] # key
      BY <1>1, <3>1, RowIs
    <3>3. QED
      BY <1>2, <1>12, <2>1, <3>1, <3>2
  <2>2. CASE i > p + 1
    <3>1. i - 1 \in 1 .. n /\ i - 1 > p /\ (i - 1) + 1 = i
      BY <1>3, <1>4, <2>2
    <3>2. row[i - 1] > key /\ row[i - 1] \in Nat /\ row[i - 1] # 0
      BY <1>1, <1>3, <3>1, RowIs DEF IsLast
    <3>3. QED
      BY <1>13, <2>2, <3>1, <3>2
  <2>3. i \in 1 .. p \/ i = p + 1 \/ i > p + 1
    BY <1>4
  <2>4. QED
    BY <1>12, <2>1, <2>2, <2>3
<1>15. ASSUME NEW i \in 1 .. n + 1, NEW j \in 1 .. n + 1, i < j PROVE z[i] < z[j]
  <2>1. \A x, y \in 1 .. n : x < y => row[x] < row[y]
    BY <1>1 DEF IsRow
  <2>2. CASE i \in 1 .. p
    <3>1. z[i] = row[i] /\ row[i] \in Nat /\ row[i] < key /\ i \in 1 .. n
      BY <1>3, <1>4, <1>14, <2>2
    <3>2. CASE j \in 1 .. p
      BY <1>3, <1>4, <1>14, <1>15, <2>1, <3>1, <3>2
    <3>3. CASE j = p + 1
      BY <1>12, <3>1, <3>3
    <3>4. CASE j > p + 1
      <4>1. z[j] \in Nat /\ z[j] > key
        BY <1>3, <1>4, <1>14, <3>4
      <4>2. QED
        BY <1>2, <3>1, <4>1
    <3>5. QED
      BY <1>4, <3>2, <3>3, <3>4
  <2>3. CASE i = p + 1
    <3>1. j > p + 1 /\ z[j] \in Nat /\ z[j] > key
      BY <1>4, <1>14, <1>15, <2>3
    <3>2. QED
      BY <1>2, <1>12, <2>3, <3>1
  <2>4. CASE i > p + 1
    <3>1. j > p + 1 /\ i - 1 < j - 1
      BY <1>4, <1>15, <2>4
    <3>2. /\ z[i] = row[i - 1] /\ i - 1 \in 1 .. n
          /\ z[j] = row[j - 1] /\ j - 1 \in 1 .. n
      BY <1>4, <1>14, <2>4, <3>1
    <3>3. QED
      BY <2>1, <3>1, <3>2
  <2>5. QED
    BY <1>4, <2>2, <2>3, <2>4
<1>16. \A i \in 1 .. n + 1 : z[i] # 0
  BY <1>2, <1>14
<1>17. IsRow(z)
  BY <1>11, <1>15, <1>16 DEF IsRow
<1>18. p + 1 \in 1 .. n + 1
  BY <1>3, <1>4
<1>19. QED
  BY <1>1, <1>11, <1>12, <1>13, <1>17, <1>18, Zenon

\* From the new node of a row the way left and up leads to the last key of the row above
\* that is not above its own.
LEMMA ClimbIs ==
  ASSUME NEW rows, Tiers(rows), NEW r \in 1 .. MaxLevel - 1, NEW key \in Scores \ {0},
         \A i \in 1 .. Len(rows[r]) : rows[r][i] # key,
         NEW m, m.rows[r] = With1(rows[r], key), m.rows[r + 1] = rows[r + 1]
  PROVE  ZSet!ClimbFrom(m, r, key) = Last(rows[r + 1], key)
<1>1. r \in 1 .. MaxLevel /\ r + 1 \in 1 .. MaxLevel /\ key \in Nat
  BY LevelsAre
<1>2. PICK row, above, z : row = rows[r] /\ above = rows[r + 1] /\ z = With1(row, key)
  OBVIOUS
<1>3. IsRow(row) /\ IsRow(above)
  BY <1>1, <1>2 DEF Tiers
<1>4. PICK p, q, n : p = Last(row, key) /\ q = Last(above, key) /\ n = Len(above)
  OBVIOUS
<1>5. IsLast(row, key, p) /\ IsLast(above, key, q) /\ n \in Nat
  BY <1>1, <1>3, <1>4, LastIs, RowIs
<1>6. p \in 0 .. Len(row) /\ q \in 0 .. n /\ Len(row) \in Nat
  BY <1>3, <1>4, <1>5, RowIs DEF IsLast
<1>7. /\ IsRow(z) /\ Len(z) = Len(row) + 1 /\ z[p + 1] = key
      /\ \A i \in 1 .. p : z[i] = row[i]
  BY <1>2, <1>3, <1>4, InsertedIs
<1>8. ZSet!PlaceOf(z, key) = p + 1
  <2>1. p + 1 \in 1 .. Len(z)
    BY <1>6, <1>7
  <2>2. QED
    BY <1>7, <2>1, PlaceIs
<1>9. PICK S : S = {ZSet!PlaceOf(above, z[i]) : i \in 1 .. p + 1}
  OBVIOUS
<1>10. ZSet!ClimbFrom(m, r, key) = ZSet!Max(S \cup {0})
  <2>1. m.rows[r] = z /\ m.rows[r + 1] = above
    BY <1>2
  <2>2. QED
    BY <1>8, <1>9, <2>1, Zenon DEF ZSet!ClimbFrom
<1>11. \A i \in 1 .. n : above[i] # key
  <2>1. \A i \in 1 .. n : \E j \in 1 .. Len(row) : row[j] = above[i]
    BY <1>2, <1>4 DEF Tiers
  <2>2. QED
    BY <1>2, <2>1
<1>12. ASSUME NEW i \in 1 .. p + 1 PROVE ZSet!PlaceOf(above, z[i]) \in 0 .. q
  <2>1. CASE \E j \in 1 .. n : above[j] = z[i]
    <3>1. PICK j \in 1 .. n : above[j] = z[i]
      BY <2>1
    <3>2. ZSet!PlaceOf(above, z[i]) = j
      BY <1>3, <1>4, <3>1, PlaceIs
    <3>3. z[i] <= key
      <4>1. i \in 1 .. p \/ z[i] = key
        BY <1>6, <1>7
      <4>2. \A k \in 1 .. p : z[k] <= key
        BY <1>5, <1>7 DEF IsLast
      <4>3. QED
        BY <1>1, <4>1, <4>2
    <3>4. ~ (j > q)
      <4>1. j > q => above[j] > key
        BY <1>4, <1>5 DEF IsLast
      <4>2. above[j] \in Nat
        BY <1>3, <1>4, RowIs
      <4>3. QED
        BY <1>1, <3>1, <3>3, <4>1, <4>2
    <3>5. QED
      BY <1>6, <3>2, <3>4
  <2>2. CASE ~ \E j \in 1 .. n : above[j] = z[i]
    <3>1. ZSet!PlaceOf(above, z[i]) = 0
      BY <1>3, <1>4, <2>2, PlaceIs
    <3>2. QED
      BY <1>6, <3>1
  <2>3. QED
    BY <2>1, <2>2
<1>13. q \in S \cup {0}
  <2>1. CASE q # 0
    <3>1. q \in 1 .. n /\ q \in 1 .. q
      BY <1>6, <2>1
    <3>2. PICK j \in 1 .. Len(row) : row[j] = above[q]
      BY <1>2, <1>4, <3>1 DEF Tiers
    <3>3. row[j] <= key /\ row[j] \in Nat
      BY <1>3, <1>5, <3>1, <3>2, RowIs DEF IsLast
    <3>4. j \in 1 .. p
      <4>1. j > p => row[j] > key
        BY <1>5 DEF IsLast
      <4>2. QED
        BY <1>1, <1>6, <3>3, <4>1
    <3>5. z[j] = above[q] /\ j \in 1 .. p + 1
      BY <1>6, <1>7, <3>2, <3>4
    <3>6. ZSet!PlaceOf(above, z[j]) = q
      BY <1>3, <1>4, <3>1, <3>5, PlaceIs
    <3>7. QED
      BY <1>9, <3>5, <3>6
  <2>2. QED
    BY <2>1
<1>14. \A x \in S \cup {0} : x \in 0 .. q
  BY <1>6, <1>9, <1>12
<1>15. ZSet!Max(S \cup {0}) = q
  <2>1. PICK A : A = S \cup {0}
    OBVIOUS
  <2>2. q \in A /\ \A x \in A : x \in 0 .. q
    BY <1>13, <1>14, <2>1
  <2>3. \E x \in A : \A y \in A : x >= y
    BY <1>6, <2>2
  <2>4. PICK x : x = ZSet!Max(A)
    OBVIOUS
  <2>5. x \in A /\ \A y \in A : x >= y
    BY <2>3, <2>4, Zenon DEF ZSet!Max
  <2>6. x >= q /\ x \in 0 .. q
    BY <2>2, <2>5
  <2>7. QED
    BY <1>6, <2>1, <2>4, <2>6
<1>16. QED
  BY <1>4, <1>2, <1>10, <1>15

\* InsertNode of a new key: the lowest rows get it, as many as the node is promoted to.
Promoted(rows, key, n) ==
  [r \in 1 .. MaxLevel |-> IF r <= n THEN With1(rows[r], key) ELSE rows[r]]

\* No row has the key.
IsNewTo(rows, key) == \A r \in 1 .. MaxLevel : \A i \in 1 .. Len(rows[r]) : rows[r][i] # key

\* A key that the lowest row has not, no row has.
LEMMA NewEverywhere ==
  ASSUME NEW rows, Tiers(rows), NEW key, \A i \in 1 .. Len(rows[1]) : rows[1][i] # key
  PROVE  IsNewTo(rows, key)
<1>1. PICK S : S = {n \in Nat : n + 1 \in 1 .. MaxLevel =>
                                  \A i \in 1 .. Len(rows[n + 1]) : rows[n + 1][i] # key}
  OBVIOUS
<1>2. 0 \in S
  BY <1>1
<1>3. ASSUME NEW n \in Nat, n \in S PROVE n + 1 \in S
  <2>1. CASE (n + 1) + 1 \in 1 .. MaxLevel
    <3>1. n + 1 \in 1 .. MaxLevel - 1 /\ n + 1 \in 1 .. MaxLevel
      BY <2>1, LevelsAre
    <3>2. \A i \in 1 .. Len(rows[n + 1]) : rows[n + 1][i] # key
      BY <1>1, <1>3, <3>1
    <3>3. \A i \in 1 .. Len(rows[(n + 1) + 1]) :
            \E j \in 1 .. Len(rows[n + 1]) : rows[n + 1][j] = rows[(n + 1) + 1][i]
      BY <3>1 DEF Tiers
    <3>4. \A i \in 1 .. Len(rows[(n + 1) + 1]) : rows[(n + 1) + 1][i] # key
      BY <3>2, <3>3
    <3>5. QED
      BY <1>1, <3>4
  <2>2. CASE (n + 1) + 1 \notin 1 .. MaxLevel
    BY <1>1, <2>2
  <2>3. QED
    BY <2>1, <2>2
<1>4. \A n \in Nat : n \in S
  BY <1>2, <1>3, NaturalsByInduction
<1>5. ASSUME NEW r \in 1 .. MaxLevel PROVE \A i \in 1 .. Len(rows[r]) : rows[r][i] # key
  <2>1. r - 1 \in Nat /\ (r - 1) + 1 = r
    OBVIOUS
  <2>2. r - 1 \in S
    BY <1>4, <2>1
  <2>3. QED
    BY <1>1, <2>1, <2>2
<1>6. QED
  BY <1>5 DEF IsNewTo

\* A skip list given by its parts.
Parts(rows, size, value) == [rows |-> rows, size |-> size, value |-> value]

\* A list whose row r has changed.
Put(rows, r, x) == [rows EXCEPT ![r] = x]
PutIn(l, r, x) == [l EXCEPT !.rows[r] = x]

\* A row put into a list given by its parts.
LEMMA RowChanged ==
  ASSUME NEW rows, NEW size, NEW value, NEW r, NEW x
  PROVE  PutIn(Parts(rows, size, value), r, x) = Parts(Put(rows, r, x), size, value)
<1>1. PICK w : w = [rows EXCEPT ![r] = x]
  OBVIOUS
<1>2. PICK l : l = Parts(rows, size, value)
  OBVIOUS
<1>3. [l EXCEPT !.rows = w] = Parts(w, size, value)
  BY <1>2 DEF Parts
<1>4. l.rows = rows
  BY <1>2 DEF Parts
<1>5. [l EXCEPT !.rows[r] = x] = [l EXCEPT !.rows = w]
  BY <1>1, <1>4
<1>6. QED
  BY <1>1, <1>2, <1>3, <1>5 DEF Put, PutIn

\* The rows after one more promotion.
LEMMA PromotedOnce ==
  ASSUME NEW rows, rows \in [1 .. MaxLevel -> Seq(Scores)], NEW key,
         NEW r \in 1 .. MaxLevel
  PROVE  /\ \A f : f = Promoted(rows, key, r - 1) =>
              Put(f, r, With1(rows[r], key)) = Promoted(rows, key, r)
         /\ Promoted(rows, key, r - 1)[r] = rows[r]
         /\ r # 1 => Promoted(rows, key, r - 1)[r - 1] = With1(rows[r - 1], key)
         /\ Promoted(rows, key, 0) = rows
<1>1. Promoted(rows, key, r - 1)[r] = rows[r]
  BY LevelsAre DEF Promoted
<1>2. r # 1 => Promoted(rows, key, r - 1)[r - 1] = With1(rows[r - 1], key)
  BY LevelsAre DEF Promoted
<1>3. Promoted(rows, key, 0) = rows
  BY LevelsAre DEF Promoted
<1>4. PICK f, g : /\ f = [Promoted(rows, key, r - 1) EXCEPT ![r] = With1(rows[r], key)]
                  /\ g = Promoted(rows, key, r)
  OBVIOUS
<1>5. /\ f = [q \in 1 .. MaxLevel |-> f[q]] /\ g = [q \in 1 .. MaxLevel |-> g[q]]
  BY <1>4 DEF Promoted
<1>6. ASSUME NEW q \in 1 .. MaxLevel PROVE f[q] = g[q]
  <2>1. q <= r - 1 \/ q = r \/ q > r
    BY LevelsAre
  <2>2. QED
    BY <1>4, <2>1, LevelsAre DEF Promoted
<1>7. f = g
  BY <1>5, <1>6
<1>8. QED
  BY <1>1, <1>2, <1>3, <1>4, <1>7 DEF Put

\* InsertNode of a new key: the lowest rows get it, as many as the node is promoted to.
LEMMA InsertNodeIs ==
  ASSUME NEW l, l \in ZSet!SkipLists(Scores, Stored), Tiers(l.rows), NEW key \in Scores \ {0},
         NEW value, NEW promotions \in 0 .. MaxLevel - 1, IsNewTo(l.rows, key)
  PROVE  ZSet!InsertNode(l, key, value, promotions) =
           Parts(Promoted(l.rows, key, promotions + 1), l.size + 1,
                 [l.value EXCEPT ![key] = value])
<1>1. PICK rows, size, val : rows = l.rows /\ size = l.size /\ val = l.value
  OBVIOUS
<1>2. l = Parts(rows, size, val) /\ rows \in [1 .. MaxLevel -> Seq(Scores)]
  BY <1>1, TieredIs DEF Parts
<1> DEFINE Puts(r) == \A f : f = Promoted(rows, key, r - 1) =>
                           Put(f, r, With1(rows[r], key)) = Promoted(rows, key, r)
<1>2a. \A r \in 1 .. MaxLevel : Puts(r)
  <2>1. rows \in [1 .. MaxLevel -> Seq(Scores)]
    BY <1>2
  <2>2. ASSUME NEW r \in 1 .. MaxLevel PROVE Puts(r)
    BY <2>1, PromotedOnce
  <2>3. QED
    BY <2>2
<1>3. key \in Nat /\ key # 0 /\ 1 \in 1 .. MaxLevel /\ IsRow(rows[1])
  BY <1>1, LevelsAre DEF Tiers
<1>4. PICK at : at = ZSet!FindNode(l, key)
  OBVIOUS
<1>5. at = Last(rows[1], key) /\ at \in 0 .. Len(rows[1])
  BY <1>1, <1>3, <1>4, FindIs, LastIs DEF IsLast
<1>6. ZSet!KeyAt(l.rows[1], at) # key
  <2>1. at # 0 => at \in 1 .. Len(rows[1])
    BY <1>3, <1>5, RowIs
  <2>2. QED
    BY <1>1, <1>3, <2>1 DEF ZSet!KeyAt, IsNewTo
<1> DEFINE First == [l EXCEPT !.rows[1] = ZSet!InsertAt(@, at + 1, key)]
<1> DEFINE Step(m, r) == [m EXCEPT !.rows[r] =
                            ZSet!InsertAt(@, ZSet!ClimbFrom(m, r - 1, key) + 1, key)]
<1> DEFINE Up(r) == Parts(Promoted(rows, key, r), size, val)
<1>7. First = Up(1)
  <2>1. First = PutIn(l, 1, With1(rows[1], key))
    BY <1>1, <1>5 DEF With1, PutIn
  <2>2. First = Parts(Put(rows, 1, With1(rows[1], key)), size, val)
    BY <1>2, <2>1, RowChanged
  <2>3. \A f : f = Promoted(rows, key, 1 - 1) =>
          Put(f, 1, With1(rows[1], key)) = Promoted(rows, key, 1)
    BY <1>3, <1>2a
  <2>5. Promoted(rows, key, 1 - 1) = rows
    <3>1. 1 - 1 = 0
      OBVIOUS
    <3>2. Promoted(rows, key, 0) = rows
      BY <1>2, <1>3, PromotedOnce, Zenon
    <3>3. QED
      BY <3>1, <3>2
  <2>4. QED
    BY <2>2, <2>3, <2>5
<1>8. ASSUME NEW r \in 2 .. promotions + 1 PROVE Step(Up(r - 1), r) = Up(r)
  <2>1. r \in 1 .. MaxLevel /\ r - 1 \in 1 .. MaxLevel - 1 /\ (r - 1) + 1 = r /\ r # 1
        /\ r - 1 \in 1 .. MaxLevel
    BY LevelsAre
  <2>2. PICK m, f : f = Promoted(rows, key, r - 1) /\ m = Parts(f, size, val)
    OBVIOUS
  <2>3. m.rows = f /\ f[r] = rows[r] /\ f[r - 1] = With1(rows[r - 1], key)
    BY <1>2, <2>1, <2>2, PromotedOnce, ZenonT(30) DEF Parts
  <2>4. ZSet!ClimbFrom(m, r - 1, key) = Last(rows[r], key)
    <3>1. PICK q : q = r - 1 /\ q \in 1 .. MaxLevel - 1 /\ q \in 1 .. MaxLevel /\ q + 1 = r
      BY <2>1
    <3>2. m.rows[q] = With1(rows[q], key) /\ m.rows[q + 1] = rows[q + 1]
      BY <2>3, <3>1
    <3>3. Tiers(rows) /\ \A i \in 1 .. Len(rows[q]) : rows[q][i] # key
      BY <1>1, <3>1 DEF IsNewTo
    <3>4. ZSet!ClimbFrom(m, q, key) = Last(rows[q + 1], key)
      BY <3>1, <3>2, <3>3, ClimbIs
    <3>5. QED
      BY <3>1, <3>4
  <2>5. Step(m, r) = PutIn(m, r, With1(rows[r], key))
    BY <2>3, <2>4 DEF With1, PutIn
  <2>6. Step(m, r) = Parts(Put(f, r, With1(rows[r], key)), size, val)
    BY <2>2, <2>5, RowChanged
  <2>7. Put(f, r, With1(rows[r], key)) = Promoted(rows, key, r)
    <3>1. \A g : g = Promoted(rows, key, r - 1) =>
            Put(g, r, With1(rows[r], key)) = Promoted(rows, key, r)
      BY <2>1, <1>2a
    <3>2. QED
      BY <2>2, <3>1
  <2>8. QED
    BY <2>2, <2>6, <2>7
<1> DEFINE Is(g) == g = [r \in 1 .. promotions + 1 |->
                           IF r = 1 THEN [l EXCEPT !.rows[1] = ZSet!InsertAt(@, at + 1, key)]
                           ELSE LET m == g[r - 1]
                                IN  [m EXCEPT !.rows[r] =
                                       ZSet!InsertAt(@, ZSet!ClimbFrom(m, r - 1, key) + 1, key)]]
<1> DEFINE all == [r \in 1 .. promotions + 1 |-> Up(r)]
<1> DEFINE up == CHOOSE g : Is(g)
<1>9. ZSet!InsertNode(l, key, value, promotions) =
        IF ZSet!KeyAt(l.rows[1], at) = key THEN [l EXCEPT !.value[key] = value]
        ELSE [up[promotions + 1] EXCEPT !.value[key] = value, !.size = @ + 1]
  BY <1>4 DEF ZSet!InsertNode
<1>10. \A g : Is(g) <=> g = [r \in 1 .. promotions + 1 |->
                              IF r = 1 THEN First ELSE Step(g[r - 1], r)]
  BY Zenon
<1> DEFINE P == promotions + 1
<1>11. P \in Nat /\ 1 \in 1 .. P /\ P \in 1 .. P
  BY LevelsAre
<1> HIDE DEF First, Step, Up, Is, P
<1>12. ASSUME NEW r \in 1 .. P PROVE all[r] = (IF r = 1 THEN First ELSE Step(all[r - 1], r))
  <2>1. all[r] = Up(r)
    BY DEF P
  <2>2. CASE r = 1
    BY <1>7, <2>1, <2>2
  <2>3. CASE r # 1
    <3>1. r \in 2 .. promotions + 1 /\ r - 1 \in 1 .. promotions + 1
      BY <2>3, LevelsAre DEF P
    <3>2. all[r - 1] = Up(r - 1)
      BY <3>1
    <3>3. QED
      BY <1>8, <2>1, <2>3, <3>1, <3>2
  <2>4. QED
    BY <2>2, <2>3
<1>13. Is(all)
  <2>1. all = [r \in 1 .. P |-> IF r = 1 THEN First ELSE Step(all[r - 1], r)]
    <3>1. all = [r \in 1 .. P |-> all[r]]
      BY DEF P
    <3>2. QED
      BY <1>12, <3>1
  <2>2. QED
    BY <1>10, <2>1 DEF P
<1>14. Is(up)
  BY <1>13, Zenon
<1> HIDE DEF up, all
<1>15. \A r \in 1 .. P : up[r] = (IF r = 1 THEN First ELSE Step(up[r - 1], r))
  BY <1>10, <1>14 DEF P
<1>16. PICK S : S = {n \in Nat : n + 1 \in 1 .. P => up[n + 1] = Up(n + 1)}
  OBVIOUS
<1>17. 0 \in S
  <2>1. up[1] = Up(1)
    BY <1>7, <1>11, <1>15
  <2>2. QED
    BY <1>16, <2>1
<1>18. ASSUME NEW n \in Nat, n \in S PROVE n + 1 \in S
  <2>1. PICK r : r = (n + 1) + 1
    OBVIOUS
  <2>2. CASE r \in 1 .. P
    <3>1. r - 1 = n + 1 /\ r - 1 \in 1 .. P /\ r # 1
      BY <1>11, <2>1, <2>2
    <3>2. r \in 2 .. promotions + 1
      BY <2>1, <2>2, LevelsAre DEF P
    <3>3. up[r - 1] = Up(r - 1)
      BY <1>16, <1>18, <3>1
    <3>4. up[r] = Step(up[r - 1], r)
      BY <1>15, <2>2, <3>1
    <3>5. Step(Up(r - 1), r) = Up(r)
      BY <1>8, <3>2
    <3>6. up[r] = Up(r)
      BY <3>3, <3>4, <3>5
    <3>7. QED
      BY <1>16, <2>1, <3>6
  <2>3. CASE r \notin 1 .. P
    BY <1>16, <2>1, <2>3
  <2>4. QED
    BY <2>2, <2>3
<1>19. \A n \in Nat : n \in S
  BY <1>17, <1>18, NaturalsByInduction
<1>20. up[P] = Up(P)
  <2>1. P - 1 \in Nat /\ (P - 1) + 1 = P
    BY <1>11
  <2>2. P - 1 \in S
    BY <1>19, <2>1
  <2>3. QED
    BY <1>11, <1>16, <2>1, <2>2
<1>21. [up[P] EXCEPT !.value[key] = value, !.size = @ + 1]
         = Parts(Promoted(rows, key, P), size + 1, [val EXCEPT ![key] = value])
  <2>1. PICK f, w : f = Promoted(rows, key, P) /\ w = [val EXCEPT ![key] = value]
    OBVIOUS
  <2>2. PICK u : u = Parts(f, size, val)
    OBVIOUS
  <2>3. up[P] = u
    BY <1>20, <2>1, <2>2 DEF Up
  <2>4. u.value = val /\ u.size = size
    BY <2>2 DEF Parts
  <2>5. [u EXCEPT !.value[key] = value, !.size = @ + 1] = [u EXCEPT !.value = w, !.size = size + 1]
    BY <2>1, <2>4
  <2>6. PICK v : v = [u EXCEPT !.value = w, !.size = size + 1]
    OBVIOUS
  <2>7. v = Parts(f, size + 1, w)
    BY <2>2, <2>6 DEF Parts
  <2>8. QED
    BY <2>1, <2>3, <2>5, <2>6, <2>7
<1>22. QED
  BY <1>1, <1>6, <1>9, <1>21 DEF P

\* The keys of a row with one more.
HasOneMore(z, row, key) ==
  /\ IsRow(z) /\ Len(z) = Len(row) + 1
  /\ \E j \in 1 .. Len(z) : z[j] = key
  /\ \A i \in 1 .. Len(row) : \E j \in 1 .. Len(z) : z[j] = row[i]
  /\ \A j \in 1 .. Len(z) : z[j] = key \/ \E i \in 1 .. Len(row) : row[i] = z[j]

\* Such a row has the key, and of the others what it had.
LEMMA InsertedHas ==
  ASSUME NEW row, IsRow(row), NEW key \in Scores \ {0},
         \A i \in 1 .. Len(row) : row[i] # key
  PROVE  HasOneMore(With1(row, key), row, key)
<1>1. PICK p, n, z : p = Last(row, key) /\ n = Len(row) /\ z = With1(row, key)
  OBVIOUS
<1>2. /\ IsRow(z) /\ Len(z) = n + 1
      /\ z[p + 1] = key /\ p + 1 \in 1 .. n + 1
      /\ \A i \in 1 .. p : z[i] = row[i]
      /\ \A i \in 1 .. n : i > p => z[i + 1] = row[i]
  BY <1>1, InsertedIs
<1>3. n \in Nat /\ p \in 0 .. n
  <2>1. key \in Nat
    BY LevelsAre
  <2>2. n \in Nat /\ IsLast(row, key, p)
    BY <1>1, <2>1, RowIs, LastIs
  <2>3. QED
    BY <1>1, <2>2 DEF IsLast
<1>4. ASSUME NEW i \in 1 .. n PROVE \E j \in 1 .. n + 1 : z[j] = row[i]
  <2>1. CASE i <= p
    BY <1>2, <1>3, <2>1
  <2>2. CASE i > p
    BY <1>2, <1>3, <2>2
  <2>3. QED
    BY <1>3, <2>1, <2>2
<1>5. ASSUME NEW j \in 1 .. n + 1 PROVE z[j] = key \/ \E i \in 1 .. n : row[i] = z[j]
  <2>1. CASE j <= p
    BY <1>2, <1>3, <2>1
  <2>2. CASE j = p + 1
    BY <1>2, <2>2
  <2>3. CASE j > p + 1
    <3>1. j - 1 \in 1 .. n /\ j - 1 > p /\ (j - 1) + 1 = j
      BY <1>3, <2>3
    <3>2. QED
      BY <1>2, <3>1
  <2>4. QED
    BY <1>3, <2>1, <2>2, <2>3
<1>6. QED
  BY <1>1, <1>2, <1>3, <1>4, <1>5 DEF HasOneMore

\* A node that is promoted stands on one in the row below.
LEMMA PromotedIsTiered ==
  ASSUME NEW rows, Tiers(rows), NEW key \in Scores \ {0}, IsNewTo(rows, key),
         NEW n \in 1 .. MaxLevel
  PROVE  /\ Tiers(Promoted(rows, key, n))
         /\ Promoted(rows, key, n) \in [1 .. MaxLevel -> Seq(Scores)]
<1>1. PICK z : z = Promoted(rows, key, n)
  OBVIOUS
<1>2. /\ z = [r \in 1 .. MaxLevel |-> z[r]]
      /\ \A r \in 1 .. MaxLevel : z[r] = IF r <= n THEN With1(rows[r], key) ELSE rows[r]
  BY <1>1 DEF Promoted
<1>3. ASSUME NEW r \in 1 .. MaxLevel
      PROVE  IsRow(rows[r]) /\ HasOneMore(With1(rows[r], key), rows[r], key)
  <2>1. IsRow(rows[r]) /\ \A i \in 1 .. Len(rows[r]) : rows[r][i] # key
    BY DEF Tiers, IsNewTo
  <2>2. QED
    BY <2>1, InsertedHas
<1>4. \A r \in 1 .. MaxLevel : IsRow(z[r])
  BY <1>2, <1>3 DEF HasOneMore
<1>5. ASSUME NEW r \in 1 .. MaxLevel - 1, NEW i \in 1 .. Len(z[r + 1])
      PROVE  \E j \in 1 .. Len(z[r]) : z[r][j] = z[r + 1][i]
  <2>1. r \in 1 .. MaxLevel /\ r + 1 \in 1 .. MaxLevel
    BY LevelsAre
  <2>2. PICK k : k = z[r + 1][i]
    OBVIOUS
  <2>3. (r + 1 <= n /\ k = key) \/ \E j \in 1 .. Len(rows[r + 1]) : rows[r + 1][j] = k
    <3>1. CASE r + 1 <= n
      <4>1. z[r + 1] = With1(rows[r + 1], key)
        BY <1>2, <2>1, <3>1
      <4>2. HasOneMore(z[r + 1], rows[r + 1], key)
        BY <1>3, <2>1, <4>1
      <4>3. QED
        BY <2>2, <3>1, <4>2 DEF HasOneMore
    <3>2. CASE ~ (r + 1 <= n)
      BY <1>2, <2>1, <2>2, <3>2
    <3>3. QED
      BY <3>1, <3>2
  <2>4. CASE r + 1 <= n /\ k = key
    <3>1. r <= n
      BY <2>1, <2>4, LevelsAre
    <3>2. z[r] = With1(rows[r], key)
      BY <1>2, <2>1, <3>1
    <3>3. HasOneMore(z[r], rows[r], key)
      BY <1>3, <2>1, <3>2
    <3>4. QED
      BY <2>2, <2>4, <3>3 DEF HasOneMore
  <2>5. CASE \E j \in 1 .. Len(rows[r + 1]) : rows[r + 1][j] = k
    <3>1. PICK a \in 1 .. Len(rows[r]) : rows[r][a] = k
      BY <2>5 DEF Tiers
    <3>2. CASE r <= n
      <4>1. z[r] = With1(rows[r], key)
        BY <1>2, <2>1, <3>2
      <4>2. HasOneMore(z[r], rows[r], key)
        BY <1>3, <2>1, <4>1
      <4>3. QED
        BY <2>2, <3>1, <4>2 DEF HasOneMore
    <3>3. CASE ~ (r <= n)
      <4>1. z[r] = rows[r]
        BY <1>2, <2>1, <3>3
      <4>2. QED
        BY <2>2, <3>1, <4>1
    <3>4. QED
      BY <3>2, <3>3
  <2>6. QED
    BY <2>3, <2>4, <2>5
<1>6. Tiers(z)
  BY <1>4, <1>5 DEF Tiers
<1>7. \A r \in 1 .. MaxLevel : z[r] \in Seq(Scores)
  BY <1>4 DEF IsRow
<1>8. z \in [1 .. MaxLevel -> Seq(Scores)]
  <2>1. PICK T : T = Seq(Scores)
    OBVIOUS
  <2>2. z \in [1 .. MaxLevel -> T]
    BY <1>2, <1>7, <2>1
  <2>3. QED
    BY <2>1, <2>2
<1>9. QED
  BY <1>1, <1>6, <1>8

\* A list given by rows in tiers, their number of keys and a value for them is tiered.
LEMMA PartsAreTiered ==
  ASSUME NEW f \in [1 .. MaxLevel -> Seq(Scores)], NEW n \in Nat,
         NEW w \in [Scores -> Stored \cup {None}], Tiers(f), n = Len(f[1]),
         \A k \in Scores \ {0} : w[k] # None => \E i \in 1 .. n : f[1][i] = k
  PROVE  Tiered(Parts(f, n, w))
<1>1. PICK m : m = Parts(f, n, w)
  OBVIOUS
<1>2. m = [rows |-> f, size |-> n, value |-> w] /\ m.rows = f /\ m.size = n /\ m.value = w
  BY <1>1 DEF Parts
<1>3. m \in ZSet!SkipLists(Scores, Stored)
  BY <1>2, TieredIs
<1>4. QED
  BY <1>1, <1>2, <1>3 DEF Tiered

\* InsertNode, part by part: on a key that is there, and on one that is not.
LEMMA InsertIs ==
  ASSUME NEW l, Tiered(l), NEW key \in Scores, NEW v,
         NEW promotions \in 0 .. MaxLevel - 1,
         NEW at, at = Last(l.rows[1], key),
         NEW m, m = ZSet!InsertNode(l, key, v, promotions)
  PROVE  /\ ZSet!KeyAt(l.rows[1], at) = key =>
              m = Parts(l.rows, l.size, [l.value EXCEPT ![key] = v])
         /\ ZSet!KeyAt(l.rows[1], at) # key =>
              /\ key # 0 /\ IsNewTo(l.rows, key)
              /\ \A i \in 1 .. Len(l.rows[1]) : l.rows[1][i] # key
              /\ m = Parts(Promoted(l.rows, key, promotions + 1), l.size + 1,
                           [l.value EXCEPT ![key] = v])
<1>1. PICK rows, size, val : rows = l.rows /\ size = l.size /\ val = l.value
  OBVIOUS
<1>2. /\ l = Parts(rows, size, val)
      /\ rows \in [1 .. MaxLevel -> Seq(Scores)]
      /\ size \in Nat /\ val \in [Scores -> Stored \cup {None}]
      /\ Tiers(rows) /\ size = Len(rows[1])
      /\ \A k \in Scores \ {0} : val[k] # None => \E i \in 1 .. Len(rows[1]) : rows[1][i] = k
  BY <1>1, TieredIs DEF Parts, Tiered
<1>3. key \in Nat /\ 1 \in 1 .. MaxLevel /\ IsRow(rows[1])
  BY <1>2, LevelsAre DEF Tiers
<1>4. PICK found : found = ZSet!FindNode(l, key)
  OBVIOUS
<1>5. at = found /\ IsLast(rows[1], key, at)
  <2>1. Tiers(l.rows)
    BY <1>1, <1>2
  <2>2. found = Last(rows[1], key)
    BY <1>1, <1>3, <1>4, <2>1, FindIs
  <2>3. QED
    BY <1>1, <1>3, <2>2, LastIs
<1>6. PICK w : w = [val EXCEPT ![key] = v]
  OBVIOUS
<1>10. CASE ZSet!KeyAt(rows[1], at) = key
  <2>1. m = [l EXCEPT !.value[key] = v]
    BY <1>1, <1>4, <1>5, <1>10, Zenon DEF ZSet!InsertNode
  <2>2. m = Parts(rows, size, w)
    <3>1. l.value = val
      BY <1>1
    <3>2. m = [l EXCEPT !.value = w]
      BY <1>6, <2>1, <3>1
    <3>3. QED
      BY <1>2, <3>2 DEF Parts
  <2>3. QED
    BY <1>1, <1>6, <1>10, <2>2
<1>11. CASE ZSet!KeyAt(rows[1], at) # key
  <2>1. key # 0
    <3>1. ASSUME key = 0 PROVE FALSE
      <4>1. at \in Nat /\ \A i \in 1 .. at : rows[1][i] <= 0 /\ rows[1][i] \in Nat /\ rows[1][i] # 0
        BY <1>3, <1>5, <3>1, RowIs DEF IsLast
      <4>2. at = 0
        <5>1. ASSUME at # 0 PROVE FALSE
          <6>1. at \in 1 .. at
            BY <4>1, <5>1
          <6>2. rows[1][at] <= 0 /\ rows[1][at] \in Nat /\ rows[1][at] # 0
            BY <4>1, <6>1
          <6>3. QED
            BY <6>2
        <5>2. QED
          BY <5>1
      <4>3. QED
        BY <1>11, <3>1, <4>2 DEF ZSet!KeyAt
    <3>2. QED
      BY <3>1
  <2>2. \A i \in 1 .. Len(rows[1]) : rows[1][i] # key
    <3>1. ASSUME NEW i \in 1 .. Len(rows[1]), rows[1][i] = key PROVE FALSE
      <4>1. at \in 0 .. Len(rows[1]) /\ Len(rows[1]) \in Nat
        BY <1>3, <1>5, RowIs DEF IsLast
      <4>2. i <= at
        <5>1. i > at => rows[1][i] > key
          BY <1>5 DEF IsLast
        <5>2. QED
          BY <1>3, <3>1, <4>1, <5>1
      <4>3. at \in 1 .. Len(rows[1]) /\ at \in 1 .. at
        BY <4>1, <4>2
      <4>4. rows[1][at] <= rows[1][i]
        BY <1>5, <3>1, <4>3 DEF IsLast
      <4>5. at <= i
        BY <1>3, <4>3, <4>4, RowIs
      <4>6. at = i
        BY <4>1, <4>2, <4>5
      <4>7. QED
        BY <1>11, <3>1, <4>3, <4>6 DEF ZSet!KeyAt
    <3>2. QED
      BY <3>1
  <2>3. IsNewTo(rows, key)
    BY <1>2, <2>2, NewEverywhere
  <2>4. PICK n, f : n = promotions + 1 /\ f = Promoted(rows, key, n)
    OBVIOUS
  <2>5. m = Parts(f, size + 1, w)
    <3>1. key \in Scores \ {0} /\ l \in ZSet!SkipLists(Scores, Stored)
      BY <2>1 DEF Tiered
    <3>2. IsNewTo(l.rows, key) /\ Tiers(l.rows)
      BY <1>1, <1>2, <2>3
    <3>3. m = Parts(Promoted(l.rows, key, promotions + 1), l.size + 1,
                    [l.value EXCEPT ![key] = v])
      BY <3>1, <3>2, InsertNodeIs
    <3>4. QED
      BY <1>1, <1>6, <2>4, <3>3
  <2>6. QED
    BY <1>1, <1>6, <1>11, <2>1, <2>2, <2>3, <2>4, <2>5
<1>12. QED
  BY <1>1, <1>10, <1>11

\* ZADD keeps the rows.
LEMMA InsertIsTiered ==
  ASSUME NEW l, Tiered(l), NEW key \in Scores, NEW v \in Stored,
         NEW promotions \in 0 .. MaxLevel - 1
  PROVE  Tiered(ZSet!InsertNode(l, key, v, promotions))
<1>1. PICK rows, size, val : rows = l.rows /\ size = l.size /\ val = l.value
  OBVIOUS
<1>2. /\ l = Parts(rows, size, val)
      /\ rows \in [1 .. MaxLevel -> Seq(Scores)]
      /\ size \in Nat /\ val \in [Scores -> Stored \cup {None}]
      /\ Tiers(rows) /\ size = Len(rows[1])
      /\ \A k \in Scores \ {0} : val[k] # None => \E i \in 1 .. Len(rows[1]) : rows[1][i] = k
  BY <1>1, TieredIs DEF Parts, Tiered
<1>3. key \in Nat /\ 1 \in 1 .. MaxLevel /\ IsRow(rows[1])
  BY <1>2, LevelsAre DEF Tiers
<1>4. PICK at : at = ZSet!FindNode(l, key)
  OBVIOUS
<1>5. at = Last(rows[1], key) /\ IsLast(rows[1], key, at)
  <2>1. Tiers(l.rows)
    BY <1>1, <1>2
  <2>2. at = Last(rows[1], key)
    BY <1>1, <1>3, <1>4, <2>1, FindIs
  <2>3. QED
    BY <1>3, <2>2, LastIs
<1>6. PICK w : w = [val EXCEPT ![key] = v]
  OBVIOUS
<1>7. w \in [Scores -> Stored \cup {None}] /\ \A k \in Scores : k # key => w[k] = val[k]
  BY <1>2, <1>6
<1>8. PICK m : m = ZSet!InsertNode(l, key, v, promotions)
  OBVIOUS
<1>10. CASE ZSet!KeyAt(rows[1], at) = key
  <2>2. m = Parts(rows, size, w)
    BY <1>1, <1>5, <1>6, <1>8, <1>10, InsertIs
  <2>3. key = 0 \/ \E i \in 1 .. Len(rows[1]) : rows[1][i] = key
    <3>1. at = 0 \/ at \in 1 .. Len(rows[1])
      BY <1>3, <1>5, RowIs DEF IsLast
    <3>2. QED
      BY <1>10, <3>1 DEF ZSet!KeyAt
  <2>4. \A k \in Scores \ {0} : w[k] # None => \E i \in 1 .. Len(rows[1]) : rows[1][i] = k
    BY <1>2, <1>7, <2>3
  <2>5. Tiered(Parts(rows, size, w))
    BY <1>2, <1>7, <2>4, PartsAreTiered
  <2>6. QED
    BY <1>8, <2>2, <2>5
<1>11. CASE ZSet!KeyAt(rows[1], at) # key
  <2>1. key # 0
    BY <1>1, <1>5, <1>8, <1>11, InsertIs
  <2>2. \A i \in 1 .. Len(rows[1]) : rows[1][i] # key
    BY <1>1, <1>5, <1>8, <1>11, InsertIs
  <2>3. IsNewTo(rows, key)
    BY <1>1, <1>5, <1>8, <1>11, InsertIs
  <2>4. PICK n, f : n = promotions + 1 /\ f = Promoted(rows, key, n)
    OBVIOUS
  <2>5. m = Parts(f, size + 1, w)
    BY <1>1, <1>5, <1>6, <1>8, <1>11, <2>4, InsertIs
  <2>6. n \in 1 .. MaxLevel
    BY <2>4, LevelsAre
  <2>7. Tiers(f) /\ f \in [1 .. MaxLevel -> Seq(Scores)]
    BY <1>2, <2>1, <2>3, <2>4, <2>6, PromotedIsTiered
  <2>8. f[1] = With1(rows[1], key)
    BY <1>3, <2>4, <2>6 DEF Promoted
  <2>9. /\ Len(f[1]) = Len(rows[1]) + 1
        /\ \E j \in 1 .. Len(f[1]) : f[1][j] = key
        /\ \A i \in 1 .. Len(rows[1]) : \E j \in 1 .. Len(f[1]) : f[1][j] = rows[1][i]
    <3>1. HasOneMore(f[1], rows[1], key)
      BY <1>3, <2>1, <2>2, <2>8, InsertedHas
    <3>2. QED
      BY <3>1 DEF HasOneMore
  <2>10. \A k \in Scores \ {0} : w[k] # None => \E i \in 1 .. Len(f[1]) : f[1][i] = k
    BY <1>2, <1>7, <2>9, SMTT(30)
  <2>11. size + 1 \in Nat /\ size + 1 = Len(f[1])
    BY <1>2, <2>9
  <2>12. PICK n1 : n1 = size + 1
    OBVIOUS
  <2>13. Tiered(Parts(f, n1, w))
    <3>1. n1 \in Nat /\ n1 = Len(f[1])
      BY <2>11, <2>12
    <3>2. \A k \in Scores \ {0} : w[k] # None => \E i \in 1 .. n1 : f[1][i] = k
      BY <2>10, <3>1
    <3>3. QED
      BY <1>7, <2>7, <3>1, <3>2, PartsAreTiered
  <2>14. QED
    BY <1>8, <2>5, <2>12, <2>13
<1>12. QED
  BY <1>10, <1>11

\* A new JK_SkipList is tiered.
LEMMA EmptyIsTiered == Tiered(ZSet!EmptySkipList(Scores))
<1>1. PICK l, f : l = ZSet!EmptySkipList(Scores) /\ f = [r \in 1 .. MaxLevel |-> <<>>]
  OBVIOUS
<1>2. /\ l = [rows |-> l.rows, size |-> l.size, value |-> l.value]
      /\ l.rows = f /\ l.size = 0 /\ l.value = [k \in Scores |-> None]
  BY <1>1 DEF ZSet!EmptySkipList
<1>3. <<>> \in Seq(Scores) /\ Len(<<>>) = 0
  OBVIOUS
<1>4. f \in [1 .. MaxLevel -> Seq(Scores)] /\ \A r \in 1 .. MaxLevel : f[r] = <<>>
  <2>1. PICK T : T = Seq(Scores)
    OBVIOUS
  <2>2. f \in [1 .. MaxLevel -> T]
    BY <1>1, <1>3, <2>1
  <2>3. QED
    BY <1>1, <2>1, <2>2
<1>5. IsRow(<<>>)
  BY <1>3 DEF IsRow
<1>6. Tiers(f)
  <2>1. \A r \in 1 .. MaxLevel - 1 : r + 1 \in 1 .. MaxLevel
    BY LevelsAre
  <2>2. QED
    BY <1>3, <1>4, <1>5, <2>1 DEF Tiers
<1>7. l \in ZSet!SkipLists(Scores, Stored)
  BY <1>2, <1>4, TieredIs
<1>8. QED
  BY <1>1, <1>2, <1>3, <1>4, <1>6, <1>7, LevelsAre DEF Tiered

\* Such rows are what ObjectsAreSound says of a sorted set.
LEMMA TieredIsSkipList ==
  ASSUME NEW l, Tiered(l)
  PROVE  ZSet!IsSkipList(l)
<1>1. PICK rows, n, val : rows = l.rows /\ n = Len(rows[1]) /\ val = l.value
  OBVIOUS
<1>2. Tiers(rows) /\ l.size = n /\ val \in [Scores -> Stored \cup {None}]
      /\ \A k \in Scores \ {0} : val[k] # None => \E i \in 1 .. n : rows[1][i] = k
  BY <1>1, TieredIs DEF Tiered
<1>3. ASSUME NEW r \in 1 .. MaxLevel, NEW i \in 2 .. Len(rows[r])
      PROVE  rows[r][i - 1] < rows[r][i]
  <2>1. IsRow(rows[r])
    BY <1>2 DEF Tiers
  <2>2. i - 1 \in 1 .. Len(rows[r]) /\ i \in 1 .. Len(rows[r]) /\ i - 1 < i
    BY <2>1, RowIs
  <2>3. QED
    BY <2>1, <2>2 DEF IsRow
<1>4. ASSUME NEW r \in 2 .. MaxLevel
      PROVE  ZSet!Range(rows[r]) \subseteq ZSet!Range(rows[r - 1])
  <2>1. r - 1 \in 1 .. MaxLevel - 1 /\ (r - 1) + 1 = r /\ r \in 1 .. MaxLevel
        /\ r - 1 \in 1 .. MaxLevel
    BY LevelsAre
  <2>2. DOMAIN rows[r] = 1 .. Len(rows[r]) /\ DOMAIN rows[r - 1] = 1 .. Len(rows[r - 1])
    BY <1>2, <2>1, RowIs DEF Tiers
  <2>3. \A i \in 1 .. Len(rows[r]) : \E j \in 1 .. Len(rows[r - 1]) : rows[r - 1][j] = rows[r][i]
    BY <1>2, <2>1 DEF Tiers
  <2>4. QED
    BY <2>2, <2>3 DEF ZSet!Range
<1>5. IsRow(rows[1]) /\ n \in Nat
  BY <1>1, <1>2, LevelsAre, RowIs DEF Tiers
<1>6. ASSUME NEW k \in DOMAIN val \ {0}, val[k] # None
      PROVE  /\ ZSet!KeyAt(rows[1], ZSet!FindNode(l, k)) = k
             /\ <<k, val[k]>> \in ZSet!Range(ZSet!Listed(l))
  <2>1. k \in Scores \ {0} /\ k \in Nat
    BY <1>2, LevelsAre
  <2>2. PICK i \in 1 .. n : rows[1][i] = k
    BY <1>2, <1>6, <2>1
  <2>3. IsLast(rows[1], k, i)
    <3>1. i \in 0 .. Len(rows[1])
      BY <1>1, <1>5
    <3>2. \A j \in 1 .. i : rows[1][j] <= k
      <4>1. \A j \in 1 .. i : j \in 1 .. n /\ (j = i \/ j < i)
        BY <1>5
      <4>2. \A j \in 1 .. n : j < i => rows[1][j] < rows[1][i]
        BY <1>1, <1>5 DEF IsRow
      <4>3. \A j \in 1 .. n : rows[1][j] \in Nat
        BY <1>1, <1>5, RowIs
      <4>4. QED
        BY <2>1, <2>2, <4>1, <4>2, <4>3
    <3>3. \A j \in 1 .. Len(rows[1]) : j > i => rows[1][j] > k
      <4>1. \A j \in 1 .. n : i < j => rows[1][i] < rows[1][j]
        BY <1>1, <1>5 DEF IsRow
      <4>2. \A j \in 1 .. n : rows[1][j] \in Nat
        BY <1>1, <1>5, RowIs
      <4>3. QED
        BY <1>1, <1>5, <2>1, <2>2, <4>1, <4>2
    <3>4. QED
      BY <3>1, <3>2, <3>3 DEF IsLast
  <2>4. ZSet!FindNode(l, k) = i
    BY <1>1, <1>2, <1>5, <2>1, <2>3, FindIs, LastIs
  <2>5. ZSet!KeyAt(rows[1], i) = k
    BY <2>2 DEF ZSet!KeyAt
  <2>6. ZSet!Min({n, n}) = n
    <3>1. PICK A : A = {n, n}
      OBVIOUS
    <3>2. \E x \in A : \A y \in A : x <= y
      BY <1>5, <3>1
    <3>3. PICK x : x = ZSet!Min(A)
      OBVIOUS
    <3>4. x \in A
      BY <3>2, <3>3, Zenon DEF ZSet!Min
    <3>5. QED
      BY <3>1, <3>3, <3>4
  <2>7. PICK s : s = ZSet!Listed(l)
    OBVIOUS
  <2>8. s = [j \in 1 .. n |-> <<rows[1][j], val[rows[1][j]]>>]
    <3>1. s = [j \in 1 .. ZSet!Min({Len(rows[1]), l.size}) |-> <<rows[1][j], val[rows[1][j]]>>]
      BY <1>1, <2>7, Zenon DEF ZSet!Listed
    <3>2. Len(rows[1]) = n /\ l.size = n
      BY <1>1, <1>2
    <3>3. ZSet!Min({Len(rows[1]), l.size}) = n
      BY <2>6, <3>2
    <3>4. QED
      BY <3>1, <3>3
  <2>9. DOMAIN s = 1 .. n /\ s[i] = <<k, val[k]>>
    BY <2>2, <2>8
  <2>10. <<k, val[k]>> \in ZSet!Range(s)
    BY <2>9 DEF ZSet!Range
  <2>11. QED
    BY <2>4, <2>5, <2>7, <2>10
<1>7. QED
  BY <1>1, <1>3, <1>4, <1>6 DEF ZSet!IsSkipList
-----------------------------------------------------------------------------
(* Key spaces of which one is the other as it is read back.                *)

\* What is read back is stored, and is read back as it is; what is no value stays.
LEMMA CutIs ==
  /\ \A v \in Vals : v \in Stored /\ ReadBack(v) \in Stored /\ Cut(v) = ReadBack(v)
  /\ \A x : Cut(Cut(x)) = Cut(x)
  /\ \A x \in Stored : Cut(x) \in Stored
  /\ Cut(None) = None /\ Cut(Dangling) = Dangling /\ Cut(Junk) = Junk
  /\ None \notin Stored /\ Dangling \notin Stored /\ Junk \notin Stored /\ None # Dangling
<1>1. ASSUME NEW v PROVE ReadBack(ReadBack(v)) = ReadBack(v)
  <2>1. PICK w : ReadBack(v) = <<w>>
    BY DEF ReadBack
  <2>2. <<w>> # <<>> /\ Head(<<w>>) = w
    OBVIOUS
  <2>3. QED
    BY <2>1, <2>2 DEF ReadBack
<1>2. /\ \A v \in Vals : v \in Stored /\ ReadBack(v) \in Stored /\ Cut(v) = ReadBack(v)
      /\ \A x \in Stored : Cut(x) \in Stored
  BY DEF Stored, Cut
<1>3. \A x : Cut(Cut(x)) = Cut(x)
  BY <1>1 DEF Cut
<1>4. /\ None \notin Stored /\ Dangling \notin Stored /\ Junk \notin Stored
      /\ None # Dangling
  BY DataSpaceAssumption
<1>5. Cut(None) = None /\ Cut(Dangling) = Dangling /\ Cut(Junk) = Junk
  BY <1>2, <1>4 DEF Cut
<1>6. QED
  BY <1>2, <1>3, <1>4, <1>5

\* The list m, or sorted set m, is l with its values as they are read back.
ListRead(l, m) ==
  /\ m.head = l.head /\ m.tail = l.tail /\ m.count = l.count /\ m.used = l.used
  /\ m.next = l.next /\ m.prev = l.prev
  /\ \A n \in Nodes : m.data[n] = Cut(l.data[n])

SetRead(l, m) ==
  /\ m.rows = l.rows /\ m.size = l.size
  /\ \A k \in Scores : m.value[k] = Cut(l.value[k])

\* A push of a value, and of what is read back of it.
LEMMA PushesRead ==
  ASSUME NEW l, NEW m, Chained(l), Chained(m), ListRead(l, m), NEW v \in Vals,
         l.used # Nodes
  PROVE  /\ ListRead(List!LPush(l, v), List!LPush(m, ReadBack(v)))
         /\ ListRead(List!RPush(l, v), List!RPush(m, ReadBack(v)))
<1>1. PICK w : w = ReadBack(v) /\ w = Cut(v)
  BY CutIs
<1>2. l \in List!Lists(Stored) /\ m \in List!Lists(Stored)
  BY DEF Chained
<1>3. l.data \in [Nodes -> Stored \cup {Junk}] /\ m.data \in [Nodes -> Stored \cup {Junk}]
  BY <1>2, ChainedIs
<1>4. PICK n : n = List!NewNode(l) /\ n = List!NewNode(m)
  <2>1. m.used = l.used
    BY DEF ListRead
  <2>2. QED
    BY <2>1, Zenon DEF List!NewNode
<1>5. \A k \in Nodes : [m.data EXCEPT ![n] = w][k] = Cut([l.data EXCEPT ![n] = v][k])
  BY <1>1, <1>3 DEF ListRead
<1> DEFINE Left(x, u, y) ==
             /\ y.count = x.count + 1 /\ y.used = x.used \cup {n}
             /\ y.data = [x.data EXCEPT ![n] = u]
             /\ y.tail = IF x.count = 0 THEN n ELSE x.tail
             /\ y.head = n
             /\ y.prev = IF x.count = 0 THEN [x.prev EXCEPT ![n] = Junk]
                         ELSE [[x.prev EXCEPT ![n] = Junk] EXCEPT ![x.head] = n]
             /\ y.next = IF x.count = 0 THEN [x.next EXCEPT ![n] = Junk]
                         ELSE [[x.next EXCEPT ![n] = Junk] EXCEPT ![n] = x.head]
           Right(x, u, y) ==
             /\ y.count = x.count + 1 /\ y.used = x.used \cup {n}
             /\ y.data = [x.data EXCEPT ![n] = u]
             /\ y.head = IF x.count = 0 THEN n ELSE x.head
             /\ y.tail = n
             /\ y.next = IF x.count = 0 THEN [x.next EXCEPT ![n] = Null]
                         ELSE [[x.next EXCEPT ![n] = Null] EXCEPT ![x.tail] = n]
             /\ y.prev = IF x.count = 0 THEN [x.prev EXCEPT ![n] = Null]
                         ELSE [[x.prev EXCEPT ![n] = Null] EXCEPT ![n] = x.tail]
<1>6. ASSUME NEW x, x \in List!Lists(Stored), n = List!NewNode(x), NEW u,
             NEW y, y = List!LPush(x, u)
      PROVE  Left(x, u, y)
  BY <1>6, LPushIs
<1>7. ASSUME NEW x, x \in List!Lists(Stored), n = List!NewNode(x), NEW u,
             NEW y, y = List!RPush(x, u)
      PROVE  Right(x, u, y)
  BY <1>7, RPushIs
<1> HIDE DEF Left, Right
<1>8. PICK a, b : a = List!LPush(l, v) /\ b = List!LPush(m, w)
  OBVIOUS
<1>9. ListRead(a, b)
  <2>1. Left(l, v, a) /\ Left(m, w, b)
    BY <1>2, <1>4, <1>6, <1>8
  <2>2. \A k \in Nodes : b.data[k] = Cut(a.data[k])
    BY <1>5, <2>1 DEF Left
  <2>3. b.next = a.next /\ b.prev = a.prev
    BY <2>1, Zenon DEF ListRead, Left
  <2>4. b.head = a.head /\ b.tail = a.tail /\ b.count = a.count /\ b.used = a.used
    BY <2>1, Zenon DEF ListRead, Left
  <2>5. QED
    BY <2>2, <2>3, <2>4 DEF ListRead
<1>10. PICK c, d : c = List!RPush(l, v) /\ d = List!RPush(m, w)
  OBVIOUS
<1>11. ListRead(c, d)
  <2>1. Right(l, v, c) /\ Right(m, w, d)
    BY <1>2, <1>4, <1>7, <1>10
  <2>2. \A k \in Nodes : d.data[k] = Cut(c.data[k])
    BY <1>5, <2>1 DEF Right
  <2>3. d.next = c.next /\ d.prev = c.prev
    BY <2>1, Zenon DEF ListRead, Right
  <2>4. d.head = c.head /\ d.tail = c.tail /\ d.count = c.count /\ d.used = c.used
    BY <2>1, Zenon DEF ListRead, Right
  <2>5. QED
    BY <2>2, <2>3, <2>4 DEF ListRead
<1>12. QED
  BY <1>1, <1>8, <1>9, <1>10, <1>11

\* A pop.
LEMMA PopsRead ==
  ASSUME NEW l, NEW m, Chained(l), Chained(m), ListRead(l, m)
  PROVE  ListRead(List!LPop(l), List!LPop(m)) /\ ListRead(List!RPop(l), List!RPop(m))
<1>1. l \in List!Lists(Stored) /\ m \in List!Lists(Stored)
  BY DEF Chained
<1>2. l.data \in [Nodes -> Stored \cup {Junk}] /\ m.data \in [Nodes -> Stored \cup {Junk}]
  BY <1>1, ChainedIs
<1>3. ASSUME NEW n, NEW k \in Nodes
      PROVE  [m.data EXCEPT ![n] = Junk][k] = Cut([l.data EXCEPT ![n] = Junk][k])
  BY <1>2, CutIs DEF ListRead
<1> DEFINE Popped(x, n, y) ==
             /\ y.count = x.count - 1 /\ y.used = x.used \ {n}
             /\ y.data = [x.data EXCEPT ![n] = Junk]
             /\ y.next = [x.next EXCEPT ![n] = Junk] /\ y.prev = [x.prev EXCEPT ![n] = Junk]
           Left(x, n, y) == Popped(x, n, y) /\ y.head = x.next[n] /\ y.tail = x.tail
           Right(x, n, y) == Popped(x, n, y) /\ y.tail = x.prev[n] /\ y.head = x.head
<1>4. ASSUME NEW x, x \in List!Lists(Stored), NEW n, n = x.head, NEW y, y = List!LPop(x)
      PROVE  Left(x, n, y)
  BY <1>4, LPopIs
<1>5. ASSUME NEW x, x \in List!Lists(Stored), NEW n, n = x.tail, NEW y, y = List!RPop(x)
      PROVE  Right(x, n, y)
  BY <1>5, RPopIs
<1> HIDE DEF Popped, Left, Right
<1>6. ASSUME NEW n, NEW a, NEW b, Popped(l, n, a), Popped(m, n, b),
             b.head = a.head, b.tail = a.tail
      PROVE  ListRead(a, b)
  <2>1. \A k \in Nodes : [m.data EXCEPT ![n] = Junk][k] = Cut([l.data EXCEPT ![n] = Junk][k])
    BY <1>3
  <2>2. \A k \in Nodes : b.data[k] = Cut(a.data[k])
    BY <1>6, <2>1, Zenon DEF Popped
  <2>3. b.next = a.next /\ b.prev = a.prev /\ b.count = a.count /\ b.used = a.used
    BY <1>6, Zenon DEF ListRead, Popped
  <2>4. QED
    BY <1>6, <2>2, <2>3 DEF ListRead
<1>7. ListRead(List!LPop(l), List!LPop(m))
  <2>1. PICK n, a, b : /\ n = l.head /\ n = m.head
                       /\ a = List!LPop(l) /\ b = List!LPop(m)
    BY DEF ListRead
  <2>2. Left(l, n, a) /\ Left(m, n, b)
    BY <1>1, <1>4, <2>1
  <2>3. QED
    BY <1>6, <2>1, <2>2 DEF Left, ListRead
<1>8. ListRead(List!RPop(l), List!RPop(m))
  <2>1. PICK n, a, b : /\ n = l.tail /\ n = m.tail
                       /\ a = List!RPop(l) /\ b = List!RPop(m)
    BY DEF ListRead
  <2>2. Right(l, n, a) /\ Right(m, n, b)
    BY <1>1, <1>5, <2>1
  <2>3. QED
    BY <1>6, <2>1, <2>2 DEF Right, ListRead
<1>9. QED
  BY <1>7, <1>8

\* ZADD of a value, and of what is read back of it.
LEMMA InsertRead ==
  ASSUME NEW l, NEW m, Tiered(l), Tiered(m), SetRead(l, m), NEW key \in Scores, NEW v \in Vals,
         NEW promotions \in 0 .. MaxLevel - 1
  PROVE  SetRead(ZSet!InsertNode(l, key, v, promotions),
                 ZSet!InsertNode(m, key, ReadBack(v), promotions))
<1>1. PICK w : w = ReadBack(v) /\ w = Cut(v)
  BY CutIs
<1>2. PICK at : at = Last(l.rows[1], key) /\ at = Last(m.rows[1], key)
  BY DEF SetRead
<1>3. PICK a, b : /\ a = ZSet!InsertNode(l, key, v, promotions)
                  /\ b = ZSet!InsertNode(m, key, w, promotions)
  OBVIOUS
<1>4. l.value \in [Scores -> Stored \cup {None}] /\ m.value \in [Scores -> Stored \cup {None}]
  BY TieredIs DEF Tiered
<1>5. \A k \in Scores : [m.value EXCEPT ![key] = w][k] = Cut([l.value EXCEPT ![key] = v][k])
  BY <1>1, <1>4 DEF SetRead
<1>6. m.rows = l.rows /\ m.size = l.size
  BY DEF SetRead
<1> DEFINE There(x, u) == Parts(x.rows, x.size, [x.value EXCEPT ![key] = u])
           Added(x, u) == Parts(Promoted(x.rows, key, promotions + 1), x.size + 1,
                                [x.value EXCEPT ![key] = u])
<1>7. ASSUME NEW x, Tiered(x), at = Last(x.rows[1], key), NEW u,
             NEW y, y = ZSet!InsertNode(x, key, u, promotions)
      PROVE  y = IF ZSet!KeyAt(x.rows[1], at) = key THEN There(x, u) ELSE Added(x, u)
  <2>1. CASE ZSet!KeyAt(x.rows[1], at) = key
    BY <1>7, <2>1, InsertIs
  <2>2. CASE ZSet!KeyAt(x.rows[1], at) # key
    BY <1>7, <2>2, InsertIs
  <2>3. QED
    BY <2>1, <2>2
<1>8. SetRead(There(l, v), There(m, w)) /\ SetRead(Added(l, v), Added(m, w))
  BY <1>5, <1>6 DEF Parts, SetRead
<1> HIDE DEF There, Added
<1>9. /\ a = IF ZSet!KeyAt(l.rows[1], at) = key THEN There(l, v) ELSE Added(l, v)
      /\ b = IF ZSet!KeyAt(m.rows[1], at) = key THEN There(m, w) ELSE Added(m, w)
  BY <1>2, <1>3, <1>7
<1>10. QED
  BY <1>1, <1>3, <1>6, <1>8, <1>9

Types == {"NONE", "STR", "LIST", "HASH", "ZSET"}

\* A value whose list and sorted set are whole.
IsValue(x) ==
  /\ x = [type |-> x.type, str |-> x.str, list |-> x.list,
          fields |-> x.fields, scores |-> x.scores]
  /\ x.type \in Types /\ x.str \in Stored \cup {None}
  /\ Chained(x.list) /\ Tiered(x.scores)
  /\ x.fields \in [Fields -> Stored \cup {None, Dangling}]

IsStore(s) == s = [k \in Keys |-> s[k]] /\ \A k \in Keys : IsValue(s[k])

\* What a field reads as, when one that was freed counts as none.
Field(x, f) == IF x.fields[f] = Dangling THEN None ELSE x.fields[f]

\* y is x as it is read back, and t is the key space s.
SameValue(x, y) ==
  /\ y.type = x.type /\ y.str = Cut(x.str)
  /\ ListRead(x.list, y.list) /\ SetRead(x.scores, y.scores)
  /\ \A f \in Fields : Field(y, f) = Cut(Field(x, f))

Same(s, t) == \A k \in Keys : SameValue(s[k], t[k])

\* The inductive invariant.
IInv == IsStore(store) /\ IsStore(shadow) /\ Same(store, shadow)

\* What is read back is read back as it is.
LEMMA SameAgain ==
  ASSUME NEW s, NEW t, Same(s, t) PROVE Same(t, t)
<1>1. ASSUME NEW k \in Keys PROVE SameValue(t[k], t[k])
  BY CutIs DEF Same, SameValue, ListRead, SetRead
<1>2. QED
  BY <1>1 DEF Same

\* The parts of a value that AsRead leaves.
LEMMA AsReadIs ==
  ASSUME NEW s, IsStore(s), NEW k \in Keys,
         NEW a, a = AsRead(s)[k], NEW x, x = s[k]
  PROVE  /\ a.type = x.type /\ a.str = Cut(x.str)
         /\ a.list = [x.list EXCEPT !.data = [n \in Nodes |-> Cut(x.list.data[n])]]
         /\ a.fields = [f \in Fields |-> Cut(x.fields[f])]
         /\ a.scores = [x.scores EXCEPT !.value = [n \in Scores |-> Cut(x.scores.value[n])]]
<1> DEFINE Each(f) == [i \in DOMAIN f |-> Cut(f[i])]
<1>1. a = [x EXCEPT !.str = Cut(@), !.list.data = Each(@),
                    !.fields = Each(@), !.scores.value = Each(@)]
  BY Zenon DEF AsRead
<1>2. IsValue(x)
  BY DEF IsStore
<1>3. /\ DOMAIN x.list.data = Nodes /\ DOMAIN x.fields = Fields
      /\ DOMAIN x.scores.value = Scores
  BY <1>2, ChainedIs, TieredIs DEF IsValue, Chained, Tiered
<1>4. PICK d, f, v, c : /\ d = Each(x.list.data) /\ f = Each(x.fields)
                        /\ v = Each(x.scores.value) /\ c = Cut(x.str)
  OBVIOUS
<1>5. PICK l, z : l = [x.list EXCEPT !.data = d] /\ z = [x.scores EXCEPT !.value = v]
  OBVIOUS
<1>6. a = [x EXCEPT !.str = c, !.list = l, !.fields = f, !.scores = z]
  BY <1>1, <1>4, <1>5
<1>7. a.type = x.type /\ a.str = c /\ a.list = l /\ a.fields = f /\ a.scores = z
  BY <1>2, <1>6 DEF IsValue
<1>8. QED
  BY <1>3, <1>4, <1>5, <1>7

\* Clients see of t what they would see of s as it is read back.
LEMMA SameLooksTheSame ==
  ASSUME NEW s, NEW t, IsStore(s), IsStore(t), Same(s, t)
  PROVE  Visible(t) = Visible(AsRead(s))
<1> DEFINE Look(u, k) ==
      [type |-> u[k].type, get |-> Get(u, k), exists |-> Exists(u, k),
       llen |-> LLen(u, k), pops |-> List!Elements(u[k].list), zrange |-> ZRange(u, k),
       hget |-> [f \in Fields |-> IF HGet(u, k, f) = Dangling THEN None ELSE HGet(u, k, f)]]
<1>0. PICK r : r = AsRead(s)
  OBVIOUS
<1>1. ASSUME NEW k \in Keys PROVE Look(r, k) = Look(t, k)
  <2>0. PICK x, y, a : x = s[k] /\ y = t[k] /\ a = r[k]
    OBVIOUS
  <2>1. IsValue(x) /\ IsValue(y) /\ SameValue(x, y)
    BY <2>0 DEF IsStore, Same
  <2>2. /\ a.type = x.type /\ a.str = Cut(x.str)
        /\ a.list = [x.list EXCEPT !.data = [n \in Nodes |-> Cut(x.list.data[n])]]
        /\ a.fields = [f \in Fields |-> Cut(x.fields[f])]
        /\ a.scores = [x.scores EXCEPT !.value = [n \in Scores |-> Cut(x.scores.value[n])]]
    BY <1>0, <2>0, AsReadIs
  <2>3. a.list = y.list
    <3>1. x.list \in List!Lists(Stored) /\ y.list \in List!Lists(Stored)
      BY <2>1 DEF IsValue, Chained
    <3>2. PICK l, m : l = x.list /\ m = y.list
      OBVIOUS
    <3>3. ListRead(l, m)
      BY <2>1, <3>2 DEF SameValue
    <3>4. PICK d : d = [n \in Nodes |-> Cut(l.data[n])]
      OBVIOUS
    <3>5. m.data = d
      <4>1. m.data \in [Nodes -> Stored \cup {Junk}]
        BY <3>1, <3>2, ChainedIs
      <4>2. QED
        BY <3>3, <3>4, <4>1 DEF ListRead
    <3>6. [l EXCEPT !.data = d] = m
      <4>1. /\ l = [head |-> l.head, tail |-> l.tail, count |-> l.count, used |-> l.used,
                    data |-> l.data, next |-> l.next, prev |-> l.prev]
            /\ m = [head |-> m.head, tail |-> m.tail, count |-> m.count, used |-> m.used,
                    data |-> m.data, next |-> m.next, prev |-> m.prev]
        BY <3>1, <3>2, ChainedIs
      <4>2. QED
        BY <3>3, <3>5, <4>1 DEF ListRead
    <3>7. QED
      BY <2>2, <3>2, <3>4, <3>6
  <2>4. a.scores = y.scores
    <3>1. PICK l, m : l = x.scores /\ m = y.scores
      OBVIOUS
    <3>2. /\ l = Parts(l.rows, l.size, l.value) /\ m = Parts(m.rows, m.size, m.value)
          /\ m.value \in [Scores -> Stored \cup {None}]
      BY <2>1, <3>1, TieredIs DEF IsValue, Tiered, Parts
    <3>3. PICK v : v = [n \in Scores |-> Cut(l.value[n])]
      OBVIOUS
    <3>4. m.value = v /\ m.rows = l.rows /\ m.size = l.size
      BY <2>1, <3>1, <3>2, <3>3 DEF SameValue, SetRead
    <3>5. [l EXCEPT !.value = v] = m
      BY <3>2, <3>4 DEF Parts
    <3>6. QED
      BY <2>2, <3>1, <3>3, <3>5
  <2>5. a.type = y.type /\ a.str = y.str
    BY <2>1, <2>2 DEF SameValue
  <2>6. Get(r, k) = Get(t, k) /\ Exists(r, k) = Exists(t, k)
    BY <2>0, <2>5 DEF Get, Exists, IsFree, IsA
  <2>7. LLen(r, k) = LLen(t, k) /\ ZRange(r, k) = ZRange(t, k)
    BY <2>0, <2>3, <2>4, <2>5 DEF LLen, ZRange, IsA
  <2>8. List!Elements(r[k].list) = List!Elements(t[k].list)
    BY <2>0, <2>3
  <2>9. ASSUME NEW f \in Fields
        PROVE  (IF HGet(r, k, f) = Dangling THEN None ELSE HGet(r, k, f)) =
               (IF HGet(t, k, f) = Dangling THEN None ELSE HGet(t, k, f))
    <3>1. x.fields[f] \in Stored \cup {None, Dangling}
      BY <2>1 DEF IsValue
    <3>2. a.fields[f] = Cut(x.fields[f])
      BY <2>2
    <3>3. Field(y, f) = Cut(Field(x, f))
      BY <2>1 DEF SameValue
    <3>4. Field(a, f) = Field(y, f)
      BY <3>1, <3>2, <3>3, CutIs DEF Field
    <3>5. QED
      BY <2>0, <2>5, <3>4, CutIs DEF Field, HGet, IsA
  <2>10. [f \in Fields |-> IF HGet(r, k, f) = Dangling THEN None ELSE HGet(r, k, f)] =
         [f \in Fields |-> IF HGet(t, k, f) = Dangling THEN None ELSE HGet(t, k, f)]
    BY <2>9
  <2>11. QED
    BY <2>0, <2>5, <2>6, <2>7, <2>8, <2>10, Zenon
<1>2. Visible(r) = [k \in Keys |-> Look(r, k)] /\ Visible(t) = [k \in Keys |-> Look(t, k)]
  BY Zenon DEF Visible
<1> HIDE DEF Look
<1>3. QED
  BY <1>0, <1>1, <1>2

-----------------------------------------------------------------------------
(* The log.                                                                *)

\* Carrying out no line changes nothing.
LEMMA ReplayOfNone ==
  ASSUME NEW s PROVE Replay(s, <<>>) = s
<1> DEFINE Is(g) == g = [i \in 0 .. Len(<<>>) |->
                           IF i = 0 THEN s ELSE HandleCmdLine(g[i - 1], <<>>[i]).store]
<1>1. \E g : Is(g)
  <2>1. Is([i \in 0 .. 0 |-> s])
    OBVIOUS
  <2>2. QED
    BY <2>1
<1>2. Is(CHOOSE g : Is(g))
  BY <1>1
<1>3. (CHOOSE g : Is(g))[Len(<<>>)] = s
  BY <1>2
<1>4. QED
  BY <1>3, Zenon DEF Replay

\* Carrying out one line is what HandleCmdLine does.
LEMMA ReplayOfOne ==
  ASSUME NEW s, NEW line PROVE Replay(s, <<line>>) = HandleCmdLine(s, line).store
<1> DEFINE Is(g) == g = [i \in 0 .. Len(<<line>>) |->
                           IF i = 0 THEN s ELSE HandleCmdLine(g[i - 1], <<line>>[i]).store]
<1>1. \E g : Is(g)
  <2>1. Is([i \in 0 .. 1 |-> IF i = 0 THEN s ELSE HandleCmdLine(s, line).store])
    OBVIOUS
  <2>2. QED
    BY <2>1
<1>2. Is(CHOOSE g : Is(g))
  BY <1>1
<1> DEFINE after == CHOOSE g : Is(g)
<1>3. after = [i \in 0 .. 1 |-> IF i = 0 THEN s
                                ELSE HandleCmdLine(after[i - 1], <<line>>[i]).store]
  BY <1>2
<1>4. Replay(s, <<line>>) = after[Len(<<line>>)]
  BY Zenon DEF Replay
<1> HIDE DEF after
<1>5. after[0] = s
  BY <1>3
<1>6. after[1] = HandleCmdLine(after[0], line).store
  BY <1>3
<1>7. QED
  BY <1>4, <1>5, <1>6

-----------------------------------------------------------------------------
(* The commands.                                                           *)

\* A change of one key.
LEMMA ChangeOfOneKey ==
  ASSUME NEW s, NEW t, IsStore(s), IsStore(t), Same(s, t),
         NEW k \in Keys, NEW x, NEW y, IsValue(x), IsValue(y), SameValue(x, y)
  PROVE  /\ IsStore([s EXCEPT ![k] = x]) /\ IsStore([t EXCEPT ![k] = y])
         /\ Same([s EXCEPT ![k] = x], [t EXCEPT ![k] = y])
BY DEF IsStore, Same

\* What every command does to a key space that reads back as t: it is carried out and
\* logs a line that does the same to t, or it is refused and reads back as before.
Answers(r, t) ==
  /\ IsStore(r.store)
  /\ \/ \E line : /\ r.log = <<line>>
                  /\ IsStore(HandleCmdLine(t, line).store)
                  /\ Same(r.store, HandleCmdLine(t, line).store)
     \/ r.log = <<>> /\ Same(r.store, t)

\* A refused command that leaves the key space alone is an answer.
LEMMA RefusedAnswers ==
  ASSUME NEW s, NEW t, IsStore(s), Same(s, t) PROVE Answers(Refused(s), t)
BY DEF Refused, Answers

\* So is one that gives one key a value and logs a line that gives it the same.
LEMMA DoneAnswers ==
  ASSUME NEW s, NEW t, IsStore(s), IsStore(t), Same(s, t),
         NEW k \in Keys, NEW x, NEW y, IsValue(x), IsValue(y), SameValue(x, y),
         NEW line, HandleCmdLine(t, line).store = [t EXCEPT ![k] = y]
  PROVE  Answers(Done([s EXCEPT ![k] = x], <<line>>), t)
<1> DEFINE u == [s EXCEPT ![k] = x]
           w == [t EXCEPT ![k] = y]
<1>1. IsStore(u) /\ IsStore(w) /\ Same(u, w)
  BY ChangeOfOneKey
<1> HIDE DEF u, w
<1>2. IsStore(HandleCmdLine(t, line).store) /\ Same(u, HandleCmdLine(t, line).store)
  BY <1>1 DEF w
<1>3. Done(u, <<line>>) = [store |-> u, log |-> <<line>>]
  BY DEF Done
<1>4. Answers(Done(u, <<line>>), t)
  BY <1>1, <1>2, <1>3 DEF Answers
<1>5. QED
  BY <1>4 DEF u

\* A value without a part of any type, and one of a new object.
LEMMA NewIsValue ==
  /\ IsValue(Absent) /\ Absent.type = "NONE"
  /\ \A type \in Types : /\ IsValue(New(type)) /\ New(type).type = type
                         /\ New(type).list = List!EmptyList
<1>1. PICK l, z, f : /\ l = List!EmptyList /\ z = ZSet!EmptySkipList(Scores)
                     /\ f = [g \in Fields |-> None]
  OBVIOUS
<1>2. Chained(l) /\ Tiered(z)
  BY <1>1, EmptyIsChained, EmptyIsTiered
<1>3. f \in [Fields -> Stored \cup {None, Dangling}]
  BY <1>1
<1>4. PICK x : x = Absent
  OBVIOUS
<1>5. x = [type |-> "NONE", str |-> None, list |-> l, fields |-> f, scores |-> z]
  BY <1>1, <1>4 DEF Absent
<1>6. IsValue(x) /\ x.type = "NONE"
  BY <1>2, <1>3, <1>5 DEF IsValue, Types
<1>7. ASSUME NEW type \in Types
      PROVE IsValue(New(type)) /\ New(type).type = type /\ New(type).list = l
  <2>1. PICK y : y = New(type)
    OBVIOUS
  <2>2. y = [type |-> type, str |-> None, list |-> l, fields |-> f, scores |-> z]
    <3>1. y = [x EXCEPT !.type = type]
      BY <1>4, <2>1 DEF New
    <3>2. QED
      BY <1>5, <3>1
  <2>3. IsValue(y) /\ y.type = type /\ y.list = l
    BY <1>2, <1>3, <2>2 DEF IsValue
  <2>4. QED
    BY <2>1, <2>3
<1>8. QED
  BY <1>1, <1>4, <1>6, <1>7

\* One part of a value, and of what it reads back as, changes in the same way.
LEMMA PartChanges ==
  ASSUME NEW a, NEW b, IsValue(a), IsValue(b), SameValue(a, b)
  PROVE  /\ \A v \in Vals : LET x == [a EXCEPT !.str = v]
                               y == [b EXCEPT !.str = ReadBack(v)]
                           IN  IsValue(x) /\ IsValue(y) /\ SameValue(x, y)
         /\ \A m, p : Chained(m) /\ Chained(p) /\ ListRead(m, p) =>
              LET x == [a EXCEPT !.list = m]
                  y == [b EXCEPT !.list = p]
              IN  IsValue(x) /\ IsValue(y) /\ SameValue(x, y)
         /\ \A m, p : Tiered(m) /\ Tiered(p) /\ SetRead(m, p) =>
              LET x == [a EXCEPT !.scores = m]
                  y == [b EXCEPT !.scores = p]
              IN  IsValue(x) /\ IsValue(y) /\ SameValue(x, y)
<1>1. ASSUME NEW v \in Vals, NEW w, w = ReadBack(v), NEW x, NEW y,
             x = [a EXCEPT !.str = v], y = [b EXCEPT !.str = w]
      PROVE  IsValue(x) /\ IsValue(y) /\ SameValue(x, y)
  <2>1. v \in Stored /\ w \in Stored /\ w = Cut(v)
    BY <1>1, CutIs
  <2>2. QED
    BY <1>1, <2>1 DEF IsValue, SameValue, Field
<1>2. ASSUME NEW m, NEW p, Chained(m), Chained(p), ListRead(m, p), NEW x, NEW y,
             x = [a EXCEPT !.list = m], y = [b EXCEPT !.list = p]
      PROVE  IsValue(x) /\ IsValue(y) /\ SameValue(x, y)
  BY <1>2 DEF IsValue, SameValue, Field
<1>3. ASSUME NEW m, NEW p, Tiered(m), Tiered(p), SetRead(m, p), NEW x, NEW y,
             x = [a EXCEPT !.scores = m], y = [b EXCEPT !.scores = p]
      PROVE  IsValue(x) /\ IsValue(y) /\ SameValue(x, y)
  BY <1>3 DEF IsValue, SameValue, Field
<1>4. QED
  BY <1>1, <1>2, <1>3, Zenon

\* A new value reads back as itself.
LEMMA NewReadsBack ==
  SameValue(Absent, Absent) /\ \A type \in Types : SameValue(New(type), New(type))
<1>1. ASSUME NEW type \in Types, NEW x,
             x = [type |-> type, str |-> None, list |-> List!EmptyList,
                  fields |-> [f \in Fields |-> None], scores |-> ZSet!EmptySkipList(Scores)]
      PROVE  SameValue(x, x)
  <2>1. ListRead(x.list, x.list)
    BY <1>1, CutIs DEF ListRead, List!EmptyList
  <2>2. SetRead(x.scores, x.scores)
    BY <1>1, CutIs DEF SetRead, ZSet!EmptySkipList
  <2>3. QED
    BY <1>1, <2>1, <2>2, CutIs DEF SameValue, Field
<1>2. SameValue(Absent, Absent)
  BY <1>1, Zenon DEF Absent, Types
<1>3. ASSUME NEW type \in Types PROVE SameValue(New(type), New(type))
  <2>1. New(type) = [type |-> type, str |-> None, list |-> List!EmptyList,
                     fields |-> [f \in Fields |-> None], scores |-> ZSet!EmptySkipList(Scores)]
    BY DEF New, Absent
  <2>2. QED
    BY <1>1, <2>1, Zenon
<1>4. QED
  BY <1>2, <1>3

\* The value that a push, HSET or ZADD works on, and the one its line works on.
LEMMA ValuesFor ==
  ASSUME NEW s, NEW t, IsStore(s), IsStore(t), Same(s, t), NEW k \in Keys, NEW type \in Types
  PROVE  LET a == ValueFor(s, k, type)
             b == ValueFor(t, k, type)
         IN  IsValue(a) /\ IsValue(b) /\ SameValue(a, b)
<1>1. CASE IsFree(s, k)
  BY <1>1, NewIsValue, NewReadsBack DEF ValueFor, IsFree, IsA, Same, SameValue
<1>2. CASE ~IsFree(s, k)
  BY <1>2 DEF ValueFor, IsFree, IsA, IsStore, Same, SameValue
<1>3. QED
  BY <1>1, <1>2

\* Both key spaces find a key with the same type.
LEMMA SameTypes ==
  ASSUME NEW s, NEW t, Same(s, t), NEW k \in Keys
  PROVE  /\ IsFree(s, k) <=> IsFree(t, k)
         /\ \A type : IsA(s, k, type) <=> IsA(t, k, type)
BY DEF Same, SameValue, IsFree, IsA

\* Where the key's list has room for a node, the list a push works on has.
LEMMA RoomForOne ==
  ASSUME NEW s, IsStore(s), NEW k \in Keys, s[k].list.used # Nodes,
         NEW a, a = ValueFor(s, k, "LIST"), IsValue(a)
  PROVE  Chained(a.list) /\ a.list.used # Nodes
<1>1. Chained(s[k].list) /\ Chained(a.list)
  BY DEF IsStore, IsValue
<1>2. s[k].list.used \subseteq Nodes
  BY <1>1, ChainedIs DEF Chained
<1>3. CASE IsFree(s, k)
  <2>1. a.list = List!EmptyList
    BY <1>3, NewIsValue DEF ValueFor, Types
  <2>2. a.list.used = {}
    BY <2>1 DEF List!EmptyList
  <2>3. QED
    BY <1>1, <1>2, <2>2
<1>4. CASE ~ IsFree(s, k)
  BY <1>1, <1>4 DEF ValueFor
<1>5. QED
  BY <1>3, <1>4

\* The commands, one by one: what each leaves, and what replaying its line leaves.
LEMMA UpdateAnswers ==
  ASSUME NEW s, NEW t, IsStore(s), IsStore(t), Same(s, t), NEW k \in Keys, NEW v \in Vals
  PROVE  Answers(UpdateKV(s, k, v), t)
<1>1. CASE IsFree(s, k)
  BY <1>1, RefusedAnswers DEF UpdateKV
<1>2. CASE ~IsFree(s, k)
  <2> DEFINE line == [cmd |-> "UPD", key |-> k, val |-> v]
             x == [s[k] EXCEPT !.str = v]
             y == [t[k] EXCEPT !.str = ReadBack(v)]
  <2>1. IsValue(x) /\ IsValue(y) /\ SameValue(x, y)
    BY PartChanges, Zenon DEF IsStore, Same
  <2>2. HandleCmdLine(t, line) = UpdateKV(t, k, ReadBack(v))
    BY DEF HandleCmdLine
  <2>3. UpdateKV(t, k, ReadBack(v)).store = [t EXCEPT ![k] = y]
    BY <1>2, SameTypes DEF UpdateKV, Done
  <2>4. UpdateKV(s, k, v) = Done([s EXCEPT ![k] = x], <<line>>)
    BY <1>2 DEF UpdateKV
  <2> HIDE DEF line, x, y
  <2>5. HandleCmdLine(t, line).store = [t EXCEPT ![k] = y]
    BY <2>2, <2>3
  <2>6. QED
    BY <2>1, <2>4, <2>5, DoneAnswers
<1>3. QED
  BY <1>1, <1>2

LEMMA RemoveAnswers ==
  ASSUME NEW s, NEW t, IsStore(s), IsStore(t), Same(s, t), NEW k \in Keys
  PROVE  Answers(RemoveKV(s, k), t)
<1>1. CASE IsFree(s, k)
  BY <1>1, RefusedAnswers DEF RemoveKV
<1>2. CASE ~(IsFree(s, k))
  <2> DEFINE line == [cmd |-> "DEL", key |-> k, val |-> None]
             x == Absent
             y == Absent
  <2>1. IsValue(x) /\ IsValue(y) /\ SameValue(x, y)
    BY NewIsValue, NewReadsBack
  <2>2. HandleCmdLine(t, line) = RemoveKV(t, k)
    BY DEF HandleCmdLine
  <2>3. RemoveKV(t, k).store = [t EXCEPT ![k] = y]
    BY <1>2, SameTypes DEF RemoveKV, Done
  <2>4. RemoveKV(s, k) = Done([s EXCEPT ![k] = x], <<line>>)
    BY <1>2 DEF RemoveKV
  <2> HIDE DEF line, x, y
  <2>5. HandleCmdLine(t, line).store = [t EXCEPT ![k] = y]
    BY <2>2, <2>3
  <2>6. QED
    BY <2>1, <2>4, <2>5, DoneAnswers
<1>3. QED
  BY <1>1, <1>2

LEMMA PushLeftAnswers ==
  ASSUME NEW s, NEW t, IsStore(s), IsStore(t), Same(s, t), NEW k \in Keys,
         NEW v \in Vals, s[k].list.used # Nodes
  PROVE  Answers(ListPushLeft(s, k, v), t)
<1>1. CASE ~IsA(s, k, "LIST") /\ ~IsFree(s, k)
  BY <1>1, RefusedAnswers DEF ListPushLeft
<1>2. CASE ~(~IsA(s, k, "LIST") /\ ~IsFree(s, k))
  <2> DEFINE line == [cmd |-> "LPUSH", key |-> k, val |-> v]
             x == [ValueFor(s, k, "LIST") EXCEPT !.list = List!LPush(@, v)]
             y == [ValueFor(t, k, "LIST") EXCEPT !.list = List!LPush(@, ReadBack(v))]
  <2>1. IsValue(x) /\ IsValue(y) /\ SameValue(x, y)
    <3>1. PICK a, b : a = ValueFor(s, k, "LIST") /\ b = ValueFor(t, k, "LIST")
      OBVIOUS
    <3>2. IsValue(a) /\ IsValue(b) /\ SameValue(a, b)
      BY <3>1, ValuesFor DEF Types
    <3>3. /\ Chained(a.list) /\ a.list.used # Nodes
          /\ Chained(b.list) /\ b.list.used # Nodes /\ ListRead(a.list, b.list)
      BY <1>2, <3>1, <3>2, RoomForOne DEF IsValue, SameValue, ListRead
    <3>4. PICK m, p : m = List!LPush(a.list, v) /\ p = List!LPush(b.list, ReadBack(v))
      OBVIOUS
    <3>5. Chained(m) /\ Chained(p) /\ ListRead(m, p)
      BY <3>3, <3>4, LPushIsChained, PushesRead, CutIs
    <3>6. PICK c, d : c = [a EXCEPT !.list = m] /\ d = [b EXCEPT !.list = p]
      OBVIOUS
    <3>7. IsValue(c) /\ IsValue(d) /\ SameValue(c, d)
      BY <3>2, <3>5, <3>6, PartChanges, Zenon
    <3>8. x = c /\ y = d
      BY <3>1, <3>4, <3>6
    <3>9. QED
      BY <3>7, <3>8
  <2>2. HandleCmdLine(t, line) = ListPushLeft(t, k, ReadBack(v))
    BY DEF HandleCmdLine
  <2>3. ListPushLeft(t, k, ReadBack(v)).store = [t EXCEPT ![k] = y]
    BY <1>2, SameTypes DEF ListPushLeft, Done
  <2>4. ListPushLeft(s, k, v) = Done([s EXCEPT ![k] = x], <<line>>)
    BY <1>2 DEF ListPushLeft
  <2> HIDE DEF line, x, y
  <2>5. HandleCmdLine(t, line).store = [t EXCEPT ![k] = y]
    BY <2>2, <2>3
  <2>6. QED
    BY <2>1, <2>4, <2>5, DoneAnswers
<1>3. QED
  BY <1>1, <1>2

LEMMA PushRightAnswers ==
  ASSUME NEW s, NEW t, IsStore(s), IsStore(t), Same(s, t), NEW k \in Keys,
         NEW v \in Vals, s[k].list.used # Nodes
  PROVE  Answers(ListPushRight(s, k, v), t)
<1>1. CASE ~IsA(s, k, "LIST") /\ ~IsFree(s, k)
  BY <1>1, RefusedAnswers DEF ListPushRight
<1>2. CASE ~(~IsA(s, k, "LIST") /\ ~IsFree(s, k))
  <2> DEFINE line == [cmd |-> "RPUSH", key |-> k, val |-> v]
             x == [ValueFor(s, k, "LIST") EXCEPT !.list = List!RPush(@, v)]
             y == [ValueFor(t, k, "LIST") EXCEPT !.list = List!RPush(@, ReadBack(v))]
  <2>1. IsValue(x) /\ IsValue(y) /\ SameValue(x, y)
    <3>1. PICK a, b : a = ValueFor(s, k, "LIST") /\ b = ValueFor(t, k, "LIST")
      OBVIOUS
    <3>2. IsValue(a) /\ IsValue(b) /\ SameValue(a, b)
      BY <3>1, ValuesFor DEF Types
    <3>3. /\ Chained(a.list) /\ a.list.used # Nodes
          /\ Chained(b.list) /\ b.list.used # Nodes /\ ListRead(a.list, b.list)
      BY <1>2, <3>1, <3>2, RoomForOne DEF IsValue, SameValue, ListRead
    <3>4. PICK m, p : m = List!RPush(a.list, v) /\ p = List!RPush(b.list, ReadBack(v))
      OBVIOUS
    <3>5. Chained(m) /\ Chained(p) /\ ListRead(m, p)
      BY <3>3, <3>4, RPushIsChained, PushesRead, CutIs
    <3>6. PICK c, d : c = [a EXCEPT !.list = m] /\ d = [b EXCEPT !.list = p]
      OBVIOUS
    <3>7. IsValue(c) /\ IsValue(d) /\ SameValue(c, d)
      BY <3>2, <3>5, <3>6, PartChanges, Zenon
    <3>8. x = c /\ y = d
      BY <3>1, <3>4, <3>6
    <3>9. QED
      BY <3>7, <3>8
  <2>2. HandleCmdLine(t, line) = ListPushRight(t, k, ReadBack(v))
    BY DEF HandleCmdLine
  <2>3. ListPushRight(t, k, ReadBack(v)).store = [t EXCEPT ![k] = y]
    BY <1>2, SameTypes DEF ListPushRight, Done
  <2>4. ListPushRight(s, k, v) = Done([s EXCEPT ![k] = x], <<line>>)
    BY <1>2 DEF ListPushRight
  <2> HIDE DEF line, x, y
  <2>5. HandleCmdLine(t, line).store = [t EXCEPT ![k] = y]
    BY <2>2, <2>3
  <2>6. QED
    BY <2>1, <2>4, <2>5, DoneAnswers
<1>3. QED
  BY <1>1, <1>2

LEMMA PopLeftAnswers ==
  ASSUME NEW s, NEW t, IsStore(s), IsStore(t), Same(s, t), NEW k \in Keys
  PROVE  Answers(ListPopLeft(s, k), t)
<1>1. CASE ~IsA(s, k, "LIST") \/ s[k].list.count = 0
  BY <1>1, RefusedAnswers DEF ListPopLeft
<1>2. CASE ~(~IsA(s, k, "LIST") \/ s[k].list.count = 0)
  <2> DEFINE line == [cmd |-> "LPOP", key |-> k, val |-> None]
             x == [s[k] EXCEPT !.list = List!LPop(@)]
             y == [t[k] EXCEPT !.list = List!LPop(@)]
  <2>1. IsValue(x) /\ IsValue(y) /\ SameValue(x, y)
    <3>1. IsValue(s[k]) /\ IsValue(t[k]) /\ SameValue(s[k], t[k])
      BY DEF IsStore, Same
    <3>2. /\ Chained(s[k].list) /\ s[k].list.count # 0
          /\ Chained(t[k].list) /\ t[k].list.count # 0 /\ ListRead(s[k].list, t[k].list)
      BY <1>2, <3>1 DEF IsValue, SameValue, ListRead
    <3>3. PICK m, p : m = List!LPop(s[k].list) /\ p = List!LPop(t[k].list)
      OBVIOUS
    <3>4. Chained(m) /\ Chained(p) /\ ListRead(m, p)
      BY <3>2, <3>3, LPopIsChained, PopsRead
    <3>5. x = [s[k] EXCEPT !.list = m] /\ y = [t[k] EXCEPT !.list = p]
      BY <3>3
    <3>6. QED
      BY <3>1, <3>4, <3>5, PartChanges, Zenon
  <2>2. HandleCmdLine(t, line) = ListPopLeft(t, k)
    BY DEF HandleCmdLine
  <2>3. ListPopLeft(t, k).store = [t EXCEPT ![k] = y]
    <3>1. IsA(t, k, "LIST") /\ t[k].list.count # 0
      BY <1>2, SameTypes DEF Same, SameValue, ListRead
    <3>2. QED
      BY <3>1 DEF ListPopLeft, Done
  <2>4. ListPopLeft(s, k) = Done([s EXCEPT ![k] = x], <<line>>)
    BY <1>2 DEF ListPopLeft
  <2> HIDE DEF line, x, y
  <2>5. HandleCmdLine(t, line).store = [t EXCEPT ![k] = y]
    BY <2>2, <2>3
  <2>6. QED
    BY <2>1, <2>4, <2>5, DoneAnswers
<1>3. QED
  BY <1>1, <1>2

LEMMA PopRightAnswers ==
  ASSUME NEW s, NEW t, IsStore(s), IsStore(t), Same(s, t), NEW k \in Keys
  PROVE  Answers(ListPopRight(s, k), t)
<1>1. CASE ~IsA(s, k, "LIST") \/ s[k].list.count = 0
  BY <1>1, RefusedAnswers DEF ListPopRight
<1>2. CASE ~(~IsA(s, k, "LIST") \/ s[k].list.count = 0)
  <2> DEFINE line == [cmd |-> "RPOP", key |-> k, val |-> None]
             x == [s[k] EXCEPT !.list = List!RPop(@)]
             y == [t[k] EXCEPT !.list = List!RPop(@)]
  <2>1. IsValue(x) /\ IsValue(y) /\ SameValue(x, y)
    <3>1. IsValue(s[k]) /\ IsValue(t[k]) /\ SameValue(s[k], t[k])
      BY DEF IsStore, Same
    <3>2. /\ Chained(s[k].list) /\ s[k].list.count # 0
          /\ Chained(t[k].list) /\ t[k].list.count # 0 /\ ListRead(s[k].list, t[k].list)
      BY <1>2, <3>1 DEF IsValue, SameValue, ListRead
    <3>3. PICK m, p : m = List!RPop(s[k].list) /\ p = List!RPop(t[k].list)
      OBVIOUS
    <3>4. Chained(m) /\ Chained(p) /\ ListRead(m, p)
      BY <3>2, <3>3, RPopIsChained, PopsRead
    <3>5. x = [s[k] EXCEPT !.list = m] /\ y = [t[k] EXCEPT !.list = p]
      BY <3>3
    <3>6. QED
      BY <3>1, <3>4, <3>5, PartChanges, Zenon
  <2>2. HandleCmdLine(t, line) = ListPopRight(t, k)
    BY DEF HandleCmdLine
  <2>3. ListPopRight(t, k).store = [t EXCEPT ![k] = y]
    <3>1. IsA(t, k, "LIST") /\ t[k].list.count # 0
      BY <1>2, SameTypes DEF Same, SameValue, ListRead
    <3>2. QED
      BY <3>1 DEF ListPopRight, Done
  <2>4. ListPopRight(s, k) = Done([s EXCEPT ![k] = x], <<line>>)
    BY <1>2 DEF ListPopRight
  <2> HIDE DEF line, x, y
  <2>5. HandleCmdLine(t, line).store = [t EXCEPT ![k] = y]
    BY <2>2, <2>3
  <2>6. QED
    BY <2>1, <2>4, <2>5, DoneAnswers
<1>3. QED
  BY <1>1, <1>2

LEMMA ZSetAddAnswers ==
  ASSUME NEW s, NEW t, IsStore(s), IsStore(t), Same(s, t), NEW k \in Keys,
         NEW n \in Scores, NEW v \in Vals, NEW up \in 0 .. MaxLevel - 1
  PROVE  Answers(ZSetAdd(s, k, n, v, up), t)
<1>1. CASE ~IsA(s, k, "ZSET") /\ ~IsFree(s, k)
  BY <1>1, RefusedAnswers DEF ZSetAdd
<1>2. CASE ~(~IsA(s, k, "ZSET") /\ ~IsFree(s, k))
  <2> DEFINE line == [cmd |-> "ZADD", key |-> k, score |-> n, val |-> v, up |-> up]
             x == [ValueFor(s, k, "ZSET") EXCEPT !.scores = ZSet!InsertNode(@, n, v, up)]
             y == [ValueFor(t, k, "ZSET") EXCEPT !.scores = ZSet!InsertNode(@, n, ReadBack(v), up)]
  <2>1. IsValue(x) /\ IsValue(y) /\ SameValue(x, y)
    <3>1. PICK a, b : a = ValueFor(s, k, "ZSET") /\ b = ValueFor(t, k, "ZSET")
      OBVIOUS
    <3>2. IsValue(a) /\ IsValue(b) /\ SameValue(a, b)
      BY <3>1, ValuesFor DEF Types
    <3>3. PICK m, p : /\ m = ZSet!InsertNode(a.scores, n, v, up)
                      /\ p = ZSet!InsertNode(b.scores, n, ReadBack(v), up)
      OBVIOUS
    <3>4. Tiered(m) /\ Tiered(p) /\ SetRead(m, p)
      BY <3>2, <3>3, InsertIsTiered, InsertRead, CutIs DEF IsValue, SameValue
    <3>5. PICK c, d : c = [a EXCEPT !.scores = m] /\ d = [b EXCEPT !.scores = p]
      OBVIOUS
    <3>6. IsValue(c) /\ IsValue(d) /\ SameValue(c, d)
      BY <3>2, <3>4, <3>5, PartChanges, Zenon
    <3>7. x = c /\ y = d
      BY <3>1, <3>3, <3>5
    <3>8. QED
      BY <3>6, <3>7
  <2>2. HandleCmdLine(t, line) = ZSetAdd(t, k, n, ReadBack(v), up)
    BY DEF HandleCmdLine
  <2>3. ZSetAdd(t, k, n, ReadBack(v), up).store = [t EXCEPT ![k] = y]
    BY <1>2, SameTypes DEF ZSetAdd, Done
  <2>4. ZSetAdd(s, k, n, v, up) = Done([s EXCEPT ![k] = x], <<line>>)
    BY <1>2 DEF ZSetAdd
  <2> HIDE DEF line, x, y
  <2>5. HandleCmdLine(t, line).store = [t EXCEPT ![k] = y]
    BY <2>2, <2>3
  <2>6. QED
    BY <2>1, <2>4, <2>5, DoneAnswers
<1>3. QED
  BY <1>1, <1>2

\* SET, which logs the command it turned out to be.
LEMMA InsertAnswers ==
  ASSUME NEW s, NEW t, IsStore(s), IsStore(t), Same(s, t), NEW k \in Keys, NEW v \in Vals
  PROVE  Answers(InsertKV(s, k, v), t)
<1>1. CASE IsA(s, k, "STR")
  <2>1. InsertKV(s, k, v) = UpdateKV(s, k, v)
    BY <1>1 DEF InsertKV
  <2>2. QED
    BY <2>1, UpdateAnswers
<1>2. CASE ~IsA(s, k, "STR") /\ ~IsFree(s, k)
  BY <1>2, RefusedAnswers DEF InsertKV
<1>3. CASE IsFree(s, k)
  <2> DEFINE line == [cmd |-> "ADD", key |-> k, val |-> v]
             x == [New("STR") EXCEPT !.str = v]
             y == [New("STR") EXCEPT !.str = ReadBack(v)]
  <2>1. IsValue(x) /\ IsValue(y) /\ SameValue(x, y)
    <3>1. IsValue(New("STR")) /\ SameValue(New("STR"), New("STR"))
      BY NewIsValue, NewReadsBack DEF Types
    <3>2. QED
      BY <3>1, PartChanges, Zenon
  <2>2. ~IsA(s, k, "STR") /\ ~IsA(t, k, "STR") /\ IsFree(t, k)
    BY <1>3, SameTypes DEF IsFree, IsA
  <2>3. HandleCmdLine(t, line) = InsertKV(t, k, ReadBack(v))
    BY DEF HandleCmdLine
  <2>4. /\ InsertKV(t, k, ReadBack(v)).store = [t EXCEPT ![k] = y]
        /\ InsertKV(s, k, v) = Done([s EXCEPT ![k] = x], <<line>>)
    BY <1>3, <2>2 DEF InsertKV, Done
  <2> HIDE DEF line, x, y
  <2>5. HandleCmdLine(t, line).store = [t EXCEPT ![k] = y]
    BY <2>3, <2>4
  <2>6. QED
    BY <2>1, <2>4, <2>5, DoneAnswers
<1>4. QED
  BY <1>1, <1>2, <1>3

\* A value whose map has got a field.
LEMMA FieldOfValue ==
  ASSUME NEW y, IsValue(y), NEW f \in Fields, NEW v \in Stored \cup {None, Dangling}
  PROVE  LET x == [y EXCEPT !.fields[f] = v]
         IN  /\ IsValue(x)
             /\ x.type = y.type /\ x.str = y.str /\ x.list = y.list /\ x.scores = y.scores
             /\ x.fields[f] = v
             /\ \A g \in Fields : g # f => x.fields[g] = y.fields[g]
<1> DEFINE m == [y.fields EXCEPT ![f] = v]
           x == [y EXCEPT !.fields = m]
<1>1. y.fields \in [Fields -> Stored \cup {None, Dangling}]
  BY DEF IsValue
<1>2. /\ m \in [Fields -> Stored \cup {None, Dangling}] /\ m[f] = v
      /\ \A g \in Fields : g # f => m[g] = y.fields[g]
  BY <1>1
<1>3. [y EXCEPT !.fields[f] = v] = x
  OBVIOUS
<1> HIDE DEF m
<1>4. x = [type |-> y.type, str |-> y.str, list |-> y.list, fields |-> m,
           scores |-> y.scores]
  BY DEF IsValue
<1> HIDE DEF x
<1>5. /\ x.type = y.type /\ x.str = y.str /\ x.list = y.list /\ x.scores = y.scores
      /\ x.fields = m
  BY <1>4
<1>6. IsValue(x)
  BY <1>2, <1>4, <1>5 DEF IsValue
<1>7. QED
  BY <1>2, <1>3, <1>5, <1>6, Zenon

\* HSET.  On a map that is there the command is refused, and leaves a field that was
\* none as one that was freed.
LEMMA HashSetAnswers ==
  ASSUME NEW s, NEW t, IsStore(s), IsStore(t), Same(s, t),
         NEW k \in Keys, NEW f \in Fields, NEW v \in Vals
  PROVE  Answers(HashSet(s, k, f, v), t)
<1>1. CASE IsFree(s, k)
  <2> DEFINE line == [cmd |-> "HSET", key |-> k, field |-> f, val |-> v]
             x == [New("HASH") EXCEPT !.fields[f] = v]
             y == [New("HASH") EXCEPT !.fields[f] = ReadBack(v)]
  <2>1. IsValue(x) /\ IsValue(y) /\ SameValue(x, y)
    <3>1. PICK z : z = New("HASH")
      OBVIOUS
    <3>2. IsValue(z) /\ SameValue(z, z)
      BY <3>1, NewIsValue, NewReadsBack DEF Types
    <3>3. PICK w : w = ReadBack(v) /\ w = Cut(v) /\ v \in Stored /\ w \in Stored
      BY CutIs
    <3>4. PICK a, b : a = [z EXCEPT !.fields[f] = v] /\ b = [z EXCEPT !.fields[f] = w]
      OBVIOUS
    <3>5. /\ IsValue(a) /\ a.type = z.type /\ a.str = z.str /\ a.list = z.list
          /\ a.scores = z.scores /\ a.fields[f] = v
          /\ \A g \in Fields : g # f => a.fields[g] = z.fields[g]
      BY <3>2, <3>3, <3>4, FieldOfValue
    <3>6. /\ IsValue(b) /\ b.type = z.type /\ b.str = z.str /\ b.list = z.list
          /\ b.scores = z.scores /\ b.fields[f] = w
          /\ \A g \in Fields : g # f => b.fields[g] = z.fields[g]
      BY <3>2, <3>3, <3>4, FieldOfValue
    <3>7. \A g \in Fields : Field(b, g) = Cut(Field(a, g))
      BY <3>2, <3>3, <3>5, <3>6, CutIs DEF SameValue, Field
    <3>8. SameValue(a, b)
      BY <3>2, <3>5, <3>6, <3>7 DEF SameValue
    <3>9. QED
      BY <3>1, <3>3, <3>4, <3>5, <3>6, <3>8
  <2>2. HandleCmdLine(t, line) = HashSet(t, k, f, ReadBack(v))
    BY DEF HandleCmdLine
  <2>3. /\ HashSet(t, k, f, ReadBack(v)).store = [t EXCEPT ![k] = y]
        /\ HashSet(s, k, f, v) = Done([s EXCEPT ![k] = x], <<line>>)
    BY <1>1, SameTypes DEF HashSet, Done
  <2> HIDE DEF line, x, y
  <2>4. HandleCmdLine(t, line).store = [t EXCEPT ![k] = y]
    BY <2>2, <2>3
  <2>5. QED
    BY <2>1, <2>3, <2>4, DoneAnswers
<1>2. CASE ~IsFree(s, k) /\ IsA(s, k, "HASH") /\ s[k].fields[f] = None
  <2> DEFINE x == [s[k] EXCEPT !.fields[f] = Dangling]
             u == [s EXCEPT ![k] = x]
  <2>1. HashSet(s, k, f, v) = Refused(u)
    BY <1>2 DEF HashSet
  <2>2. IsValue(x) /\ SameValue(x, t[k])
    <3>1. IsValue(s[k]) /\ SameValue(s[k], t[k])
      BY DEF IsStore, Same
    <3>2. QED
      BY <1>2, <3>1, FieldOfValue DEF SameValue, Field
  <2> HIDE DEF x
  <2>3. IsStore(u) /\ Same(u, t)
    BY <2>2 DEF IsStore, Same
  <2> HIDE DEF u
  <2>4. QED
    BY <2>1, <2>3 DEF Refused, Answers
<1>3. CASE ~IsFree(s, k) /\ ~(IsA(s, k, "HASH") /\ s[k].fields[f] = None)
  BY <1>3, RefusedAnswers DEF HashSet
<1>4. QED
  BY <1>1, <1>2, <1>3

-----------------------------------------------------------------------------
(* The steps.                                                              *)

\* After a restart both key spaces are what was read back.
LEMMA RestartStep ==
  ASSUME Restart, IInv PROVE IInv'
<1>1. store' = shadow /\ shadow' = shadow
  BY DEF Restart
<1>2. IsStore(store') /\ IsStore(shadow') /\ Same(store', shadow')
  BY <1>1, SameAgain DEF IInv
<1>3. QED
  BY <1>2, Zenon DEF IInv

\* A command that answers keeps the invariant, and so does one whose line is too long.
LEMMA CommandStep ==
  ASSUME NEW r, Answers(r, shadow), Command(r), IInv
  PROVE  IInv'
<1>1. CASE Restart
  BY <1>1, RestartStep
<1>2. CASE store' = r.store /\ shadow' = Replay(shadow, r.log)
  <2>1. CASE r.log = <<>> /\ Same(r.store, shadow)
    <3>1. shadow' = shadow
      BY <1>2, <2>1, ReplayOfNone
    <3>2. IsStore(store') /\ IsStore(shadow') /\ Same(store', shadow')
      BY <1>2, <2>1, <3>1 DEF IInv, Answers
    <3>3. QED
      BY <3>2, Zenon DEF IInv
  <2>2. CASE \E line : /\ r.log = <<line>>
                       /\ IsStore(HandleCmdLine(shadow, line).store)
                       /\ Same(r.store, HandleCmdLine(shadow, line).store)
    <3>1. PICK line : /\ r.log = <<line>>
                      /\ IsStore(HandleCmdLine(shadow, line).store)
                      /\ Same(r.store, HandleCmdLine(shadow, line).store)
      BY <2>2
    <3>2. shadow' = HandleCmdLine(shadow, line).store
      BY <1>2, <3>1, ReplayOfOne
    <3>3. IsStore(store') /\ IsStore(shadow') /\ Same(store', shadow')
      BY <1>2, <3>1, <3>2 DEF Answers
    <3>4. QED
      BY <3>3, Zenon DEF IInv
  <2>3. QED
    BY <2>1, <2>2 DEF Answers
<1>3. QED
  BY <1>1, <1>2, Zenon DEF Command

\* So do the steps that change both key spaces without a log, and those that change
\* none.
LEMMA TurnStep ==
  ASSUME UpdateDB, IInv PROVE IInv'
<1> DEFINE gone == {k \in PopDue(expires, now).keys : ~IsFree(store, k)}
<1>1. /\ store' = [k \in Keys |-> IF k \in gone THEN Absent ELSE store[k]]
      /\ shadow' = [k \in Keys |-> IF k \in gone
                                   THEN RemoveKV(shadow, k).store[k] ELSE shadow[k]]
  BY Zenon DEF UpdateDB
<1>2. ASSUME NEW k \in Keys, k \in gone PROVE RemoveKV(shadow, k).store[k] = Absent
  <2>1. ~IsFree(shadow, k)
    BY <1>2, SameTypes DEF IInv
  <2>2. RemoveKV(shadow, k).store = [shadow EXCEPT ![k] = Absent]
    BY <2>1 DEF RemoveKV, Done
  <2>3. QED
    BY <2>2 DEF IInv, IsStore
<1> HIDE DEF gone
<1>3. /\ \A k \in Keys : store'[k] = IF k \in gone THEN Absent ELSE store[k]
      /\ \A k \in Keys : shadow'[k] = IF k \in gone THEN Absent ELSE shadow[k]
  BY <1>1, <1>2
<1>4. store' = [k \in Keys |-> store'[k]] /\ shadow' = [k \in Keys |-> shadow'[k]]
  BY <1>1
<1>5. \A k \in Keys : IsValue(store'[k]) /\ IsValue(shadow'[k])
  BY <1>3, NewIsValue DEF IInv, IsStore
<1>6. \A k \in Keys : SameValue(store'[k], shadow'[k])
  BY <1>3, NewReadsBack DEF IInv, Same
<1>7. IsStore(store') /\ IsStore(shadow') /\ Same(store', shadow')
  BY <1>4, <1>5, <1>6 DEF IsStore, Same
<1>8. QED
  BY <1>7, Zenon DEF IInv

\* The empty key space is what reading no line builds.
LEMMA Initially ==
  ASSUME Init PROVE IInv
<1>1. store = [k \in Keys |-> Absent] /\ shadow = store
  BY DEF Init
<1>2. IsStore(store) /\ IsStore(shadow)
  BY <1>1, NewIsValue DEF IsStore
<1>3. Same(store, shadow)
  BY <1>1, NewReadsBack DEF Same
<1>4. QED
  BY <1>2, <1>3 DEF IInv

\* Every action keeps the invariant.
LEMMA EveryStep ==
  ASSUME IInv, [Next]_vars PROVE IInv'
<1>1. IsStore(store) /\ IsStore(shadow) /\ Same(store, shadow)
  BY DEF IInv
<1>2. CASE \E k \in Keys : Remove(k) \/ \E v \in Vals : Set(k, v)
  <2>1. PICK k \in Keys : Remove(k) \/ \E v \in Vals : Set(k, v)
    BY <1>2
  <2>2. CASE Remove(k)
    BY <1>1, <2>2, RemoveAnswers, CommandStep DEF Remove
  <2>3. CASE \E v \in Vals : Set(k, v)
    BY <1>1, <2>3, InsertAnswers, CommandStep DEF Set
  <2>4. QED
    BY <2>1, <2>2, <2>3
<1>3. CASE \E k \in Mixed : LPop(k) \/ RPop(k)
  <2>1. PICK k \in Keys : LPop(k) \/ RPop(k)
    BY <1>3, DataSpaceAssumption
  <2>2. CASE LPop(k)
    BY <1>1, <2>2, PopLeftAnswers, CommandStep DEF LPop
  <2>3. CASE RPop(k)
    BY <1>1, <2>3, PopRightAnswers, CommandStep DEF RPop
  <2>4. QED
    BY <2>1, <2>2, <2>3
<1>4. CASE \E k \in Mixed, v \in Vals : LPush(k, v) \/ RPush(k, v)
  <2>1. PICK k \in Keys, v \in Vals : LPush(k, v) \/ RPush(k, v)
    BY <1>4, DataSpaceAssumption
  <2>2. CASE LPush(k, v)
    BY <1>1, <2>2, PushLeftAnswers, CommandStep DEF LPush
  <2>3. CASE RPush(k, v)
    BY <1>1, <2>3, PushRightAnswers, CommandStep DEF RPush
  <2>4. QED
    BY <2>1, <2>2, <2>3
<1>5. CASE \E k \in Mixed, f \in Fields, v \in Vals : HSet(k, f, v)
  <2>1. PICK k \in Keys, f \in Fields, v \in Vals : HSet(k, f, v)
    BY <1>5, DataSpaceAssumption
  <2>2. QED
    BY <1>1, <2>1, HashSetAnswers, CommandStep DEF HSet
<1>6. CASE \E k \in Mixed, n \in Scores, v \in Vals : ZAdd(k, n, v)
  <2>1. PICK k \in Keys, n \in Scores, v \in Vals : ZAdd(k, n, v)
    BY <1>6, DataSpaceAssumption
  <2>2. PICK up \in 0 .. MaxLevel - 1 : Command(ZSetAdd(store, k, n, v, up))
    BY <2>1 DEF ZAdd
  <2>3. QED
    BY <1>1, <2>2, ZSetAddAnswers, CommandStep
<1>7. CASE UpdateDB
  BY <1>7, TurnStep
<1>8. CASE Restart
  BY <1>8, RestartStep
<1>9. CASE (\E k \in Keys, n \in Seconds : Expire(k, n)) \/ Tick \/ UNCHANGED vars
  <2>1. UNCHANGED <<store, shadow>>
    BY <1>9 DEF Expire, Tick, vars
  <2>2. QED
    BY <2>1, Zenon DEF IInv
<1>10. QED
  BY <1>2, <1>3, <1>4, <1>5, <1>6, <1>7, <1>8, <1>9 DEF Next

-----------------------------------------------------------------------------
(* The theorems.                                                           *)

\* The invariant holds for good.
LEMMA Invariance == Spec => []IInv
<1>1. Init => IInv
  BY Initially
<1>2. IInv /\ [Next]_vars => IInv'
  BY EveryStep
<1>3. QED
  BY <1>1, <1>2, PTL DEF Spec

\* Carrying out the log from nothing (LoadAppendFile, MasterConnector) rebuilds what
\* clients see of the key space, after any commands, expiries and restarts, with every
\* value as HandleCmdLine reads it back: its first word.
THEOREM LogRebuildsTheKeySpace == Spec => []ReplayRebuilds
<1>1. IInv => ReplayRebuilds
  BY SameLooksTheSame, Zenon DEF IInv, ReplayRebuilds
<1>2. QED
  BY <1>1, Invariance, PTL

-----------------------------------------------------------------------------
(* Timers.  The places that insert or deleteMin passes are those reached   *)
(* from the first one by single steps, up or down.                         *)

\* In places 0 to n a step leads on from those of C, along next.
Closed(S, C, next) == \A i \in S : i \in C => next[i] \in S

Reach(n, C, next, i) ==
  {a \in 0 .. n : \A S \in SUBSET (0 .. n) : i \in S /\ Closed(S, C, next) => a \in S}

\* The step is to a place, and all steps lead up or all down.
Steps(n, C, next) ==
  /\ n \in Nat /\ C \subseteq 0 .. n /\ next \in [C -> 0 .. n]
  /\ (\A i \in C : next[i] > i) \/ (\A i \in C : next[i] < i)

\* What is reached from a place is the smallest set that has it and is closed.
LEMMA ReachIs ==
  ASSUME NEW n, NEW C, NEW next, Steps(n, C, next), NEW i \in 0 .. n
  PROVE  /\ i \in Reach(n, C, next, i) /\ Reach(n, C, next, i) \in SUBSET (0 .. n)
         /\ Closed(Reach(n, C, next, i), C, next)
         /\ \A S \in SUBSET (0 .. n) :
              i \in S /\ Closed(S, C, next) => Reach(n, C, next, i) \subseteq S
<1>1. PICK R : R = Reach(n, C, next, i)
  OBVIOUS
<1>2. R \in SUBSET (0 .. n) /\ i \in R
  BY <1>1 DEF Reach
<1>3. \A S \in SUBSET (0 .. n) : i \in S /\ Closed(S, C, next) => R \subseteq S
  BY <1>1 DEF Reach
<1>4. ASSUME NEW a \in R, a \in C PROVE next[a] \in R
  <2>1. next[a] \in 0 .. n
    BY <1>4 DEF Steps
  <2>2. ASSUME NEW S \in SUBSET (0 .. n), i \in S, Closed(S, C, next) PROVE next[a] \in S
    BY <1>3, <1>4, <2>2 DEF Closed
  <2>3. QED
    BY <1>1, <2>1, <2>2 DEF Reach
<1>5. QED
  BY <1>1, <1>2, <1>3, <1>4 DEF Closed

\* All steps but the first are those from the second place.
LEMMA ReachOnce ==
  ASSUME NEW n, NEW C, NEW next, Steps(n, C, next), NEW i \in 0 .. n
  PROVE  Reach(n, C, next, i) =
           IF i \in C THEN {i} \cup Reach(n, C, next, next[i]) ELSE {i}
<1>1. PICK R : R = Reach(n, C, next, i)
  OBVIOUS
<1>2. /\ i \in R /\ R \in SUBSET (0 .. n) /\ Closed(R, C, next)
      /\ \A S \in SUBSET (0 .. n) : i \in S /\ Closed(S, C, next) => R \subseteq S
  BY <1>1, ReachIs
<1>3. CASE i \notin C
  <2>1. {i} \in SUBSET (0 .. n) /\ Closed({i}, C, next)
    BY <1>3 DEF Closed
  <2>2. R \subseteq {i}
    BY <1>2, <2>1
  <2>3. QED
    BY <1>1, <1>2, <1>3, <2>2
<1>4. CASE i \in C
  <2>1. next[i] \in 0 .. n
    BY <1>4 DEF Steps
  <2>2. PICK Q : Q = Reach(n, C, next, next[i])
    OBVIOUS
  <2>3. /\ next[i] \in Q /\ Q \in SUBSET (0 .. n) /\ Closed(Q, C, next)
        /\ \A S \in SUBSET (0 .. n) : next[i] \in S /\ Closed(S, C, next) => Q \subseteq S
    BY <2>1, <2>2, ReachIs
  <2>4. Q \subseteq R
    <3>1. next[i] \in R
      BY <1>2, <1>4 DEF Closed
    <3>2. QED
      BY <1>2, <2>3, <3>1
  <2>5. {i} \cup Q \in SUBSET (0 .. n) /\ Closed({i} \cup Q, C, next)
    BY <2>3 DEF Closed
  <2>6. R \subseteq {i} \cup Q
    BY <1>2, <2>5
  <2>7. R = {i} \cup Q
    BY <1>2, <2>4, <2>6
  <2>8. QED
    BY <1>1, <1>4, <2>2, <2>7
<1>5. QED
  BY <1>3, <1>4

\* Every place but the first is stepped to from one.
LEMMA ReachFrom ==
  ASSUME NEW n, NEW C, NEW next, Steps(n, C, next), NEW i \in 0 .. n,
         NEW R, R = Reach(n, C, next, i), NEW a \in R, a # i
  PROVE  \E j \in R : j \in C /\ next[j] = a
<1>1. /\ i \in R /\ R \in SUBSET (0 .. n) /\ Closed(R, C, next)
      /\ \A S \in SUBSET (0 .. n) : i \in S /\ Closed(S, C, next) => R \subseteq S
  BY ReachIs
<1>2. ASSUME ~ \E j \in R : j \in C /\ next[j] = a PROVE FALSE
  <2>1. R \ {a} \in SUBSET (0 .. n) /\ i \in R \ {a}
    BY <1>1
  <2>2. Closed(R \ {a}, C, next)
    BY <1>1, <1>2 DEF Closed
  <2>3. R \subseteq R \ {a}
    BY <1>1, <2>1, <2>2
  <2>4. QED
    BY <2>3
<1>3. QED
  BY <1>2

\* Of two places one is reached from the other.
LEMMA ReachInLine ==
  ASSUME NEW n, NEW C, NEW next, Steps(n, C, next), NEW i \in 0 .. n,
         NEW a \in Reach(n, C, next, i), NEW b \in Reach(n, C, next, i)
  PROVE  a \in Reach(n, C, next, b) \/ b \in Reach(n, C, next, a)
<1>1. PICK R : R = Reach(n, C, next, i)
  OBVIOUS
<1>2. /\ i \in R /\ R \in SUBSET (0 .. n) /\ Closed(R, C, next)
      /\ \A S \in SUBSET (0 .. n) : i \in S /\ Closed(S, C, next) => R \subseteq S
  BY <1>1, ReachIs
<1>3. PICK Y : Y = {k \in R : \A m \in R : \/ m \in Reach(n, C, next, k)
                                           \/ k \in Reach(n, C, next, m)}
  OBVIOUS
<1>4. i \in Y /\ Y \in SUBSET (0 .. n)
  BY <1>1, <1>2, <1>3
<1>5. ASSUME NEW k \in Y, k \in C PROVE next[k] \in Y
  <2>1. k \in R /\ next[k] \in R /\ k \in 0 .. n
    BY <1>2, <1>3, <1>5 DEF Closed
  <2>2. ASSUME NEW m \in R
        PROVE  m \in Reach(n, C, next, next[k]) \/ next[k] \in Reach(n, C, next, m)
    <3>1. m \in 0 .. n
      BY <1>2
    <3>2. Closed(Reach(n, C, next, m), C, next) /\ Closed(Reach(n, C, next, k), C, next)
      BY <2>1, <3>1, ReachIs
    <3>3. Reach(n, C, next, k) = {k} \cup Reach(n, C, next, next[k])
      BY <1>5, <2>1, ReachOnce
    <3>4. k \in Reach(n, C, next, k) /\ next[k] \in Reach(n, C, next, k)
      BY <1>5, <2>1, <3>2, <3>3 DEF Closed
    <3>5. m \in Reach(n, C, next, k) \/ k \in Reach(n, C, next, m)
      BY <1>3
    <3>6. k \in Reach(n, C, next, m) => next[k] \in Reach(n, C, next, m)
      BY <1>5, <3>2 DEF Closed
    <3>7. QED
      BY <3>3, <3>4, <3>5, <3>6
  <2>3. QED
    BY <1>3, <2>1, <2>2
<1>6. R \subseteq Y
  BY <1>2, <1>4, <1>5 DEF Closed
<1>7. QED
  BY <1>1, <1>3, <1>6

\* The places reached lie in the direction of the steps.
LEMMA ReachUp ==
  ASSUME NEW n, NEW C, NEW next, Steps(n, C, next), \A i \in C : next[i] > i, NEW i \in 0 .. n
  PROVE  \A a \in Reach(n, C, next, i) : a >= i
<1>1. n \in Nat /\ i \in i .. n /\ (i .. n) \in SUBSET (0 .. n)
  BY DEF Steps
<1>2. Closed(i .. n, C, next)
  <2>1. ASSUME NEW k \in i .. n, k \in C PROVE next[k] \in i .. n
    <3>1. next[k] \in 0 .. n /\ next[k] > k
      BY <2>1 DEF Steps
    <3>2. QED
      BY <1>1, <3>1
  <2>2. QED
    BY <2>1 DEF Closed
<1>3. Reach(n, C, next, i) \subseteq i .. n
  BY <1>1, <1>2, ReachIs
<1>4. QED
  BY <1>1, <1>3

\* Steps that lead down reach nothing above.
LEMMA ReachDown ==
  ASSUME NEW n, NEW C, NEW next, Steps(n, C, next), \A i \in C : next[i] < i, NEW i \in 0 .. n
  PROVE  \A a \in Reach(n, C, next, i) : a <= i
<1>1. n \in Nat /\ i \in 0 .. i /\ (0 .. i) \in SUBSET (0 .. n)
  BY DEF Steps
<1>2. Closed(0 .. i, C, next)
  <2>1. ASSUME NEW k \in 0 .. i, k \in C PROVE next[k] \in 0 .. i
    <3>1. next[k] \in 0 .. n /\ next[k] < k
      BY <2>1 DEF Steps
    <3>2. QED
      BY <1>1, <3>1
  <2>2. QED
    BY <2>1 DEF Closed
<1>3. Reach(n, C, next, i) \subseteq 0 .. i
  BY <1>1, <1>2, ReachIs
<1>4. QED
  BY <1>1, <1>3

\* They are what such a recursion collects.
Collects(n, C, next, g) ==
  \A i \in 0 .. n : g[i] = IF i \in C THEN {i} \cup g[next[i]] ELSE {i}

\* A recursive function that collects the places it passes returns what is reached.
LEMMA ReachIsCollected ==
  ASSUME NEW n, NEW C, NEW next, Steps(n, C, next),
         NEW g, Collects(n, C, next, g)
  PROVE  \A i \in 0 .. n : g[i] = Reach(n, C, next, i)
<1>1. n \in Nat /\ C \subseteq 0 .. n /\ next \in [C -> 0 .. n]
  BY DEF Steps
<1>2. PICK Bad : Bad = {i \in 0 .. n : g[i] # Reach(n, C, next, i)}
  OBVIOUS
<1>3. Bad \in SUBSET (0 .. n) /\ Bad \in SUBSET Nat
  BY <1>1, <1>2
<1>4. ASSUME NEW i \in Bad PROVE i \in C /\ next[i] \in Bad
  <2>1. i \in 0 .. n /\ g[i] # Reach(n, C, next, i)
    BY <1>2
  <2>2. CASE i \notin C
    <3>1. g[i] = {i}
      BY <2>1, <2>2 DEF Collects
    <3>2. Reach(n, C, next, i) = {i}
      BY <2>1, <2>2, ReachOnce
    <3>3. QED
      BY <2>1, <3>1, <3>2
  <2>3. CASE i \in C
    <3>1. next[i] \in 0 .. n
      BY <1>1, <2>3
    <3>2. g[i] = {i} \cup g[next[i]]
      BY <2>1, <2>3 DEF Collects
    <3>3. Reach(n, C, next, i) = {i} \cup Reach(n, C, next, next[i])
      BY <2>1, <2>3, ReachOnce
    <3>4. g[next[i]] # Reach(n, C, next, next[i])
      BY <2>1, <3>2, <3>3
    <3>5. QED
      BY <1>2, <2>3, <3>1, <3>4
  <2>4. QED
    BY <2>2, <2>3
<1>5. CASE \A i \in C : next[i] > i
  <2>1. ASSUME Bad # {} PROVE FALSE
    <3>1. PICK m \in Bad : \A k \in Bad : k <= m
      BY <1>1, <1>3, <2>1, LargestOf
    <3>2. m \in C /\ next[m] \in Bad /\ m \in Nat /\ next[m] \in Nat
      BY <1>3, <1>4
    <3>3. next[m] > m /\ next[m] <= m
      BY <1>5, <3>1, <3>2
    <3>4. QED
      BY <3>2, <3>3
  <2>2. QED
    BY <1>2, <2>1
<1>6. CASE \A i \in C : next[i] < i
  <2>1. ASSUME Bad # {} PROVE FALSE
    <3>1. PICK m \in Bad : \A k \in Bad : m <= k
      BY <1>3, <2>1, SmallestOf
    <3>2. m \in C /\ next[m] \in Bad /\ m \in Nat /\ next[m] \in Nat
      BY <1>3, <1>4
    <3>3. next[m] < m /\ m <= next[m]
      BY <1>6, <3>1, <3>2
    <3>4. QED
      BY <3>2, <3>3
  <2>2. QED
    BY <1>2, <2>1
<1>7. QED
  BY <1>5, <1>6 DEF Steps

\* A heap: no timer is later than those below it.
IsHeap(h) ==
  /\ h = [size |-> h.size, elements |-> h.elements]
  /\ h.size \in 0 .. Capacity
  /\ h.elements \in [0 .. Capacity -> Timer \cup {NoTimer}]
  /\ \A i \in 0 .. h.size - 1 : h.elements[i] \in Timer
  /\ \A i \in 1 .. h.size - 1 : h.elements[i \div 2].time <= h.elements[i].time

\* A place and its parent, i / 2 in the code.
LEMMA ParentIs ==
  ASSUME NEW i \in Nat
  PROVE  /\ i \div 2 \in 0 .. i /\ (i > 0 => i \div 2 < i)
         /\ 2 * (i \div 2) <= i /\ i <= 2 * (i \div 2) + 1
OBVIOUS

\* What timers consist of, and what the constants' assumptions say of the room for them.
LEMMA TimesAre ==
  /\ \A x \in Timer \cup {NoTimer} : x.time \in Nat
  /\ \A x \in Timer : x.key \in Keys /\ x.time \in 0 .. MaxTime
  /\ Capacity \in Nat /\ Capacity # 0
BY DataSpaceAssumption, PriorityQueueAssumption DEF Timer

\* A new JK_PriorityQueue is a heap with no timers.
LEMMA EmptyIsHeap == IsHeap(EmptyHeap) /\ TimersOf(EmptyHeap) = {}
<1>1. PICK h : h = EmptyHeap
  OBVIOUS
<1>2. /\ h = [size |-> h.size, elements |-> h.elements] /\ h.size = 0
      /\ h.elements = [i \in 0 .. Capacity |-> NoTimer]
  BY <1>1 DEF EmptyHeap
<1>3. IsHeap(h)
  BY <1>2, TimesAre DEF IsHeap
<1>4. TimersOf(h) = {}
  BY <1>2 DEF TimersOf
<1>5. QED
  BY <1>1, <1>3, <1>4

\* The timers that go up on the way of an insertion.
LEMMA InsertIsHeap ==
  ASSUME NEW h, IsHeap(h), NEW x \in Timer
  PROVE  IsHeap(Insert(h, x)) /\ TimersOf(h) \subseteq TimersOf(Insert(h, x))
<1>1. CASE IsFull(h)
  BY <1>1, Zenon DEF Insert
<1>2. CASE ~IsFull(h)
  <2> DEFINE e == h.elements
  <2> DEFINE n == h.size
  <2>1. e = h.elements /\ n = h.size
    OBVIOUS
  <2> HIDE DEF e, n
  <2>2. /\ n \in 0 .. Capacity /\ n # Capacity /\ Capacity \in Nat /\ n \in Nat
        /\ e \in [0 .. Capacity -> Timer \cup {NoTimer}]
        /\ \A i \in 0 .. n - 1 : e[i] \in Timer
        /\ \A i \in 1 .. n - 1 : e[i \div 2].time <= e[i].time
    BY <1>2, <2>1, TimesAre DEF IsHeap, IsFull
  <2>3. /\ x.time \in Nat
        /\ \A i \in 0 .. Capacity : /\ e[i].time \in Nat /\ e[i] \in Timer \cup {NoTimer}
                                    /\ i \div 2 \in 0 .. Capacity
    <3>1. \A i \in 0 .. Capacity : e[i] \in Timer \cup {NoTimer}
      BY <2>2
    <3>2. \A i \in 0 .. Capacity : i \div 2 \in 0 .. Capacity
      BY <2>2, ParentIs
    <3>3. QED
      BY <3>1, <3>2, TimesAre
  <2>4. PICK C : C = {i \in 1 .. Capacity : x.time < e[i \div 2].time}
    OBVIOUS
  <2>5. PICK next : next = [i \in C |-> i \div 2]
    OBVIOUS
  <2>6. Steps(Capacity, C, next) /\ \A i \in C : next[i] < i
    <3>1. C \subseteq 0 .. Capacity
      BY <2>4
    <3>2. ASSUME NEW i \in C PROVE i \div 2 \in 0 .. Capacity /\ i \div 2 < i
      <4>1. i \in Nat /\ i > 0 /\ i \in 0 .. Capacity
        BY <2>4
      <4>2. QED
        BY <2>3, <4>1, ParentIs
    <3>3. next \in [C -> 0 .. Capacity]
      BY <2>5, <3>2
    <3>4. QED
      BY <2>2, <2>5, <3>1, <3>2, <3>3 DEF Steps
  <2> DEFINE Is(g) == g = [i \in 0 .. Capacity |->
                             IF i > 0 /\ x.time < e[i \div 2].time
                             THEN {i} \cup g[i \div 2] ELSE {i}]
  <2>7. \A i \in 0 .. Capacity : i \in C <=> i > 0 /\ x.time < e[i \div 2].time
    BY <2>2, <2>4
  <2>8. PICK all : all = [i \in 0 .. Capacity |-> Reach(Capacity, C, next, i)]
    OBVIOUS
  <2>9. Is(all)
    <3>1. ASSUME NEW i \in 0 .. Capacity
          PROVE  all[i] = IF i > 0 /\ x.time < e[i \div 2].time
                          THEN {i} \cup all[i \div 2] ELSE {i}
      <4>1. all[i] = IF i \in C THEN {i} \cup Reach(Capacity, C, next, next[i]) ELSE {i}
        BY <2>6, <2>8, ReachOnce
      <4>2. i \in C => next[i] = i \div 2 /\ all[i \div 2] = Reach(Capacity, C, next, next[i])
        BY <2>3, <2>5, <2>8
      <4>3. CASE i \in C
        <5>1. all[i] = {i} \cup all[i \div 2]
          BY <4>1, <4>2, <4>3
        <5>2. QED
          BY <2>7, <4>3, <5>1
      <4>4. CASE i \notin C
        BY <2>7, <4>1, <4>4
      <4>5. QED
        BY <4>3, <4>4
    <3>2. QED
      BY <2>8, <3>1
  <2> DEFINE Up == CHOOSE g : Is(g)
  <2>10. Is(Up)
    BY <2>9, Zenon
  <2> DEFINE trail == Up[n]
  <2> DEFINE f == [i \in 0 .. Capacity |->
                     IF i \notin trail THEN e[i]
                     ELSE IF \A k \in trail : i <= k THEN x
                     ELSE e[i \div 2]]
  <2>11. Insert(h, x) = [size |-> n + 1, elements |-> f]
    BY <1>2, Zenon DEF Insert, e, n
  <2> HIDE DEF Up
  <2>12. Collects(Capacity, C, next, Up)
    <3>1. \A i \in 0 .. Capacity : Up[i] = IF i > 0 /\ x.time < e[i \div 2].time
                                           THEN {i} \cup Up[i \div 2] ELSE {i}
      BY <2>10
    <3>2. \A i \in C : next[i] = i \div 2
      BY <2>5
    <3>3. QED
      BY <2>7, <3>1, <3>2 DEF Collects
  <2> HIDE DEF Is
  <2>13. trail = Reach(Capacity, C, next, n)
    <3>1. \A i \in 0 .. Capacity : Up[i] = Reach(Capacity, C, next, i)
      BY <2>6, <2>12, ReachIsCollected
    <3>2. QED
      BY <2>2, <3>1
  <2> HIDE DEF trail
  <2>14. /\ n \in trail /\ trail \in SUBSET (0 .. Capacity)
         /\ \A a \in trail : a \in C => a \div 2 \in trail
         /\ \A a \in trail : a <= n
    <3>1. n \in trail /\ trail \in SUBSET (0 .. Capacity) /\ Closed(trail, C, next)
      BY <2>2, <2>6, <2>13, ReachIs
    <3>2. \A a \in trail : a <= n
      BY <2>2, <2>6, <2>13, ReachDown
    <3>3. QED
      BY <2>5, <3>1, <3>2 DEF Closed
  <2>15. \A a \in trail : a # n => \E j \in trail : j \in C /\ j \div 2 = a
    <3>1. ASSUME NEW a \in trail, a # n PROVE \E j \in trail : j \in C /\ j \div 2 = a
      <4>1. \E j \in trail : j \in C /\ next[j] = a
        BY <2>2, <2>6, <2>13, <3>1, ReachFrom
      <4>2. QED
        BY <2>5, <4>1
    <3>2. QED
      BY <3>1
  <2>16. ASSUME NEW a \in trail PROVE (\A k \in trail : a <= k) <=> a \notin C
    <3>1. a \in 0 .. Capacity /\ a \in Nat
      BY <2>14
    <3>2. ASSUME a \in C, \A k \in trail : a <= k PROVE FALSE
      <4>1. a \div 2 \in trail /\ a > 0
        BY <2>4, <2>14, <3>2
      <4>2. a \div 2 < a /\ a <= a \div 2 /\ a \div 2 \in Nat
        BY <3>1, <3>2, <4>1, ParentIs
      <4>3. QED
        BY <3>1, <4>2
    <3>3. ASSUME a \notin C, NEW k \in trail PROVE a <= k
      <4>1. k \in 0 .. Capacity
        BY <2>14
      <4>2. a \in Reach(Capacity, C, next, k) \/ k \in Reach(Capacity, C, next, a)
        BY <2>2, <2>6, <2>13, ReachInLine
      <4>3. Reach(Capacity, C, next, a) = {a}
        BY <2>6, <3>1, <3>3, ReachOnce
      <4>4. a \in Reach(Capacity, C, next, k) => a <= k
        BY <2>6, <4>1, ReachDown
      <4>5. QED
        BY <3>1, <4>2, <4>3, <4>4
    <3>4. QED
      BY <3>2, <3>3
  <2>17. \A i \in 0 .. Capacity : /\ i \notin trail => f[i] = e[i]
                                  /\ i \in trail /\ i \notin C => f[i] = x
                                  /\ i \in trail /\ i \in C => f[i] = e[i \div 2]
    BY <2>16
  <2>18. f \in [0 .. Capacity -> Timer \cup {NoTimer}]
    BY <2>3
  <2> HIDE DEF f
  <2>19. ASSUME NEW i \in 0 .. n PROVE f[i] \in Timer
    <3>1. i \in 0 .. Capacity
      BY <2>2
    <3>2. CASE i \notin trail
      <4>1. i # n /\ i \in 0 .. n - 1
        BY <2>2, <2>14, <3>2
      <4>2. QED
        BY <2>2, <2>17, <3>1, <3>2, <4>1
    <3>3. CASE i \in C /\ i \in trail
      <4>1. i \in Nat /\ i > 0
        BY <2>4, <3>3
      <4>2. i \div 2 \in 0 .. n - 1
        BY <2>2, <4>1, ParentIs
      <4>3. QED
        BY <2>2, <2>17, <3>1, <3>3, <4>2
    <3>4. QED
      BY <2>17, <3>1, <3>2, <3>3
  <2>20. ASSUME NEW a \in 1 .. n PROVE f[a \div 2].time <= f[a].time
    <3>1. PICK p : p = a \div 2
      OBVIOUS
    <3>2. a \in Nat /\ a > 0 /\ a <= n /\ a \in 0 .. Capacity
      BY <2>2
    <3>3. p \in 0 .. n - 1 /\ p < a /\ p \in 0 .. Capacity
      BY <2>2, <3>1, <3>2, ParentIs
    <3>4. e[p].time \in Nat /\ e[a].time \in Nat /\ x.time \in Nat
      BY <2>3, <3>2, <3>3
    <3>5. p \in C => e[p \div 2].time <= e[p].time
      <4>1. p \in C => p \in 1 .. n - 1
        BY <2>4, <3>3
      <4>2. QED
        BY <2>2, <4>1
    <3>6. a \in C <=> x.time < e[p].time
      BY <2>7, <3>1, <3>2
    <3>7. p \in C => e[p \div 2].time \in Nat
      BY <2>3, <3>3
    <3>8. CASE a \in trail /\ a \in C
      <4>1. p \in trail /\ f[a] = e[p]
        BY <2>14, <2>17, <3>1, <3>2, <3>8
      <4>2. CASE p \in C
        BY <2>17, <3>1, <3>3, <3>5, <4>1, <4>2
      <4>3. CASE p \notin C
        BY <2>17, <3>1, <3>3, <3>4, <3>6, <3>8, <4>1, <4>3
      <4>4. QED
        BY <4>2, <4>3
    <3>9. CASE a \in trail /\ a \notin C
      <4>1. f[a] = x
        BY <2>17, <3>2, <3>9
      <4>2. p \notin trail
        <5>1. p \in trail => a <= p
          BY <2>16, <3>9
        <5>2. QED
          BY <3>2, <3>3, <5>1
      <4>3. f[p] = e[p]
        BY <2>17, <3>3, <4>2
      <4>4. QED
        BY <3>1, <3>4, <3>6, <3>9, <4>1, <4>3
    <3>10. CASE a \notin trail
      <4>1. a # n /\ a \in 1 .. n - 1 /\ f[a] = e[a]
        BY <2>2, <2>14, <2>17, <3>2, <3>10
      <4>2. e[p].time <= e[a].time
        BY <2>2, <3>1, <4>1
      <4>3. CASE p \notin trail
        BY <2>17, <3>1, <3>3, <4>1, <4>2, <4>3
      <4>4. CASE p \in trail /\ p \in C
        <5>1. f[p] = e[p \div 2]
          BY <2>17, <3>3, <4>4
        <5>2. QED
          BY <3>1, <3>4, <3>5, <3>7, <4>1, <4>2, <4>4, <5>1
      <4>5. CASE p \in trail /\ p \notin C
        <5>1. f[p] = x /\ p # n
          BY <2>2, <2>17, <3>3, <4>5
        <5>2. PICK j \in trail : j \in C /\ j \div 2 = p
          BY <2>15, <4>5, <5>1
        <5>3. x.time < e[p].time
          BY <2>4, <5>2
        <5>4. QED
          BY <3>1, <3>4, <4>1, <4>2, <5>1, <5>3
      <4>6. QED
        BY <4>3, <4>4, <4>5
    <3>11. QED
      BY <3>8, <3>9, <3>10
  <2>21. PICK k : k = Insert(h, x)
    OBVIOUS
  <2>22. k = [size |-> k.size, elements |-> k.elements] /\ k.size = n + 1 /\ k.elements = f
    BY <2>11, <2>21
  <2>23. IsHeap(k)
    <3>1. n + 1 \in 0 .. Capacity /\ (n + 1) - 1 = n
      BY <2>2
    <3>2. QED
      BY <2>18, <2>19, <2>20, <2>22, <3>1 DEF IsHeap
  <2>24. ASSUME NEW i \in 0 .. n - 1 PROVE \E j \in 0 .. n : f[j] = e[i]
    <3>1. i \in 0 .. Capacity /\ i \in 0 .. n /\ i # n
      BY <2>2
    <3>2. CASE i \notin trail
      BY <2>17, <3>1, <3>2
    <3>3. CASE i \in trail
      <4>1. PICK j \in trail : j \in C /\ j \div 2 = i
        BY <2>15, <3>1, <3>3
      <4>2. j \in 0 .. Capacity /\ j \in 0 .. n
        BY <2>2, <2>14
      <4>3. QED
        BY <2>17, <4>1, <4>2
    <3>4. QED
      BY <3>2, <3>3
  <2>25. TimersOf(h) \subseteq TimersOf(k)
    <3>1. TimersOf(h) = {e[i] : i \in 0 .. n - 1} /\ (n + 1) - 1 = n
      BY <2>1, <2>2 DEF TimersOf
    <3>2. TimersOf(k) = {f[i] : i \in 0 .. n}
      BY <2>22, <3>1 DEF TimersOf
    <3>3. QED
      BY <2>24, <3>1, <3>2
  <2>26. QED
    BY <2>21, <2>23, <2>25
<1>3. QED
  BY <1>1, <1>2

\* No timer is earlier than the first.
LEMMA FirstIsEarliest ==
  ASSUME NEW h, IsHeap(h), NEW i \in 0 .. h.size - 1
  PROVE  FindMin(h).time <= h.elements[i].time
<1>1. PICK e, n : e = h.elements /\ n = h.size
  OBVIOUS
<1>2. /\ n \in 0 .. Capacity /\ Capacity \in Nat /\ n \in Nat
      /\ \A j \in 0 .. n - 1 : e[j] \in Timer
      /\ \A j \in 1 .. n - 1 : e[j \div 2].time <= e[j].time
  BY <1>1, TimesAre DEF IsHeap
<1>3. \A j \in 0 .. n - 1 : e[j].time \in Nat
  BY <1>2, TimesAre
<1>4. PICK Bad : Bad = {j \in 0 .. n - 1 : ~ (e[0].time <= e[j].time)}
  OBVIOUS
<1>5. ASSUME Bad # {} PROVE FALSE
  <2>1. Bad \in SUBSET Nat
    BY <1>2, <1>4
  <2>2. PICK m \in Bad : \A j \in Bad : m <= j
    BY <1>5, <2>1, SmallestOf
  <2>3. m \in 0 .. n - 1 /\ ~ (e[0].time <= e[m].time) /\ 0 \in 0 .. n - 1
    BY <1>2, <1>4
  <2>4. m \in 1 .. n - 1 /\ m \in Nat /\ m > 0
    BY <1>2, <1>3, <2>3
  <2>5. PICK p : p = m \div 2
    OBVIOUS
  <2>6. p \in 0 .. n - 1 /\ p < m /\ p \in Nat
    BY <1>2, <2>4, <2>5, ParentIs
  <2>7. p \notin Bad
    BY <2>2, <2>4, <2>6
  <2>8. e[0].time <= e[p].time /\ e[p].time <= e[m].time
    BY <1>2, <1>4, <2>4, <2>5, <2>6, <2>7
  <2>9. QED
    BY <1>3, <2>3, <2>6, <2>8
<1>6. QED
  BY <1>1, <1>4, <1>5 DEF FindMin

\* The timers that come down to the way of a deletion.
LEMMA DeleteMinIsHeap ==
  ASSUME NEW h, IsHeap(h), h.size # 0
  PROVE  /\ IsHeap(DeleteMin(h)) /\ DeleteMin(h).size = h.size - 1
         /\ TimersOf(h) \subseteq TimersOf(DeleteMin(h)) \cup {FindMin(h)}
<1> DEFINE n == h.size - 1
<1> DEFINE last == h.elements[n]
<1> DEFINE e == [h.elements EXCEPT ![0] = last]
<1>1. /\ n \in 0 .. Capacity - 1 /\ n \in Nat /\ Capacity \in Nat /\ n + 1 = h.size
      /\ n \in 0 .. Capacity /\ 0 \in 0 .. Capacity
  BY TimesAre DEF IsHeap
<1>2. /\ \A i \in 0 .. n : h.elements[i] \in Timer
      /\ \A i \in 1 .. n : h.elements[i \div 2].time <= h.elements[i].time
  BY <1>1 DEF IsHeap
<1>3. /\ last \in Timer /\ last.time \in Nat
      /\ e \in [0 .. Capacity -> Timer \cup {NoTimer}]
      /\ e[0] = last /\ \A i \in 0 .. Capacity : i # 0 => e[i] = h.elements[i]
  BY <1>1, <1>2, TimesAre DEF IsHeap
<1>4. last = h.elements[n] /\ FindMin(h) = h.elements[0]
  BY DEF FindMin
<1> DEFINE Child(i) == LET left == IF i = 0 THEN 1 ELSE 2 * i
                       IN  IF left < n /\ e[left].time > e[left + 1].time
                           THEN left + 1 ELSE left
<1> DEFINE Is(g) == g = [i \in 0 .. Capacity |->
                           IF 2 * i <= n /\ e[Child(i)].time <= last.time
                           THEN {i} \cup g[Child(i)] ELSE {i}]
<1> DEFINE Down == CHOOSE g : Is(g)
<1> DEFINE trail == Down[0]
<1> DEFINE Below(i) == CHOOSE j \in trail : j > i /\ \A k \in trail : k > i => j <= k
<1> DEFINE f == [i \in 0 .. Capacity |->
                   IF i \notin trail THEN e[i]
                   ELSE IF \A k \in trail : k <= i THEN last
                   ELSE e[Below(i)]]
<1>5. DeleteMin(h) = [size |-> n, elements |-> f]
  BY Zenon DEF DeleteMin
<1> HIDE DEF f, Below, trail, Down, Is, e, last, n
<1>6. ASSUME NEW i \in 0 .. Capacity, i # 0
      PROVE  Child(i) = IF 2 * i < n /\ e[2 * i].time > e[2 * i + 1].time
                        THEN 2 * i + 1 ELSE 2 * i
  BY <1>6
<1>7. Child(0) = IF 1 < n /\ e[1].time > e[2].time THEN 2 ELSE 1
  OBVIOUS
<1>8. \A i \in 0 .. Capacity : e[i] \in Timer \cup {NoTimer} /\ e[i].time \in Nat
  BY <1>3, TimesAre
<1> HIDE DEF Child
<1>9. Child(0) = 1
  <2>1. ASSUME 1 < n PROVE e[1].time <= e[2].time
    <3>1. 1 \in 0 .. Capacity /\ 2 \in 0 .. Capacity /\ 2 \in 1 .. n /\ 2 \div 2 = 1
      BY <1>1, <2>1
    <3>2. QED
      BY <1>2, <1>3, <3>1
  <2>2. 1 < n => e[1].time \in Nat /\ e[2].time \in Nat
    BY <1>1, <1>8
  <2>3. QED
    BY <1>7, <2>1, <2>2
<1>10. ASSUME NEW i \in 0 .. Capacity, 2 * i <= n
       PROVE  /\ Child(i) \in 0 .. Capacity /\ Child(i) > i
              /\ Child(i) \div 2 = i /\ (n # 0 => Child(i) <= n)
              /\ \A a \in 1 .. n - 1 : a \div 2 = i => e[Child(i)].time <= e[a].time
  <2>1. CASE i = 0
    <3>1. Child(i) = 1 /\ 1 \div 2 = 0
      BY <1>9, <2>1
    <3>2. \A a \in 1 .. n - 1 : a \div 2 = 0 => a = 1
      BY <1>1
    <3>3. \A a \in 1 .. n - 1 : a \in 0 .. Capacity
      BY <1>1
    <3>4. QED
      BY <1>1, <1>8, <2>1, <3>1, <3>2, <3>3
  <2>2. CASE i # 0
    <3>1. Child(i) = IF 2 * i < n /\ e[2 * i].time > e[2 * i + 1].time
                     THEN 2 * i + 1 ELSE 2 * i
      BY <1>6, <2>2
    <3>2. /\ Child(i) \in {2 * i, 2 * i + 1} /\ Child(i) <= n
          /\ i \in Nat /\ i > 0
      BY <1>1, <1>10, <2>2, <3>1
    <3>3. (2 * i) \div 2 = i /\ (2 * i + 1) \div 2 = i
      BY <3>2
    <3>4. Child(i) \in 0 .. Capacity /\ Child(i) > i /\ Child(i) \div 2 = i
      BY <1>1, <3>2, <3>3
    <3>5. ASSUME NEW a \in 1 .. n - 1, a \div 2 = i PROVE e[Child(i)].time <= e[a].time
      <4>1. a = 2 * i \/ a = 2 * i + 1
        BY <3>2, <3>5
      <4>2. a \in 0 .. Capacity /\ 2 * i < n
        BY <1>1, <3>2, <4>1
      <4>3. 2 * i \in 0 .. Capacity /\ 2 * i + 1 \in 0 .. Capacity
        BY <1>1, <3>2, <4>2
      <4>4. e[2 * i].time \in Nat /\ e[2 * i + 1].time \in Nat
        BY <1>8, <4>3
      <4>5. QED
        BY <3>1, <4>1, <4>2, <4>4
    <3>6. QED
      BY <3>2, <3>4, <3>5
  <2>3. QED
    BY <2>1, <2>2
<1>11. PICK C : C = {i \in 0 .. Capacity : 2 * i <= n /\ e[Child(i)].time <= last.time}
  OBVIOUS
<1>12. PICK next : next = [i \in C |-> Child(i)]
  OBVIOUS
<1>13. Steps(Capacity, C, next) /\ \A i \in C : next[i] > i
  <2>1. C \subseteq 0 .. Capacity
    BY <1>11
  <2>2. \A i \in C : Child(i) \in 0 .. Capacity /\ Child(i) > i
    BY <1>10, <1>11
  <2>3. next \in [C -> 0 .. Capacity]
    BY <1>12, <2>2
  <2>4. QED
    BY <1>1, <1>12, <2>1, <2>2, <2>3 DEF Steps
<1>14. \A g : Is(g) <=> g = [i \in 0 .. Capacity |->
                              IF 2 * i <= n /\ e[Child(i)].time <= last.time
                              THEN {i} \cup g[Child(i)] ELSE {i}]
  BY Zenon DEF Is
<1>15. PICK all : all = [i \in 0 .. Capacity |-> Reach(Capacity, C, next, i)]
  OBVIOUS
<1>16. Is(all)
  <2>1. ASSUME NEW i \in 0 .. Capacity
        PROVE  all[i] = IF 2 * i <= n /\ e[Child(i)].time <= last.time
                        THEN {i} \cup all[Child(i)] ELSE {i}
    <3>1. all[i] = IF i \in C THEN {i} \cup Reach(Capacity, C, next, next[i]) ELSE {i}
      BY <1>13, <1>15, ReachOnce
    <3>2. i \in C => next[i] = Child(i) /\ all[Child(i)] = Reach(Capacity, C, next, next[i])
      BY <1>10, <1>11, <1>12, <1>15
    <3>3. i \in C <=> 2 * i <= n /\ e[Child(i)].time <= last.time
      BY <1>11
    <3>4. CASE i \in C
      <4>1. all[i] = {i} \cup all[Child(i)]
        BY <3>1, <3>2, <3>4
      <4>2. QED
        BY <3>3, <3>4, <4>1
    <3>5. CASE i \notin C
      BY <3>1, <3>3, <3>5
    <3>6. QED
      BY <3>4, <3>5
  <2>2. QED
    BY <1>14, <1>15, <2>1
<1>17. Is(Down)
  BY <1>16, Zenon DEF Down
<1>18. Collects(Capacity, C, next, Down)
  <2>1. \A i \in 0 .. Capacity : Down[i] = IF 2 * i <= n /\ e[Child(i)].time <= last.time
                                           THEN {i} \cup Down[Child(i)] ELSE {i}
    BY <1>14, <1>17
  <2>2. \A i \in C : next[i] = Child(i)
    BY <1>12
  <2>3. \A i \in 0 .. Capacity : i \in C <=> 2 * i <= n /\ e[Child(i)].time <= last.time
    BY <1>11
  <2>4. QED
    BY <2>1, <2>2, <2>3 DEF Collects
<1>19. trail = Reach(Capacity, C, next, 0)
  <2>1. \A i \in 0 .. Capacity : Down[i] = Reach(Capacity, C, next, i)
    BY <1>13, <1>18, ReachIsCollected
  <2>2. QED
    BY <1>1, <2>1 DEF trail
<1>20. /\ 0 \in trail /\ trail \in SUBSET (0 .. Capacity)
       /\ \A a \in trail : a \in C => Child(a) \in trail
  <2>1. 0 \in trail /\ trail \in SUBSET (0 .. Capacity) /\ Closed(trail, C, next)
    BY <1>1, <1>13, <1>19, ReachIs
  <2>2. QED
    BY <1>12, <2>1 DEF Closed
<1>21. ASSUME NEW a \in trail, a # 0
       PROVE  \E j \in trail : j \in C /\ Child(j) = a
  <2>1. \E j \in trail : j \in C /\ next[j] = a
    BY <1>1, <1>13, <1>19, <1>21, ReachFrom
  <2>2. QED
    BY <1>12, <2>1
<1>22. ASSUME NEW i \in trail, NEW k \in trail
       PROVE  /\ i \notin C => k <= i
              /\ i \in C /\ k > i => Child(i) <= k
  <2>1. i \in 0 .. Capacity /\ k \in 0 .. Capacity
    BY <1>20
  <2>2. i \in Reach(Capacity, C, next, k) \/ k \in Reach(Capacity, C, next, i)
    BY <1>1, <1>13, <1>19, ReachInLine
  <2>3. i \in Reach(Capacity, C, next, k) => k <= i
    BY <1>13, <2>1, ReachUp
  <2>4. CASE i \notin C
    <3>1. Reach(Capacity, C, next, i) = {i}
      BY <1>13, <2>1, <2>4, ReachOnce
    <3>2. QED
      BY <2>1, <2>2, <2>3, <2>4, <3>1
  <2>5. CASE i \in C /\ k > i
    <3>1. next[i] = Child(i) /\ Child(i) \in 0 .. Capacity
      BY <1>10, <1>11, <1>12, <2>5
    <3>2. Reach(Capacity, C, next, i) = {i} \cup Reach(Capacity, C, next, Child(i))
      BY <1>13, <2>1, <2>5, <3>1, ReachOnce
    <3>3. k \in Reach(Capacity, C, next, Child(i))
      BY <2>1, <2>2, <2>3, <2>5, <3>2
    <3>4. QED
      BY <1>13, <2>5, <3>1, <3>3, ReachUp
  <2>6. QED
    BY <2>4, <2>5
<1>23. ASSUME NEW i \in trail, i \in C
       PROVE  Below(i) = Child(i) /\ ~ (\A k \in trail : k <= i)
  <2>1. Child(i) \in trail /\ Child(i) > i /\ Child(i) \in Nat /\ i \in Nat
    BY <1>1, <1>10, <1>11, <1>20, <1>23
  <2>2. \A k \in trail : k > i => Child(i) <= k
    BY <1>22, <1>23
  <2>3. \E j \in trail : j > i /\ \A k \in trail : k > i => j <= k
    BY <2>1, <2>2
  <2>4. PICK b : b = Below(i)
    OBVIOUS
  <2>5. b \in trail /\ b > i /\ \A k \in trail : k > i => b <= k
    BY <2>3, <2>4, Zenon DEF Below
  <2>6. b <= Child(i) /\ Child(i) <= b /\ b \in Nat
    BY <1>20, <2>1, <2>2, <2>5
  <2>7. QED
    BY <2>1, <2>4, <2>6
<1>24. \A i \in 0 .. Capacity : /\ i \notin trail => f[i] = e[i]
                                /\ i \in trail /\ i \notin C => f[i] = last
                                /\ i \in trail /\ i \in C => f[i] = e[Child(i)]
  <2>1. \A i \in trail : i \notin C => \A k \in trail : k <= i
    BY <1>22
  <2>2. QED
    BY <1>23, <2>1 DEF f
<1>25. f \in [0 .. Capacity -> Timer \cup {NoTimer}]
  <2>1. f = [i \in 0 .. Capacity |-> f[i]]
    BY DEF f
  <2>2. \A i \in 0 .. Capacity : f[i] \in Timer \cup {NoTimer}
    BY <1>3, <1>8, <1>10, <1>11, <1>24
  <2>3. QED
    BY <2>1, <2>2
<1>26. \A i \in C : 2 * i <= n /\ e[Child(i)].time <= last.time /\ i \in 0 .. Capacity
  BY <1>11
<1>27. ASSUME NEW i \in 0 .. n - 1 PROVE f[i] \in Timer
  <2>1. i \in 0 .. Capacity /\ i \in 0 .. n /\ n # 0
    BY <1>1
  <2>2. CASE i \in trail /\ i \in C
    <3>1. Child(i) \in 0 .. Capacity /\ Child(i) <= n /\ Child(i) # 0
      BY <1>1, <1>10, <1>26, <2>1, <2>2
    <3>2. f[i] = h.elements[Child(i)]
      BY <1>3, <1>24, <2>1, <2>2, <3>1
    <3>3. Child(i) \in 0 .. n
      BY <1>1, <3>1
    <3>4. QED
      BY <1>2, <3>2, <3>3
  <2>3. CASE i \in trail /\ i \notin C
    BY <1>3, <1>24, <2>1, <2>3
  <2>4. CASE i \notin trail
    <3>1. i # 0
      BY <1>20, <2>4
    <3>2. QED
      BY <1>2, <1>3, <1>24, <2>1, <2>4, <3>1
  <2>5. QED
    BY <2>2, <2>3, <2>4
<1>28. ASSUME NEW a \in 1 .. n - 1 PROVE f[a \div 2].time <= f[a].time
  <2>1. PICK p : p = a \div 2
    OBVIOUS
  <2>2. a \in Nat /\ a > 0 /\ a \in 0 .. Capacity /\ a # 0 /\ n # 0 /\ a \in 1 .. n
    BY <1>1
  <2>3. p \in 0 .. Capacity /\ p < a /\ 2 * p <= n /\ p \in Nat
    BY <1>1, <2>1, <2>2, ParentIs
  <2>4. e[a].time \in Nat /\ e[p].time \in Nat /\ last.time \in Nat
    BY <1>3, <1>8, <2>2, <2>3
  <2>5. ASSUME NEW j \in 1 .. n, j \div 2 # 0 PROVE e[j \div 2].time <= e[j].time
    <3>1. j \in 0 .. Capacity /\ j \div 2 \in 0 .. Capacity /\ j # 0
      <4>1. j \in Nat
        OBVIOUS
      <4>2. QED
        BY <1>1, <4>1, ParentIs
    <3>2. QED
      BY <1>2, <1>3, <2>5, <3>1
  <2>6. CASE a \in trail
    <3>1. PICK j \in trail : j \in C /\ Child(j) = a
      BY <1>21, <2>2, <2>6
    <3>2. j = p
      BY <1>10, <1>26, <2>1, <3>1
    <3>3. f[p] = e[a] /\ e[a].time <= last.time
      BY <1>24, <1>26, <2>3, <3>1, <3>2
    <3>4. CASE a \in C
      <4>1. f[a] = e[Child(a)] /\ Child(a) \in 1 .. n /\ Child(a) \div 2 = a
        <5>1. Child(a) \in 0 .. Capacity /\ Child(a) > a /\ Child(a) \div 2 = a /\ Child(a) <= n
          BY <1>10, <1>26, <2>2, <3>4
        <5>2. QED
          BY <1>1, <1>24, <2>2, <2>6, <3>4, <5>1
      <4>2. e[a].time <= e[Child(a)].time
        BY <2>2, <2>5, <4>1
      <4>3. QED
        BY <2>1, <3>3, <4>1, <4>2
    <3>5. CASE a \notin C
      BY <1>24, <2>1, <2>2, <2>6, <3>3, <3>5
    <3>6. QED
      BY <3>4, <3>5
  <2>7. CASE a \notin trail
    <3>1. f[a] = e[a]
      BY <1>24, <2>2, <2>7
    <3>2. e[Child(p)].time <= e[a].time /\ e[Child(p)].time \in Nat
      BY <1>8, <1>10, <2>1, <2>3
    <3>3. CASE p \in trail /\ p \in C
      BY <1>24, <2>1, <2>3, <3>1, <3>2, <3>3
    <3>4. CASE p \in trail /\ p \notin C
      <4>1. ~ (e[Child(p)].time <= last.time)
        BY <1>11, <2>3, <3>4
      <4>2. f[p] = last
        BY <1>24, <2>3, <3>4
      <4>3. QED
        BY <2>1, <2>4, <3>1, <3>2, <4>1, <4>2
    <3>5. CASE p \notin trail
      <4>1. f[p] = e[p] /\ p # 0
        BY <1>20, <1>24, <2>3, <3>5
      <4>2. QED
        BY <2>1, <2>2, <2>5, <3>1, <4>1
    <3>6. QED
      BY <3>3, <3>4, <3>5
  <2>8. QED
    BY <2>6, <2>7
<1>29. ASSUME NEW i \in 1 .. n PROVE \E j \in 0 .. n - 1 : f[j] = h.elements[i]
  <2>1. i \in 0 .. Capacity /\ i # 0 /\ n # 0 /\ e[i] = h.elements[i]
    BY <1>1, <1>3
  <2>2. CASE i \in trail
    <3>1. PICK j \in trail : j \in C /\ Child(j) = i
      BY <1>21, <2>1, <2>2
    <3>2. f[j] = e[i] /\ j < i /\ j \in 0 .. Capacity
      BY <1>10, <1>24, <1>26, <3>1
    <3>3. j \in 0 .. n - 1
      BY <1>1, <3>2
    <3>4. QED
      BY <2>1, <3>2, <3>3
  <2>3. CASE i \notin trail /\ i # n
    <3>1. i \in 0 .. n - 1 /\ f[i] = e[i]
      BY <1>1, <1>24, <2>1, <2>3
    <3>2. QED
      BY <2>1, <3>1
  <2>4. CASE i \notin trail /\ i = n
    <3>1. \E k \in trail : k \notin C
      <4>1. ASSUME \A k \in trail : k \in C PROVE FALSE
        <5>1. PICK m \in trail : \A k \in trail : k <= m
          BY <1>1, <1>20, LargestOf
        <5>2. Child(m) \in trail /\ Child(m) > m
          BY <1>10, <1>20, <1>26, <4>1
        <5>3. Child(m) <= m
          BY <5>1, <5>2
        <5>4. m \in 0 .. Capacity /\ Child(m) \in 0 .. Capacity
          BY <1>20, <5>2
        <5>5. QED
          BY <5>2, <5>3, <5>4
      <4>2. QED
        BY <4>1
    <3>2. PICK k \in trail : k \notin C
      BY <3>1
    <3>3. k \in 0 .. Capacity /\ f[k] = last
      BY <1>20, <1>24, <3>2
    <3>4. k <= n
      <4>1. CASE k = 0
        BY <1>1, <4>1
      <4>2. CASE k # 0
        <5>1. PICK j \in trail : j \in C /\ Child(j) = k
          BY <1>21, <4>2
        <5>2. QED
          BY <1>10, <1>26, <2>1, <5>1
      <4>3. QED
        BY <4>1, <4>2
    <3>5. k # n
      BY <2>4
    <3>6. k \in 0 .. n - 1
      BY <1>1, <3>3, <3>4, <3>5
    <3>7. QED
      BY <1>4, <2>4, <3>3, <3>6
  <2>5. QED
    BY <2>2, <2>3, <2>4
<1>30. PICK d : d = DeleteMin(h)
  OBVIOUS
<1>31. d = [size |-> d.size, elements |-> d.elements] /\ d.size = n /\ d.elements = f
  BY <1>5, <1>30
<1>32. IsHeap(d)
  BY <1>1, <1>25, <1>27, <1>28, <1>31 DEF IsHeap
<1>33. TimersOf(h) \subseteq TimersOf(d) \cup {FindMin(h)}
  <2>1. TimersOf(h) = {h.elements[i] : i \in 0 .. n}
    <3>1. h.size - 1 = n
      BY DEF n
    <3>2. QED
      BY <3>1 DEF TimersOf
  <2>2. TimersOf(d) = {f[i] : i \in 0 .. n - 1}
    BY <1>31 DEF TimersOf
  <2>3. \A i \in 0 .. n : i = 0 \/ i \in 1 .. n
    BY <1>1
  <2>4. QED
    BY <1>4, <1>29, <2>1, <2>2, <2>3
<1>34. QED
  BY <1>30, <1>31, <1>32, <1>33 DEF n

\* A turn of UpdateDB: the timers are popped until none that is left is due; those that
\* are gone were, and their keys are known.
IsPopped(h, time, d) ==
  /\ IsHeap(d.heap)
  /\ \A t \in TimersOf(h) : t \in TimersOf(d.heap) \/ (t.time <= time /\ t.key \in d.keys)

\* The loop of UpdateDB pops timers that are due, and all of them.
LEMMA PopDueIs ==
  ASSUME NEW h, IsHeap(h), NEW time \in Nat
  PROVE  /\ IsPopped(h, time, PopDue(h, time))
         /\ \A t \in TimersOf(PopDue(h, time).heap) : t.time > time
<1> DEFINE Next1(was) ==
      IF was.heap.size = 0 \/ FindMin(was.heap).time > time THEN was
      ELSE [heap |-> DeleteMin(was.heap), keys |-> was.keys \cup {FindMin(was.heap).key}]
<1> DEFINE first == [heap |-> h, keys |-> {}]
<1> DEFINE Is(g) == g = [n \in 0 .. Capacity |->
             IF n = 0 THEN first
             ELSE LET was == g[n - 1]
                  IN  IF was.heap.size = 0 \/ FindMin(was.heap).time > time THEN was
                      ELSE [heap |-> DeleteMin(was.heap),
                            keys |-> was.keys \cup {FindMin(was.heap).key}]]
<1> DEFINE After == CHOOSE g : Is(g)
<1>1. PopDue(h, time) = After[Capacity]
  BY Zenon DEF PopDue
<1>2. \A g : Is(g) <=> g = [n \in 0 .. Capacity |-> IF n = 0 THEN first ELSE Next1(g[n - 1])]
  BY Zenon
<1>3. Capacity \in Nat
  BY TimesAre
<1>4. \A d : \/ Next1(d) = d /\ (d.heap.size = 0 \/ FindMin(d.heap).time > time)
             \/ /\ ~ (d.heap.size = 0 \/ FindMin(d.heap).time > time)
                /\ Next1(d).heap = DeleteMin(d.heap)
                /\ Next1(d).keys = d.keys \cup {FindMin(d.heap).key}
  OBVIOUS
<1>5. first.heap = h /\ first.keys = {}
  OBVIOUS
<1> HIDE DEF Next1, first, Is
<1>6. \E g : Is(g)
  <2>1. PICK S : S = {m \in Nat : \E g : g[0] = first /\ \A i \in 1 .. m : g[i] = Next1(g[i - 1])}
    OBVIOUS
  <2>2. 0 \in S
    <3>1. PICK k : k = [i \in {0} |-> first]
      OBVIOUS
    <3>2. k[0] = first /\ \A i \in 1 .. 0 : k[i] = Next1(k[i - 1])
      BY <3>1
    <3>3. \E g : g[0] = first /\ \A i \in 1 .. 0 : g[i] = Next1(g[i - 1])
      BY <3>2
    <3>4. QED
      BY <2>1, <3>3
  <2>3. ASSUME NEW m \in Nat, m \in S PROVE m + 1 \in S
    <3>1. PICK g : g[0] = first /\ \A i \in 1 .. m : g[i] = Next1(g[i - 1])
      BY <2>1, <2>3
    <3>2. PICK d : d = Next1(g[m])
      OBVIOUS
    <3>3. PICK k : k = [i \in 0 .. m + 1 |-> IF i <= m THEN g[i] ELSE d]
      OBVIOUS
    <3>4. k[0] = first
      BY <3>1, <3>3
    <3>5. ASSUME NEW i \in 1 .. m + 1 PROVE k[i] = Next1(k[i - 1])
      <4>1. i \in 0 .. m + 1 /\ i - 1 \in 0 .. m + 1 /\ i - 1 <= m
        OBVIOUS
      <4>2. k[i - 1] = g[i - 1]
        BY <3>3, <4>1
      <4>3. CASE i <= m
        <5>1. i \in 1 .. m /\ k[i] = g[i]
          BY <3>3, <4>1, <4>3
        <5>2. QED
          BY <3>1, <4>2, <5>1
      <4>4. CASE ~ (i <= m)
        <5>1. i - 1 = m /\ k[i] = d
          BY <3>3, <4>1, <4>4
        <5>2. QED
          BY <3>2, <4>2, <5>1
      <4>5. QED
        BY <4>3, <4>4
    <3>6. QED
      BY <2>1, <3>4, <3>5
  <2>4. Capacity \in S
    BY <1>3, <2>2, <2>3, NaturalsByInduction
  <2>5. PICK g : g[0] = first /\ \A i \in 1 .. Capacity : g[i] = Next1(g[i - 1])
    BY <2>1, <2>4
  <2>6. PICK k : k = [i \in 0 .. Capacity |-> g[i]]
    OBVIOUS
  <2>7. ASSUME NEW i \in 0 .. Capacity
        PROVE  k[i] = IF i = 0 THEN first ELSE Next1(k[i - 1])
    <3>1. k[i] = g[i]
      BY <2>6
    <3>2. CASE i = 0
      BY <2>5, <3>1, <3>2
    <3>3. CASE i # 0
      <4>1. i \in 1 .. Capacity /\ i - 1 \in 0 .. Capacity
        BY <1>3, <3>3
      <4>2. k[i - 1] = g[i - 1]
        BY <2>6, <4>1
      <4>3. QED
        BY <2>5, <3>1, <3>3, <4>1, <4>2
    <3>4. QED
      BY <3>2, <3>3
  <2>8. k = [n \in 0 .. Capacity |-> IF n = 0 THEN first ELSE Next1(k[n - 1])]
    BY <2>6, <2>7
  <2>9. QED
    BY <1>2, <2>8
<1>7. Is(After)
  BY <1>6, Zenon
<1> HIDE DEF After
<1>8. \A n \in 0 .. Capacity : After[n] = IF n = 0 THEN first ELSE Next1(After[n - 1])
  BY <1>2, <1>7
<1> DEFINE Good(n) ==
      /\ IsPopped(h, time, After[n])
      /\ \/ After[n].heap.size = 0 \/ FindMin(After[n].heap).time > time
         \/ After[n].heap.size = h.size - n
<1>9. h.size \in 0 .. Capacity
  BY DEF IsHeap
<1>10. Good(0)
  <2>1. After[0] = first
    BY <1>3, <1>8
  <2>2. h.size - 0 = h.size
    BY <1>9
  <2>3. QED
    BY <1>5, <2>1, <2>2 DEF IsPopped
<1>11. ASSUME NEW n \in Nat, n + 1 \in 0 .. Capacity, Good(n) PROVE Good(n + 1)
  <2>1. PICK was, d : was = After[n] /\ d = After[n + 1]
    OBVIOUS
  <2>2. d = Next1(was)
    <3>1. n + 1 # 0 /\ (n + 1) - 1 = n
      OBVIOUS
    <3>2. QED
      BY <1>8, <1>11, <2>1, <3>1
  <2>3. IsPopped(h, time, was)
    BY <1>11, <2>1
  <2>4. CASE d = was /\ (was.heap.size = 0 \/ FindMin(was.heap).time > time)
    BY <2>1, <2>3, <2>4
  <2>5. CASE /\ ~ (was.heap.size = 0 \/ FindMin(was.heap).time > time)
             /\ d.heap = DeleteMin(was.heap)
             /\ d.keys = was.keys \cup {FindMin(was.heap).key}
    <3>1. PICK k, t : k = was.heap /\ t = FindMin(k)
      OBVIOUS
    <3>2. IsHeap(k) /\ k.size # 0 /\ ~ (t.time > time)
      BY <2>3, <2>5, <3>1 DEF IsPopped
    <3>3. /\ IsHeap(d.heap) /\ d.heap.size = k.size - 1
          /\ TimersOf(k) \subseteq TimersOf(d.heap) \cup {t}
      BY <2>5, <3>1, <3>2, DeleteMinIsHeap
    <3>4. t.time \in Nat
      <4>1. t = k.elements[0] /\ 0 \in 0 .. Capacity
        BY <1>3, <3>1 DEF FindMin
      <4>2. QED
        BY <3>2, <4>1, TimesAre DEF IsHeap
    <3>5. t.time <= time
      BY <3>2, <3>4
    <3>6. t.key \in d.keys /\ was.keys \subseteq d.keys
      BY <2>5, <3>1
    <3>7. IsPopped(h, time, d)
      BY <2>3, <3>1, <3>3, <3>5, <3>6 DEF IsPopped
    <3>8. k.size = h.size - n
      BY <1>11, <2>1, <2>5, <3>1
    <3>9. d.heap.size = h.size - (n + 1)
      BY <1>9, <3>3, <3>8
    <3>10. QED
      BY <2>1, <3>7, <3>9
  <2>6. QED
    BY <1>4, <2>2, <2>4, <2>5
<1> HIDE DEF Good
<1>12. Good(Capacity)
  <2>1. PICK S : S = {n \in Nat : n \in 0 .. Capacity => Good(n)}
    OBVIOUS
  <2>2. 0 \in S
    BY <1>10, <2>1
  <2>3. ASSUME NEW n \in Nat, n \in S PROVE n + 1 \in S
    <3>1. n + 1 \in 0 .. Capacity => n \in 0 .. Capacity
      BY <1>3
    <3>2. QED
      BY <1>11, <2>1, <2>3, <3>1
  <2>4. Capacity \in S /\ Capacity \in 0 .. Capacity
    BY <1>3, <2>2, <2>3, NaturalsByInduction
  <2>5. QED
    BY <2>1, <2>4
<1>13. PICK d : d = PopDue(h, time)
  OBVIOUS
<1>14. IsPopped(h, time, d)
  BY <1>1, <1>12, <1>13 DEF Good
<1>15. IsHeap(d.heap)
  BY <1>14 DEF IsPopped
<1>16. d.heap.size = 0 \/ FindMin(d.heap).time > time
  <2>1. d.heap.size \in 0 .. Capacity
    BY <1>15 DEF IsHeap
  <2>2. d.heap.size = h.size - Capacity => d.heap.size = 0
    BY <1>3, <1>9, <2>1
  <2>3. QED
    BY <1>1, <1>12, <1>13, <2>2 DEF Good
<1>17. ASSUME NEW t \in TimersOf(d.heap) PROVE t.time > time
  <2>1. PICK i \in 0 .. d.heap.size - 1 : t = d.heap.elements[i]
    BY DEF TimersOf
  <2>2. d.heap.size # 0 /\ d.heap.size \in 0 .. Capacity
    BY <1>15, <2>1 DEF IsHeap
  <2>3. FindMin(d.heap).time <= t.time
    BY <1>15, <2>1, FirstIsEarliest
  <2>4. t.time \in Nat /\ FindMin(d.heap).time \in Nat
    <3>1. i \in 0 .. Capacity /\ 0 \in 0 .. Capacity
      BY <1>3, <2>2
    <3>2. QED
      BY <1>15, <2>1, <3>1, TimesAre DEF IsHeap, FindMin
  <2>5. QED
    BY <1>16, <2>2, <2>3, <2>4
<1>18. QED
  BY <1>13, <1>14, <1>17

-----------------------------------------------------------------------------
(* The whole state.                                                        *)

\* The inductive invariant with the timers.
TimersInv == IsHeap(expires) /\ now \in 0 .. MaxTime

\* The timers go as TimersFireOnTime says.
GoOnTime ==
  /\ UpdateDB => \A t \in TimersOf(expires') : t.time > now
  /\ \A t \in TimersOf(expires) \ TimersOf(expires') :
       Restart \/ (t.time <= now /\ IsFree(store', t.key))

\* An action that leaves the queue alone takes no timer.
LEMMA HeapUnchanged ==
  ASSUME TimersInv, UNCHANGED expires, now' \in 0 .. MaxTime
  PROVE  /\ TimersInv'
         /\ \A t \in TimersOf(expires) \ TimersOf(expires') : FALSE
<1>1. IsHeap(expires) => IsHeap(expires)'
  BY Zenon
<1>2. TimersOf(expires') = TimersOf(expires)
  BY Zenon
<1>3. QED
  BY <1>1, <1>2, Zenon DEF TimersInv

\* A turn of UpdateDB pops what is due, and frees its keys.
LEMMA TurnTimers ==
  ASSUME UpdateDB, TimersInv PROVE TimersInv' /\ GoOnTime
<1>1. PICK popped : popped = PopDue(expires, now)
  OBVIOUS
<1>2. PICK gone : gone = {k \in popped.keys : ~IsFree(store, k)}
  OBVIOUS
<1>3. /\ expires' = popped.heap /\ now' = now
      /\ store' = [k \in Keys |-> IF k \in gone THEN Absent ELSE store[k]]
  BY <1>1, <1>2, Zenon DEF UpdateDB
<1>4. IsHeap(expires) /\ now \in 0 .. MaxTime /\ now \in Nat
  BY DataSpaceAssumption DEF TimersInv
<1>5. /\ IsPopped(expires, now, popped)
      /\ \A t \in TimersOf(popped.heap) : t.time > now
  BY <1>1, <1>4, PopDueIs
<1>6. IsHeap(popped.heap)
  BY <1>5 DEF IsPopped
<1>7. TimersInv'
  <2>1. IsHeap(expires')
    BY <1>3, <1>6
  <2>2. QED
    BY <1>3, <1>4, <2>1 DEF TimersInv
<1>8. \A t \in TimersOf(expires') : t.time > now
  BY <1>3, <1>5
<1>9. ASSUME NEW t \in TimersOf(expires), t \notin TimersOf(expires')
      PROVE  t.time <= now /\ IsFree(store', t.key)
  <2>1. t.time <= now /\ t.key \in popped.keys
    BY <1>3, <1>5, <1>9 DEF IsPopped
  <2>2. t.key \in Keys
    BY <1>4, TimesAre DEF IsHeap, TimersOf
  <2>3. PICK k : k = t.key
    OBVIOUS
  <2>4. CASE k \in gone
    <3>1. store'[k] = Absent
      BY <1>3, <2>2, <2>3, <2>4
    <3>2. QED
      BY <2>1, <2>3, <3>1, NewIsValue DEF IsFree, IsA
  <2>5. CASE k \notin gone
    <3>1. store'[k] = store[k] /\ IsFree(store, k)
      BY <1>2, <1>3, <2>1, <2>2, <2>3, <2>5
    <3>2. QED
      BY <2>1, <2>3, <3>1 DEF IsFree, IsA
  <2>6. QED
    BY <2>4, <2>5
<1>10. QED
  BY <1>7, <1>8, <1>9 DEF GoOnTime

\* EXPIRE adds a timer, or finds the queue full or the key no string.
LEMMA ExpireTimers ==
  ASSUME TimersInv, NEW k \in Keys, NEW n \in Seconds, Expire(k, n)
  PROVE  TimersInv' /\ \A t \in TimersOf(expires) \ TimersOf(expires') : FALSE
<1>1. PICK x : x = [key |-> k, time |-> now + n]
  OBVIOUS
<1>2. IsHeap(expires) /\ now \in 0 .. MaxTime
  BY DEF TimersInv
<1>3. x \in Timer
  <2>1. now + n <= MaxTime
    BY DEF Expire
  <2>2. now + n \in 0 .. MaxTime
    BY <1>2, <2>1, DataSpaceAssumption
  <2>3. QED
    BY <1>1, <2>2 DEF Timer
<1>4. IsHeap(Insert(expires, x)) /\ TimersOf(expires) \subseteq TimersOf(Insert(expires, x))
  BY <1>2, <1>3, InsertIsHeap
<1>5. (expires' = Insert(expires, x) \/ expires' = expires) /\ now' = now
  BY <1>1 DEF Expire, ExpireKey
<1>6. IsHeap(expires') /\ TimersOf(expires) \subseteq TimersOf(expires')
  BY <1>2, <1>4, <1>5
<1>7. QED
  BY <1>2, <1>5, <1>6 DEF TimersInv

\* Every action keeps the heap, and takes timers as TimersFireOnTime says.
LEMMA EveryTimer ==
  ASSUME TimersInv, [Next]_vars PROVE TimersInv' /\ GoOnTime
<1>1. IsHeap(expires) /\ now \in 0 .. MaxTime /\ MaxTime \in Nat
  BY DataSpaceAssumption DEF TimersInv
<1>2. CASE UpdateDB
  BY <1>2, TurnTimers
<1>3. CASE ~UpdateDB /\ Restart
  <2>1. expires' = EmptyHeap /\ now' = now
    BY <1>3 DEF Restart
  <2>2. IsHeap(expires')
    BY <2>1, EmptyIsHeap
  <2>3. TimersInv'
    BY <1>1, <2>1, <2>2 DEF TimersInv
  <2>4. QED
    BY <1>3, <2>3 DEF GoOnTime
<1>4. CASE ~UpdateDB /\ \E k \in Keys, n \in Seconds : Expire(k, n)
  <2>1. TimersInv' /\ \A t \in TimersOf(expires) \ TimersOf(expires') : FALSE
    BY <1>4, ExpireTimers
  <2>2. QED
    BY <1>4, <2>1 DEF GoOnTime
<1>5. CASE ~UpdateDB /\ UNCHANGED expires /\ now' \in 0 .. MaxTime
  <2>1. TimersInv' /\ \A t \in TimersOf(expires) \ TimersOf(expires') : FALSE
    BY <1>5, HeapUnchanged
  <2>2. QED
    BY <1>5, <2>1 DEF GoOnTime
<1>6. Tick => UNCHANGED expires /\ now' \in 0 .. MaxTime
  BY <1>1 DEF Tick
<1>7. \A r : Command(r) => Restart \/ (UNCHANGED expires /\ now' \in 0 .. MaxTime)
  <2>1. UNCHANGED now => now' \in 0 .. MaxTime
    BY <1>1
  <2>2. QED
    BY <2>1, Zenon DEF Command
<1>8. UNCHANGED vars => UNCHANGED expires /\ now' \in 0 .. MaxTime
  BY <1>1 DEF vars
<1>9. Next => \/ UpdateDB \/ Tick \/ Restart \/ \E r : Command(r)
              \/ \E k \in Keys, n \in Seconds : Expire(k, n)
  BY Zenon DEF Next, Remove, Set, LPop, RPop, LPush, RPush, HSet, ZAdd
<1>10. QED
  BY <1>2, <1>3, <1>4, <1>5, <1>6, <1>7, <1>8, <1>9

\* Both invariants hold for good.
LEMMA TimersInvariance == Spec => [](IInv /\ TimersInv)
<1>1. Init => IInv /\ TimersInv
  <2>1. Init => IInv
    BY Initially
  <2>2. ASSUME Init PROVE TimersInv
    <3>1. expires = EmptyHeap /\ now = 0
      BY <2>2 DEF Init
    <3>2. IsHeap(expires)
      BY <3>1, EmptyIsHeap
    <3>3. QED
      BY <3>1, <3>2, DataSpaceAssumption DEF TimersInv
  <2>3. QED
    BY <2>1, <2>2
<1>2. IInv /\ TimersInv /\ [Next]_vars => (IInv /\ TimersInv)'
  BY EveryStep, EveryTimer
<1>3. QED
  BY <1>1, <1>2, PTL DEF Spec

\* Every value is one of the types, with the parts the others leave empty, and the queue
\* holds no more timers than it has room for, each of a key and a time to come.
THEOREM TypesOfTheKeySpace == Spec => []TypeOK
<1>1. IInv /\ TimersInv => TypeOK
  <2>1. ASSUME NEW x, IsValue(x) PROVE x \in Value
    <3>1. x.list \in List!Lists(Stored) /\ x.scores \in ZSet!SkipLists(Scores, Stored)
      BY <2>1 DEF IsValue, Chained, Tiered
    <3>2. PICK L, Z : L = List!Lists(Stored) /\ Z = ZSet!SkipLists(Scores, Stored)
      OBVIOUS
    <3>3. Value = [type : Types, str : Stored \cup {None}, list : L,
                   fields : [Fields -> Stored \cup {None, Dangling}], scores : Z]
      BY <3>2 DEF Value, Types
    <3>4. QED
      BY <2>1, <3>1, <3>2, <3>3 DEF IsValue
  <2>2. IInv => \A k \in Keys : store[k] \in Value /\ shadow[k] \in Value
    BY <2>1 DEF IInv, IsStore
  <2>3. TimersInv => /\ expires.size \in 0 .. Capacity
                     /\ expires.elements \in [0 .. Capacity -> Timer \cup {NoTimer}]
                     /\ TimersOf(expires) \subseteq Timer
                     /\ now \in 0 .. MaxTime
    BY DEF TimersInv, IsHeap, TimersOf
  <2>4. QED
    BY <2>2, <2>3 DEF TypeOK
<1>2. QED
  BY <1>1, TimersInvariance, PTL

\* The pointers of a JK_DList that count lead through all its nodes from either end, and
\* the rows of a JK_SkipList stay in order and find every score but the head's, after any
\* commands, expiries and restarts.
THEOREM ListsAndSetsStayWhole == Spec => []ObjectsAreSound
<1>1. ASSUME IInv, NEW k \in Mixed
      PROVE  List!IsList(store[k].list) /\ ZSet!IsSkipList(store[k].scores)
  <2>1. IsValue(store[k])
    BY <1>1, DataSpaceAssumption DEF IInv, IsStore
  <2>2. Chained(store[k].list) /\ Tiered(store[k].scores)
    BY <2>1 DEF IsValue
  <2>3. store[k].list.count \in Nat /\ HasPath(store[k].list)
    BY <2>2, ChainedIs DEF Chained
  <2>4. QED
    BY <2>2, <2>3, PathIsList, TieredIsSkipList
<1>2. IInv => ObjectsAreSound
  BY <1>1 DEF ObjectsAreSound
<1>3. QED
  BY <1>2, Invariance, PTL

\* The heap of JK_PriorityQueue stays in order through insert and deleteMin, though its
\* root is its own parent: a turn of UpdateDB leaves no timer that is due, and a timer
\* goes only when it is due, and takes its key with it.
THEOREM TimersGoOnTime == Spec => TimersFireOnTime
<1>1. IInv /\ TimersInv /\ [Next]_vars =>
        [/\ UpdateDB => \A t \in TimersOf(expires') : t.time > now
         /\ \A t \in TimersOf(expires) \ TimersOf(expires') :
              Restart \/ (t.time <= now /\ IsFree(store', t.key))]_vars
  BY EveryTimer, Zenon DEF GoOnTime
<1>2. QED
  BY <1>1, TimersInvariance, PTL DEF Spec, TimersFireOnTime
=============================================================================
