---------------------------- MODULE StreamProofs ----------------------------
(***************************************************************************)
(* Theorems about Stream, for rings, pools, packets and pieces of any      *)
(* size: the rings keep their shape, OnRecv gets the messages that were    *)
(* written, whole and in order, no cell is lost on its way, and the two    *)
(* ends are a channel.                                                     *)
(*                                                                         *)
(* The inductive invariant, Inv, has two parts.  TypeInv is about where    *)
(* things lie: the rings as head, tail and length tell, what the system    *)
(* may be reading or writing, and that a packet about to be handled lies   *)
(* in one piece.  Flow is about what they are: Way is everything between   *)
(* the two ends, in order, and begins with the packets that were written   *)
(* and have not been handled.                                              *)
(***************************************************************************)
EXTENDS Stream, SequenceTheorems, FiniteSetTheorems, WellFoundedInduction, TLAPS

-----------------------------------------------------------------------------
(* Rings.                                                                  *)

\* Where the i-th cell of a ring of n lies whose head is h.
Place(h, i, n) == IF h + i - 1 < n THEN h + i - 1 ELSE h + i - 1 - n

\* The i-th cell that is readable.
At(q, i) == q.data[Place(q.head, i, q.size)]

Ring(n) ==
  {q \in [data : [0 .. n + MaxPacket - 1 -> Cell], size : {n}, extra : {MaxPacket},
          head : 0 .. n - 1, tail : 0 .. n - 1, length : 0 .. n] :
     q.tail = Place(q.head, q.length + 1, n)}

LEMMA PlaceIs ==
  ASSUME NEW n \in Nat \ {0}, NEW h \in 0 .. n - 1, NEW i \in 1 .. n
  PROVE  /\ Place(h, i, n) \in 0 .. n - 1
         /\ (h + i - 1) % n = Place(h, i, n)
         /\ (h + i) % n = Place(h, i + 1, n)
         /\ Place(h, i + 1, n) \in 0 .. n - 1
<1>1. \A a \in 0 .. n - 1 : a % n = a
  OBVIOUS
<1>2. \A a \in n .. n + n - 1 : a % n = a - n
  OBVIOUS
<1>3. CASE h + i - 1 < n
  <2>1. h + i - 1 \in 0 .. n - 1
    BY <1>3
  <2>2. CASE h + i < n
    <3>1. h + i \in 0 .. n - 1
      BY <2>2
    <3>2. QED
      BY <1>1, <2>1, <2>2, <3>1 DEF Place
  <2>3. CASE ~(h + i < n)
    <3>1. h + i \in n .. n + n - 1
      BY <2>3
    <3>2. QED
      BY <1>1, <1>2, <2>1, <2>3, <3>1 DEF Place
  <2>4. QED
    BY <2>2, <2>3
<1>4. CASE ~(h + i - 1 < n)
  <2>1. h + i - 1 \in n .. n + n - 1 /\ h + i \in n .. n + n - 1 /\ ~(h + i < n)
    BY <1>4
  <2>2. QED
    BY <1>2, <1>4, <2>1 DEF Place
<1>5. QED
  BY <1>3, <1>4

\* No two cells lie in one place.
LEMMA PlaceOnce ==
  ASSUME NEW n \in Nat \ {0}, NEW h \in 0 .. n - 1, NEW i \in 1 .. n, NEW j \in 1 .. n,
         Place(h, i, n) = Place(h, j, n)
  PROVE  i = j
BY DEF Place

\* The j-th cell behind the i-th.
LEMMA PlaceBehind ==
  ASSUME NEW n \in Nat \ {0}, NEW h \in 0 .. n - 1, NEW i \in 0 .. n, NEW j \in 1 .. n,
         i + j <= n
  PROVE  Place(Place(h, i + 1, n), j, n) = Place(h, i + j, n)
BY DEF Place

\* A ring that is given by its fields.
LEMMA RingFields ==
  ASSUME NEW n \in Nat \ {0}, NEW q \in Ring(n)
  PROVE  /\ q \in [data : [0 .. n + MaxPacket - 1 -> Cell], size : {n}, extra : {MaxPacket},
                   head : 0 .. n - 1, tail : 0 .. n - 1, length : 0 .. n]
         /\ q.data \in [0 .. n + MaxPacket - 1 -> Cell] /\ q.size = n /\ q.extra = MaxPacket
         /\ q.head \in 0 .. n - 1 /\ q.tail \in 0 .. n - 1 /\ q.length \in 0 .. n
         /\ q.tail = Place(q.head, q.length + 1, n)
BY DEF Ring

LEMMA RingIsRing ==
  ASSUME NEW n \in Nat \ {0}, NEW q \in Ring(n)
  PROVE  IsRing(q, n)
<1>1. /\ q.head \in 0 .. n - 1 /\ q.length \in 0 .. n /\ q.tail = Place(q.head, q.length + 1, n)
  BY RingFields
<1>2. CASE q.length = 0
  <2>1. \A a \in 0 .. n - 1 : a % n = a
    OBVIOUS
  <2>2. q.tail = q.head /\ q.head + q.length = q.head
    BY <1>1, <1>2 DEF Place
  <2>3. q.tail = (q.head + q.length) % n
    BY <1>1, <2>1, <2>2
  <2>4. QED
    BY <2>3, RingFields DEF IsRing
<1>3. CASE q.length # 0
  <2>1. q.length \in 1 .. n
    BY <1>1, <1>3
  <2>2. q.tail = (q.head + q.length) % n
    BY <1>1, <2>1, PlaceIs
  <2>3. QED
    BY <2>2, RingFields DEF IsRing
<1>4. QED
  BY <1>2, <1>3

LEMMA PeekIs ==
  ASSUME NEW n \in Nat \ {0}, NEW q \in Ring(n), NEW k \in 0 .. n
  PROVE  Peek(q, k) = [i \in 1 .. k |-> At(q, i)]
<1>1. \A i \in 1 .. k : i \in 1 .. n
  OBVIOUS
<1>2. \A i \in 1 .. k : (q.head + i - 1) % q.size = Place(q.head, i, q.size)
  <2>1. q.size = n /\ q.head \in 0 .. n - 1
    BY RingFields
  <2>2. ASSUME NEW i \in 1 .. k PROVE (q.head + i - 1) % n = Place(q.head, i, n)
    BY <1>1, <2>1, PlaceIs
  <2>3. QED
    BY <2>1, <2>2
<1>3. QED
  BY <1>2 DEF Peek, At

\* memcpy of cells to a place where there is room for them.
LEMMA CopyIs ==
  ASSUME NEW n \in Nat \ {0}, NEW q \in Ring(n), NEW at \in Nat, NEW cells \in Seq(Cell),
         MaxPacket \in Nat, at + Len(cells) <= n + MaxPacket
  PROVE  /\ Copy(q, at, cells) \in Ring(n)
         /\ Copy(q, at, cells).head = q.head /\ Copy(q, at, cells).tail = q.tail
         /\ Copy(q, at, cells).length = q.length
         /\ \A i \in 1 .. Len(cells) : Copy(q, at, cells).data[at + i - 1] = cells[i]
         /\ \A x \in 0 .. n + MaxPacket - 1 :
              (x < at \/ x >= at + Len(cells)) => Copy(q, at, cells).data[x] = q.data[x]
<1> DEFINE data == [i \in 0 .. n + MaxPacket - 1 |->
                      IF i \in at .. at + Len(cells) - 1 THEN cells[i - at + 1] ELSE q.data[i]]
<1>1. /\ q \in [data : [0 .. n + MaxPacket - 1 -> Cell], size : {n}, extra : {MaxPacket},
                head : 0 .. n - 1, tail : 0 .. n - 1, length : 0 .. n]
      /\ q.data \in [0 .. n + MaxPacket - 1 -> Cell]
      /\ q.tail = Place(q.head, q.length + 1, n)
  BY RingFields
<1>2. Len(cells) \in Nat /\ \A i \in 1 .. Len(cells) : cells[i] \in Cell
  BY LenProperties, ElementOfSeq
<1>3. \A i \in 0 .. n + MaxPacket - 1 : i \in at .. at + Len(cells) - 1 => i - at + 1 \in 1 .. Len(cells)
  BY <1>2
<1>4. data \in [0 .. n + MaxPacket - 1 -> Cell]
  BY <1>1, <1>2, <1>3
<1>5. DOMAIN q.data = 0 .. n + MaxPacket - 1
  BY <1>1
<1>6. Copy(q, at, cells) = [q EXCEPT !.data = data]
  BY <1>5 DEF Copy
<1>7. PICK r : r = Copy(q, at, cells)
  OBVIOUS
<1>8. /\ r.data = data /\ r.head = q.head /\ r.tail = q.tail /\ r.length = q.length
      /\ r \in [data : [0 .. n + MaxPacket - 1 -> Cell], size : {n}, extra : {MaxPacket},
                head : 0 .. n - 1, tail : 0 .. n - 1, length : 0 .. n]
  <2> HIDE DEF data
  <2>1. QED
    BY <1>1, <1>4, <1>6, <1>7
<1>9. r \in Ring(n)
  BY <1>1, <1>8 DEF Ring
<1>10. ASSUME NEW i \in 1 .. Len(cells) PROVE r.data[at + i - 1] = cells[i]
  <2>1. /\ at + i - 1 \in 0 .. n + MaxPacket - 1 /\ at + i - 1 \in at .. at + Len(cells) - 1
        /\ (at + i - 1) - at + 1 = i
    BY <1>2
  <2>2. QED
    BY <1>8, <2>1
<1>11. ASSUME NEW x \in 0 .. n + MaxPacket - 1, x < at \/ x >= at + Len(cells)
       PROVE  r.data[x] = q.data[x]
  <2>1. x \notin at .. at + Len(cells) - 1
    BY <1>2, <1>11
  <2>2. QED
    BY <1>8, <2>1
<1>12. QED
  BY <1>7, <1>8, <1>9, <1>10, <1>11

LEMMA CommitIs ==
  ASSUME NEW n \in Nat \ {0}, NEW q \in Ring(n), NEW k \in Nat, q.length + k <= n
  PROVE  /\ Commit(q, k) \in Ring(n)
         /\ Commit(q, k).data = q.data /\ Commit(q, k).head = q.head
         /\ Commit(q, k).length = q.length + k
         /\ \A i : At(Commit(q, k), i) = At(q, i)
<1>1. /\ q \in [data : [0 .. n + MaxPacket - 1 -> Cell], size : {n}, extra : {MaxPacket},
                head : 0 .. n - 1, tail : 0 .. n - 1, length : 0 .. n]
      /\ q.tail = Place(q.head, q.length + 1, n) /\ q.size = n
      /\ q.head \in 0 .. n - 1 /\ q.length \in 0 .. n /\ q.tail \in 0 .. n - 1
  BY RingFields
<1>2. (q.tail + k) % n = Place(q.head, q.length + k + 1, n)
      /\ Place(q.head, q.length + k + 1, n) \in 0 .. n - 1
  <2>1. CASE k = 0
    <3>1. \A a \in 0 .. n - 1 : a % n = a
      OBVIOUS
    <3>2. q.tail + k = q.tail /\ q.length + k + 1 = q.length + 1
      BY <1>1, <2>1
    <3>3. QED
      BY <1>1, <3>1, <3>2, ZenonT(30)
  <2>2. CASE k # 0
    <3>1. k \in 1 .. n /\ q.length + k \in 1 .. n /\ k + q.length <= n
      BY <1>1, <2>2
    <3>2. (q.tail + k) % n = Place(q.tail, k + 1, n)
      BY <1>1, <3>1, PlaceIs
    <3>3. Place(q.head, (q.length + k) + 1, n) \in 0 .. n - 1
      BY <1>1, <3>1, PlaceIs
    <3>4. Place(q.tail, k + 1, n) = Place(q.head, q.length + k + 1, n)
      <4>1. ASSUME NEW h \in 0 .. n - 1, NEW len \in 0 .. n, len + k <= n
            PROVE  Place(Place(h, len + 1, n), k + 1, n) = Place(h, len + k + 1, n)
        BY <3>1, <4>1 DEF Place
      <4>2. QED
        BY <1>1, <3>1, <4>1
    <3>5. QED
      BY <3>2, <3>3, <3>4
  <2>3. QED
    BY <2>1, <2>2
<1>3. PICK r : r = Commit(q, k)
  OBVIOUS
<1>4. r = [q EXCEPT !.tail = (q.tail + k) % n, !.length = q.length + k]
  BY <1>1, <1>3 DEF Commit
<1>5. /\ r.data = q.data /\ r.head = q.head /\ r.size = n /\ r.length = q.length + k
      /\ r.tail = Place(q.head, q.length + k + 1, n)
      /\ r \in [data : [0 .. n + MaxPacket - 1 -> Cell], size : {n}, extra : {MaxPacket},
                head : 0 .. n - 1, tail : 0 .. n - 1, length : 0 .. n]
  <2>1. q.length + k \in 0 .. n
    BY <1>1
  <2>2. QED
    BY <1>1, <1>2, <1>4, <2>1
<1>6. r \in Ring(n)
  BY <1>5 DEF Ring
<1>7. \A i : At(r, i) = At(q, i)
  BY <1>1, <1>5 DEF At
<1>8. QED
  BY <1>3, <1>5, <1>6, <1>7

LEMMA DequeueIs ==
  ASSUME NEW n \in Nat \ {0}, NEW q \in Ring(n), NEW k \in Nat, k <= q.length
  PROVE  /\ Dequeue(q, k) \in Ring(n)
         /\ Dequeue(q, k).data = q.data /\ Dequeue(q, k).tail = q.tail
         /\ Dequeue(q, k).length = q.length - k
         /\ \A i \in 1 .. q.length - k : At(Dequeue(q, k), i) = At(q, k + i)
<1>1. /\ q \in [data : [0 .. n + MaxPacket - 1 -> Cell], size : {n}, extra : {MaxPacket},
                head : 0 .. n - 1, tail : 0 .. n - 1, length : 0 .. n]
      /\ q.tail = Place(q.head, q.length + 1, n) /\ q.size = n
      /\ q.head \in 0 .. n - 1 /\ q.length \in 0 .. n /\ q.tail \in 0 .. n - 1
  BY RingFields
<1>2. (q.head + k) % n = Place(q.head, k + 1, n) /\ Place(q.head, k + 1, n) \in 0 .. n - 1
  <2>1. CASE k = 0
    <3>1. \A a \in 0 .. n - 1 : a % n = a
      OBVIOUS
    <3>2. q.head + k = q.head /\ Place(q.head, k + 1, n) = q.head
      BY <1>1, <2>1 DEF Place
    <3>3. QED
      BY <1>1, <3>1, <3>2
  <2>2. CASE k # 0
    <3>1. k \in 1 .. n
      BY <1>1, <2>2
    <3>2. QED
      BY <1>1, <3>1, PlaceIs
  <2>3. QED
    BY <2>1, <2>2
<1>3. PICK r : r = Dequeue(q, k)
  OBVIOUS
<1>4. r = [q EXCEPT !.head = (q.head + k) % n, !.length = q.length - k]
  BY <1>1, <1>3 DEF Dequeue
<1>5. /\ r.data = q.data /\ r.head = Place(q.head, k + 1, n) /\ r.size = n /\ r.tail = q.tail
      /\ r.length = q.length - k
      /\ r \in [data : [0 .. n + MaxPacket - 1 -> Cell], size : {n}, extra : {MaxPacket},
                head : 0 .. n - 1, tail : 0 .. n - 1, length : 0 .. n]
  <2>1. q.length - k \in 0 .. n
    BY <1>1
  <2>2. QED
    BY <1>1, <1>2, <1>4, <2>1
<1>6. Place(r.head, r.length + 1, n) = r.tail
  <2>1. ASSUME NEW h \in 0 .. n - 1, NEW len \in 0 .. n, k <= len
        PROVE  Place(Place(h, k + 1, n), len - k + 1, n) = Place(h, len + 1, n)
    BY <2>1 DEF Place
  <2>2. QED
    BY <1>1, <1>5, <2>1
<1>7. r \in Ring(n)
  BY <1>5, <1>6 DEF Ring
<1>8. ASSUME NEW i \in 1 .. q.length - k PROVE At(r, i) = At(q, k + i)
  <2>1. k \in 0 .. n /\ i \in 1 .. n /\ k + i <= n
    BY <1>1
  <2>2. Place(r.head, i, n) = Place(q.head, k + i, n)
    BY <1>1, <1>5, <2>1, PlaceBehind
  <2>3. QED
    BY <1>1, <1>5, <2>2 DEF At
<1>9. QED
  BY <1>3, <1>5, <1>7, <1>8

\* Before and behind the end of the ring.
LEMMA PlaceBeforeEnd ==
  ASSUME NEW n \in Nat \ {0}, NEW t \in 0 .. n - 1, NEW i \in Int, 1 <= i, i <= n - t
  PROVE  Place(t, i, n) = t + i - 1
BY DEF Place

LEMMA PlaceBehindEnd ==
  ASSUME NEW n \in Nat \ {0}, NEW t \in 0 .. n - 1, NEW i \in Int, n - t < i
  PROVE  Place(t, i, n) = i - (n - t) - 1
BY DEF Place

\* What Enqueue writes lies behind what was there, wherever the ring ends.
LEMMA EnqueueIs ==
  ASSUME NEW n \in Nat \ {0}, NEW q \in Ring(n), NEW cells \in Seq(Cell), MaxPacket \in Nat,
         Len(cells) <= GetSpace(q)
  PROVE  /\ Enqueue(q, cells) \in Ring(n)
         /\ Enqueue(q, cells).head = q.head
         /\ Enqueue(q, cells).length = q.length + Len(cells)
         /\ \A i \in 1 .. q.length : At(Enqueue(q, cells), i) = At(q, i)
         /\ \A i \in 1 .. Len(cells) : At(Enqueue(q, cells), q.length + i) = cells[i]
<1>1. /\ q.head \in 0 .. n - 1 /\ q.tail \in 0 .. n - 1 /\ q.length \in 0 .. n
      /\ q.tail = Place(q.head, q.length + 1, n) /\ q.size = n
  BY RingFields
<1>0. PICK t : t = q.tail /\ t \in 0 .. n - 1
  BY <1>1
<1>2. PICK k : k = Len(cells) /\ k \in Nat /\ q.length + k <= n
  <2>1. Len(cells) \in Nat
    BY LenProperties
  <2>2. QED
    BY <1>1, <2>1 DEF GetSpace
<1>3. PICK back : back = n - t /\ back \in 1 .. n
  BY <1>0
<1>20. k <= n
  BY <1>1, <1>2
<1>4. PICK m : m = IF k <= back THEN Copy(q, t, cells)
                   ELSE Copy(Copy(q, t, SubSeq(cells, 1, back)), 0, SubSeq(cells, back + 1, k))
  OBVIOUS
<1>5. Enqueue(q, cells) = Commit(m, k)
  BY <1>0, <1>1, <1>2, <1>3, <1>4 DEF Enqueue
<1>6. /\ m \in Ring(n) /\ m.head = q.head /\ m.length = q.length
      /\ \A i \in 1 .. k : m.data[Place(t, i, n)] = cells[i]
      /\ \A x \in 0 .. n - 1 : (\A i \in 1 .. k : Place(t, i, n) # x) => m.data[x] = q.data[x]
  <2>1. CASE k <= back
    <3>1. t \in Nat /\ t + Len(cells) <= n + MaxPacket
      BY <1>0, <1>2, <1>3, <2>1
    <3>2. /\ m \in Ring(n) /\ m.head = q.head /\ m.length = q.length
          /\ \A i \in 1 .. k : m.data[t + i - 1] = cells[i]
          /\ \A x \in 0 .. n + MaxPacket - 1 : (x < t \/ x >= t + k) => m.data[x] = q.data[x]
      BY <1>2, <1>4, <2>1, <3>1, CopyIs
    <3>3. \A i \in 1 .. k : Place(t, i, n) = t + i - 1
      <4>1. \A i \in 1 .. k : i \in Int /\ 1 <= i /\ i <= n - t
        BY <1>0, <1>2, <1>3, <2>1
      <4>2. QED
        BY <1>0, <4>1, PlaceBeforeEnd
    <3>4. ASSUME NEW x \in 0 .. n - 1, \A i \in 1 .. k : Place(t, i, n) # x
          PROVE  m.data[x] = q.data[x]
      <4>1. x < t \/ x >= t + k
        <5>1. SUFFICES ASSUME x >= t, x < t + k PROVE FALSE
          BY <1>0, <1>2
        <5>2. x - t + 1 \in 1 .. k /\ t + (x - t + 1) - 1 = x
          BY <1>0, <1>2, <5>1
        <5>3. QED
          BY <3>3, <3>4, <5>2
      <4>2. x \in 0 .. n + MaxPacket - 1
        OBVIOUS
      <4>3. QED
        BY <3>2, <4>1, <4>2
    <3>5. QED
      BY <3>2, <3>3, <3>4
  <2>2. CASE ~(k <= back)
    <3>1. PICK c1, c2 : c1 = SubSeq(cells, 1, back) /\ c2 = SubSeq(cells, back + 1, k)
      OBVIOUS
    <3>2. /\ c1 \in Seq(Cell) /\ Len(c1) = back /\ \A i \in 1 .. back : c1[i] = cells[i]
          /\ c2 \in Seq(Cell) /\ Len(c2) = k - back
          /\ \A i \in 1 .. k - back : c2[i] = cells[back + i]
      <4>1. 1 \in 1 .. k + 1 /\ back \in 0 .. k /\ back + 1 \in 1 .. k + 1 /\ k \in 0 .. k
            /\ 1 <= back /\ back + 1 <= k /\ back - 1 + 1 = back /\ k - (back + 1) + 1 = k - back
        BY <1>2, <1>3, <2>2
      <4>2. c1 \in Seq(Cell) /\ Len(c1) = back /\ \A i \in 1 .. back : c1[i] = cells[i]
        <5>1. c1 \in Seq(Cell) /\ Len(c1) = back - 1 + 1
              /\ \A i \in 1 .. back - 1 + 1 : c1[i] = cells[1 + i - 1]
          BY <1>2, <3>1, <4>1, SubSeqProperties
        <5>2. \A i \in 1 .. back : 1 + i - 1 = i
          BY <1>3
        <5>3. QED
          BY <4>1, <5>1, <5>2
      <4>3. c2 \in Seq(Cell) /\ Len(c2) = k - back
            /\ \A i \in 1 .. k - back : c2[i] = cells[back + i]
        <5>1. c2 \in Seq(Cell) /\ Len(c2) = k - (back + 1) + 1
              /\ \A i \in 1 .. k - (back + 1) + 1 : c2[i] = cells[(back + 1) + i - 1]
          BY <1>2, <3>1, <4>1, SubSeqProperties
        <5>2. \A i \in 1 .. k - back : (back + 1) + i - 1 = back + i
          BY <1>2, <1>3
        <5>3. QED
          BY <4>1, <5>1, <5>2
      <4>4. QED
        BY <4>2, <4>3
    <3>3. PICK p : p = Copy(q, t, c1)
      OBVIOUS
    <3>4. /\ p \in Ring(n) /\ p.head = q.head /\ p.length = q.length
          /\ \A i \in 1 .. back : p.data[t + i - 1] = cells[i]
          /\ \A x \in 0 .. n + MaxPacket - 1 : (x < t \/ x >= t + back) => p.data[x] = q.data[x]
      <4>1. t \in Nat /\ t + Len(c1) <= n + MaxPacket
        BY <1>0, <1>3, <3>2
      <4>2. c1 \in Seq(Cell)
        BY <3>2
      <4>3. /\ p \in Ring(n) /\ p.head = q.head /\ p.length = q.length
            /\ \A i \in 1 .. Len(c1) : p.data[t + i - 1] = c1[i]
            /\ \A x \in 0 .. n + MaxPacket - 1 :
                 (x < t \/ x >= t + Len(c1)) => p.data[x] = q.data[x]
        BY <3>3, <4>1, <4>2, CopyIs
      <4>4. QED
        BY <3>2, <4>3
    <3>5. /\ m \in Ring(n) /\ m.head = p.head /\ m.length = p.length
          /\ \A i \in 1 .. k - back : m.data[0 + i - 1] = c2[i]
          /\ \A x \in 0 .. n + MaxPacket - 1 :
               (x < 0 \/ x >= 0 + (k - back)) => m.data[x] = p.data[x]
      <4>1. 0 \in Nat /\ 0 + Len(c2) <= n + MaxPacket
        BY <1>20, <1>2, <1>3, <3>2
      <4>2. m = Copy(p, 0, c2)
        BY <1>4, <2>2, <3>1, <3>3
      <4>3. p \in Ring(n) /\ c2 \in Seq(Cell) /\ Len(c2) = k - back
        BY <3>2, <3>4
      <4>4. /\ m \in Ring(n) /\ m.head = p.head /\ m.length = p.length
            /\ \A i \in 1 .. Len(c2) : m.data[0 + i - 1] = c2[i]
            /\ \A x \in 0 .. n + MaxPacket - 1 :
                 (x < 0 \/ x >= 0 + Len(c2)) => m.data[x] = p.data[x]
        BY <4>1, <4>2, <4>3, CopyIs
      <4>5. QED
        BY <4>3, <4>4
    <3>6. k - back <= t
      BY <1>0, <1>2, <1>20, <1>3
    <3>7. ASSUME NEW i \in 1 .. k PROVE m.data[Place(t, i, n)] = cells[i]
      <4>0. i \in Int /\ 1 <= i /\ i <= k
        BY <1>2
      <4>1. CASE i <= back
        <5>1. Place(t, i, n) = t + i - 1
          BY <1>0, <1>3, <4>0, <4>1, PlaceBeforeEnd
        <5>2. t + i - 1 \in 0 .. n + MaxPacket - 1
          BY <1>0, <1>3, <4>0, <4>1
        <5>3. t + i - 1 >= 0 + (k - back)
          BY <1>0, <1>2, <1>3, <3>6, <4>0
        <5>4. i \in 1 .. back
          BY <1>3, <4>0, <4>1
        <5>5. m.data[t + i - 1] = p.data[t + i - 1]
          BY <3>5, <5>2, <5>3
        <5>6. QED
          BY <3>4, <5>1, <5>4, <5>5
      <4>2. CASE ~(i <= back)
        <5>1. Place(t, i, n) = i - back - 1
          <6>1. n - t < i
            BY <1>0, <1>3, <4>0, <4>2
          <6>2. QED
            BY <1>0, <1>3, <4>0, <6>1, PlaceBehindEnd
        <5>2. i - back \in 1 .. k - back /\ 0 + (i - back) - 1 = i - back - 1 /\ back + (i - back) = i
          BY <1>2, <1>3, <4>0, <4>2
        <5>3. m.data[0 + (i - back) - 1] = c2[i - back]
          BY <3>5, <5>2
        <5>4. c2[i - back] = cells[back + (i - back)]
          BY <3>2, <5>2
        <5>5. QED
          BY <5>1, <5>2, <5>3, <5>4
      <4>3. QED
        BY <4>1, <4>2
    <3>8. ASSUME NEW x \in 0 .. n - 1, \A i \in 1 .. k : Place(t, i, n) # x
          PROVE  m.data[x] = q.data[x]
      <4>0. x \in Int /\ 0 <= x /\ x <= n - 1
        OBVIOUS
      <4>1. x < t
        <5>1. SUFFICES ASSUME x >= t PROVE FALSE
          BY <1>0
        <5>2. PICK i : i = x - t + 1
          OBVIOUS
        <5>3. i \in Int /\ 1 <= i /\ i <= n - t /\ i <= back
          BY <1>0, <1>3, <4>0, <5>1, <5>2
        <5>4. i \in 1 .. k
          BY <1>2, <1>3, <2>2, <5>3
        <5>5. Place(t, i, n) = t + i - 1
          BY <1>0, <5>3, PlaceBeforeEnd
        <5>6. t + i - 1 = x
          BY <1>0, <4>0, <5>2
        <5>7. QED
          BY <3>8, <5>4, <5>5, <5>6
      <4>2. x >= k - back
        <5>1. SUFFICES ASSUME x < k - back PROVE FALSE
          BY <1>2, <1>3, <4>0
        <5>2. PICK i : i = back + x + 1
          OBVIOUS
        <5>3. i \in Int /\ n - t < i /\ 1 <= i
          BY <1>0, <1>3, <4>0, <5>2, SMTT(30)
        <5>4. i \in 1 .. k
          BY <1>2, <1>3, <4>0, <5>1, <5>2, <5>3
        <5>5. Place(t, i, n) = i - (n - t) - 1
          BY <1>0, <5>3, PlaceBehindEnd
        <5>6. i - (n - t) - 1 = x
          <6>1. i - back - 1 = x
            BY <1>3, <4>0, <5>2
          <6>2. QED
            BY <1>3, <6>1
        <5>7. QED
          BY <3>8, <5>4, <5>5, <5>6
      <4>3. x \in 0 .. n + MaxPacket - 1 /\ x >= 0 + (k - back)
        BY <1>2, <1>3, <4>0, <4>2
      <4>4. m.data[x] = p.data[x] /\ p.data[x] = q.data[x]
        BY <3>4, <3>5, <4>1, <4>3
      <4>5. QED
        BY <4>4
    <3>9. QED
      BY <3>4, <3>5, <3>7, <3>8
  <2>3. QED
    BY <2>1, <2>2
<1>7. /\ Commit(m, k) \in Ring(n) /\ Commit(m, k).head = q.head
      /\ Commit(m, k).length = q.length + k /\ \A i : At(Commit(m, k), i) = At(m, i)
  BY <1>2, <1>6, CommitIs
<1>8. m.size = n
  BY <1>6, RingFields
<1>9. ASSUME NEW i \in 1 .. q.length PROVE At(m, i) = At(q, i)
  <2>0. i \in 1 .. n
    BY <1>1
  <2>1. i \in 1 .. n /\ Place(q.head, i, n) \in 0 .. n - 1
    BY <1>1, <2>0, PlaceIs
  <2>2. ASSUME NEW j \in 1 .. k PROVE Place(t, j, n) # Place(q.head, i, n)
    <3>1. j \in 1 .. n /\ q.length + j \in 1 .. n /\ q.length + j <= n /\ i # q.length + j
      BY <1>1, <1>2
    <3>2. Place(t, j, n) = Place(q.head, q.length + j, n)
      BY <1>0, <1>1, <3>1, PlaceBehind
    <3>3. QED
      BY <1>1, <2>1, <3>1, <3>2, PlaceOnce
  <2>3. QED
    BY <1>1, <1>6, <1>8, <2>1, <2>2 DEF At
<1>10. ASSUME NEW i \in 1 .. k PROVE At(m, q.length + i) = cells[i]
  <2>1. i \in 1 .. n /\ q.length + i <= n
    BY <1>1, <1>2
  <2>2. Place(t, i, n) = Place(q.head, q.length + i, n)
    BY <1>0, <1>1, <2>1, PlaceBehind
  <2>3. QED
    BY <1>6, <1>8, <2>2 DEF At
<1>11. QED
  BY <1>2, <1>5, <1>7, <1>9, <1>10

\* The cells of a ring behind the first k, in the order in which they are read.
Rest(q, k) == [i \in 1 .. q.length - k |-> At(q, k + i)]

LEMMA AtIsCell ==
  ASSUME NEW n \in Nat \ {0}, NEW q \in Ring(n), NEW i \in 1 .. n, MaxPacket \in Nat
  PROVE  At(q, i) \in Cell
<1>1. q.head \in 0 .. n - 1 /\ q.size = n /\ q.data \in [0 .. n + MaxPacket - 1 -> Cell]
  BY RingFields
<1>2. Place(q.head, i, n) \in 0 .. n - 1
  BY <1>1, PlaceIs
<1>3. Place(q.head, i, n) \in 0 .. n + MaxPacket - 1
  BY <1>2
<1>4. QED
  BY <1>1, <1>3 DEF At

LEMMA RestIs ==
  ASSUME NEW n \in Nat \ {0}, NEW q \in Ring(n), NEW k \in 0 .. q.length, MaxPacket \in Nat
  PROVE  /\ Rest(q, k) \in Seq(Cell) /\ Len(Rest(q, k)) = q.length - k
         /\ \A i \in 1 .. q.length - k : Rest(q, k)[i] = At(q, k + i)
         /\ q.length \in 0 .. n
<1>1. PICK len : len = q.length /\ len \in 0 .. n
  BY RingFields
<1>2. len - k \in Nat /\ k \in Nat
  BY <1>1
<1>3. ASSUME NEW i \in 1 .. len - k PROVE At(q, k + i) \in Cell
  <2>1. k + i \in 1 .. n
    BY <1>1, <1>2
  <2>2. QED
    BY <2>1, AtIsCell
<1>4. Rest(q, k) \in [1 .. len - k -> Cell]
  BY <1>1, <1>3 DEF Rest
<1>5. Rest(q, k) \in Seq(Cell) /\ Len(Rest(q, k)) = len - k
  BY <1>2, <1>4, SeqDef
<1>6. QED
  BY <1>1, <1>5 DEF Rest

LEMMA PeekRest ==
  ASSUME NEW n \in Nat \ {0}, NEW q \in Ring(n)
  PROVE  Peek(q, q.length) = Rest(q, 0)
<1>1. PICK len : len = q.length /\ len \in 0 .. n
  BY RingFields
<1>2. Peek(q, len) = [i \in 1 .. len |-> At(q, i)]
  BY <1>1, PeekIs
<1>3. len - 0 = len /\ \A i \in 1 .. len : 0 + i = i
  BY <1>1
<1>4. QED
  BY <1>1, <1>2, <1>3 DEF Rest

\* A sequence of cells that is another one with a third behind it.
LEMMA ConcatIs ==
  ASSUME NEW S, NEW s \in Seq(S), NEW t \in Seq(S), NEW u \in Seq(S),
         Len(u) = Len(s) + Len(t),
         \A i \in 1 .. Len(s) : u[i] = s[i],
         \A i \in 1 .. Len(t) : u[Len(s) + i] = t[i]
  PROVE  u = s \o t
<1>1. Len(s) \in Nat /\ Len(t) \in Nat
  BY LenProperties
<1>2. /\ s \o t \in Seq(S) /\ Len(s \o t) = Len(s) + Len(t)
      /\ \A i \in 1 .. Len(s) + Len(t) : (s \o t)[i] = IF i <= Len(s) THEN s[i] ELSE t[i - Len(s)]
  BY ConcatProperties
<1>3. PICK v : v = s \o t
  OBVIOUS
<1>4. PICK a, b : a = Len(s) /\ b = Len(t)
  OBVIOUS
<1>5. ASSUME NEW i \in 1 .. Len(u) PROVE u[i] = v[i]
  <2>1. i \in 1 .. a + b
    BY <1>4
  <2>2. CASE i <= a
    <3>1. i \in 1 .. a
      BY <1>1, <1>4, <2>1, <2>2
    <3>2. QED
      BY <1>2, <1>3, <1>4, <2>1, <2>2, <3>1
  <2>3. CASE ~(i <= a)
    <3>1. i - a \in 1 .. b /\ a + (i - a) = i
      BY <1>1, <1>4, <2>1, <2>3
    <3>2. u[a + (i - a)] = t[i - a]
      BY <1>4, <3>1
    <3>3. v[i] = t[i - a]
      BY <1>2, <1>3, <1>4, <2>1, <2>3
    <3>4. QED
      BY <3>1, <3>2, <3>3
  <2>4. QED
    BY <2>2, <2>3
<1>6. v \in Seq(S) /\ Len(v) = Len(u)
  BY <1>2, <1>3
<1>7. u = v
  BY <1>5, <1>6, SeqEqual
<1>8. QED
  BY <1>3, <1>7

LEMMA RestEnqueue ==
  ASSUME NEW n \in Nat \ {0}, NEW q \in Ring(n), NEW cells \in Seq(Cell), MaxPacket \in Nat,
         Len(cells) <= GetSpace(q), NEW k \in 0 .. q.length
  PROVE  /\ Enqueue(q, cells) \in Ring(n)
         /\ Enqueue(q, cells).head = q.head
         /\ Enqueue(q, cells).length = q.length + Len(cells)
         /\ Rest(Enqueue(q, cells), k) = Rest(q, k) \o cells
<1>1. PICK r : r = Enqueue(q, cells)
  OBVIOUS
<1>2. PICK c : c = Len(cells) /\ c \in Nat
  BY LenProperties
<1>3. PICK len : len = q.length /\ len \in 0 .. n
  BY RingFields
<1>4. /\ r \in Ring(n) /\ r.head = q.head /\ r.length = len + c
      /\ \A i \in 1 .. len : At(r, i) = At(q, i)
      /\ \A i \in 1 .. c : At(r, len + i) = cells[i]
  BY <1>1, <1>2, <1>3, EnqueueIs
<1>5. k \in 0 .. r.length
  BY <1>2, <1>3, <1>4
<1>6. /\ Rest(q, k) \in Seq(Cell) /\ Len(Rest(q, k)) = len - k
      /\ \A i \in 1 .. len - k : Rest(q, k)[i] = At(q, k + i)
  BY <1>3, RestIs
<1>7. /\ Rest(r, k) \in Seq(Cell) /\ Len(Rest(r, k)) = (len + c) - k
      /\ \A i \in 1 .. (len + c) - k : Rest(r, k)[i] = At(r, k + i)
  BY <1>4, <1>5, RestIs
<1>8. k \in Nat /\ k <= len
  BY <1>3
<1>9. Len(Rest(r, k)) = Len(Rest(q, k)) + Len(cells)
  BY <1>2, <1>3, <1>6, <1>7, <1>8
<1>10. ASSUME NEW i \in 1 .. len - k PROVE Rest(r, k)[i] = Rest(q, k)[i]
  <2>1. i \in 1 .. (len + c) - k /\ k + i \in 1 .. len
    BY <1>2, <1>3, <1>8
  <2>2. QED
    BY <1>4, <1>6, <1>7, <2>1
<1>11. ASSUME NEW i \in 1 .. c PROVE Rest(r, k)[(len - k) + i] = cells[i]
  <2>1. (len - k) + i \in 1 .. (len + c) - k /\ k + ((len - k) + i) = len + i
    BY <1>2, <1>3, <1>8
  <2>2. Rest(r, k)[(len - k) + i] = At(r, k + ((len - k) + i))
    BY <1>7, <2>1
  <2>3. QED
    BY <1>4, <2>1, <2>2
<1>12. Rest(r, k) = Rest(q, k) \o cells
  <2>1. \A i \in 1 .. Len(Rest(q, k)) : Rest(r, k)[i] = Rest(q, k)[i]
    BY <1>6, <1>10
  <2>2. \A i \in 1 .. Len(cells) : Rest(r, k)[Len(Rest(q, k)) + i] = cells[i]
    BY <1>2, <1>6, <1>11
  <2>3. QED
    BY <1>6, <1>7, <1>9, <2>1, <2>2, ConcatIs
<1>13. QED
  BY <1>1, <1>2, <1>3, <1>4, <1>12

LEMMA RestDequeue ==
  ASSUME NEW n \in Nat \ {0}, NEW q \in Ring(n), NEW k \in 0 .. q.length, MaxPacket \in Nat
  PROVE  Rest(Dequeue(q, k), 0) = Rest(q, k)
<1>1. PICK r : r = Dequeue(q, k)
  OBVIOUS
<1>2. PICK len : len = q.length /\ len \in 0 .. n
  BY RingFields
<1>3. k \in Nat /\ k <= len
  BY <1>2
<1>4. r.length = len - k /\ \A i \in 1 .. len - k : At(r, i) = At(q, k + i)
  BY <1>1, <1>2, <1>3, DequeueIs
<1>5. (len - k) - 0 = len - k /\ \A i \in 1 .. len - k : 0 + i = i
  BY <1>2, <1>3
<1>6. Rest(r, 0) = Rest(q, k)
  BY <1>2, <1>4, <1>5 DEF Rest
<1>7. QED
  BY <1>1, <1>6

LEMMA ReadAtIs ==
  ASSUME NEW n \in Nat \ {0}, NEW q \in Ring(n), NEW at \in Nat, NEW k \in Nat,
         MaxPacket \in Nat, at + k <= n + MaxPacket
  PROVE  /\ ReadAt(q, at, k) \in Seq(Cell) /\ Len(ReadAt(q, at, k)) = k
         /\ \A i \in 1 .. k : ReadAt(q, at, k)[i] = q.data[at + i - 1]
<1>1. q.data \in [0 .. n + MaxPacket - 1 -> Cell]
  BY RingFields
<1>2. ASSUME NEW i \in 1 .. k PROVE q.data[at + i - 1] \in Cell
  <2>1. at + i - 1 \in 0 .. n + MaxPacket - 1
    OBVIOUS
  <2>2. QED
    BY <1>1, <2>1
<1>3. ReadAt(q, at, k) \in [1 .. k -> Cell]
  BY <1>2 DEF ReadAt
<1>4. ReadAt(q, at, k) \in Seq(Cell) /\ Len(ReadAt(q, at, k)) = k
  BY <1>3, SeqDef
<1>5. QED
  BY <1>4 DEF ReadAt

\* Two rings that differ in the extra cells only.
Alike(n, q, r) ==
  /\ r \in Ring(n)
  /\ r.head = q.head /\ r.tail = q.tail /\ r.length = q.length
  /\ \A x \in 0 .. n - 1 : r.data[x] = q.data[x]

LEMMA AlikeIs ==
  ASSUME NEW n \in Nat \ {0}, NEW q \in Ring(n), NEW r, Alike(n, q, r)
  PROVE  /\ \A i \in 1 .. n : At(r, i) = At(q, i)
         /\ \A k \in 0 .. q.length : Rest(r, k) = Rest(q, k)
         /\ \A at \in Nat, k \in Nat : at + k <= n => ReadAt(r, at, k) = ReadAt(q, at, k)
<1>1. /\ q.size = n /\ r.size = n /\ q.head \in 0 .. n - 1
      /\ r.head = q.head /\ r.length = q.length
      /\ \A x \in 0 .. n - 1 : r.data[x] = q.data[x]
  BY RingFields DEF Alike
<1>2. ASSUME NEW i \in 1 .. n PROVE At(r, i) = At(q, i)
  <2>1. Place(q.head, i, n) \in 0 .. n - 1
    BY <1>1, PlaceIs
  <2>2. QED
    BY <1>1, <2>1 DEF At
<1>3. ASSUME NEW k \in 0 .. q.length PROVE Rest(r, k) = Rest(q, k)
  <2>1. PICK len : len = q.length /\ len \in 0 .. n
    BY RingFields
  <2>2. \A i \in 1 .. len - k : k + i \in 1 .. n
    BY <2>1
  <2>3. \A i \in 1 .. len - k : At(r, k + i) = At(q, k + i)
    BY <1>2, <2>2
  <2>4. QED
    BY <1>1, <2>1, <2>3 DEF Rest
<1>4. ASSUME NEW at \in Nat, NEW k \in Nat, at + k <= n
      PROVE  ReadAt(r, at, k) = ReadAt(q, at, k)
  <2>1. \A i \in 1 .. k : at + i - 1 \in 0 .. n - 1
    BY <1>4
  <2>2. \A i \in 1 .. k : r.data[at + i - 1] = q.data[at + i - 1]
    BY <1>1, <2>1
  <2>3. QED
    BY <2>2 DEF ReadAt
<1>5. QED
  BY <1>2, <1>3, <1>4

LEMMA AlikeAgain ==
  ASSUME NEW n, NEW q, NEW r, NEW s, Alike(n, q, r), Alike(n, r, s)
  PROVE  Alike(n, q, s)
BY DEF Alike

\* The first k cells can be read in one piece from the head.
Linear(q, k) == k <= q.length /\ \A j \in 1 .. k : q.data[q.head + j - 1] = At(q, j)

LEMMA LinearBeforeEnd ==
  ASSUME NEW n \in Nat \ {0}, NEW q \in Ring(n), NEW k \in Nat, k <= q.length, q.head + k <= n
  PROVE  Linear(q, k)
<1>1. q.size = n /\ q.head \in 0 .. n - 1
  BY RingFields
<1>2. PICK h : h = q.head /\ h \in 0 .. n - 1 /\ h + k <= n
  BY <1>1
<1>3. \A j \in 1 .. k : j \in Int /\ 1 <= j /\ j <= n - h
  BY <1>2
<1>4. \A j \in 1 .. k : Place(h, j, n) = h + j - 1
  BY <1>2, <1>3, PlaceBeforeEnd
<1>5. QED
  BY <1>1, <1>2, <1>4 DEF Linear, At

LEMMA LinearRead ==
  ASSUME NEW n \in Nat \ {0}, NEW q \in Ring(n), NEW k \in Nat, Linear(q, k),
         MaxPacket \in Nat, q.head + k <= n + MaxPacket
  PROVE  /\ ReadAt(q, q.head, k) \in Seq(Cell) /\ Len(ReadAt(q, q.head, k)) = k
         /\ Rest(q, k) \in Seq(Cell)
         /\ Rest(q, 0) = ReadAt(q, q.head, k) \o Rest(q, k)
<1>1. PICK h, len : h = q.head /\ len = q.length /\ h \in 0 .. n - 1 /\ len \in 0 .. n
  BY RingFields
<1>2. k <= len /\ \A j \in 1 .. k : q.data[h + j - 1] = At(q, j)
  BY <1>1 DEF Linear
<1>3. PICK s : s = ReadAt(q, h, k)
  OBVIOUS
<1>4. h \in Nat /\ h + k <= n + MaxPacket
  BY <1>1
<1>5. s \in Seq(Cell) /\ Len(s) = k /\ \A i \in 1 .. k : s[i] = q.data[h + i - 1]
  BY <1>3, <1>4, ReadAtIs
<1>6. k \in 0 .. q.length /\ 0 \in 0 .. q.length
  BY <1>1, <1>2
<1>7. /\ Rest(q, k) \in Seq(Cell) /\ Len(Rest(q, k)) = len - k
      /\ \A i \in 1 .. len - k : Rest(q, k)[i] = At(q, k + i)
  BY <1>1, <1>6, RestIs
<1>8. /\ Rest(q, 0) \in Seq(Cell) /\ Len(Rest(q, 0)) = len - 0
      /\ \A i \in 1 .. len - 0 : Rest(q, 0)[i] = At(q, 0 + i)
  BY <1>1, <1>6, RestIs
<1>9. Len(Rest(q, 0)) = Len(s) + Len(Rest(q, k))
  BY <1>1, <1>2, <1>5, <1>7, <1>8
<1>10. ASSUME NEW i \in 1 .. k PROVE Rest(q, 0)[i] = s[i]
  <2>1. i \in 1 .. len - 0 /\ 0 + i = i
    BY <1>1, <1>2
  <2>2. QED
    BY <1>2, <1>5, <1>8, <2>1
<1>11. ASSUME NEW i \in 1 .. len - k PROVE Rest(q, 0)[k + i] = Rest(q, k)[i]
  <2>1. k + i \in 1 .. len - 0 /\ 0 + (k + i) = k + i
    BY <1>1, <1>2
  <2>2. QED
    BY <1>7, <1>8, <2>1
<1>12. Rest(q, 0) = s \o Rest(q, k)
  <2>1. \A i \in 1 .. Len(s) : Rest(q, 0)[i] = s[i]
    BY <1>5, <1>10
  <2>2. \A i \in 1 .. Len(Rest(q, k)) : Rest(q, 0)[Len(s) + i] = Rest(q, k)[i]
    BY <1>5, <1>7, <1>11
  <2>3. QED
    BY <1>5, <1>7, <1>8, <1>9, <2>1, <2>2, ConcatIs
<1>13. QED
  BY <1>1, <1>3, <1>5, <1>7, <1>12

\* What arrives at the tail is in nobody's way until Enqueue( NULL, n ) takes it in.
LEMMA LandIs ==
  ASSUME NEW n \in Nat \ {0}, NEW q \in Ring(n), NEW cells \in Seq(Cell), MaxPacket \in Nat,
         q.tail + Len(cells) <= n, q.length + Len(cells) <= n
  PROVE  /\ Copy(q, q.tail, cells) \in Ring(n)
         /\ Copy(q, q.tail, cells).head = q.head /\ Copy(q, q.tail, cells).tail = q.tail
         /\ Copy(q, q.tail, cells).length = q.length
         /\ Rest(Copy(q, q.tail, cells), 0) = Rest(q, 0)
         /\ ReadAt(Copy(q, q.tail, cells), q.tail, Len(cells)) = cells
         /\ \A k \in Nat : q.head + k <= n + MaxPacket /\ Linear(q, k) =>
              Linear(Copy(q, q.tail, cells), k)
<1>1. PICK c : c = Len(cells) /\ c \in Nat
  BY LenProperties
<1>2. PICK h, t, len : /\ h = q.head /\ t = q.tail /\ len = q.length
                       /\ h \in 0 .. n - 1 /\ t \in 0 .. n - 1 /\ len \in 0 .. n
                       /\ t = Place(h, len + 1, n) /\ q.size = n
  BY RingFields
<1>20. h \in Nat /\ h < n /\ t \in Nat /\ t < n /\ len \in Nat /\ len <= n /\ c \in Nat
  BY <1>1, <1>2
<1>30. t + c <= n /\ len + c <= n
  BY <1>1, <1>2
<1>3. t \in Nat /\ t + Len(cells) <= n + MaxPacket
  BY <1>1, <1>20, <1>30
<1>4. PICK r : r = Copy(q, t, cells)
  OBVIOUS
<1>5. /\ r \in Ring(n) /\ r.head = h /\ r.tail = t /\ r.length = len
      /\ \A i \in 1 .. c : r.data[t + i - 1] = cells[i]
      /\ \A x \in 0 .. n + MaxPacket - 1 : (x < t \/ x >= t + c) => r.data[x] = q.data[x]
  <2>1. /\ r \in Ring(n) /\ r.head = q.head /\ r.tail = q.tail /\ r.length = q.length
        /\ \A i \in 1 .. Len(cells) : r.data[t + i - 1] = cells[i]
        /\ \A x \in 0 .. n + MaxPacket - 1 :
             (x < t \/ x >= t + Len(cells)) => r.data[x] = q.data[x]
    BY <1>3, <1>4, CopyIs
  <2>2. QED
    BY <1>1, <1>2, <2>1
<1>6. r.size = n
  BY <1>5, RingFields
<1>7. ASSUME NEW i \in 1 .. len PROVE r.data[Place(h, i, n)] = q.data[Place(h, i, n)]
  <2>1. i \in 1 .. n
    BY <1>2
  <2>2. PICK x : x = Place(h, i, n) /\ x \in 0 .. n - 1
    BY <1>2, <2>1, PlaceIs
  <2>3. x < t \/ x >= t + c
    <3>1. SUFFICES ASSUME x >= t, x < t + c PROVE FALSE
      BY <1>1, <1>2, <2>2
    <3>2. PICK j : j = x - t + 1
      OBVIOUS
    <3>3. j \in 1 .. n /\ j <= c /\ 1 <= j /\ j <= n - t /\ t + j - 1 = x
      BY <1>20, <1>30, <2>2, <3>1, <3>2, SMTT(30)
    <3>4. Place(t, j, n) = x
      BY <1>2, <3>3, PlaceBeforeEnd
    <3>5. len + j <= n /\ len + j \in 1 .. n /\ i # len + j
      BY <1>20, <1>30, <2>1, <3>3
    <3>6. Place(t, j, n) = Place(h, len + j, n)
      <4>1. len \in 0 .. n
        BY <1>20
      <4>2. j \in 1 .. n /\ h \in 0 .. n - 1
        BY <1>2, <3>3
      <4>3. Place(Place(h, len + 1, n), j, n) = Place(h, len + j, n)
        BY <3>5, <4>1, <4>2, PlaceBehind
      <4>4. QED
        BY <1>2, <4>3
    <3>7. QED
      BY <1>2, <2>1, <2>2, <3>4, <3>5, <3>6, PlaceOnce
  <2>4. x \in 0 .. n + MaxPacket - 1
    BY <2>2
  <2>5. QED
    BY <1>5, <2>2, <2>3, <2>4
<1>8. ASSUME NEW i \in 1 .. len PROVE At(r, i) = At(q, i)
  BY <1>2, <1>5, <1>6, <1>7 DEF At
<1>9. Rest(r, 0) = Rest(q, 0)
  <2>1. \A i \in 1 .. len - 0 : 0 + i \in 1 .. len
    BY <1>2
  <2>2. \A i \in 1 .. len - 0 : At(r, 0 + i) = At(q, 0 + i)
    BY <1>8, <2>1
  <2>3. QED
    BY <1>2, <1>5, <2>2 DEF Rest
<1>10. ReadAt(r, t, c) = cells
  <2>1. t + c <= n + MaxPacket
    BY <1>1, <1>3
  <2>2. /\ ReadAt(r, t, c) \in Seq(Cell) /\ Len(ReadAt(r, t, c)) = c
        /\ \A i \in 1 .. c : ReadAt(r, t, c)[i] = r.data[t + i - 1]
    BY <1>20, <1>5, <2>1, ReadAtIs
  <2>3. \A i \in 1 .. c : ReadAt(r, t, c)[i] = cells[i]
    BY <1>5, <2>2
  <2>4. QED
    BY <1>1, <2>2, <2>3, SeqEqual
<1>11. ASSUME NEW k \in Nat, h + k <= n + MaxPacket, Linear(q, k) PROVE Linear(r, k)
  <2>1. k <= len /\ \A j \in 1 .. k : q.data[h + j - 1] = At(q, j)
    BY <1>2, <1>11 DEF Linear
  <2>2. ASSUME NEW j \in 1 .. k PROVE r.data[h + j - 1] = At(r, j)
    <3>1. j \in 1 .. len
      BY <1>2, <2>1
    <3>2. At(r, j) = q.data[h + j - 1]
      BY <1>8, <2>1, <3>1
    <3>3. CASE h + j - 1 < n
      <4>1. Place(h, j, n) = h + j - 1
        BY <3>3 DEF Place
      <4>2. QED
        BY <1>7, <3>1, <3>2, <4>1
    <3>4. CASE ~(h + j - 1 < n)
      <4>1. j <= n /\ j \in Int
        BY <1>2, <3>1
      <4>2. h + j - 1 >= t + c
        BY <1>20, <1>30, <3>4, <4>1
      <4>3. h + j - 1 \in 0 .. n + MaxPacket - 1
        <5>1. k \in Nat /\ j <= k /\ 1 <= j
          OBVIOUS
        <5>2. QED
          BY <1>20, <1>11, <3>4, <4>1, <5>1
      <4>4. QED
        BY <1>5, <3>2, <4>2, <4>3
    <3>5. QED
      BY <3>3, <3>4
  <2>3. QED
    BY <1>2, <1>5, <2>1, <2>2 DEF Linear
<1>12. QED
  BY <1>1, <1>2, <1>4, <1>5, <1>9, <1>10, <1>11

LEMMA RestCommit ==
  ASSUME NEW n \in Nat \ {0}, NEW q \in Ring(n), NEW k \in Nat, MaxPacket \in Nat,
         q.tail + k <= n, q.length + k <= n
  PROVE  /\ Commit(q, k) \in Ring(n) /\ Commit(q, k).data = q.data
         /\ Commit(q, k).head = q.head /\ Commit(q, k).length = q.length + k
         /\ Rest(Commit(q, k), 0) = Rest(q, 0) \o ReadAt(q, q.tail, k)
         /\ \A j \in Nat : Linear(q, j) => Linear(Commit(q, k), j)
<1>2. PICK h, t, len : /\ h = q.head /\ t = q.tail /\ len = q.length
                       /\ h \in 0 .. n - 1 /\ t \in 0 .. n - 1 /\ len \in 0 .. n
                       /\ t = Place(h, len + 1, n) /\ q.size = n
  BY RingFields
<1>20. h \in Nat /\ h < n /\ t \in Nat /\ t < n /\ len \in Nat /\ len <= n
  BY <1>2
<1>30. t + k <= n /\ len + k <= n
  BY <1>2
<1>3. PICK r : r = Commit(q, k)
  OBVIOUS
<1>4. /\ r \in Ring(n) /\ r.data = q.data /\ r.head = h /\ r.length = len + k
      /\ \A i : At(r, i) = At(q, i)
  BY <1>2, <1>3, CommitIs
<1>5. PICK s : s = ReadAt(q, t, k)
  OBVIOUS
<1>6. s \in Seq(Cell) /\ Len(s) = k /\ \A i \in 1 .. k : s[i] = q.data[t + i - 1]
  <2>1. t + k <= n + MaxPacket
    BY <1>20, <1>30
  <2>2. QED
    BY <1>5, <1>20, <2>1, ReadAtIs
<1>7. ASSUME NEW i \in 1 .. k PROVE At(r, len + i) = s[i]
  <2>1. i \in 1 .. n /\ i \in Int /\ 1 <= i /\ i <= n - t /\ len + i <= n
    BY <1>20, <1>30
  <2>2. Place(t, i, n) = t + i - 1
    BY <1>2, <2>1, PlaceBeforeEnd
  <2>3. Place(Place(h, len + 1, n), i, n) = Place(h, len + i, n)
    BY <1>2, <2>1, PlaceBehind
  <2>4. Place(h, len + i, n) = t + i - 1
    BY <1>2, <2>2, <2>3
  <2>5. At(q, len + i) = q.data[t + i - 1]
    BY <1>2, <2>4 DEF At
  <2>6. QED
    BY <1>4, <1>6, <2>5
<1>8. 0 \in 0 .. q.length /\ 0 \in 0 .. r.length
  BY <1>2, <1>4, <1>20
<1>9. /\ Rest(q, 0) \in Seq(Cell) /\ Len(Rest(q, 0)) = len - 0
      /\ \A i \in 1 .. len - 0 : Rest(q, 0)[i] = At(q, 0 + i)
  BY <1>2, <1>8, RestIs
<1>10. /\ Rest(r, 0) \in Seq(Cell) /\ Len(Rest(r, 0)) = (len + k) - 0
       /\ \A i \in 1 .. (len + k) - 0 : Rest(r, 0)[i] = At(r, 0 + i)
  BY <1>4, <1>8, RestIs
<1>11. Len(Rest(r, 0)) = Len(Rest(q, 0)) + Len(s)
  BY <1>6, <1>9, <1>10, <1>20
<1>12. ASSUME NEW i \in 1 .. len - 0 PROVE Rest(r, 0)[i] = Rest(q, 0)[i]
  <2>1. i \in 1 .. (len + k) - 0
    BY <1>20
  <2>2. QED
    BY <1>4, <1>9, <1>10, <2>1
<1>13. ASSUME NEW i \in 1 .. k PROVE Rest(r, 0)[(len - 0) + i] = s[i]
  <2>1. (len - 0) + i \in 1 .. (len + k) - 0 /\ 0 + ((len - 0) + i) = len + i
    BY <1>20
  <2>2. Rest(r, 0)[(len - 0) + i] = At(r, 0 + ((len - 0) + i))
    BY <1>10, <2>1
  <2>3. QED
    BY <1>7, <2>1, <2>2
<1>14. Rest(r, 0) = Rest(q, 0) \o s
  <2>1. \A i \in 1 .. Len(Rest(q, 0)) : Rest(r, 0)[i] = Rest(q, 0)[i]
    BY <1>9, <1>12
  <2>2. \A i \in 1 .. Len(s) : Rest(r, 0)[Len(Rest(q, 0)) + i] = s[i]
    BY <1>6, <1>9, <1>13
  <2>3. QED
    BY <1>6, <1>9, <1>10, <1>11, <2>1, <2>2, ConcatIs
<1>15. ASSUME NEW j \in Nat, Linear(q, j) PROVE Linear(r, j)
  <2>1. j <= len /\ \A i \in 1 .. j : q.data[h + i - 1] = At(q, i)
    BY <1>2, <1>15 DEF Linear
  <2>2. j <= len + k
    BY <1>20, <2>1
  <2>3. QED
    BY <1>4, <2>1, <2>2 DEF Linear
<1>16. QED
  BY <1>2, <1>3, <1>4, <1>5, <1>14, <1>15

\* The cells at the beginning of the ring are copied behind its end.
LEMMA ExtraIs ==
  ASSUME NEW n \in Nat \ {0}, NEW q \in Ring(n), NEW k \in Nat, MaxPacket \in Nat,
         k <= MaxPacket, k <= n
  PROVE  /\ Alike(n, q, CopyHeadDataToExtraBuffer(q, k))
         /\ \A x \in 0 .. k - 1 : CopyHeadDataToExtraBuffer(q, k).data[n + x] = q.data[x]
         /\ \A x \in k .. MaxPacket - 1 :
              CopyHeadDataToExtraBuffer(q, k).data[n + x] = q.data[n + x]
<1>1. q.size = n
  BY RingFields
<1>2. PICK s, z : s = ReadAt(q, z, k) /\ z = 0
  OBVIOUS
<1>3. s \in Seq(Cell) /\ Len(s) = k /\ \A i \in 1 .. k : s[i] = q.data[z + i - 1]
  <2>1. z \in Nat /\ z + k <= n + MaxPacket
    BY <1>2
  <2>2. /\ ReadAt(q, z, k) \in Seq(Cell) /\ Len(ReadAt(q, z, k)) = k
        /\ \A i \in 1 .. k : ReadAt(q, z, k)[i] = q.data[z + i - 1]
    BY <2>1, ReadAtIs, ZenonT(30)
  <2>3. QED
    BY <1>2, <2>2
<1>4. PICK r : r = CopyHeadDataToExtraBuffer(q, k)
  OBVIOUS
<1>5. r = Copy(q, n, s)
  BY <1>1, <1>2, <1>4 DEF CopyHeadDataToExtraBuffer
<1>6. n + Len(s) <= n + MaxPacket /\ n \in Nat /\ s \in Seq(Cell)
  BY <1>3
<1>7. /\ r \in Ring(n) /\ r.head = q.head /\ r.tail = q.tail /\ r.length = q.length
      /\ \A i \in 1 .. Len(s) : r.data[n + i - 1] = s[i]
      /\ \A x \in 0 .. n + MaxPacket - 1 : (x < n \/ x >= n + Len(s)) => r.data[x] = q.data[x]
  BY <1>5, <1>6, CopyIs
<1>8. \A x \in 0 .. n - 1 : x \in 0 .. n + MaxPacket - 1 /\ x < n
  OBVIOUS
<1>9. Alike(n, q, r)
  BY <1>7, <1>8 DEF Alike
<1>10. ASSUME NEW x \in 0 .. k - 1 PROVE r.data[n + x] = q.data[x]
  <2>1. x + 1 \in 1 .. k /\ n + (x + 1) - 1 = n + x /\ z + (x + 1) - 1 = x
    BY <1>2
  <2>2. r.data[n + (x + 1) - 1] = s[x + 1] /\ s[x + 1] = q.data[z + (x + 1) - 1]
    BY <1>3, <1>7, <2>1
  <2>3. QED
    BY <2>1, <2>2
<1>11. ASSUME NEW x \in k .. MaxPacket - 1 PROVE r.data[n + x] = q.data[n + x]
  <2>1. n + x \in 0 .. n + MaxPacket - 1 /\ n + x >= n + k
    OBVIOUS
  <2>2. QED
    BY <1>3, <1>7, <2>1
<1>12. QED
  BY <1>4, <1>9, <1>10, <1>11

\* What can be read in one piece can be, whatever else is copied behind the end.
LEMMA ExtraLinear ==
  ASSUME NEW n \in Nat \ {0}, NEW q \in Ring(n), NEW k \in Nat, MaxPacket \in Nat,
         k <= MaxPacket, k <= n, NEW j \in Nat, j <= q.length,
         Linear(q, j) \/ q.head + j <= n + k, q.head + j <= n + MaxPacket
  PROVE  Linear(CopyHeadDataToExtraBuffer(q, k), j)
<1>1. PICK h, len : /\ h = q.head /\ len = q.length /\ h \in 0 .. n - 1 /\ len \in 0 .. n
                    /\ q.size = n
  BY RingFields
<1>2. h \in Nat /\ h < n /\ len \in Nat /\ len <= n /\ j <= len
  BY <1>1
<1>3. PICK r : r = CopyHeadDataToExtraBuffer(q, k)
  OBVIOUS
<1>4. /\ Alike(n, q, r)
      /\ \A x \in 0 .. k - 1 : r.data[n + x] = q.data[x]
      /\ \A x \in k .. MaxPacket - 1 : r.data[n + x] = q.data[n + x]
  BY <1>3, ExtraIs
<1>5. /\ \A i \in 1 .. n : At(r, i) = At(q, i)
      /\ r.head = h /\ r.length = len /\ \A x \in 0 .. n - 1 : r.data[x] = q.data[x]
  BY <1>1, <1>4, AlikeIs DEF Alike
<1>6. ASSUME NEW i \in 1 .. j PROVE r.data[h + i - 1] = At(r, i)
  <2>1. i \in 1 .. n /\ 1 <= i /\ i <= j /\ i \in Int
    BY <1>2
  <2>2. At(r, i) = At(q, i) /\ At(q, i) = q.data[Place(h, i, n)]
    BY <1>1, <1>5, <2>1 DEF At
  <2>3. CASE h + i - 1 < n
    <3>1. Place(h, i, n) = h + i - 1 /\ h + i - 1 \in 0 .. n - 1
      BY <1>2, <2>1, <2>3 DEF Place
    <3>2. QED
      BY <1>5, <2>2, <3>1
  <2>4. CASE ~(h + i - 1 < n)
    <3>1. PICK x : x = h + i - 1 - n
      OBVIOUS
    <3>2. x \in Nat /\ h + i - 1 = n + x /\ Place(h, i, n) = x
      BY <1>2, <2>1, <2>4, <3>1 DEF Place
    <3>3. CASE x < k
      <4>1. x \in 0 .. k - 1
        BY <3>2, <3>3
      <4>2. QED
        BY <1>4, <2>2, <3>2, <4>1
    <3>4. CASE ~(x < k)
      <4>1. h + j <= n + MaxPacket
        BY <1>1
      <4>2. x \in k .. MaxPacket - 1 /\ ~(h + j <= n + k)
        BY <1>2, <2>1, <3>2, <3>4, <4>1
      <4>3. Linear(q, j)
        BY <1>1, <4>2
      <4>4. q.data[h + i - 1] = At(q, i)
        BY <1>1, <4>3 DEF Linear
      <4>5. QED
        BY <1>4, <2>2, <3>2, <4>2, <4>4
    <3>5. QED
      BY <3>3, <3>4
  <2>5. QED
    BY <2>3, <2>4
<1>7. QED
  BY <1>1, <1>2, <1>3, <1>5, <1>6 DEF Linear

LEMMA GetReadPtrIs ==
  ASSUME NEW n \in Nat \ {0}, NEW q \in Ring(n), MaxPacket \in Nat, MaxPacket <= n
  PROVE  /\ Alike(n, q, GetReadPtr(q))
         /\ \A j \in Nat : Linear(q, j) /\ q.head + j <= n + MaxPacket => Linear(GetReadPtr(q), j)
<1>1. PICK h : h = q.head /\ h \in 0 .. n - 1 /\ q.size = n /\ q.extra = MaxPacket
  BY RingFields
<1>2. PICK b : b = n - h /\ b \in 1 .. n
  BY <1>1
<1>3. b = GetBackDataCount(q)
  BY <1>1, <1>2 DEF GetBackDataCount
<1>4. CASE h > q.tail /\ b < MaxPacket
  <2>1. PICK k : k = MaxPacket - b
    OBVIOUS
  <2>2. k \in Nat /\ k <= MaxPacket /\ k <= n
    BY <1>2, <1>4, <2>1
  <2>3. GetReadPtr(q) = CopyHeadDataToExtraBuffer(q, k)
    BY <1>1, <1>3, <1>4, <2>1 DEF GetReadPtr
  <2>4. Alike(n, q, CopyHeadDataToExtraBuffer(q, k))
    BY <2>2, ExtraIs
  <2>5. ASSUME NEW j \in Nat, Linear(q, j), q.head + j <= n + MaxPacket
        PROVE  Linear(CopyHeadDataToExtraBuffer(q, k), j)
    <3>1. j <= q.length
      BY <2>5 DEF Linear
    <3>2. QED
      BY <2>2, <2>5, <3>1, ExtraLinear
  <2>6. QED
    BY <2>3, <2>4, <2>5
<1>5. CASE ~(h > q.tail /\ b < MaxPacket)
  <2>1. GetReadPtr(q) = q
    BY <1>1, <1>3, <1>5 DEF GetReadPtr
  <2>2. QED
    BY <2>1 DEF Alike
<1>6. QED
  BY <1>4, <1>5

-----------------------------------------------------------------------------
(* Packets.                                                                *)

LEMMA Constants ==
  /\ HeaderLen \in Nat /\ HeaderLen >= 1 /\ MaxPackets \in Nat /\ MaxPacket \in Nat
  /\ SendSize \in Nat \ {0} /\ RecvSize \in Nat \ {0} /\ MaxPacket <= SendSize
  /\ MaxPacket <= RecvSize /\ RecvLen \in Nat /\ MaxNetPool \in Nat /\ MaxPacket <= MaxNetPool
  /\ None \notin Nat /\ None \notin Nat \X Nat /\ None \notin Sizes /\ Sizes \subseteq Nat
  /\ \A s \in Sizes : s \in Nat /\ s >= 1 /\ HeaderLen + s <= MaxPacket
<1>1. \A s \in Sizes : s \in Nat \ {0} /\ HeaderLen + s <= MaxPacket
  BY StreamAssumption
<1>2. None \notin Nat /\ None \notin Nat \X Nat
  BY StreamAssumption
<1>3. /\ HeaderLen \in Nat \ {0} /\ MaxPackets \in Nat /\ MaxPacket \in Nat
      /\ SendSize \in Nat \ {0} /\ RecvSize \in Nat \ {0} /\ SendSize >= MaxPacket
      /\ RecvSize >= MaxPacket /\ RecvLen \in Nat \ {0} /\ MaxNetPool \in Nat
      /\ MaxNetPool >= MaxPacket
  BY StreamAssumption
<1>4. HeaderLen >= 1
  BY <1>3
<1>5. MaxPacket <= SendSize /\ MaxPacket <= RecvSize /\ MaxPacket <= MaxNetPool
  BY <1>3
<1>6. \A s \in Sizes : s \in Nat /\ s >= 1 /\ HeaderLen + s <= MaxPacket
  BY <1>1
<1>7. None \notin Sizes
  BY <1>1, <1>2
<1>8. QED
  BY <1>2, <1>3, <1>4, <1>5, <1>6, <1>7

\* The cells of the first k packets.
CellsOf(k) == (1 .. k) \X (1 .. MaxPacket)

LEMMA CellsOfGrow ==
  ASSUME NEW k \in Nat, NEW l \in Nat, k <= l
  PROVE  Seq(CellsOf(k)) \subseteq Seq(CellsOf(l))
<1>1. 1 .. k \subseteq 1 .. l
  OBVIOUS
<1>2. CellsOf(k) \subseteq CellsOf(l)
  BY <1>1 DEF CellsOf
<1>3. QED
  BY <1>2, SeqMonotonic

LEMMA CellsOfAreCells ==
  ASSUME NEW k \in Nat, k <= MaxPackets
  PROVE  CellsOf(k) \subseteq Cell /\ Seq(CellsOf(k)) \subseteq Seq(Cell)
<1>1. MaxPackets \in Nat
  BY Constants
<1>2. 1 .. k \subseteq 1 .. MaxPackets
  BY <1>1
<1>3. CellsOf(k) \subseteq Cell
  BY <1>2 DEF CellsOf, Cell
<1>4. QED
  BY <1>3, SeqMonotonic

LEMMA CellsIs ==
  ASSUME NEW k \in Nat, NEW n \in 1 .. k, NEW a \in Nat, NEW m \in Nat, NEW b \in Int, 1 <= a,
         b = a + m - 1, b <= MaxPacket
  PROVE  /\ Cells(n, a, b) \in Seq(CellsOf(k)) /\ Len(Cells(n, a, b)) = m
<1>1. b - a + 1 = m /\ MaxPacket \in Nat
  BY Constants
<1>2. ASSUME NEW i \in 1 .. m PROVE <<n, a + i - 1>> \in CellsOf(k)
  <2>1. a + i - 1 \in 1 .. MaxPacket
    BY <1>1
  <2>2. QED
    BY <2>1 DEF CellsOf
<1>3. Cells(n, a, b) = [i \in 1 .. m |-> <<n, a + i - 1>>]
  BY <1>1 DEF Cells
<1>4. Cells(n, a, b) \in [1 .. m -> CellsOf(k)]
  BY <1>2, <1>3
<1>5. Cells(n, a, b) \in Seq(CellsOf(k)) /\ Len(Cells(n, a, b)) = m
  BY <1>4, SeqDef
<1>6. QED
  BY <1>3, <1>5

\* A packet with a message of s cells.
Packet(n, s) == Cells(n, 1, HeaderLen + s)
Body(n, s) == Cells(n, HeaderLen + 1, HeaderLen + s)

LEMMA PacketIs ==
  ASSUME NEW k \in Nat, NEW n \in 1 .. k, NEW s \in Sizes
  PROVE  /\ Header(n) \in Seq(CellsOf(k)) /\ Len(Header(n)) = HeaderLen
         /\ Body(n, s) \in Seq(CellsOf(k)) /\ Len(Body(n, s)) = s
         /\ Packet(n, s) \in Seq(CellsOf(k)) /\ Len(Packet(n, s)) = HeaderLen + s
         /\ Packet(n, s) = Header(n) \o Body(n, s)
         /\ SubSeq(Packet(n, s), 1, HeaderLen) = Header(n)
         /\ SubSeq(Packet(n, s), HeaderLen + 1, HeaderLen + s) = Body(n, s)
<1>1. PICK h : h = HeaderLen /\ h \in Nat /\ h >= 1 /\ s \in Nat /\ s >= 1 /\ h + s <= MaxPacket
               /\ MaxPacket \in Nat
  BY Constants
<1>2. PICK u, v, w : u = Cells(n, 1, h) /\ v = Cells(n, h + 1, h + s) /\ w = Cells(n, 1, h + s)
  OBVIOUS
<1>3. u \in Seq(CellsOf(k)) /\ Len(u) = h /\ \A i \in 1 .. h : u[i] = <<n, i>>
  <2>1. PICK a, b, m : a = 1 /\ b = h /\ m = h
    OBVIOUS
  <2>2. a \in Nat /\ 1 <= a /\ m \in Nat /\ b \in Int /\ b = a + m - 1 /\ b <= MaxPacket
    BY <1>1, <2>1
  <2>3. Cells(n, a, b) \in Seq(CellsOf(k)) /\ Len(Cells(n, a, b)) = m
    BY <2>2, CellsIs
  <2>7. \A i \in 1 .. m : Cells(n, a, b)[i] = <<n, a + i - 1>>
    <3>1. b - a + 1 = m
      BY <2>2
    <3>2. QED
      BY <3>1 DEF Cells
  <2>4. u = Cells(n, a, b)
    BY <1>2, <2>1
  <2>5. \A i \in 1 .. m : i = a + i - 1
    BY <1>1, <2>1
  <2>6. QED
    BY <2>1, <2>3, <2>4, <2>5, <2>7
<1>4. v \in Seq(CellsOf(k)) /\ Len(v) = s /\ \A i \in 1 .. s : v[i] = <<n, h + i>>
  <2>1. PICK a, b, m : a = h + 1 /\ b = h + s /\ m = s
    OBVIOUS
  <2>2. a \in Nat /\ 1 <= a /\ m \in Nat /\ b \in Int /\ b = a + m - 1 /\ b <= MaxPacket
    BY <1>1, <2>1
  <2>3. Cells(n, a, b) \in Seq(CellsOf(k)) /\ Len(Cells(n, a, b)) = m
    BY <2>2, CellsIs
  <2>7. \A i \in 1 .. m : Cells(n, a, b)[i] = <<n, a + i - 1>>
    <3>1. b - a + 1 = m
      BY <2>2
    <3>2. QED
      BY <3>1 DEF Cells
  <2>4. v = Cells(n, a, b)
    BY <1>2, <2>1
  <2>5. \A i \in 1 .. m : h + i = a + i - 1
    BY <1>1, <2>1
  <2>6. QED
    BY <2>1, <2>3, <2>4, <2>5, <2>7
<1>5. w \in Seq(CellsOf(k)) /\ Len(w) = h + s /\ \A i \in 1 .. h + s : w[i] = <<n, i>>
  <2>1. PICK a, b, m : a = 1 /\ b = h + s /\ m = h + s
    OBVIOUS
  <2>2. a \in Nat /\ 1 <= a /\ m \in Nat /\ b \in Int /\ b = a + m - 1 /\ b <= MaxPacket
    BY <1>1, <2>1
  <2>3. Cells(n, a, b) \in Seq(CellsOf(k)) /\ Len(Cells(n, a, b)) = m
    BY <2>2, CellsIs
  <2>7. \A i \in 1 .. m : Cells(n, a, b)[i] = <<n, a + i - 1>>
    <3>1. b - a + 1 = m
      BY <2>2
    <3>2. QED
      BY <3>1 DEF Cells
  <2>4. w = Cells(n, a, b)
    BY <1>2, <2>1
  <2>5. \A i \in 1 .. m : i = a + i - 1
    BY <1>1, <2>1
  <2>6. QED
    BY <2>1, <2>3, <2>4, <2>5, <2>7
<1>6. w = u \o v
  <2>1. \A i \in 1 .. h : i \in 1 .. h + s
    BY <1>1
  <2>2. \A i \in 1 .. s : h + i \in 1 .. h + s
    BY <1>1
  <2>3. /\ \A i \in 1 .. Len(u) : w[i] = u[i]
        /\ \A i \in 1 .. Len(v) : w[Len(u) + i] = v[i]
    BY <1>3, <1>4, <1>5, <2>1, <2>2
  <2>4. QED
    BY <1>3, <1>4, <1>5, <2>3, ConcatIs
<1>7. SubSeq(w, 1, h) = u
  BY <1>3, <1>4, <1>6, SubSeqOfConcat1, SubSeqFull
<1>8. SubSeq(w, h + 1, h + s) = v
  BY <1>1, <1>3, <1>4, <1>6, SubSeqOfConcat2, SubSeqFull
<1>9. QED
  BY <1>1, <1>2, <1>3, <1>4, <1>5, <1>6, <1>7, <1>8 DEF Header, Body, Packet

\* Two ways to take the same sequence apart agree at its beginning.
LEMMA Begin ==
  ASSUME NEW S, NEW a \in Seq(S), NEW b \in Seq(S), NEW c \in Seq(S), NEW d \in Seq(S),
         a \o b = c \o d, NEW k \in Nat, 1 <= k, k <= Len(a), k <= Len(c)
  PROVE  SubSeq(a, 1, k) = SubSeq(c, 1, k)
<1>1. Len(a) \in Nat /\ Len(c) \in Nat
  BY LenProperties
<1>2. 1 \in 1 .. Len(a) /\ k \in 1 .. Len(a) /\ 1 \in 1 .. Len(c) /\ k \in 1 .. Len(c)
  BY <1>1
<1>3. SubSeq(a \o b, 1, k) = SubSeq(a, 1, k)
  BY <1>2, SubSeqOfConcat1
<1>4. SubSeq(c \o d, 1, k) = SubSeq(c, 1, k)
  BY <1>2, SubSeqOfConcat1
<1>5. QED
  BY <1>3, <1>4

LEMMA PeekBegins ==
  ASSUME NEW n \in Nat \ {0}, NEW q \in Ring(n), NEW k \in Nat, k <= q.length, MaxPacket \in Nat
  PROVE  Peek(q, k) = SubSeq(Rest(q, 0), 1, k)
<1>1. PICK len : len = q.length /\ len \in 0 .. n
  BY RingFields
<1>2. k \in 0 .. n /\ 0 \in 0 .. q.length
  BY <1>1
<1>3. Peek(q, k) = [i \in 1 .. k |-> At(q, i)]
  BY <1>2, PeekIs
<1>4. /\ Rest(q, 0) \in Seq(Cell) /\ Len(Rest(q, 0)) = len - 0
      /\ \A i \in 1 .. len - 0 : Rest(q, 0)[i] = At(q, 0 + i)
  BY <1>1, <1>2, RestIs
<1>5. \A i \in 1 .. k : i \in 1 .. len - 0 /\ 0 + i = i
  BY <1>1
<1>6. SubSeq(Rest(q, 0), 1, k) = [i \in 1 .. k |-> Rest(q, 0)[i]]
  <2>1. 1 \in Int /\ k \in Int
    OBVIOUS
  <2>2. \A i \in 1 .. k : Rest(q, 0)[i] \in Cell
    BY <1>4, <1>5, ElementOfSeq
  <2>3. PICK s : s = SubSeq(Rest(q, 0), 1, k)
    OBVIOUS
  <2>4. /\ s \in Seq(Cell) /\ Len(s) = IF 1 <= k THEN k - 1 + 1 ELSE 0
        /\ \A i \in 1 .. k - 1 + 1 : s[i] = Rest(q, 0)[1 + i - 1]
    BY <2>1, <2>2, <2>3, SubSeqProperties
  <2>5. Len(s) = k /\ \A i \in 1 .. k : s[i] = Rest(q, 0)[i]
    <3>1. k - 1 + 1 = k /\ \A i \in 1 .. k : 1 + i - 1 = i
      OBVIOUS
    <3>2. QED
      BY <2>4, <3>1
  <2>6. s = [i \in 1 .. k |-> s[i]]
    BY <2>4, <2>5, LenProperties
  <2>7. QED
    BY <2>3, <2>5, <2>6
<1>7. QED
  BY <1>3, <1>4, <1>5, <1>6

\* What a header that has arrived says.
LEMMA SizeInIs ==
  ASSUME size \in Seq(Sizes), NEW cells \in Seq(CellsOf(Len(size))), Len(cells) >= 1
  PROVE  SizeIn(cells) \in Sizes \cup {None}
<1>1. Len(cells) \in Nat
  BY LenProperties
<1>2. 1 \in 1 .. Len(cells)
  BY <1>1
<1>3. cells[1] \in CellsOf(Len(size))
  BY <1>2, ElementOfSeq
<1>4. cells[1][1] \in 1 .. Len(size)
  BY <1>3 DEF CellsOf
<1>5. size[cells[1][1]] \in Sizes
  BY <1>4, ElementOfSeq
<1>6. QED
  BY <1>5 DEF SizeIn

LEMMA SizeInHeader ==
  ASSUME NEW n
  PROVE  SizeIn(Header(n)) = size[n]
<1>1. HeaderLen \in Nat /\ HeaderLen >= 1
  BY Constants
<1>2. 1 \in 1 .. HeaderLen - 1 + 1 /\ 1 + 1 - 1 = 1
  BY <1>1
<1>3. Header(n)[1] = <<n, 1 + 1 - 1>>
  BY <1>2 DEF Header, Cells
<1>4. Header(n)[1][1] = n
  BY <1>3
<1>5. QED
  BY <1>4 DEF SizeIn

\* GetFirstPacketPtr: nothing, or the size of a packet that is there whole and in
\* one piece; what is readable stays.
LEMMA FirstPacketIs ==
  ASSUME NEW n \in Nat \ {0}, MaxPacket <= n, NEW q \in Ring(n),
         size \in Seq(Sizes), Rest(q, 0) \in Seq(CellsOf(Len(size)))
  PROVE  \/ FirstPacket(q).size = None /\ FirstPacket(q).ring = q
         \/ /\ FirstPacket(q).size \in Sizes
            /\ HeaderLen + FirstPacket(q).size <= q.length
            /\ FirstPacket(q).size = SizeIn(SubSeq(Rest(q, 0), 1, HeaderLen))
            /\ Alike(n, q, FirstPacket(q).ring)
            /\ Linear(FirstPacket(q).ring, HeaderLen + FirstPacket(q).size)
<1>1. PICK h, len : /\ h = q.head /\ len = q.length /\ h \in 0 .. n - 1 /\ len \in 0 .. n
                    /\ q.size = n
  BY RingFields
<1>2. h \in Nat /\ h < n /\ len \in Nat /\ len <= n
  BY <1>1
<1>3. HeaderLen \in Nat /\ HeaderLen >= 1 /\ MaxPacket \in Nat
  BY Constants
<1>4. PICK s : s = IF q.length < HeaderLen THEN None ELSE SizeIn(Peek(q, HeaderLen))
  OBVIOUS
<1>5. CASE s = None \/ q.length < HeaderLen + s
  <2>1. FirstPacket(q) = [size |-> None, ring |-> q]
    BY <1>4, <1>5 DEF FirstPacket
  <2>2. QED
    BY <2>1
<1>6. CASE ~(s = None \/ q.length < HeaderLen + s)
  <2>1. ~(len < HeaderLen) /\ s = SizeIn(Peek(q, HeaderLen))
    BY <1>1, <1>4, <1>6
  <2>2. HeaderLen <= q.length
    BY <1>1, <1>2, <1>3, <2>1
  <2>3. Peek(q, HeaderLen) = SubSeq(Rest(q, 0), 1, HeaderLen)
    BY <1>3, <2>2, PeekBegins
  <2>4. 0 \in 0 .. q.length
    BY <1>1, <1>2
  <2>5. Len(Rest(q, 0)) = len - 0
    BY <1>1, <1>3, <2>4, RestIs
  <2>6. Peek(q, HeaderLen) \in Seq(CellsOf(Len(size))) /\ Len(Peek(q, HeaderLen)) >= 1
    <3>1. 1 \in Int /\ HeaderLen \in Int /\ \A i \in 1 .. HeaderLen : i \in 1 .. len - 0
      BY <1>1, <1>2, <1>3, <2>2
    <3>2. \A i \in 1 .. HeaderLen : Rest(q, 0)[i] \in CellsOf(Len(size))
      BY <2>5, <3>1, ElementOfSeq
    <3>3. PICK c : c = SubSeq(Rest(q, 0), 1, HeaderLen)
      OBVIOUS
    <3>4. c \in Seq(CellsOf(Len(size))) /\ Len(c) = IF 1 <= HeaderLen THEN HeaderLen - 1 + 1 ELSE 0
      BY <3>1, <3>2, <3>3, SubSeqProperties
    <3>5. Len(c) >= 1
      BY <1>3, <3>4
    <3>6. QED
      BY <2>3, <3>3, <3>4, <3>5
  <2>7. s \in Sizes
    BY <1>6, <2>1, <2>6, SizeInIs
  <2>8. PICK k : k = HeaderLen + s /\ k \in Nat /\ k <= MaxPacket /\ k <= len
    <3>1. s \in Nat /\ HeaderLen + s <= MaxPacket
      BY <2>7, Constants
    <3>2. HeaderLen + s <= len
      BY <1>1, <1>2, <1>3, <1>6, <3>1
    <3>3. QED
      BY <1>3, <3>1, <3>2
  <2>9. PICK b : b = n - h /\ b \in 1 .. n /\ b = GetBackDataCount(q)
    BY <1>1 DEF GetBackDataCount
  <2>10. PICK p : p = IF b < k THEN CopyHeadDataToExtraBuffer(q, k - b) ELSE q
    OBVIOUS
  <2>11. FirstPacket(q) = [size |-> s, ring |-> GetReadPtr(p)]
    BY <1>4, <1>6, <2>8, <2>9, <2>10 DEF FirstPacket
  <2>12. q.head + k <= n + MaxPacket
    BY <1>1, <1>2, <1>3, <2>8
  <2>13. Alike(n, q, p) /\ Linear(p, k)
    <3>1. CASE b < k
      <4>1. PICK m : m = k - b
        OBVIOUS
      <4>2. m \in Nat /\ m <= MaxPacket /\ m <= n /\ q.head + k <= n + m
        <5>1. k \in Nat /\ k <= MaxPacket /\ b \in Nat /\ b >= 1 /\ b = n - h
          BY <2>8, <2>9
        <5>2. h + k = n + m
          BY <1>2, <4>1, <5>1
        <5>3. m \in Nat /\ m <= MaxPacket /\ m <= n
          BY <1>3, <3>1, <4>1, <5>1
        <5>4. n + m \in Nat
          BY <5>3
        <5>5. QED
          BY <1>1, <5>2, <5>3, <5>4
      <4>3. p = CopyHeadDataToExtraBuffer(q, m)
        BY <2>10, <3>1, <4>1
      <4>4. Alike(n, q, p)
        BY <1>3, <4>2, <4>3, ExtraIs
      <4>5. k <= q.length
        BY <1>1, <2>8
      <4>6. Linear(p, k)
        BY <1>3, <2>8, <2>12, <4>2, <4>3, <4>5, ExtraLinear
      <4>7. QED
        BY <4>4, <4>6
    <3>2. CASE ~(b < k)
      <4>1. p = q
        BY <2>10, <3>2
      <4>2. q.head + k <= n /\ k <= q.length
        BY <1>1, <1>2, <2>8, <2>9, <3>2
      <4>3. Linear(q, k)
        BY <2>8, <4>2, LinearBeforeEnd
      <4>4. QED
        BY <4>1, <4>3 DEF Alike
    <3>3. QED
      BY <3>1, <3>2
  <2>14. p \in Ring(n) /\ p.head = q.head
    BY <2>13 DEF Alike
  <2>15. Alike(n, p, GetReadPtr(p)) /\ Linear(GetReadPtr(p), k)
    BY <1>3, <2>8, <2>12, <2>13, <2>14, GetReadPtrIs
  <2>16. Alike(n, q, GetReadPtr(p))
    BY <2>13, <2>15, AlikeAgain
  <2>17. FirstPacket(q).size = s /\ FirstPacket(q).ring = GetReadPtr(p)
    BY <2>11
  <2>18. HeaderLen + s <= q.length
    BY <1>1, <2>8
  <2>19. s = SizeIn(SubSeq(Rest(q, 0), 1, HeaderLen))
    BY <2>1, <2>3
  <2>20. Linear(GetReadPtr(p), HeaderLen + s)
    BY <2>8, <2>15
  <2>21. QED
    BY <2>7, <2>16, <2>17, <2>18, <2>19, <2>20
<1>7. QED
  BY <1>5, <1>6

LEMMA SplitAt ==
  ASSUME NEW S, NEW s \in Seq(S), NEW k \in Nat, k <= Len(s)
  PROVE  /\ SubSeq(s, 1, k) \in Seq(S) /\ Len(SubSeq(s, 1, k)) = k
         /\ SubSeq(s, k + 1, Len(s)) \in Seq(S) /\ Len(SubSeq(s, k + 1, Len(s))) = Len(s) - k
         /\ s = SubSeq(s, 1, k) \o SubSeq(s, k + 1, Len(s))
<1>1. PICK n : n = Len(s) /\ n \in Nat /\ k <= n
  BY LenProperties
<1>2. \A i \in 1 .. n : s[i] \in S
  BY <1>1, ElementOfSeq
<1>3. SubSeq(s, 1, k) \in Seq(S) /\ Len(SubSeq(s, 1, k)) = k
  <2>1. \A i \in 1 .. k : i \in 1 .. n
    BY <1>1
  <2>2. 1 \in Int /\ k \in Int /\ \A i \in 1 .. k : s[i] \in S
    BY <1>2, <2>1
  <2>3. SubSeq(s, 1, k) \in Seq(S) /\ Len(SubSeq(s, 1, k)) = IF 1 <= k THEN k - 1 + 1 ELSE 0
    BY <2>2, SubSeqProperties
  <2>4. QED
    BY <2>3
<1>4. SubSeq(s, k + 1, n) \in Seq(S) /\ Len(SubSeq(s, k + 1, n)) = n - k
  <2>1. \A i \in k + 1 .. n : i \in 1 .. n
    BY <1>1
  <2>2. k + 1 \in Int /\ n \in Int /\ \A i \in k + 1 .. n : s[i] \in S
    BY <1>1, <1>2, <2>1
  <2>3. /\ SubSeq(s, k + 1, n) \in Seq(S)
        /\ Len(SubSeq(s, k + 1, n)) = IF k + 1 <= n THEN n - (k + 1) + 1 ELSE 0
    BY <2>2, SubSeqProperties
  <2>4. QED
    BY <1>1, <2>3
<1>5. SubSeq(s, 1, k) \o SubSeq(s, k + 1, n) = SubSeq(s, 1, n)
  <2>1. 1 \in 1 .. n + 1 /\ k \in 1 - 1 .. n /\ n \in k .. n
    BY <1>1
  <2>2. QED
    BY <1>1, <2>1, ConcatAdjacentSubSeq
<1>6. SubSeq(s, 1, n) = s
  BY <1>1, SubSeqFull
<1>7. QED
  BY <1>1, <1>3, <1>4, <1>5, <1>6

\* A part of a sequence that is given cell by cell.
LEMMA PartOf ==
  ASSUME NEW s \in Seq(Cell), NEW a \in Nat, NEW t \in Seq(Cell), NEW m, m = a + Len(t),
         m <= Len(s), \A i \in 1 .. Len(t) : t[i] = s[a + i]
  PROVE  t = SubSeq(s, a + 1, m)
<1>1. PICK k, n : k = Len(t) /\ n = Len(s)
  OBVIOUS
<1>2. k \in Nat /\ n \in Nat /\ m = a + k /\ m \in Nat /\ m <= n
  BY <1>1, LenProperties
<1>3. PICK u : u = SubSeq(s, a + 1, m)
  OBVIOUS
<1>4. u \in Seq(Cell) /\ Len(u) = k /\ \A i \in 1 .. k : u[i] = s[a + i]
  <2>1. \A i \in a + 1 .. m : i \in 1 .. n
    BY <1>2
  <2>2. a + 1 \in Int /\ m \in Int /\ \A i \in a + 1 .. m : s[i] \in Cell
    BY <1>1, <1>2, <2>1, ElementOfSeq
  <2>3. /\ u \in Seq(Cell) /\ Len(u) = IF a + 1 <= m THEN m - (a + 1) + 1 ELSE 0
        /\ \A i \in 1 .. m - (a + 1) + 1 : u[i] = s[(a + 1) + i - 1]
    BY <1>3, <2>2, SubSeqProperties
  <2>4. m - (a + 1) + 1 = k /\ Len(u) = k
    BY <1>2, <2>3
  <2>5. \A i \in 1 .. k : (a + 1) + i - 1 = a + i
    OBVIOUS
  <2>6. QED
    BY <2>3, <2>4, <2>5
<1>5. t = u
  BY <1>1, <1>4, SeqEqual
<1>6. QED
  BY <1>3, <1>5

-----------------------------------------------------------------------------
(* Pools.                                                                  *)

Pool(S) == [start : Nat, cells : Seq(S)]

LEMMA SaveDataIs ==
  ASSUME NEW S, NEW p \in Pool(S), NEW cells \in Seq(S), Room(p) >= 0
  PROVE  /\ SaveData(p, cells) \in Pool(S) /\ Room(SaveData(p, cells)) >= 0
         /\ SaveData(p, cells).cells = IF HasRoom(p, Len(cells)) THEN p.cells \o cells ELSE p.cells
<1>1. p.start \in Nat /\ p.cells \in Seq(S) /\ p = [start |-> p.start, cells |-> p.cells]
  BY DEF Pool
<1>2. Len(cells) \in Nat /\ Len(p.cells) \in Nat /\ MaxNetPool \in Nat
  BY <1>1, LenProperties, Constants
<1>3. PICK q : q = MoveToFront(p, Len(cells))
  OBVIOUS
<1>4. q \in Pool(S) /\ q.cells = p.cells /\ Room(q) >= 0
  <2>1. CASE Room(p) < Len(cells)
    <3>1. q = [start |-> 0, cells |-> p.cells]
      BY <1>1, <1>3, <2>1 DEF MoveToFront
    <3>2. q.start = 0 /\ q.cells = p.cells /\ q \in Pool(S)
      BY <1>1, <3>1 DEF Pool
    <3>3. MaxNetPool - (0 + Len(p.cells)) >= 0
      <4>1. MaxNetPool - (p.start + Len(p.cells)) >= 0
        BY DEF Room
      <4>2. QED
        BY <1>1, <1>2, <4>1
    <3>4. QED
      BY <3>2, <3>3 DEF Room
  <2>2. CASE ~(Room(p) < Len(cells))
    <3>1. q = p
      BY <1>3, <2>2 DEF MoveToFront
    <3>2. QED
      BY <3>1
  <2>3. QED
    BY <2>1, <2>2
<1>5. CASE HasRoom(p, Len(cells))
  <2>1. SaveData(p, cells) = [q EXCEPT !.cells = q.cells \o cells]
    BY <1>3, <1>5 DEF SaveData
  <2>2. p.cells \o cells \in Seq(S) /\ Len(p.cells \o cells) = Len(p.cells) + Len(cells)
    BY <1>1, ConcatProperties
  <2>3. q.start \in Nat /\ q = [start |-> q.start, cells |-> q.cells]
    BY <1>4 DEF Pool
  <2>4. SaveData(p, cells) = [start |-> q.start, cells |-> p.cells \o cells]
    BY <1>4, <2>1, <2>3
  <2>5. MaxNetPool - (q.start + (Len(p.cells) + Len(cells))) >= 0
    <3>1. MaxNetPool - (q.start + Len(p.cells)) >= Len(cells)
      BY <1>3, <1>4, <1>5 DEF HasRoom, Room
    <3>2. QED
      BY <1>2, <2>3, <3>1
  <2>6. QED
    BY <1>5, <2>2, <2>3, <2>4, <2>5 DEF Pool, Room
<1>6. CASE ~HasRoom(p, Len(cells))
  <2>1. SaveData(p, cells) = q
    BY <1>3, <1>6 DEF SaveData
  <2>2. QED
    BY <1>4, <1>6, <2>1
<1>7. QED
  BY <1>5, <1>6

LEMMA GetDataIs ==
  ASSUME NEW S, NEW p \in Pool(S), NEW k \in Nat, k <= Len(p.cells), Room(p) >= 0
  PROVE  /\ GetData(p, k) \in Pool(S) /\ Room(GetData(p, k)) >= 0
         /\ GetData(p, k).cells = SubSeq(p.cells, k + 1, Len(p.cells))
<1>1. p.start \in Nat /\ p.cells \in Seq(S)
  BY DEF Pool
<1>2. PICK c, n : c = SubSeq(p.cells, k + 1, Len(p.cells)) /\ n = Len(p.cells)
  OBVIOUS
<1>3. n \in Nat /\ MaxNetPool \in Nat /\ c \in Seq(S) /\ Len(c) = n - k
  BY <1>1, <1>2, LenProperties, SplitAt, Constants
<1>4. GetData(p, k) = [start |-> p.start + k, cells |-> c]
  BY <1>2 DEF GetData
<1>5. MaxNetPool - ((p.start + k) + (n - k)) >= 0
  <2>1. MaxNetPool - (p.start + n) >= 0
    BY <1>2 DEF Room
  <2>2. QED
    BY <1>1, <1>3, <2>1
<1>6. QED
  BY <1>1, <1>2, <1>3, <1>4, <1>5, SMTT(30) DEF Pool, Room

LEMMA PooledPacketIs ==
  ASSUME size \in Seq(Sizes), NEW p \in Pool(CellsOf(Len(size)))
  PROVE  \/ PooledPacket(p) = None
         \/ /\ PooledPacket(p) \in Sizes /\ HeaderLen + PooledPacket(p) <= Len(p.cells)
            /\ PooledPacket(p) = SizeIn(SubSeq(p.cells, 1, HeaderLen))
<1>1. p.cells \in Seq(CellsOf(Len(size))) /\ Len(p.cells) \in Nat
  BY LenProperties DEF Pool
<1>2. HeaderLen \in Nat /\ HeaderLen >= 1
  BY Constants
<1>3. PICK s : s = IF Len(p.cells) < HeaderLen THEN None ELSE SizeIn(SubSeq(p.cells, 1, HeaderLen))
  OBVIOUS
<1>4. PooledPacket(p) = IF s = None \/ Len(p.cells) < HeaderLen + s THEN None ELSE s
  BY <1>3 DEF PooledPacket
<1>5. CASE ~(s = None \/ Len(p.cells) < HeaderLen + s)
  <2>1. ~(Len(p.cells) < HeaderLen) /\ s = SizeIn(SubSeq(p.cells, 1, HeaderLen))
    BY <1>3, <1>5
  <2>2. HeaderLen <= Len(p.cells)
    BY <1>1, <1>2, <2>1
  <2>3. /\ SubSeq(p.cells, 1, HeaderLen) \in Seq(CellsOf(Len(size)))
        /\ Len(SubSeq(p.cells, 1, HeaderLen)) >= 1
    BY <1>1, <1>2, <2>2, SplitAt
  <2>4. s \in Sizes
    BY <1>5, <2>1, <2>3, SizeInIs
  <2>5. s \in Nat
    BY <2>4, Constants
  <2>6. HeaderLen + s <= Len(p.cells)
    BY <1>1, <1>2, <1>5, <2>5
  <2>7. QED
    BY <1>4, <1>5, <2>1, <2>4, <2>6
<1>6. QED
  BY <1>4, <1>5

-----------------------------------------------------------------------------
(* Lengths that the rings tell.                                            *)

LEMMA ReadableIs ==
  ASSUME NEW n \in Nat \ {0}, NEW q \in Ring(n), q.length > 0
  PROVE  /\ GetReadableLen(q) \in 1 .. n /\ GetReadableLen(q) <= q.length
         /\ q.head + GetReadableLen(q) <= n
<1>1. PICK h, t, len : /\ h = q.head /\ t = q.tail /\ len = q.length
                       /\ h \in 0 .. n - 1 /\ t \in 0 .. n - 1 /\ len \in 0 .. n
                       /\ t = Place(h, len + 1, n) /\ q.size = n
  BY RingFields
<1>2. t = IF h + len < n THEN h + len ELSE h + len - n
  <2>1. h + (len + 1) - 1 = h + len
    BY <1>1
  <2>2. QED
    BY <1>1, <2>1 DEF Place
<1>3. PICK r : r = IF h = t THEN n - h ELSE IF h < t THEN t - h ELSE n - h
  OBVIOUS
<1>4. GetReadableLen(q) = r
  BY <1>1, <1>3 DEF GetReadableLen
<1>5. h \in Nat /\ h < n /\ t \in Nat /\ t < n /\ len \in Nat /\ len <= n /\ len > 0
  BY <1>1
<1>6. r \in 1 .. n /\ r <= len /\ h + r <= n
  BY <1>2, <1>3, <1>5
<1>7. QED
  BY <1>1, <1>4, <1>6

LEMMA WritableIs ==
  ASSUME NEW n \in Nat \ {0}, NEW q \in Ring(n)
  PROVE  /\ GetWritableLen(q) \in 0 .. n /\ q.length + GetWritableLen(q) <= n
         /\ q.tail + GetWritableLen(q) <= n
<1>1. PICK h, t, len : /\ h = q.head /\ t = q.tail /\ len = q.length
                       /\ h \in 0 .. n - 1 /\ t \in 0 .. n - 1 /\ len \in 0 .. n
                       /\ t = Place(h, len + 1, n) /\ q.size = n
  BY RingFields
<1>2. t = IF h + len < n THEN h + len ELSE h + len - n
  <2>1. h + (len + 1) - 1 = h + len
    BY <1>1
  <2>2. QED
    BY <1>1, <2>1 DEF Place
<1>3. PICK r : r = IF h = t THEN IF len > 0 THEN 0 ELSE n - t
                   ELSE IF h < t THEN n - t ELSE h - t
  OBVIOUS
<1>4. GetWritableLen(q) = r
  BY <1>1, <1>3 DEF GetWritableLen
<1>5. h \in Nat /\ h < n /\ t \in Nat /\ t < n /\ len \in Nat /\ len <= n
  BY <1>1
<1>6. r \in 0 .. n /\ len + r <= n /\ t + r <= n
  BY <1>2, <1>3, <1>5
<1>7. QED
  BY <1>1, <1>4, <1>6

LEMMA CreateIs ==
  ASSUME NEW n \in Nat \ {0}, MaxPacket \in Nat
  PROVE  /\ Create(n, MaxPacket) \in Ring(n)
         /\ Create(n, MaxPacket).length = 0 /\ Create(n, MaxPacket).tail = 0
         /\ Create(n, MaxPacket).head = 0
         /\ Rest(Create(n, MaxPacket), 0) = <<>>
<1>1. PICK q : q = Create(n, MaxPacket)
  OBVIOUS
<1>2. [i \in 0 .. n + MaxPacket - 1 |-> Junk] \in [0 .. n + MaxPacket - 1 -> Cell]
  BY DEF Cell
<1>3. /\ q.size = n /\ q.head = 0 /\ q.tail = 0 /\ q.length = 0
      /\ q \in [data : [0 .. n + MaxPacket - 1 -> Cell], size : {n}, extra : {MaxPacket},
                head : 0 .. n - 1, tail : 0 .. n - 1, length : 0 .. n]
  <2>1. 0 \in 0 .. n - 1 /\ 0 \in 0 .. n
    OBVIOUS
  <2>2. QED
    BY <1>1, <1>2, <2>1 DEF Create
<1>4. q.tail = Place(q.head, q.length + 1, n)
  <2>1. Place(0, 0 + 1, n) = 0
    BY DEF Place
  <2>2. QED
    BY <1>3, <2>1
<1>5. q \in Ring(n)
  BY <1>3, <1>4 DEF Ring
<1>6. Rest(q, 0) = <<>>
  <2>1. 0 \in 0 .. q.length
    BY <1>3
  <2>2. Rest(q, 0) \in Seq(Cell) /\ Len(Rest(q, 0)) = 0 - 0
    BY <1>3, <1>5, <2>1, RestIs
  <2>3. QED
    BY <2>2, EmptySeq
<1>7. QED
  BY <1>1, <1>3, <1>5, <1>6

-----------------------------------------------------------------------------
(* Everything that is on its way, in the order in which it was sent.       *)

Cat(s, t) == s \o t
Stretch == Seq(Cell)

LEMMA LenIs ==
  ASSUME NEW s \in Stretch
  PROVE  Len(s) \in Nat
BY LenProperties DEF Stretch

LEMMA CatIs ==
  ASSUME NEW s \in Stretch, NEW t \in Stretch
  PROVE  Cat(s, t) \in Stretch /\ Len(Cat(s, t)) = Len(s) + Len(t)
BY ConcatProperties DEF Cat, Stretch

LEMMA CatAssociative ==
  ASSUME NEW s \in Stretch, NEW t \in Stretch, NEW u \in Stretch
  PROVE  Cat(Cat(s, t), u) = Cat(s, Cat(t, u))
BY ConcatAssociative DEF Cat, Stretch

LEMMA CatEmpty ==
  ASSUME NEW s \in Stretch
  PROVE  Cat(s, <<>>) = s /\ Cat(<<>>, s) = s
BY ConcatEmptySeq DEF Cat, Stretch

LEMMA CatCancel ==
  ASSUME NEW s \in Stretch, NEW t \in Stretch, NEW u \in Stretch, Cat(s, t) = Cat(s, u)
  PROVE  t = u
BY ConcatSimplifications DEF Cat, Stretch

Line(a, b, c, d, e, f) == Cat(a, Cat(b, Cat(c, Cat(d, Cat(e, f)))))

LEMMA LineIs ==
  ASSUME NEW a, NEW b, NEW c, NEW d, NEW e, NEW f,
         {a, b, c, d, e, f} \subseteq Stretch
  PROVE  /\ Line(a, b, c, d, e, f) \in Stretch
         /\ Len(Line(a, b, c, d, e, f)) = Len(a) + (Len(b) + (Len(c) + (Len(d) + (Len(e) + Len(f)))))
<1>0. a \in Stretch /\ b \in Stretch /\ c \in Stretch /\ d \in Stretch
      /\ e \in Stretch /\ f \in Stretch
  OBVIOUS
<1>1. Cat(e, f) \in Stretch /\ Len(Cat(e, f)) = Len(e) + Len(f)
  BY <1>0, CatIs
<1>2. PICK p : p = Cat(e, f)
  OBVIOUS
<1>3. Cat(d, p) \in Stretch /\ Len(Cat(d, p)) = Len(d) + Len(p)
  BY <1>0, <1>1, <1>2, CatIs
<1>4. PICK o : o = Cat(d, p)
  OBVIOUS
<1>5. Cat(c, o) \in Stretch /\ Len(Cat(c, o)) = Len(c) + Len(o)
  BY <1>0, <1>3, <1>4, CatIs
<1>6. PICK m : m = Cat(c, o)
  OBVIOUS
<1>7. Cat(b, m) \in Stretch /\ Len(Cat(b, m)) = Len(b) + Len(m)
  BY <1>0, <1>5, <1>6, CatIs
<1>8. PICK k : k = Cat(b, m)
  OBVIOUS
<1>9. Cat(a, k) \in Stretch /\ Len(Cat(a, k)) = Len(a) + Len(k)
  BY <1>0, <1>7, <1>8, CatIs
<1>10. Line(a, b, c, d, e, f) = Cat(a, k)
  BY <1>2, <1>4, <1>6, <1>8 DEF Line
<1>11. QED
  BY <1>1, <1>2, <1>3, <1>4, <1>5, <1>6, <1>7, <1>8, <1>9, <1>10

\* What a step takes from one place it puts into the next.
LEMMA Transmitted ==
  ASSUME NEW a, NEW b, NEW c, NEW d, NEW e, NEW f, NEW x,
         {d, e, f, x} \subseteq Stretch
  PROVE  Line(a, b, c, Cat(d, x), e, f) = Line(a, b, c, d, Cat(x, e), f)
<1>0. d \in Stretch /\ e \in Stretch /\ f \in Stretch /\ x \in Stretch
  OBVIOUS
<1>1. Cat(e, f) \in Stretch
  BY <1>0, CatIs
<1>2. Cat(Cat(x, e), f) = Cat(x, Cat(e, f))
  BY <1>0, CatAssociative
<1>3. Cat(Cat(d, x), Cat(e, f)) = Cat(d, Cat(x, Cat(e, f)))
  BY <1>0, <1>1, CatAssociative
<1>4. QED
  BY <1>2, <1>3 DEF Line

LEMMA Arrived ==
  ASSUME NEW a, NEW d, NEW e, NEW f, NEW x,
         {d, e, f, x} \subseteq Stretch
  PROVE  Line(a, <<>>, <<>>, Cat(x, d), e, f) = Line(a, x, <<>>, d, e, f)
<1>0. d \in Stretch /\ e \in Stretch /\ f \in Stretch /\ x \in Stretch
  OBVIOUS
<1>1. PICK p : p = Cat(e, f) /\ p \in Stretch
  BY <1>0, CatIs
<1>2. PICK o : o = Cat(d, p) /\ o \in Stretch
  BY <1>0, <1>1, CatIs
<1>3. Cat(Cat(x, d), p) = Cat(x, o)
  BY <1>0, <1>1, <1>2, CatAssociative
<1>4. Cat(x, o) \in Stretch
  BY <1>0, <1>2, CatIs
<1>5. Cat(<<>>, Cat(x, o)) = Cat(x, o) /\ Cat(<<>>, o) = o
  BY <1>0, <1>2, <1>4, CatEmpty
<1>6. QED
  BY <1>1, <1>2, <1>3, <1>5 DEF Line

LEMMA TakenIn ==
  ASSUME NEW a, NEW b, NEW c, NEW d, NEW e, NEW f,
         {a, b, c, d, e, f} \subseteq Stretch
  PROVE  Line(Cat(a, b), <<>>, c, d, e, f) = Line(a, b, c, d, e, f)
<1>0. a \in Stretch /\ b \in Stretch /\ c \in Stretch /\ d \in Stretch
      /\ e \in Stretch /\ f \in Stretch
  OBVIOUS
<1>1. PICK p : p = Cat(e, f) /\ p \in Stretch
  BY <1>0, CatIs
<1>2. PICK o : o = Cat(d, p) /\ o \in Stretch
  BY <1>0, <1>1, CatIs
<1>3. PICK m : m = Cat(c, o) /\ m \in Stretch
  BY <1>0, <1>2, CatIs
<1>4. Cat(Cat(a, b), m) = Cat(a, Cat(b, m)) /\ Cat(<<>>, m) = m
  BY <1>0, <1>3, CatAssociative, CatEmpty
<1>5. QED
  BY <1>1, <1>2, <1>3, <1>4 DEF Line

LEMMA Consumed ==
  ASSUME NEW a, NEW b, NEW c, NEW d, NEW e, NEW f, NEW x,
         {a, b, c, d, e, f, x} \subseteq Stretch
  PROVE  Line(Cat(x, a), b, c, d, e, f) = Cat(x, Line(a, b, c, d, e, f))
<1>0. a \in Stretch /\ b \in Stretch /\ c \in Stretch /\ d \in Stretch
      /\ e \in Stretch /\ f \in Stretch /\ x \in Stretch
  OBVIOUS
<1>1. PICK p : p = Cat(e, f) /\ p \in Stretch
  BY <1>0, CatIs
<1>2. PICK o : o = Cat(d, p) /\ o \in Stretch
  BY <1>0, <1>1, CatIs
<1>3. PICK m : m = Cat(c, o) /\ m \in Stretch
  BY <1>0, <1>2, CatIs
<1>4. PICK k : k = Cat(b, m) /\ k \in Stretch
  BY <1>0, <1>3, CatIs
<1>5. Cat(Cat(x, a), k) = Cat(x, Cat(a, k))
  BY <1>0, <1>4, CatAssociative
<1>6. QED
  BY <1>1, <1>2, <1>3, <1>4, <1>5 DEF Line

LEMMA Pooled ==
  ASSUME NEW c, NEW d, NEW e, NEW f, NEW x,
         {c, d, e, f, x} \subseteq Stretch
  PROVE  /\ Line(<<>>, <<>>, Cat(c, x), d, e, f) = Line(<<>>, <<>>, c, Cat(x, d), e, f)
         /\ Line(<<>>, <<>>, Cat(x, c), d, e, f) = Cat(x, Line(<<>>, <<>>, c, d, e, f))
<1>0. c \in Stretch /\ d \in Stretch /\ e \in Stretch /\ f \in Stretch
      /\ x \in Stretch
  OBVIOUS
<1>1. PICK p : p = Cat(e, f) /\ p \in Stretch
  BY <1>0, CatIs
<1>2. PICK o : o = Cat(d, p) /\ o \in Stretch
  BY <1>0, <1>1, CatIs
<1>3. Cat(Cat(x, d), p) = Cat(x, o)
  BY <1>0, <1>1, <1>2, CatAssociative
<1>4. Cat(Cat(c, x), o) = Cat(c, Cat(x, o)) /\ Cat(Cat(x, c), o) = Cat(x, Cat(c, o))
  BY <1>0, <1>2, CatAssociative
<1>5. Cat(c, o) \in Stretch
  BY <1>0, <1>2, CatIs
<1>6. Cat(x, Cat(c, o)) \in Stretch
  BY <1>0, <1>5, CatIs
<1>7. /\ Cat(<<>>, Cat(c, o)) = Cat(c, o)
      /\ Cat(<<>>, Cat(x, Cat(c, o))) = Cat(x, Cat(c, o))
  BY <1>0, <1>5, <1>6, CatEmpty
<1>8. QED
  BY <1>1, <1>2, <1>3, <1>4, <1>7 DEF Line

LEMMA PoolSent ==
  ASSUME NEW a, NEW b, NEW c, NEW d, NEW f,
         {d, f} \subseteq Stretch
  PROVE  Line(a, b, c, Cat(d, f), <<>>, <<>>) = Line(a, b, c, d, <<>>, f)
<1>0. d \in Stretch /\ f \in Stretch
  OBVIOUS
<1>1. <<>> \in Stretch
  BY EmptySeq DEF Stretch
<1>2. Cat(<<>>, <<>>) = <<>> /\ Cat(<<>>, f) = f /\ Cat(Cat(d, f), <<>>) = Cat(d, f)
  <2>1. Cat(d, f) \in Stretch
    BY <1>0, CatIs
  <2>2. QED
    BY <1>0, <1>1, <2>1, CatEmpty
<1>3. QED
  BY <1>2 DEF Line

LEMMA Extended ==
  ASSUME NEW a, NEW b, NEW c, NEW d, NEW e, NEW f, NEW x,
         {a, b, c, d, e, f, x} \subseteq Stretch
  PROVE  Line(a, b, c, d, e, Cat(f, x)) = Cat(Line(a, b, c, d, e, f), x)
<1>0. a \in Stretch /\ b \in Stretch /\ c \in Stretch /\ d \in Stretch
      /\ e \in Stretch /\ f \in Stretch /\ x \in Stretch
  OBVIOUS
<1>1. PICK p : p = Cat(e, f) /\ p \in Stretch
  BY <1>0, CatIs
<1>2. PICK o : o = Cat(d, p) /\ o \in Stretch
  BY <1>0, <1>1, CatIs
<1>3. PICK m : m = Cat(c, o) /\ m \in Stretch
  BY <1>0, <1>2, CatIs
<1>4. PICK k : k = Cat(b, m) /\ k \in Stretch
  BY <1>0, <1>3, CatIs
<1>5. Cat(Cat(e, f), x) = Cat(e, Cat(f, x))
  BY <1>0, CatAssociative
<1>6. Cat(Cat(d, p), x) = Cat(d, Cat(p, x))
  BY <1>0, <1>1, CatAssociative
<1>7. Cat(Cat(c, o), x) = Cat(c, Cat(o, x))
  BY <1>0, <1>2, CatAssociative
<1>8. Cat(Cat(b, m), x) = Cat(b, Cat(m, x))
  BY <1>0, <1>3, CatAssociative
<1>9. Cat(Cat(a, k), x) = Cat(a, Cat(k, x))
  BY <1>0, <1>4, CatAssociative
<1>10. QED
  BY <1>1, <1>2, <1>3, <1>4, <1>5, <1>6, <1>7, <1>8, <1>9 DEF Line

LEMMA ExtendedRing ==
  ASSUME NEW a, NEW b, NEW c, NEW d, NEW e, NEW x,
         {a, b, c, d, e, x} \subseteq Stretch
  PROVE  Line(a, b, c, d, Cat(e, x), <<>>) = Cat(Line(a, b, c, d, e, <<>>), x)
<1>0. a \in Stretch /\ b \in Stretch /\ c \in Stretch /\ d \in Stretch
      /\ e \in Stretch /\ x \in Stretch
  OBVIOUS
<1>1. PICK z : z = <<>> /\ z \in Stretch
  BY EmptySeq DEF Stretch
<1>10. z \in Stretch
  BY <1>1
<1>2. Cat(e, x) \in Stretch
  BY <1>0, CatIs
<1>3. Line(a, b, c, d, e, Cat(z, x)) = Cat(Line(a, b, c, d, e, z), x)
  BY <1>0, <1>10, Extended
<1>4. Cat(Cat(e, x), z) = Cat(e, x) /\ Cat(z, x) = x
  BY <1>0, <1>1, <1>2, CatEmpty
<1>5. QED
  BY <1>1, <1>3, <1>4 DEF Line

-----------------------------------------------------------------------------
(* The inductive invariant, but for what is said of the contents.          *)

Dropped == IF sdone = None THEN 0 ELSE sdone
Landed  == IF rdone = None THEN <<>> ELSE ReadAt(rbuf, rbuf.tail, rdone)
Pending == IF sending = None THEN 0 ELSE sending[2]

Way == Line(Rest(rbuf, 0), Landed, rpool.cells, net, Rest(sbuf, Dropped), spool)

\* What the sender has handed to the system, and the receiver has not handled.
Out == rbuf.length + (Len(Landed) + (Len(rpool.cells) + (Len(net) + Pending)))

Known == CellsOf(Len(size))

Typed ==
  /\ ends \in Ends
  /\ size \in Seq(Sizes) /\ Len(size) <= MaxPackets
  /\ written \in Seq(1 .. Len(size))
  /\ wrote \in BOOLEAN /\ complete \in BOOLEAN /\ looked \in BOOLEAN
  /\ skill \in BOOLEAN /\ closed \in BOOLEAN /\ rkill \in BOOLEAN
  /\ raced \in BOOLEAN /\ lost \in BOOLEAN
  /\ sending = None \/ sending \in (0 .. SendSize - 1) \X (1 .. SendSize)
  /\ sdone = None \/ sdone \in 1 .. SendSize
  /\ posted = None \/ posted \in 0 .. RecvSize
  /\ rdone = None \/ rdone \in 0 .. RecvSize
  /\ packet = None \/ packet \in Sizes
  /\ handled \in Seq(Seq(Cell))

Stored ==
  /\ sbuf \in Ring(SendSize) /\ rbuf \in Ring(RecvSize)
  /\ rpool \in Pool(Known) /\ Room(rpool) >= 0
  /\ spool \in Seq(Known) /\ Len(spool) <= MaxNetPool
  /\ net \in Seq(Known)
  /\ Rest(sbuf, Dropped) \in Seq(Known)
  /\ Rest(rbuf, 0) \in Seq(Known) /\ Landed \in Seq(Known)

\* A side that is a server has no pool, and a client no ring and no completions.
Roles ==
  /\ ends[1] = "client" =>
       /\ ~wrote /\ ~looked /\ ~skill /\ ~closed
       /\ sbuf.length = 0 /\ sending = None /\ sdone = None
  /\ ends[1] # "client" => spool = <<>>
  /\ ends[2] = "client" => /\ rbuf.length = 0 /\ posted = None /\ rdone = None /\ packet = None
                           /\ ~rkill
  /\ ends[2] # "client" => rpool.cells = <<>>

Senders ==
  /\ complete <=> (sending = None /\ sdone = None)
  /\ sending # None => /\ sdone = None /\ sending[1] = sbuf.head
                       /\ sending[2] <= sbuf.length /\ sbuf.head + sending[2] <= SendSize
  /\ sdone # None => sdone <= sbuf.length
  /\ wrote => Len(size) >= 1
  /\ raced => skill

Receivers ==
  /\ posted # None => /\ rdone = None
                      /\ rbuf.tail + posted <= RecvSize /\ rbuf.length + posted <= RecvSize
  /\ rdone # None => rbuf.tail + rdone <= RecvSize /\ rbuf.length + rdone <= RecvSize
  /\ packet # None => Linear(rbuf, HeaderLen + packet)

TypeInv == Typed /\ Stored /\ Roles /\ Senders /\ Receivers

LEMMA WayFacts ==
  ASSUME TypeInv
  PROVE  /\ Len(size) \in Nat /\ Seq(Known) \subseteq Seq(Cell)
         /\ Rest(rbuf, 0) \in Stretch /\ Len(Rest(rbuf, 0)) = rbuf.length
         /\ Landed \in Stretch /\ Len(Landed) = (IF rdone = None THEN 0 ELSE rdone)
         /\ rpool.cells \in Stretch /\ net \in Stretch /\ spool \in Stretch
         /\ Rest(sbuf, Dropped) \in Stretch
         /\ Len(Rest(sbuf, Dropped)) = sbuf.length - Dropped
         /\ Dropped \in 0 .. sbuf.length /\ sbuf.length \in Nat /\ rbuf.length \in Nat
         /\ Pending \in Nat /\ Pending <= sbuf.length - Dropped
         /\ Way \in Stretch /\ Out \in Nat
         /\ Len(Way) = Out - Pending + (Len(Rest(sbuf, Dropped)) + Len(spool))
<1>1. Typed /\ Stored /\ Senders /\ Receivers
  BY DEF TypeInv
<1>2. Len(size) \in Nat /\ Len(size) <= MaxPackets
  BY <1>1, LenProperties DEF Typed
<1>3. Seq(Known) \subseteq Seq(Cell)
  BY <1>2, CellsOfAreCells DEF Known
<1>4. MaxPacket \in Nat /\ SendSize \in Nat \ {0} /\ RecvSize \in Nat \ {0}
  BY Constants
<1>5. sbuf \in Ring(SendSize) /\ rbuf \in Ring(RecvSize)
  BY <1>1 DEF Stored
<1>6. sbuf.length \in 0 .. SendSize /\ rbuf.length \in 0 .. RecvSize
      /\ rbuf.tail \in 0 .. RecvSize - 1
  BY <1>4, <1>5, RingFields
<1>7. sbuf.length \in Nat /\ rbuf.length \in Nat /\ rbuf.tail \in Nat
  BY <1>4, <1>6
<1>8. Dropped \in 0 .. sbuf.length /\ Pending \in Nat /\ Pending <= sbuf.length - Dropped
  <2>1. sdone = None \/ (sdone \in Nat /\ sdone <= sbuf.length)
    BY <1>1, <1>4 DEF Typed, Senders
  <2>2. Dropped \in 0 .. sbuf.length
    BY <1>7, <2>1 DEF Dropped
  <2>3. CASE sending = None
    <3>1. Pending = 0
      BY <2>3 DEF Pending
    <3>2. QED
      BY <1>7, <2>2, <3>1
  <2>4. CASE sending # None
    <3>1. Pending = sending[2] /\ Dropped = 0 /\ sending[2] \in 1 .. SendSize
          /\ sending[2] <= sbuf.length
      BY <1>1, <2>4 DEF Pending, Dropped, Typed, Senders
    <3>2. QED
      BY <1>4, <1>7, <2>2, <3>1
  <2>5. QED
    BY <2>3, <2>4
<1>9. Rest(rbuf, 0) \in Seq(Cell) /\ Len(Rest(rbuf, 0)) = rbuf.length
  <2>1. 0 \in 0 .. rbuf.length
    BY <1>7
  <2>2. Rest(rbuf, 0) \in Seq(Cell) /\ Len(Rest(rbuf, 0)) = rbuf.length - 0
    BY <1>4, <1>5, <2>1, RestIs
  <2>3. QED
    BY <1>7, <2>2
<1>10. Rest(sbuf, Dropped) \in Seq(Cell) /\ Len(Rest(sbuf, Dropped)) = sbuf.length - Dropped
  BY <1>4, <1>5, <1>8, RestIs
<1>11. Landed \in Seq(Cell) /\ Len(Landed) = (IF rdone = None THEN 0 ELSE rdone)
  <2>1. Landed \in Seq(Cell)
    BY <1>1, <1>3 DEF Stored
  <2>2. CASE rdone = None
    BY <2>2, EmptySeq DEF Landed
  <2>3. CASE rdone # None
    <3>1. rdone \in Nat /\ rbuf.tail + rdone <= RecvSize
      BY <1>1, <1>4, <2>3 DEF Typed, Receivers
    <3>2. rbuf.tail + rdone <= RecvSize + MaxPacket
      BY <1>4, <1>7, <3>1
    <3>3. Len(ReadAt(rbuf, rbuf.tail, rdone)) = rdone
      BY <1>4, <1>5, <1>7, <3>1, <3>2, ReadAtIs
    <3>4. QED
      BY <2>1, <2>3, <3>3 DEF Landed
  <2>4. QED
    BY <2>2, <2>3
<1>12. rpool.cells \in Seq(Known) /\ net \in Seq(Known) /\ spool \in Seq(Known)
  BY <1>1 DEF Stored, Pool
<1>13. rpool.cells \in Seq(Cell) /\ net \in Seq(Cell) /\ spool \in Seq(Cell)
  BY <1>3, <1>12
<1>14. {Rest(rbuf, 0), Landed, rpool.cells, net, Rest(sbuf, Dropped), spool} \subseteq Stretch
  BY <1>9, <1>10, <1>11, <1>13 DEF Stretch
<1>15. PICK a, b, c, d, e, f : /\ a = Rest(rbuf, 0) /\ b = Landed /\ c = rpool.cells
                               /\ d = net /\ e = Rest(sbuf, Dropped) /\ f = spool
  OBVIOUS
<1>16. {a, b, c, d, e, f} \subseteq Stretch
  BY <1>14, <1>15
<1>17. PICK w : w = Line(a, b, c, d, e, f)
  OBVIOUS
<1>18. w \in Stretch /\ Len(w) = Len(a) + (Len(b) + (Len(c) + (Len(d) + (Len(e) + Len(f)))))
  BY <1>16, <1>17, LineIs
<1>20. Way = w
  BY <1>15, <1>17 DEF Way
<1>21. PICK k, l, m, n, o, p, x : /\ k = Len(a) /\ l = Len(b) /\ m = Len(c)
                                  /\ n = Len(d) /\ o = Len(e) /\ p = Len(f) /\ x = Pending
  OBVIOUS
<1>22. k \in Nat /\ l \in Nat /\ m \in Nat /\ n \in Nat /\ o \in Nat /\ p \in Nat /\ x \in Nat
  <2>1. a \in Stretch /\ b \in Stretch /\ c \in Stretch /\ d \in Stretch /\ e \in Stretch
        /\ f \in Stretch
    BY <1>16
  <2>2. QED
    BY <1>8, <1>21, <2>1, LenIs
<1>23. Out = k + (l + (m + (n + x)))
  BY <1>9, <1>15, <1>21 DEF Out
<1>24. Out \in Nat
  BY <1>22, <1>23
<1>25. Len(w) = Out - x + (o + p)
  <2>1. Len(w) = k + (l + (m + (n + (o + p))))
    BY <1>18, <1>21
  <2>2. QED
    BY <1>22, <1>23, <2>1
<1>19. QED
  BY <1>2, <1>3, <1>7, <1>8, <1>9, <1>10, <1>11, <1>14, <1>15, <1>18, <1>20, <1>21, <1>24, <1>25

LEMMA TypeInvIsTypeOK ==
  ASSUME TypeInv
  PROVE  TypeOK
<1>1. Typed /\ Stored
  BY DEF TypeInv
<1>2. Len(size) \in Nat /\ Len(size) <= MaxPackets /\ Seq(Known) \subseteq Seq(Cell)
  BY <1>1, WayFacts DEF Typed
<1>3. written \in Seq(1 .. MaxPackets)
  <2>1. 1 .. Len(size) \subseteq 1 .. MaxPackets
    BY <1>2, Constants
  <2>2. QED
    BY <1>1, <2>1, SeqMonotonic DEF Typed
<1>4. IsRing(sbuf, SendSize) /\ IsRing(rbuf, RecvSize)
  BY <1>1, Constants, RingIsRing DEF Stored
<1>5. /\ net \in Seq(Cell) /\ spool \in Seq(Cell) /\ Len(spool) <= MaxNetPool
      /\ rpool.start \in Nat /\ rpool.cells \in Seq(Cell) /\ Room(rpool) >= 0
  BY <1>1, <1>2 DEF Stored, Pool
<1>6. QED
  BY <1>1, <1>3, <1>4, <1>5 DEF Typed, TypeOK

LEMMA InitInv ==
  ASSUME Init
  PROVE  TypeInv /\ Way = <<>> /\ Out = 0
<1>1. MaxPacket \in Nat /\ SendSize \in Nat \ {0} /\ RecvSize \in Nat \ {0} /\ MaxPackets \in Nat
      /\ MaxNetPool \in Nat
  BY Constants
<1>2. /\ sbuf \in Ring(SendSize) /\ sbuf.length = 0 /\ Rest(sbuf, 0) = <<>>
      /\ rbuf \in Ring(RecvSize) /\ rbuf.length = 0 /\ rbuf.tail = 0 /\ Rest(rbuf, 0) = <<>>
  BY <1>1, CreateIs DEF Init
<1>3. \A S : <<>> \in Seq(S)
  BY EmptySeq
<1>4. Len(<<>>) = 0
  BY EmptySeq
<1>5. Typed
  <2>1. Ends \subseteq {"server", "client"} \X {"server", "client"}
    BY StreamAssumption
  <2>2. posted = None \/ posted \in 0 .. RecvSize
    BY <1>1 DEF Init
  <2>3. /\ size \in Seq(Sizes) /\ Len(size) <= MaxPackets /\ written \in Seq(1 .. Len(size))
        /\ handled \in Seq(Seq(Cell))
    <3>1. size = <<>> /\ written = <<>> /\ handled = <<>>
      BY DEF Init
    <3>2. Len(size) <= MaxPackets
      BY <1>1, <1>4, <3>1
    <3>3. QED
      BY <1>3, <3>1, <3>2
  <2>4. QED
    BY <2>2, <2>3 DEF Init, Typed
<1>6. Landed = <<>> /\ Dropped = 0 /\ Pending = 0
  BY DEF Init, Landed, Dropped, Pending
<1>7. rpool.cells = <<>> /\ rpool \in Pool(Known) /\ Room(rpool) >= 0
  <2>1. rpool = [start |-> 0, cells |-> <<>>]
    BY DEF Init, EmptyPool
  <2>2. MaxNetPool - (0 + 0) >= 0
    BY <1>1
  <2>3. QED
    BY <1>3, <1>4, <2>1, <2>2 DEF Pool, Room
<1>8. Stored
  <2>1. net = <<>> /\ spool = <<>> /\ Rest(sbuf, Dropped) = <<>>
    BY <1>2, <1>6 DEF Init
  <2>2. Len(spool) <= MaxNetPool
    BY <1>1, <1>4, <2>1
  <2>3. <<>> \in Seq(Known)
    BY <1>3
  <2>4. QED
    BY <1>2, <1>6, <1>7, <2>1, <2>2, <2>3 DEF Stored
<1>9. Roles
  BY <1>2, <1>7 DEF Init, Roles
<1>10. Senders
  BY DEF Init, Senders
<1>11. Receivers
  <2>1. posted # None => posted = RecvSize
    BY DEF Init
  <2>2. QED
    BY <1>1, <1>2, <2>1 DEF Init, Receivers
<1>12. Way = <<>>
  <2>1. Way = Line(<<>>, <<>>, <<>>, <<>>, <<>>, <<>>)
    BY <1>2, <1>6, <1>7 DEF Init, Way
  <2>2. <<>> \in Stretch
    BY <1>3 DEF Stretch
  <2>3. Cat(<<>>, <<>>) = <<>>
    BY <2>2, CatEmpty
  <2>4. QED
    BY <2>1, <2>3 DEF Line
<1>13. Out = 0
  BY <1>2, <1>4, <1>6, <1>7 DEF Init, Out
<1>14. QED
  BY <1>5, <1>8, <1>9, <1>10, <1>11, <1>12, <1>13 DEF TypeInv

-----------------------------------------------------------------------------
(* What the steps do to the buffers.                                       *)

LEMMA SizeGrows ==
  ASSUME TypeInv, NEW s \in Sizes, size' = Append(size, s), Len(size) < MaxPackets
  PROVE  /\ size' \in Seq(Sizes) /\ Len(size') = Len(size) + 1 /\ Len(size') <= MaxPackets
         /\ \A i \in 1 .. Len(size) : size'[i] = size[i]
         /\ size'[Len(size) + 1] = s
         /\ Seq(Known) \subseteq Seq(Known') /\ Seq(Known') \subseteq Seq(Cell)
         /\ Pool(Known) \subseteq Pool(Known')
         /\ Seq(1 .. Len(size)) \subseteq Seq(1 .. Len(size'))
<1>1. size \in Seq(Sizes) /\ Len(size) \in Nat /\ MaxPackets \in Nat
  BY LenProperties, Constants DEF TypeInv, Typed
<1>2. /\ size' \in Seq(Sizes) /\ Len(size') = Len(size) + 1
      /\ \A i \in 1 .. Len(size) : size'[i] = size[i]
      /\ size'[Len(size) + 1] = s
  BY <1>1, AppendProperties
<1>3. Len(size') <= MaxPackets /\ Len(size') \in Nat /\ Len(size) <= Len(size')
  BY <1>1, <1>2
<1>4. Seq(Known) \subseteq Seq(Known')
  BY <1>1, <1>3, CellsOfGrow DEF Known
<1>5. Seq(Known') \subseteq Seq(Cell)
  BY <1>3, CellsOfAreCells DEF Known
<1>6. Pool(Known) \subseteq Pool(Known')
  BY <1>4 DEF Pool
<1>7. Seq(1 .. Len(size)) \subseteq Seq(1 .. Len(size'))
  <2>1. 1 .. Len(size) \subseteq 1 .. Len(size')
    BY <1>1, <1>3
  <2>2. QED
    BY <2>1, SeqMonotonic
<1>8. QED
  BY <1>2, <1>3, <1>4, <1>5, <1>6, <1>7

LEMMA SizeStays ==
  ASSUME TypeInv, size' = size
  PROVE  Known' = Known /\ Seq(Known') \subseteq Seq(Cell)
BY WayFacts DEF Known

\* A Send that fits extends what is on its way.
LEMMA Enqueued ==
  ASSUME TypeInv, ends[1] # "client", NEW cells \in Seq(Known'), Len(cells) <= GetSpace(sbuf),
         sbuf' = Enqueue(sbuf, cells),
         UNCHANGED <<sending, sdone, rbuf, rdone, rpool, net, spool>>,
         Seq(Known) \subseteq Seq(Known'), Seq(Known') \subseteq Seq(Cell)
  PROVE  /\ sbuf' \in Ring(SendSize) /\ sbuf'.head = sbuf.head /\ sbuf.length <= sbuf'.length
         /\ sbuf.length \in Nat /\ sbuf'.length \in Nat
         /\ Rest(sbuf', Dropped') \in Seq(Known') /\ Landed' = Landed
         /\ Way' = Cat(Way, cells) /\ Out' = Out
<1>1. Typed /\ Stored /\ Roles
  BY DEF TypeInv
<1>2. sbuf \in Ring(SendSize) /\ SendSize \in Nat \ {0} /\ MaxPacket \in Nat /\ spool = <<>>
  BY <1>1, Constants DEF Stored, Roles
<1>3. cells \in Seq(Cell)
  OBVIOUS
<1>4. Len(cells) \in Nat
  BY <1>3, LenProperties
<1>5. Dropped \in 0 .. sbuf.length /\ sbuf.length \in Nat
  BY WayFacts
<1>6. /\ sbuf' \in Ring(SendSize) /\ sbuf'.head = sbuf.head
      /\ sbuf'.length = sbuf.length + Len(cells)
      /\ Rest(sbuf', Dropped) = Rest(sbuf, Dropped) \o cells
  BY <1>2, <1>3, <1>5, RestEnqueue
<1>7. Dropped' = Dropped /\ Landed' = Landed /\ Pending' = Pending
  BY DEF Dropped, Landed, Pending
<1>8. Rest(sbuf', Dropped') \in Seq(Known')
  <2>1. Rest(sbuf, Dropped) \in Seq(Known')
    BY <1>1 DEF Stored
  <2>2. QED
    BY <1>6, <1>7, <2>1, ConcatProperties
<1>9. Way' = Cat(Way, cells)
  <2>1. PICK a, b, c, d, e : /\ a = Rest(rbuf, 0) /\ b = Landed /\ c = rpool.cells
                             /\ d = net /\ e = Rest(sbuf, Dropped)
    OBVIOUS
  <2>2. Way = Line(a, b, c, d, e, <<>>)
    BY <1>2, <2>1 DEF Way
  <2>3. Way' = Line(a, b, c, d, Cat(e, cells), <<>>)
    BY <1>2, <1>6, <1>7, <2>1 DEF Way, Cat
  <2>4. {a, b, c, d, e, cells} \subseteq Stretch
    BY <1>3, <2>1, WayFacts DEF Stretch
  <2>5. Line(a, b, c, d, Cat(e, cells), <<>>) = Cat(Line(a, b, c, d, e, <<>>), cells)
    BY <2>4, ExtendedRing
  <2>6. QED
    BY <2>2, <2>3, <2>5
<1>10. Out' = Out
  BY <1>7 DEF Out
<1>11. QED
  BY <1>4, <1>5, <1>6, <1>7, <1>8, <1>9, <1>10

LEMMA SendInv ==
  ASSUME TypeInv, NEW s \in Sizes, Send(s)
  PROVE  /\ TypeInv' /\ Out' = Out
         /\ Len(size) + 1 \in 1 .. Len(size')
         /\ \/ ~wrote /\ wrote' /\ skill' = skill /\ Way' = Cat(Way, Header(Len(size) + 1))
            \/ ~wrote' /\ ~wrote /\ skill' /\ Way' = Way
<1>1. Typed /\ Stored /\ Roles /\ Senders /\ Receivers
  BY DEF TypeInv
<1>2. /\ ends[1] = "server" /\ ~wrote /\ Len(size) < MaxPackets /\ size' = Append(size, s)
      /\ UNCHANGED <<written, complete, looked, sending, sdone, closed, net, receiver, raced,
                     client, ends>>
  BY DEF Send
<1>3. ends[1] # "client"
  BY <1>2
<1>4. PICK n : n = Len(size) + 1 /\ n \in Nat
  BY WayFacts
<1>5. /\ size' \in Seq(Sizes) /\ Len(size') = n /\ n <= MaxPackets
      /\ Seq(Known) \subseteq Seq(Known') /\ Seq(Known') \subseteq Seq(Cell)
      /\ Pool(Known) \subseteq Pool(Known') /\ Seq(1 .. Len(size)) \subseteq Seq(1 .. Len(size'))
  BY <1>2, <1>4, SizeGrows
<1>6. n \in 1 .. n /\ n >= 1
  BY <1>4, WayFacts
<1>7. Typed' /\ rpool' \in Pool(Known') /\ Room(rpool') >= 0 /\ spool' \in Seq(Known')
      /\ Len(spool') <= MaxNetPool /\ net' \in Seq(Known') /\ rbuf' \in Ring(RecvSize)
      /\ Rest(rbuf', 0) \in Seq(Known') /\ Landed' \in Seq(Known')
  <2>1. wrote' \in BOOLEAN /\ skill' \in BOOLEAN
    BY <1>1 DEF Send, Typed
  <2>2. /\ UNCHANGED <<ends, written, complete, looked, closed, rkill, raced, lost, sending, sdone,
                       posted, rdone, packet, handled, rpool, spool, net, rbuf>>
    BY <1>2 DEF receiver, client
  <2>3. Typed'
    BY <1>1, <1>4, <1>5, <2>1, <2>2 DEF Typed
  <2>4. Landed' = Landed
    BY <2>2 DEF Landed
  <2>5. QED
    BY <1>1, <1>5, <2>2, <2>3, <2>4 DEF Stored
<1>8. UNCHANGED <<ends, written, complete, looked, closed, rkill, raced, lost, sending, sdone,
                  posted, rdone, packet, handled, rpool, spool, net, rbuf>>
  BY <1>2 DEF receiver, client
<1>9. Receivers' /\ (ends[2] = "client" => /\ rbuf'.length = 0 /\ posted' = None /\ rdone' = None
                                            /\ packet' = None /\ ~rkill')
      /\ (ends[2] # "client" => rpool'.cells = <<>>)
  BY <1>1, <1>8 DEF Receivers, Roles
<1>10. CASE GetSpace(sbuf) >= HeaderLen
  <2>1. sbuf' = Enqueue(sbuf, Header(n)) /\ wrote' = TRUE /\ skill' = skill
    BY <1>4, <1>10 DEF Send
  <2>2. Header(n) \in Seq(Known') /\ Len(Header(n)) = HeaderLen
    <3>1. Header(n) \in Seq(CellsOf(n)) /\ Len(Header(n)) = HeaderLen
      BY <1>4, <1>6, PacketIs
    <3>2. QED
      BY <1>5, <3>1 DEF Known
  <2>3. Len(Header(n)) <= GetSpace(sbuf)
    <3>1. GetSpace(sbuf) \in Int
      <4>1. sbuf \in Ring(SendSize) /\ SendSize \in Nat \ {0}
        BY <1>1, Constants DEF Stored
      <4>2. sbuf.size = SendSize /\ sbuf.length \in 0 .. SendSize
        BY <4>1, RingFields
      <4>3. QED
        BY <4>1, <4>2 DEF GetSpace
    <3>2. QED
      BY <1>10, <2>2, <3>1, Constants
  <2>4. /\ sbuf' \in Ring(SendSize) /\ sbuf'.head = sbuf.head /\ sbuf.length <= sbuf'.length
        /\ sbuf.length \in Nat /\ sbuf'.length \in Nat
        /\ Rest(sbuf', Dropped') \in Seq(Known')
        /\ Way' = Cat(Way, Header(n)) /\ Out' = Out
    BY <1>3, <1>5, <1>8, <2>1, <2>2, <2>3, Enqueued
  <2>5. Stored'
    BY <1>7, <2>4 DEF Stored
  <2>6. Roles'
    BY <1>1, <1>3, <1>8, <1>9 DEF Roles
  <2>7. Senders'
    <3>1. sending # None => sending[2] \in Nat
      BY <1>1, Constants DEF Typed
    <3>2. sdone # None => sdone \in Nat
      BY <1>1, Constants DEF Typed
    <3>3. Len(size') >= 1
      BY <1>5, <1>6
    <3>4. raced' => skill'
      BY <1>1, <1>8, <2>1 DEF Senders
    <3>5. sending # None => sending[2] <= sbuf'.length
      BY <1>1, <2>4, <3>1 DEF Senders
    <3>6. sdone # None => sdone <= sbuf'.length
      BY <1>1, <2>4, <3>2 DEF Senders
    <3>7. QED
      BY <1>1, <1>8, <2>4, <3>3, <3>4, <3>5, <3>6 DEF Senders
  <2>8. QED
    BY <1>2, <1>4, <1>5, <1>6, <1>7, <1>9, <2>1, <2>4, <2>5, <2>6, <2>7 DEF TypeInv
<1>11. CASE ~(GetSpace(sbuf) >= HeaderLen)
  <2>1. sbuf' = sbuf /\ wrote' = wrote /\ skill' = TRUE
    BY <1>11 DEF Send
  <2>2. Dropped' = Dropped /\ Landed' = Landed /\ Pending' = Pending
    BY <1>8 DEF Dropped, Landed, Pending
  <2>3. Way' = Way /\ Out' = Out
    BY <1>8, <2>1, <2>2 DEF Way, Out
  <2>4. Stored'
    BY <1>1, <1>5, <1>7, <2>1, <2>2 DEF Stored
  <2>5. Roles'
    BY <1>1, <1>3, <1>8, <1>9 DEF Roles
  <2>6. Senders'
    BY <1>1, <1>2, <1>8, <2>1 DEF Senders
  <2>7. QED
    BY <1>2, <1>4, <1>5, <1>6, <1>7, <1>9, <2>1, <2>3, <2>4, <2>5, <2>6 DEF TypeInv
<1>12. QED
  BY <1>10, <1>11

LEMMA WriteMessageInv ==
  ASSUME TypeInv, WriteMessage
  PROVE  /\ TypeInv' /\ Out' = Out /\ wrote /\ ~wrote' /\ Len(size) \in 1 .. Len(size)
         /\ \/ /\ skill' = skill /\ written' = Append(written, Len(size))
               /\ Way' = Cat(Way, Body(Len(size), size[Len(size)]))
            \/ skill' /\ written' = written /\ Way' = Way
<1>1. Typed /\ Stored /\ Roles /\ Senders /\ Receivers
  BY DEF TypeInv
<1>2. wrote /\ wrote' = FALSE
  BY DEF WriteMessage
<1>3. ends[1] # "client"
  BY <1>1, <1>2 DEF Roles
<1>4. PICK n : n = Len(size) /\ n \in Nat
  BY WayFacts
<1>5. n \in 1 .. n /\ n >= 1
  BY <1>1, <1>2, <1>4 DEF Senders
<1>6. UNCHANGED <<size, ends, complete, looked, closed, rkill, raced, lost, sending, sdone,
                  posted, rdone, packet, handled, rpool, spool, net, rbuf>>
  BY DEF WriteMessage, receiver, client
<1>7. Known' = Known /\ Seq(Known') \subseteq Seq(Cell)
  BY <1>6, SizeStays
<1>8. Receivers'
  BY <1>1, <1>6 DEF Receivers
<1>9. size[n] \in Sizes
  BY <1>1, <1>4, <1>5, ElementOfSeq DEF Typed
<1>10. CASE GetSpace(sbuf) >= size[n]
  <2>1. sbuf' = Enqueue(sbuf, Message(n)) /\ written' = Append(written, n) /\ skill' = skill
    BY <1>4, <1>10 DEF WriteMessage
  <2>2. Message(n) = Body(n, size[n])
    BY DEF Message, Body
  <2>3. Body(n, size[n]) \in Seq(CellsOf(n)) /\ Len(Body(n, size[n])) = size[n]
    BY <1>4, <1>5, <1>9, PacketIs, ZenonT(30)
  <2>4. PICK cells : cells = Body(n, size[n])
    OBVIOUS
  <2>5. cells \in Seq(Known') /\ Len(cells) = size[n]
    BY <1>4, <1>7, <2>3, <2>4 DEF Known
  <2>6. Len(cells) <= GetSpace(sbuf)
    <3>1. GetSpace(sbuf) \in Int
      <4>1. sbuf \in Ring(SendSize) /\ SendSize \in Nat \ {0}
        BY <1>1, Constants DEF Stored
      <4>2. sbuf.size = SendSize /\ sbuf.length \in 0 .. SendSize
        BY <4>1, RingFields
      <4>3. QED
        BY <4>1, <4>2 DEF GetSpace
    <3>2. size[n] \in Nat
      BY <1>9, Constants
    <3>3. QED
      BY <1>10, <2>5, <3>1, <3>2
  <2>7. Seq(Known) \subseteq Seq(Known')
    BY <1>7
  <2>8. sbuf' = Enqueue(sbuf, cells)
    BY <2>1, <2>2, <2>4
  <2>9. /\ sbuf' \in Ring(SendSize) /\ sbuf'.head = sbuf.head /\ sbuf.length <= sbuf'.length
        /\ sbuf.length \in Nat /\ sbuf'.length \in Nat
        /\ Rest(sbuf', Dropped') \in Seq(Known') /\ Landed' = Landed
        /\ Way' = Cat(Way, cells) /\ Out' = Out
    BY <1>3, <1>6, <1>7, <2>5, <2>6, <2>7, <2>8, Enqueued
  <2>10. Typed'
    <3>1. written' \in Seq(1 .. Len(size'))
      BY <1>1, <1>4, <1>5, <1>6, <2>1, AppendProperties DEF Typed
    <3>2. wrote' \in BOOLEAN
      BY <1>2
    <3>3. QED
      BY <1>1, <1>6, <2>1, <3>1, <3>2 DEF Typed
  <2>11. Stored'
    BY <1>1, <1>6, <1>7, <2>9 DEF Stored
  <2>12. Roles'
    BY <1>1, <1>2, <1>3, <1>6 DEF Roles
  <2>13. Senders'
    <3>1. sending # None => sending[2] \in Nat
      BY <1>1, Constants DEF Typed
    <3>2. sdone # None => sdone \in Nat
      BY <1>1, Constants DEF Typed
    <3>4. raced' => skill'
      BY <1>1, <1>6, <2>1 DEF Senders
    <3>5. sending # None => sending[2] <= sbuf'.length
      BY <1>1, <2>9, <3>1 DEF Senders
    <3>6. sdone # None => sdone <= sbuf'.length
      BY <1>1, <2>9, <3>2 DEF Senders
    <3>7. QED
      BY <1>1, <1>2, <1>6, <2>9, <3>4, <3>5, <3>6 DEF Senders
  <2>14. QED
    BY <1>2, <1>4, <1>5, <1>8, <2>1, <2>4, <2>9, <2>10, <2>11, <2>12, <2>13 DEF TypeInv
<1>11. CASE ~(GetSpace(sbuf) >= size[n])
  <2>1. sbuf' = sbuf /\ written' = written /\ skill' = TRUE
    BY <1>4, <1>11 DEF WriteMessage
  <2>2. Dropped' = Dropped /\ Landed' = Landed /\ Pending' = Pending
    BY <1>6 DEF Dropped, Landed, Pending
  <2>3. Way' = Way /\ Out' = Out
    BY <1>6, <2>1, <2>2 DEF Way, Out
  <2>4. Stored'
    BY <1>1, <1>6, <1>7, <2>1, <2>2 DEF Stored
  <2>5. Roles'
    BY <1>1, <1>2, <1>3, <1>6 DEF Roles
  <2>6. Senders'
    BY <1>1, <1>2, <1>6, <2>1 DEF Senders
  <2>7. Typed'
    BY <1>1, <1>2, <1>6, <2>1, ZenonT(30) DEF Typed
  <2>8. QED
    BY <1>2, <1>4, <1>5, <1>8, <2>1, <2>3, <2>4, <2>5, <2>6, <2>7 DEF TypeInv
<1>12. QED
  BY <1>10, <1>11

\* The buffers stay as they are.
LEMMA Untouched ==
  ASSUME TypeInv,
         UNCHANGED <<size, sbuf, sending, sdone, rbuf, rdone, rpool, net, spool>>
  PROVE  Stored' /\ Way' = Way /\ Out' = Out
<1>1. Stored
  BY DEF TypeInv
<1>2. Dropped' = Dropped /\ Landed' = Landed /\ Pending' = Pending
  BY DEF Dropped, Landed, Pending
<1>3. Known' = Known
  BY SizeStays
<1>4. QED
  BY <1>1, <1>2, <1>3 DEF Stored, Way, Out

LEMMA KickInv ==
  ASSUME TypeInv, Kick
  PROVE  TypeInv' /\ Way' = Way /\ Out' = Out
<1>1. Typed /\ Stored /\ Roles /\ Senders /\ Receivers
  BY DEF TypeInv
<1>2. /\ skill /\ closed' = TRUE
      /\ UNCHANGED <<size, ends, wrote, written, sbuf, complete, looked, sending, sdone, skill,
                     net, rbuf, posted, rdone, packet, handled, rkill, raced, lost, spool, rpool>>
  BY DEF Kick, receiver, client
<1>3. Stored' /\ Way' = Way /\ Out' = Out
  BY <1>2, Untouched
<1>4. Typed' /\ Roles'
  BY <1>1, <1>2 DEF Typed, Roles
<1>5. Senders' /\ Receivers'
  BY <1>1, <1>2 DEF Senders, Receivers
<1>6. QED
  BY <1>3, <1>4, <1>5 DEF TypeInv

LEMMA LookAtSessionInv ==
  ASSUME TypeInv, LookAtSession
  PROVE  TypeInv' /\ Way' = Way /\ Out' = Out
<1>1. Typed /\ Stored /\ Roles /\ Senders /\ Receivers
  BY DEF TypeInv
<1>2. /\ ends[1] = "server" /\ looked' = TRUE
      /\ UNCHANGED <<size, ends, wrote, written, sbuf, complete, closed, sending, sdone, skill,
                     net, rbuf, posted, rdone, packet, handled, rkill, raced, lost, spool, rpool>>
  BY DEF LookAtSession, receiver, client
<1>3. Stored' /\ Way' = Way /\ Out' = Out
  BY <1>2, Untouched
<1>4. Typed' /\ Roles'
  BY <1>1, <1>2 DEF Typed, Roles
<1>5. Senders' /\ Receivers'
  BY <1>1, <1>2 DEF Senders, Receivers
<1>6. QED
  BY <1>3, <1>4, <1>5 DEF TypeInv

\* The parts of a sequence have its cells.
LEMMA PartsIn ==
  ASSUME NEW S, NEW T, NEW s \in Seq(S), NEW t \in Seq(S), s \o t \in Seq(T)
  PROVE  s \in Seq(T) /\ t \in Seq(T)
<1>1. PICK m : m = Len(s) /\ m \in Nat
  BY LenProperties
<1>2. PICK k : k = Len(t) /\ k \in Nat
  BY LenProperties
<1>3. PICK u : u = s \o t
  OBVIOUS
<1>4. /\ Len(u) = m + k
      /\ \A i \in 1 .. m + k : u[i] = IF i <= m THEN s[i] ELSE t[i - m]
  BY <1>1, <1>2, <1>3, ConcatProperties
<1>5. \A i \in 1 .. m + k : u[i] \in T
  BY <1>3, <1>4, ElementOfSeq
<1>6. \A i \in 1 .. m : s[i] \in T
  <2>1. SUFFICES ASSUME NEW i \in 1 .. m PROVE s[i] \in T
    OBVIOUS
  <2>2. i \in 1 .. m + k /\ i <= m
    BY <1>1, <1>2
  <2>3. QED
    BY <1>4, <1>5, <2>2
<1>7. \A i \in 1 .. k : t[i] \in T
  <2>1. SUFFICES ASSUME NEW i \in 1 .. k PROVE t[i] \in T
    OBVIOUS
  <2>2. i + m \in 1 .. m + k /\ ~(i + m <= m) /\ (i + m) - m = i
    BY <1>1, <1>2
  <2>3. u[i + m] = t[(i + m) - m]
    BY <1>4, <2>2
  <2>4. QED
    BY <1>5, <2>2, <2>3
<1>8. s \in [1 .. m -> S] /\ t \in [1 .. k -> S]
  BY <1>1, <1>2, LenProperties
<1>9. s \in [1 .. m -> T] /\ t \in [1 .. k -> T]
  BY <1>6, <1>7, <1>8
<1>10. QED
  BY <1>1, <1>2, <1>9

LEMMA PreSendInv ==
  ASSUME TypeInv, PreSend
  PROVE  /\ TypeInv' /\ Way' = Way /\ (raced => raced')
         /\ Out' = Out \/ raced' \/ (~skill /\ Out' \in Nat /\ Out' <= Len(Way))
<1>1. Typed /\ Stored /\ Roles /\ Senders /\ Receivers
  BY DEF TypeInv
<1>2. /\ looked /\ looked' = FALSE
      /\ UNCHANGED <<size, ends, wrote, written, sdone, skill, closed, net, rbuf, posted, rdone,
                     packet, handled, rkill, spool, rpool, lost>>
  BY DEF PreSend, receiver, client
<1>3. ends[1] # "client"
  BY <1>1, <1>2 DEF Roles
<1>4. CASE complete /\ sbuf.length > 0
  <2>1. PICK h, k : h = sbuf.head /\ k = GetReadableLen(sbuf)
    OBVIOUS
  <2>2. /\ sbuf' = GetReadPtr(sbuf) /\ sending' = <<h, k>> /\ complete' = FALSE
        /\ raced' = (raced \/ skill)
    BY <1>4, <2>1 DEF PreSend
  <2>3. /\ SendSize \in Nat \ {0} /\ MaxPacket \in Nat /\ MaxPacket <= SendSize
        /\ sbuf \in Ring(SendSize)
    BY <1>1, Constants DEF Stored
  <2>4. k \in 1 .. SendSize /\ k <= sbuf.length /\ h + k <= SendSize
    BY <1>4, <2>1, <2>3, ReadableIs
  <2>5. h \in 0 .. SendSize - 1
    BY <2>1, <2>3, RingFields
  <2>6. Alike(SendSize, sbuf, sbuf')
    BY <2>2, <2>3, GetReadPtrIs
  <2>7. sbuf' \in Ring(SendSize) /\ sbuf'.head = h /\ sbuf'.length = sbuf.length
    BY <2>1, <2>6 DEF Alike
  <2>8. sending = None /\ sdone = None
    BY <1>1, <1>4 DEF Senders
  <2>9. Dropped = 0 /\ Dropped' = 0 /\ Pending = 0 /\ Landed' = Landed
    BY <1>2, <2>8 DEF Dropped, Pending, Landed
  <2>10. Rest(sbuf', 0) = Rest(sbuf, 0)
    <3>1. 0 \in 0 .. sbuf.length
      BY <2>9, WayFacts
    <3>2. QED
      BY <2>3, <2>6, <3>1, AlikeIs
  <2>11. Way' = Way
    BY <1>2, <2>9, <2>10 DEF Way
  <2>12. sending' # None /\ Pending' = k
    <3>1. <<h, k>> \in Nat \X Nat
      BY <2>3, <2>4, <2>5
    <3>2. sending' # None
      BY <2>2, <3>1, Constants
    <3>3. QED
      BY <2>2, <3>2 DEF Pending
  <2>13. Out' \in Nat /\ Out' <= Len(Way)
    <3>1. PICK a, b, c, d : /\ a = rbuf.length /\ b = Len(Landed) /\ c = Len(rpool.cells)
                            /\ d = Len(net)
      OBVIOUS
    <3>2. a \in Nat /\ b \in Nat /\ c \in Nat /\ d \in Nat
      BY <3>1, WayFacts, LenIs
    <3>3. Out = a + (b + (c + (d + 0))) /\ Out' = a + (b + (c + (d + k)))
      BY <1>2, <2>9, <2>12, <3>1 DEF Out
    <3>4. PICK l, f : l = sbuf.length /\ f = Len(spool) /\ l \in Nat /\ f \in Nat
      BY WayFacts, LenIs
    <3>5. Len(Way) = Out + (l + f)
      <4>1. Len(Way) = Out - 0 + ((l - 0) + f) /\ Out \in Nat
        BY <2>9, <3>4, WayFacts
      <4>2. QED
        BY <3>4, <4>1
    <3>6. k \in Nat /\ k <= l
      BY <2>3, <2>4, <3>4
    <3>7. QED
      BY <3>2, <3>3, <3>4, <3>5, <3>6
  <2>14. Typed'
    <3>1. sending' \in (0 .. SendSize - 1) \X (1 .. SendSize)
      BY <2>2, <2>4, <2>5
    <3>2. raced' \in BOOLEAN
      BY <2>2, <1>1 DEF Typed
    <3>3. QED
      BY <1>1, <1>2, <2>2, <3>1, <3>2 DEF Typed
  <2>15. Stored'
    <3>1. Known' = Known
      BY <1>2, SizeStays
    <3>2. QED
      BY <1>1, <1>2, <2>7, <2>9, <2>10, <3>1 DEF Stored
  <2>16. Roles'
    BY <1>1, <1>2, <1>3 DEF Roles
  <2>17. Senders'
    <3>1. sending'[1] = sbuf'.head /\ sending'[2] <= sbuf'.length
          /\ sbuf'.head + sending'[2] <= SendSize
      BY <2>2, <2>4, <2>7
    <3>2. sdone' = None
      BY <1>2, <2>8
    <3>3. raced' => skill'
      BY <1>1, <1>2, <2>2 DEF Senders
    <3>4. wrote' => Len(size') >= 1
      BY <1>1, <1>2 DEF Senders
    <3>5. QED
      BY <2>2, <2>12, <3>1, <3>2, <3>3, <3>4 DEF Senders
  <2>18. Receivers'
    BY <1>1, <1>2 DEF Receivers
  <2>19. QED
    BY <2>2, <2>11, <2>13, <2>14, <2>15, <2>16, <2>17, <2>18 DEF TypeInv
<1>5. CASE ~(complete /\ sbuf.length > 0)
  <2>1. UNCHANGED <<sbuf, sending, complete, raced>>
    BY <1>5 DEF PreSend
  <2>2. Stored' /\ Way' = Way /\ Out' = Out
    BY <1>2, <2>1, Untouched
  <2>3. Typed'
    <3>1. looked' \in BOOLEAN
      BY <1>2
    <3>2. /\ ends' = ends /\ size' = size /\ written' = written /\ wrote' = wrote
          /\ complete' = complete /\ skill' = skill /\ closed' = closed /\ rkill' = rkill
          /\ raced' = raced /\ lost' = lost /\ sending' = sending /\ sdone' = sdone
          /\ posted' = posted /\ rdone' = rdone /\ packet' = packet /\ handled' = handled
      BY <1>2, <2>1
    <3>3. QED
      BY <1>1, <3>1, <3>2 DEF Typed
  <2>4. Roles'
    BY <1>1, <1>2, <1>3, <2>1 DEF Roles
  <2>5. Senders' /\ Receivers'
    BY <1>1, <1>2, <2>1 DEF Senders, Receivers
  <2>6. QED
    BY <2>1, <2>2, <2>3, <2>4, <2>5 DEF TypeInv
<1>6. QED
  BY <1>4, <1>5

LEMMA SendCompletionInv ==
  ASSUME TypeInv, SendCompletion
  PROVE  TypeInv' /\ Way' = Way /\ Out' = Out
<1>1. Typed /\ Stored /\ Roles /\ Senders /\ Receivers
  BY DEF TypeInv
<1>2. /\ sdone # None /\ sbuf' = Dequeue(sbuf, sdone) /\ complete' = TRUE /\ sdone' = None
      /\ UNCHANGED <<size, ends, wrote, written, sending, looked, skill, closed, net, rbuf, posted,
                     rdone, packet, handled, rkill, raced, spool, rpool, lost>>
  BY DEF SendCompletion, receiver, client
<1>3. ends[1] # "client"
  BY <1>1, <1>2 DEF Roles
<1>4. SendSize \in Nat \ {0} /\ MaxPacket \in Nat /\ sbuf \in Ring(SendSize)
  BY <1>1, Constants DEF Stored
<1>5. PICK k : k = sdone
  OBVIOUS
<1>6. sending = None
  <2>1. sending # None => sdone = None
    BY <1>1 DEF Senders
  <2>2. QED
    BY <1>2, <2>1
<1>7. Dropped = k /\ Dropped' = 0 /\ Pending' = Pending /\ Landed' = Landed
  BY <1>2, <1>5 DEF Dropped, Pending, Landed
<1>8. k \in 0 .. sbuf.length /\ sbuf.length \in Nat
  BY <1>7, WayFacts
<1>9. k \in Nat /\ k <= sbuf.length
  BY <1>8
<1>10. sbuf' \in Ring(SendSize) /\ Rest(sbuf', 0) = Rest(sbuf, k)
  BY <1>2, <1>4, <1>5, <1>8, <1>9, DequeueIs, RestDequeue
<1>11. Way' = Way /\ Out' = Out
  BY <1>2, <1>7, <1>10 DEF Way, Out
<1>12. Typed'
  BY <1>1, <1>2 DEF Typed
<1>13. Stored'
  <2>1. Known' = Known
    BY <1>2, SizeStays
  <2>2. QED
    BY <1>1, <1>2, <1>7, <1>10, <2>1 DEF Stored
<1>14. Roles'
  BY <1>1, <1>2, <1>3 DEF Roles
<1>15. Senders'
  BY <1>1, <1>2, <1>6 DEF Senders
<1>16. Receivers'
  BY <1>1, <1>2 DEF Receivers
<1>17. QED
  BY <1>11, <1>12, <1>13, <1>14, <1>15, <1>16 DEF TypeInv

LEMMA TransmitInv ==
  ASSUME TypeInv, Transmit
  PROVE  TypeInv' /\ Way' = Way /\ Out' = Out
<1>1. Typed /\ Stored /\ Roles /\ Senders /\ Receivers
  BY DEF TypeInv
<1>2. PICK h, k : h = sending[1] /\ k = sending[2]
  OBVIOUS
<1>3. PICK cells : cells = ReadAt(sbuf, h, k)
  OBVIOUS
<1>4. /\ sending # None /\ net' = net \o cells /\ sdone' = k /\ sending' = None
      /\ UNCHANGED <<size, ends, wrote, written, sbuf, complete, looked, skill, closed, rbuf, posted,
                     rdone, packet, handled, rkill, raced, spool, rpool, lost>>
  BY <1>2, <1>3 DEF Transmit, receiver, client
<1>5. ends[1] # "client"
  BY <1>1, <1>4 DEF Roles
<1>6. SendSize \in Nat \ {0} /\ MaxPacket \in Nat /\ sbuf \in Ring(SendSize)
  BY <1>1, Constants DEF Stored
<1>7. /\ sdone = None /\ h = sbuf.head /\ k \in 1 .. SendSize /\ k <= sbuf.length
      /\ h + k <= SendSize
  BY <1>1, <1>2, <1>4 DEF Senders, Typed
<1>8. k \in Nat /\ h \in Nat /\ h + k <= SendSize + MaxPacket
  <2>1. h \in 0 .. SendSize - 1
    BY <1>6, <1>7, RingFields
  <2>2. QED
    BY <1>6, <1>7, <2>1
<1>9. k # None
  BY <1>8, Constants
<1>10. Dropped = 0 /\ Dropped' = k /\ Pending = k /\ Pending' = 0 /\ Landed' = Landed
  BY <1>2, <1>4, <1>7, <1>9 DEF Dropped, Pending, Landed
<1>11. Linear(sbuf, k)
  BY <1>6, <1>7, <1>8, LinearBeforeEnd
<1>12. /\ cells \in Seq(Cell) /\ Len(cells) = k /\ Rest(sbuf, k) \in Seq(Cell)
       /\ Rest(sbuf, 0) = cells \o Rest(sbuf, k)
  BY <1>3, <1>6, <1>7, <1>8, <1>11, LinearRead
<1>13. cells \in Seq(Known) /\ Rest(sbuf, k) \in Seq(Known)
  <2>1. Rest(sbuf, 0) \in Seq(Known)
    BY <1>1, <1>10 DEF Stored
  <2>2. QED
    BY <1>12, <2>1, PartsIn
<1>14. net' \in Seq(Known) /\ Len(net') = Len(net) + k
  BY <1>1, <1>4, <1>12, <1>13, ConcatProperties DEF Stored
<1>15. Way' = Way
  <2>1. PICK a, b, c, d, e, f : /\ a = Rest(rbuf, 0) /\ b = Landed /\ c = rpool.cells
                                /\ d = net /\ e = Rest(sbuf, k) /\ f = spool
    OBVIOUS
  <2>2. Way = Line(a, b, c, d, Cat(cells, e), f)
    BY <1>10, <1>12, <2>1 DEF Way, Cat
  <2>3. Way' = Line(a, b, c, Cat(d, cells), e, f)
    BY <1>4, <1>10, <2>1 DEF Way, Cat
  <2>4. {d, e, f, cells} \subseteq Stretch
    BY <1>12, <2>1, WayFacts DEF Stretch
  <2>5. QED
    BY <2>2, <2>3, <2>4, Transmitted
<1>16. Out' = Out
  <2>1. PICK m : m = Len(net) /\ m \in Nat
    BY WayFacts, LenIs
  <2>2. Len(net') + Pending' = Len(net) + Pending
    BY <1>8, <1>10, <1>14, <2>1
  <2>3. QED
    BY <1>4, <1>10, <2>2 DEF Out
<1>17. Typed'
  BY <1>1, <1>4, <1>7 DEF Typed
<1>18. Stored'
  <2>1. Known' = Known
    BY <1>4, SizeStays
  <2>2. QED
    BY <1>1, <1>4, <1>10, <1>13, <1>14, <2>1 DEF Stored
<1>19. Roles'
  BY <1>1, <1>4, <1>5 DEF Roles
<1>20. Senders'
  BY <1>1, <1>4, <1>7, <1>9 DEF Senders
<1>21. Receivers'
  BY <1>1, <1>4 DEF Receivers
<1>22. QED
  BY <1>15, <1>16, <1>17, <1>18, <1>19, <1>20, <1>21 DEF TypeInv

\* A packet, read in one piece, ends in the extra cells at the latest.
LEMMA PacketFits ==
  ASSUME NEW q \in Ring(RecvSize), NEW s \in Sizes
  PROVE  /\ HeaderLen + s \in Nat /\ HeaderLen + s <= MaxPacket /\ HeaderLen + s <= RecvSize
         /\ q.head \in Nat /\ q.head + (HeaderLen + s) <= RecvSize + MaxPacket
<1>1. /\ HeaderLen \in Nat /\ s \in Nat /\ HeaderLen + s <= MaxPacket
      /\ MaxPacket \in Nat /\ MaxPacket <= RecvSize /\ RecvSize \in Nat \ {0}
  BY Constants
<1>2. q.head \in 0 .. RecvSize - 1
  BY <1>1, RingFields
<1>3. QED
  BY <1>1, <1>2

LEMMA ArriveInv ==
  ASSUME TypeInv, NEW n \in 1 .. Len(net), Arrive(n)
  PROVE  TypeInv' /\ Way' = Way /\ Out' = Out
<1>1. Typed /\ Stored /\ Roles /\ Senders /\ Receivers
  BY DEF TypeInv
<1>2. PICK k : k = IF n < posted THEN n ELSE posted
  OBVIOUS
<1>3. PICK cells, rest : cells = SubSeq(net, 1, k) /\ rest = SubSeq(net, k + 1, Len(net))
  OBVIOUS
<1>4. /\ posted # None /\ rbuf' = Copy(rbuf, rbuf.tail, cells) /\ net' = rest /\ rdone' = k
      /\ posted' = None
      /\ UNCHANGED <<size, ends, wrote, written, sbuf, complete, looked, sending, sdone, skill,
                     closed, packet, handled, rkill, raced, spool, rpool, lost>>
  BY <1>2, <1>3 DEF Arrive, sender, server, client
<1>5. ends[2] # "client" /\ rpool.cells = <<>> /\ rdone = None
  BY <1>1, <1>4 DEF Roles, Receivers
<1>6. RecvSize \in Nat \ {0} /\ MaxPacket \in Nat /\ rbuf \in Ring(RecvSize)
  BY <1>1, Constants DEF Stored
<1>7. PICK p : p = posted
  OBVIOUS
<1>8. p \in 0 .. RecvSize /\ rbuf.tail + p <= RecvSize /\ rbuf.length + p <= RecvSize
  BY <1>1, <1>4, <1>7 DEF Typed, Receivers
<1>9. rbuf.tail \in Nat /\ rbuf.length \in Nat
  <2>1. rbuf.tail \in 0 .. RecvSize - 1 /\ rbuf.length \in 0 .. RecvSize
    BY <1>6, RingFields
  <2>2. QED
    BY <1>6, <2>1
<1>10. net \in Seq(Known) /\ Len(net) \in Nat
  BY <1>1, LenProperties DEF Stored
<1>11. k \in Nat /\ k <= p /\ k <= n
  BY <1>2, <1>6, <1>7, <1>8, <1>10
<1>12. k <= Len(net) /\ rbuf.tail + k <= RecvSize /\ rbuf.length + k <= RecvSize /\ k <= RecvSize
  BY <1>6, <1>8, <1>9, <1>10, <1>11
<1>13. /\ cells \in Seq(Known) /\ Len(cells) = k /\ rest \in Seq(Known)
       /\ Len(rest) = Len(net) - k /\ net = cells \o rest
  BY <1>3, <1>10, <1>11, <1>12, SplitAt, ZenonT(30)
<1>14. cells \in Seq(Cell) /\ rest \in Seq(Cell)
  BY <1>13, WayFacts
<1>15. /\ rbuf' \in Ring(RecvSize) /\ rbuf'.head = rbuf.head /\ rbuf'.tail = rbuf.tail
       /\ rbuf'.length = rbuf.length /\ Rest(rbuf', 0) = Rest(rbuf, 0)
       /\ ReadAt(rbuf', rbuf.tail, k) = cells
       /\ \A j \in Nat : rbuf.head + j <= RecvSize + MaxPacket /\ Linear(rbuf, j) => Linear(rbuf', j)
  BY <1>4, <1>6, <1>12, <1>13, <1>14, LandIs
<1>16. rdone' # None
  BY <1>4, <1>11, Constants
<1>17. Landed = <<>> /\ Landed' = cells
  BY <1>4, <1>5, <1>15, <1>16 DEF Landed
<1>18. Dropped' = Dropped /\ Pending' = Pending
  BY <1>4 DEF Dropped, Pending
<1>19. Way' = Way
  <2>1. PICK a, d, e, f, x : /\ a = Rest(rbuf, 0) /\ d = rest /\ e = Rest(sbuf, Dropped)
                             /\ f = spool /\ x = cells
    OBVIOUS
  <2>2. Way = Line(a, <<>>, <<>>, Cat(x, d), e, f)
    BY <1>5, <1>13, <1>17, <2>1 DEF Way, Cat
  <2>3. Way' = Line(a, x, <<>>, d, e, f)
    BY <1>4, <1>5, <1>15, <1>17, <1>18, <2>1 DEF Way
  <2>4. {d, e, f, x} \subseteq Stretch
    BY <1>14, <2>1, WayFacts DEF Stretch
  <2>5. QED
    BY <2>2, <2>3, <2>4, Arrived
<1>20. Out' = Out
  <2>1. PICK m, o : m = Len(net) /\ o = Pending /\ m \in Nat /\ o \in Nat
    BY <1>10, WayFacts
  <2>2. Len(<<>>) = 0
    BY EmptySeq
  <2>3. /\ Out = rbuf.length + (0 + (0 + (m + o)))
        /\ Out' = rbuf.length + (k + (0 + ((m - k) + o)))
    BY <1>4, <1>5, <1>13, <1>15, <1>17, <1>18, <2>1, <2>2 DEF Out
  <2>4. QED
    BY <1>9, <1>11, <2>1, <2>3
<1>21. Typed'
  <2>1. rdone' \in 0 .. RecvSize
    BY <1>4, <1>6, <1>11, <1>12
  <2>2. QED
    BY <1>1, <1>4, <2>1 DEF Typed
<1>22. Stored'
  <2>1. Known' = Known
    BY <1>4, SizeStays
  <2>2. QED
    BY <1>1, <1>4, <1>13, <1>15, <1>17, <1>18, <2>1 DEF Stored
<1>23. Roles'
  BY <1>1, <1>4, <1>5 DEF Roles
<1>24. Senders'
  BY <1>1, <1>4 DEF Senders
<1>25. Receivers'
  <2>1. ASSUME packet # None
        PROVE  Linear(rbuf', HeaderLen + packet)
    <3>1. packet \in Sizes /\ Linear(rbuf, HeaderLen + packet)
      BY <1>1, <2>1 DEF Typed, Receivers
    <3>2. PICK j : j = HeaderLen + packet
      OBVIOUS
    <3>3. j \in Nat /\ rbuf.head + j <= RecvSize + MaxPacket
      BY <1>6, <3>1, <3>2, PacketFits
    <3>4. QED
      BY <1>15, <3>1, <3>2, <3>3
  <2>2. QED
    BY <1>4, <1>12, <1>15, <2>1 DEF Receivers
<1>26. QED
  BY <1>19, <1>20, <1>21, <1>22, <1>23, <1>24, <1>25 DEF TypeInv

LEMMA ArriveEndInv ==
  ASSUME TypeInv, ArriveEnd
  PROVE  TypeInv' /\ Way' = Way /\ Out' = Out
<1>1. Typed /\ Stored /\ Roles /\ Senders /\ Receivers
  BY DEF TypeInv
<1>2. /\ posted # None /\ rdone' = 0 /\ posted' = None
      /\ UNCHANGED <<size, ends, wrote, written, sbuf, complete, looked, sending, sdone, skill,
                     closed, net, rbuf, packet, handled, rkill, raced, spool, rpool, lost>>
  BY DEF ArriveEnd, sender, server, client
<1>3. ends[2] # "client" /\ rdone = None
  BY <1>1, <1>2 DEF Roles, Receivers
<1>4. RecvSize \in Nat \ {0} /\ MaxPacket \in Nat /\ rbuf \in Ring(RecvSize)
  BY <1>1, Constants DEF Stored
<1>5. rbuf.tail \in Nat /\ rbuf.length \in Nat /\ rbuf.tail <= RecvSize /\ rbuf.length <= RecvSize
  <2>1. rbuf.tail \in 0 .. RecvSize - 1 /\ rbuf.length \in 0 .. RecvSize
    BY <1>4, RingFields
  <2>2. QED
    BY <1>4, <2>1
<1>6. Landed = <<>> /\ Landed' = <<>>
  <2>1. ReadAt(rbuf, rbuf.tail, 0) = <<>>
    BY DEF ReadAt
  <2>2. QED
    BY <1>2, <1>3, <2>1 DEF Landed
<1>7. Dropped' = Dropped /\ Pending' = Pending
  BY <1>2 DEF Dropped, Pending
<1>8. Way' = Way /\ Out' = Out
  BY <1>2, <1>6, <1>7 DEF Way, Out
<1>9. Typed'
  <2>1. rdone' \in 0 .. RecvSize
    BY <1>2, <1>4
  <2>2. QED
    BY <1>1, <1>2, <2>1 DEF Typed
<1>10. Stored'
  <2>1. Known' = Known
    BY <1>2, SizeStays
  <2>2. QED
    BY <1>1, <1>2, <1>6, <1>7, <2>1 DEF Stored
<1>11. Roles' /\ Senders'
  BY <1>1, <1>2, <1>3 DEF Roles, Senders
<1>12. Receivers'
  <2>1. rbuf.tail + 0 <= RecvSize /\ rbuf.length + 0 <= RecvSize
    BY <1>5
  <2>2. QED
    BY <1>1, <1>2, <2>1 DEF Receivers
<1>13. QED
  BY <1>8, <1>9, <1>10, <1>11, <1>12 DEF TypeInv

LEMMA RecvCompletionInv ==
  ASSUME TypeInv, RecvCompletion
  PROVE  TypeInv' /\ Way' = Way /\ Out' = Out
<1>1. Typed /\ Stored /\ Roles /\ Senders /\ Receivers
  BY DEF TypeInv
<1>2. PICK k : k = rdone
  OBVIOUS
<1>3. /\ k # None /\ rdone' = None
      /\ UNCHANGED <<size, ends, wrote, written, sbuf, complete, looked, sending, sdone, skill,
                     closed, net, packet, handled, raced, spool, rpool, lost>>
  BY <1>2 DEF RecvCompletion, sender, server, client
<1>4. ends[2] # "client" /\ posted = None
  BY <1>1, <1>2, <1>3 DEF Roles, Receivers
<1>5. RecvSize \in Nat \ {0} /\ MaxPacket \in Nat /\ rbuf \in Ring(RecvSize)
  BY <1>1, Constants DEF Stored
<1>6. k \in Nat /\ rbuf.tail + k <= RecvSize /\ rbuf.length + k <= RecvSize
  BY <1>1, <1>2, <1>3, <1>5 DEF Typed, Receivers
<1>7. Dropped' = Dropped /\ Pending' = Pending /\ Landed' = <<>>
      /\ Landed = ReadAt(rbuf, rbuf.tail, k) /\ Len(Landed) = k
  BY <1>2, <1>3, WayFacts DEF Dropped, Pending, Landed
<1>8. CASE k = 0
  <2>1. rkill' = TRUE /\ UNCHANGED <<rbuf, posted>>
    BY <1>2, <1>8 DEF RecvCompletion
  <2>2. Landed = <<>>
    <3>1. ReadAt(rbuf, rbuf.tail, 0) = <<>>
      BY DEF ReadAt
    <3>2. QED
      BY <1>7, <1>8, <3>1
  <2>3. Way' = Way /\ Out' = Out
    BY <1>3, <1>7, <2>1, <2>2 DEF Way, Out
  <2>4. Typed'
    BY <1>1, <1>3, <2>1 DEF Typed
  <2>5. Stored'
    <3>1. Known' = Known
      BY <1>3, SizeStays
    <3>2. QED
      BY <1>1, <1>3, <1>7, <2>1, <2>2, <3>1 DEF Stored
  <2>6. Roles' /\ Senders'
    BY <1>1, <1>3, <1>4, <2>1 DEF Roles, Senders
  <2>7. Receivers'
    BY <1>1, <1>3, <1>4, <2>1 DEF Receivers
  <2>8. QED
    BY <2>3, <2>4, <2>5, <2>6, <2>7 DEF TypeInv
<1>9. CASE k # 0
  <2>1. rbuf' = Commit(rbuf, k) /\ posted' = GetWritableLen(rbuf') /\ rkill' = rkill
    BY <1>2, <1>9 DEF RecvCompletion
  <2>2. /\ rbuf' \in Ring(RecvSize) /\ rbuf'.length = rbuf.length + k
        /\ Rest(rbuf', 0) = Rest(rbuf, 0) \o Landed
        /\ \A j \in Nat : Linear(rbuf, j) => Linear(rbuf', j)
    BY <1>5, <1>6, <1>7, <2>1, RestCommit
  <2>3. PICK p : p = posted'
    OBVIOUS
  <2>4. p \in 0 .. RecvSize /\ rbuf'.length + p <= RecvSize /\ rbuf'.tail + p <= RecvSize
    <3>1. PICK q : q = rbuf'
      OBVIOUS
    <3>2. q \in Ring(RecvSize) /\ p = GetWritableLen(q)
      BY <2>1, <2>2, <2>3, <3>1
    <3>3. /\ GetWritableLen(q) \in 0 .. RecvSize /\ q.length + GetWritableLen(q) <= RecvSize
          /\ q.tail + GetWritableLen(q) <= RecvSize
      BY <1>5, <3>2, WritableIs
    <3>4. QED
      BY <3>1, <3>2, <3>3
  <2>5. Way' = Way
    <3>1. PICK a, b, c, d, e, f : /\ a = Rest(rbuf, 0) /\ b = Landed /\ c = rpool.cells
                                  /\ d = net /\ e = Rest(sbuf, Dropped) /\ f = spool
      OBVIOUS
    <3>2. Way = Line(a, b, c, d, e, f)
      BY <3>1 DEF Way
    <3>3. Way' = Line(Cat(a, b), <<>>, c, d, e, f)
      BY <1>3, <1>7, <2>2, <3>1 DEF Way, Cat
    <3>4. {a, b, c, d, e, f} \subseteq Stretch
      BY <3>1, WayFacts
    <3>5. QED
      BY <3>2, <3>3, <3>4, TakenIn
  <2>6. Out' = Out
    <3>1. PICK l, o : l = rbuf.length /\ o = Len(rpool.cells) + (Len(net) + Pending)
      OBVIOUS
    <3>2. Len(<<>>) = 0
      BY EmptySeq
    <3>3. l \in Nat /\ o \in Nat
      <4>1. Len(rpool.cells) \in Nat /\ Len(net) \in Nat /\ Pending \in Nat /\ rbuf.length \in Nat
        BY WayFacts, LenIs
      <4>2. PICK x, y, z : x = Len(rpool.cells) /\ y = Len(net) /\ z = Pending
        OBVIOUS
      <4>3. x \in Nat /\ y \in Nat /\ z \in Nat
        BY <4>1, <4>2
      <4>4. x + (y + z) \in Nat
        BY <4>3
      <4>5. QED
        BY <3>1, <4>1, <4>2, <4>4
    <3>4. Out = l + (k + o) /\ Out' = (l + k) + (0 + o)
      BY <1>3, <1>7, <2>2, <3>1, <3>2 DEF Out
    <3>5. QED
      BY <1>6, <3>3, <3>4
  <2>7. Typed'
    BY <1>1, <1>3, <2>1, <2>3, <2>4 DEF Typed
  <2>8. Stored'
    <3>1. Known' = Known
      BY <1>3, SizeStays
    <3>2. Rest(rbuf', 0) \in Seq(Known)
      <4>1. PICK K, a, b : K = Known /\ a = Rest(rbuf, 0) /\ b = Landed
        OBVIOUS
      <4>2. a \in Seq(K) /\ b \in Seq(K)
        BY <1>1, <4>1 DEF Stored
      <4>3. a \o b \in Seq(K)
        BY <4>2, ConcatProperties
      <4>4. QED
        BY <2>2, <4>1, <4>3
    <3>3. <<>> \in Seq(Known)
      BY EmptySeq
    <3>4. QED
      BY <1>1, <1>3, <1>7, <2>2, <3>1, <3>2, <3>3 DEF Stored
  <2>9. Roles' /\ Senders'
    BY <1>1, <1>3, <1>4, <2>1 DEF Roles, Senders
  <2>10. Receivers'
    <3>1. ASSUME packet # None
          PROVE  Linear(rbuf', HeaderLen + packet)
      <4>1. packet \in Sizes /\ Linear(rbuf, HeaderLen + packet)
        BY <1>1, <3>1 DEF Typed, Receivers
      <4>2. HeaderLen + packet \in Nat
        BY <1>5, <4>1, PacketFits
      <4>3. QED
        BY <2>2, <4>1, <4>2
    <3>2. QED
      BY <1>3, <2>3, <2>4, <3>1 DEF Receivers
  <2>11. QED
    BY <2>5, <2>6, <2>7, <2>8, <2>9, <2>10 DEF TypeInv
<1>10. QED
  BY <1>8, <1>9

\* GetFirstPacketPtr moves nothing that is readable or has arrived.
LEMMA FirstRing ==
  ASSUME TypeInv, NEW q \in Ring(RecvSize), Rest(q, 0) \in Seq(Known), NEW s, NEW r,
         s = FirstPacket(q).size, r = FirstPacket(q).ring
  PROVE  /\ r \in Ring(RecvSize) /\ r.tail = q.tail /\ r.length = q.length
         /\ Rest(r, 0) = Rest(q, 0)
         /\ \A at \in Nat, k \in Nat : at + k <= RecvSize => ReadAt(r, at, k) = ReadAt(q, at, k)
         /\ s # None => /\ s \in Sizes /\ HeaderLen + s <= r.length /\ Linear(r, HeaderLen + s)
                        /\ s = SizeIn(SubSeq(Rest(r, 0), 1, HeaderLen))
<1>1. size \in Seq(Sizes) /\ Rest(q, 0) \in Seq(CellsOf(Len(size)))
  BY DEF TypeInv, Typed, Known
<1>2. RecvSize \in Nat \ {0} /\ MaxPacket <= RecvSize
  BY Constants
<1>3. CASE s = None /\ r = q
  BY <1>3
<1>4. CASE /\ s \in Sizes /\ HeaderLen + s <= q.length
           /\ s = SizeIn(SubSeq(Rest(q, 0), 1, HeaderLen))
           /\ Alike(RecvSize, q, r) /\ Linear(r, HeaderLen + s)
  <2>1. r \in Ring(RecvSize) /\ r.tail = q.tail /\ r.length = q.length
    BY <1>4 DEF Alike
  <2>2. /\ \A k \in 0 .. q.length : Rest(r, k) = Rest(q, k)
        /\ \A at \in Nat, k \in Nat : at + k <= RecvSize => ReadAt(r, at, k) = ReadAt(q, at, k)
    BY <1>2, <1>4, AlikeIs
  <2>3. 0 \in 0 .. q.length
    <3>1. q.length \in 0 .. RecvSize
      BY <1>2, RingFields
    <3>2. QED
      BY <1>2, <3>1
  <2>4. Rest(r, 0) = Rest(q, 0)
    BY <2>2, <2>3
  <2>5. QED
    BY <1>4, <2>1, <2>2, <2>4
<1>5. QED
  BY <1>1, <1>2, <1>3, <1>4, FirstPacketIs

\* The packet that OnRecv is about to be called with is the one its header tells.
Found ==
  packet # None => /\ packet \in Sizes /\ HeaderLen + packet <= rbuf.length
                   /\ packet = SizeIn(SubSeq(Rest(rbuf, 0), 1, HeaderLen))

\* What the steps that look for it do.
LEMMA Finds ==
  ASSUME TypeInv, NEW q \in Ring(RecvSize), Rest(q, 0) \in Seq(Known), ends[2] # "client",
         q.tail = rbuf.tail, q.length \in Nat, q.length <= rbuf.length,
         \A at \in Nat, k \in Nat : ReadAt(q, at, k) = ReadAt(rbuf, at, k),
         packet' = FirstPacket(q).size, rbuf' = FirstPacket(q).ring,
         handled' \in Seq(Seq(Cell)),
         UNCHANGED <<sender, net, posted, rdone, rkill, raced, client, ends>>
  PROVE  /\ TypeInv' /\ Found' /\ Rest(rbuf', 0) = Rest(q, 0) /\ rbuf'.length = q.length
         /\ Landed' = Landed /\ Dropped' = Dropped /\ Pending' = Pending
<1>1. Typed /\ Stored /\ Roles /\ Senders /\ Receivers
  BY DEF TypeInv
<1>2. UNCHANGED <<size, ends, wrote, written, sbuf, complete, looked, sending, sdone, skill, closed,
                  net, posted, rdone, rkill, raced, spool, rpool, lost>>
  BY DEF sender, server, client
<1>3. PICK s, r : s = FirstPacket(q).size /\ r = FirstPacket(q).ring
  OBVIOUS
<1>4. packet' = s /\ rbuf' = r
  BY <1>3
<1>5. /\ r \in Ring(RecvSize) /\ r.tail = q.tail /\ r.length = q.length
      /\ Rest(r, 0) = Rest(q, 0)
      /\ \A at \in Nat, k \in Nat : at + k <= RecvSize => ReadAt(r, at, k) = ReadAt(q, at, k)
      /\ s # None => /\ s \in Sizes /\ HeaderLen + s <= r.length /\ Linear(r, HeaderLen + s)
                     /\ s = SizeIn(SubSeq(Rest(r, 0), 1, HeaderLen))
  BY <1>3, FirstRing
<1>6. RecvSize \in Nat \ {0} /\ rbuf \in Ring(RecvSize)
  BY <1>1, Constants DEF Stored
<1>7. rbuf.tail \in Nat /\ rbuf.length \in Nat
  <2>1. rbuf.tail \in 0 .. RecvSize - 1 /\ rbuf.length \in 0 .. RecvSize
    BY <1>6, RingFields
  <2>2. QED
    BY <1>6, <2>1
<1>8. Landed' = Landed
  <2>1. CASE rdone = None
    BY <1>2, <2>1 DEF Landed
  <2>2. CASE rdone # None
    <3>1. PICK k, t : k = rdone /\ t = rbuf.tail
      OBVIOUS
    <3>2. k \in Nat /\ t \in Nat /\ t + k <= RecvSize
      BY <1>1, <1>6, <1>7, <2>2, <3>1 DEF Typed, Receivers
    <3>3. ReadAt(r, t, k) = ReadAt(q, t, k) /\ ReadAt(q, t, k) = ReadAt(rbuf, t, k)
      BY <1>5, <3>2
    <3>4. QED
      BY <1>2, <1>4, <1>5, <2>2, <3>1, <3>3 DEF Landed
  <2>3. QED
    BY <2>1, <2>2
<1>9. Dropped' = Dropped /\ Pending' = Pending
  BY <1>2 DEF Dropped, Pending
<1>10. Typed'
  <2>1. packet' = None \/ packet' \in Sizes
    BY <1>4, <1>5
  <2>2. QED
    BY <1>1, <1>2, <2>1 DEF Typed
<1>11. Stored'
  <2>1. Known' = Known
    BY <1>2, SizeStays
  <2>2. QED
    BY <1>1, <1>2, <1>4, <1>5, <1>8, <1>9, <2>1 DEF Stored
<1>12. Roles'
  BY <1>1, <1>2 DEF Roles
<1>13. Senders'
  BY <1>1, <1>2 DEF Senders
<1>14. Receivers'
  <2>1. ASSUME posted # None
        PROVE  r.tail + posted <= RecvSize /\ r.length + posted <= RecvSize /\ rdone = None
    <3>1. PICK k : k = posted
      OBVIOUS
    <3>2. k \in Nat /\ rbuf.tail + k <= RecvSize /\ rbuf.length + k <= RecvSize /\ rdone = None
      BY <1>1, <1>6, <2>1, <3>1 DEF Typed, Receivers
    <3>3. q.length + k <= RecvSize
      BY <1>6, <1>7, <3>2
    <3>4. QED
      BY <1>5, <3>1, <3>2, <3>3
  <2>2. ASSUME rdone # None
        PROVE  r.tail + rdone <= RecvSize /\ r.length + rdone <= RecvSize
    <3>1. PICK k : k = rdone
      OBVIOUS
    <3>2. k \in Nat /\ rbuf.tail + k <= RecvSize /\ rbuf.length + k <= RecvSize
      BY <1>1, <1>6, <2>2, <3>1 DEF Typed, Receivers
    <3>3. q.length + k <= RecvSize
      BY <1>6, <1>7, <3>2
    <3>4. QED
      BY <1>5, <3>1, <3>2, <3>3
  <2>3. QED
    BY <1>2, <1>4, <1>5, <2>1, <2>2 DEF Receivers
<1>15. Found'
  <2>1. packet' # None => /\ packet' \in Sizes /\ HeaderLen + packet' <= rbuf'.length
                          /\ packet' = SizeIn(SubSeq(Rest(rbuf', 0), 1, HeaderLen))
    BY <1>4, <1>5
  <2>2. SizeIn(SubSeq(Rest(rbuf', 0), 1, HeaderLen))
        = SizeIn(SubSeq(Rest(rbuf, 0), 1, HeaderLen))'
    BY <1>2 DEF SizeIn, Header
  <2>3. QED
    BY <2>1, <2>2 DEF Found
<1>16. QED
  BY <1>4, <1>5, <1>8, <1>9, <1>10, <1>11, <1>12, <1>13, <1>14, <1>15 DEF TypeInv

LEMMA GetFirstPacketPtrInv ==
  ASSUME TypeInv, GetFirstPacketPtr
  PROVE  TypeInv' /\ Found' /\ Way' = Way /\ Out' = Out
<1>1. Typed /\ Stored /\ Roles
  BY DEF TypeInv
<1>2. /\ packet' = FirstPacket(rbuf).size /\ rbuf' = FirstPacket(rbuf).ring /\ packet' # None
      /\ UNCHANGED <<sender, net, posted, rdone, handled, rkill, raced, client, ends>>
  BY DEF GetFirstPacketPtr
<1>3. /\ rbuf \in Ring(RecvSize) /\ Rest(rbuf, 0) \in Seq(Known) /\ handled' \in Seq(Seq(Cell))
      /\ rbuf.length \in Nat /\ rbuf.length <= rbuf.length
  BY <1>1, <1>2, WayFacts, SMTT(30) DEF Stored, Typed
<1>4. ends[2] # "client"
  <2>1. PICK s, r : s = FirstPacket(rbuf).size /\ r = FirstPacket(rbuf).ring
    OBVIOUS
  <2>2. s # None => s \in Sizes /\ HeaderLen + s <= r.length
    BY <1>3, <2>1, FirstRing
  <2>3. r.length = rbuf.length
    BY <1>3, <2>1, FirstRing
  <2>4. HeaderLen \in Nat /\ HeaderLen >= 1 /\ s \in Nat
    BY <1>2, <2>1, <2>2, Constants
  <2>5. rbuf.length # 0
    BY <1>2, <1>3, <2>1, <2>2, <2>3, <2>4
  <2>6. QED
    BY <1>1, <2>5 DEF Roles
<1>5. /\ TypeInv' /\ Found' /\ Rest(rbuf', 0) = Rest(rbuf, 0) /\ rbuf'.length = rbuf.length
      /\ Landed' = Landed /\ Dropped' = Dropped /\ Pending' = Pending
  BY <1>2, <1>3, <1>4, Finds
<1>6. UNCHANGED <<rpool, net, sbuf, spool>>
  BY <1>2 DEF sender, server, client
<1>7. QED
  BY <1>5, <1>6 DEF Way, Out

LEMMA OnRecvInv ==
  ASSUME TypeInv, OnRecv, NEW cells, NEW k,
         k = HeaderLen + packet, cells = ReadAt(rbuf, rbuf.head, k)
  PROVE  /\ TypeInv' /\ Found' /\ packet \in Sizes /\ cells \in Stretch /\ Len(cells) = k
         /\ Way = Cat(cells, Way') /\ Way' \in Stretch
         /\ Out' \in Nat /\ Out = k + Out'
         /\ handled' = Append(handled, SubSeq(cells, HeaderLen + 1, k))
<1>1. Typed /\ Stored /\ Roles /\ Senders /\ Receivers
  BY DEF TypeInv
<1>2. PICK q : q = Dequeue(rbuf, k)
  OBVIOUS
<1>3. /\ packet # None
      /\ handled' = Append(handled, ReadAt(rbuf, rbuf.head + HeaderLen, packet))
      /\ packet' = FirstPacket(q).size /\ rbuf' = FirstPacket(q).ring
      /\ UNCHANGED <<sender, net, posted, rdone, rkill, raced, client, ends>>
  BY <1>2 DEF OnRecv
<1>4. packet \in Sizes /\ Linear(rbuf, k) /\ ends[2] # "client"
  BY <1>1, <1>3 DEF Typed, Receivers, Roles
<1>5. RecvSize \in Nat \ {0} /\ MaxPacket \in Nat /\ rbuf \in Ring(RecvSize) /\ HeaderLen \in Nat
      /\ packet \in Nat
  BY <1>1, <1>4, Constants DEF Stored
<1>6. k \in Nat /\ rbuf.head \in Nat /\ rbuf.head + k <= RecvSize + MaxPacket /\ k <= rbuf.length
  BY <1>4, <1>5, PacketFits DEF Linear
<1>7. /\ cells \in Seq(Cell) /\ Len(cells) = k /\ Rest(rbuf, k) \in Seq(Cell)
      /\ Rest(rbuf, 0) = cells \o Rest(rbuf, k)
  BY <1>4, <1>5, <1>6, LinearRead
<1>8. cells \in Seq(Known) /\ Rest(rbuf, k) \in Seq(Known)
  <2>1. PICK t, K : t = Rest(rbuf, k) /\ K = Known
    OBVIOUS
  <2>2. Rest(rbuf, 0) \in Seq(K)
    BY <1>1, <2>1 DEF Stored
  <2>3. cells \in Seq(Cell) /\ t \in Seq(Cell) /\ cells \o t \in Seq(K)
    BY <1>7, <2>1, <2>2
  <2>4. cells \in Seq(K) /\ t \in Seq(K)
    BY <2>3, PartsIn
  <2>5. QED
    BY <2>1, <2>4
<1>9. /\ q \in Ring(RecvSize) /\ q.data = rbuf.data /\ q.tail = rbuf.tail
      /\ q.length = rbuf.length - k
  BY <1>2, <1>5, <1>6, DequeueIs
<1>10. Rest(q, 0) = Rest(rbuf, k)
  <2>1. rbuf.length \in Nat
    BY WayFacts
  <2>2. k \in 0 .. rbuf.length
    BY <1>6, <2>1
  <2>3. QED
    BY <1>2, <1>5, <2>2, RestDequeue
<1>11. q.length \in Nat /\ q.length <= rbuf.length
  <2>1. rbuf.length \in Nat
    BY WayFacts
  <2>2. QED
    BY <1>6, <1>9, <2>1
<1>12. \A at \in Nat, j \in Nat : ReadAt(q, at, j) = ReadAt(rbuf, at, j)
  BY <1>9 DEF ReadAt
<1>13. /\ ReadAt(rbuf, rbuf.head + HeaderLen, packet) = SubSeq(cells, HeaderLen + 1, k)
       /\ SubSeq(cells, HeaderLen + 1, k) \in Seq(Cell)
  <2>1. PICK b, t : b = rbuf.head + HeaderLen /\ t = ReadAt(rbuf, b, packet)
    OBVIOUS
  <2>2. b \in Nat /\ b + packet <= RecvSize + MaxPacket
    BY <1>5, <1>6, <2>1
  <2>3. /\ t \in Seq(Cell) /\ Len(t) = packet
        /\ \A i \in 1 .. packet : t[i] = rbuf.data[b + i - 1]
    <3>1. /\ ReadAt(rbuf, b, packet) \in Seq(Cell) /\ Len(ReadAt(rbuf, b, packet)) = packet
          /\ \A i \in 1 .. packet : ReadAt(rbuf, b, packet)[i] = rbuf.data[b + i - 1]
      BY <1>5, <2>2, ReadAtIs
    <3>2. QED
      BY <2>1, <3>1
  <2>4. \A i \in 1 .. k : cells[i] = rbuf.data[rbuf.head + i - 1]
    <3>1. PICK h, j : h = rbuf.head /\ j = k
      OBVIOUS
    <3>2. /\ h \in Nat /\ j \in Nat /\ h + j <= RecvSize + MaxPacket
          /\ RecvSize \in Nat \ {0} /\ MaxPacket \in Nat /\ rbuf \in Ring(RecvSize)
      BY <1>5, <1>6, <3>1
    <3>3. /\ ReadAt(rbuf, h, j) \in Seq(Cell) /\ Len(ReadAt(rbuf, h, j)) = j
          /\ \A i \in 1 .. j : ReadAt(rbuf, h, j)[i] = rbuf.data[h + i - 1]
      BY ONLY <3>2, ReadAtIs
    <3>4. QED
      BY <3>1, <3>3
  <2>5. ASSUME NEW i \in 1 .. packet PROVE t[i] = cells[HeaderLen + i]
    <3>1. HeaderLen + i \in 1 .. k /\ rbuf.head + (HeaderLen + i) - 1 = b + i - 1
      BY <1>5, <1>6, <2>1
    <3>2. QED
      BY <2>3, <2>4, <3>1
  <2>6. k = HeaderLen + Len(t) /\ k <= Len(cells)
    BY <1>6, <1>7, <2>3
  <2>7. t = SubSeq(cells, HeaderLen + 1, k)
    BY <1>5, <1>7, <2>3, <2>5, <2>6, PartOf
  <2>8. QED
    BY <2>1, <2>3, <2>7
<1>15. handled' = Append(handled, SubSeq(cells, HeaderLen + 1, k))
       /\ handled' \in Seq(Seq(Cell))
  <2>1. handled' = Append(handled, SubSeq(cells, HeaderLen + 1, k))
    BY <1>3, <1>13
  <2>2. QED
    BY <1>1, <1>13, <2>1, AppendProperties DEF Typed
<1>16. Rest(q, 0) \in Seq(Known)
  BY <1>8, <1>10
<1>17. /\ TypeInv' /\ Found' /\ Rest(rbuf', 0) = Rest(q, 0) /\ rbuf'.length = q.length
       /\ Landed' = Landed /\ Dropped' = Dropped /\ Pending' = Pending
  BY <1>3, <1>4, <1>9, <1>11, <1>12, <1>15, <1>16, Finds
<1>18. UNCHANGED <<rpool, net, sbuf, spool>>
  BY <1>3 DEF sender, server, client
<1>19. Way = Cat(cells, Way') /\ Way' \in Stretch
  <2>1. PICK a, b, c, d, e, f : /\ a = Rest(rbuf, k) /\ b = Landed /\ c = rpool.cells
                                /\ d = net /\ e = Rest(sbuf, Dropped) /\ f = spool
    OBVIOUS
  <2>2. Way = Line(Cat(cells, a), b, c, d, e, f)
    BY <1>7, <2>1 DEF Way, Cat
  <2>3. Way' = Line(a, b, c, d, e, f)
    BY <1>10, <1>17, <1>18, <2>1 DEF Way
  <2>4. {a, b, c, d, e, f, cells} \subseteq Stretch
    BY <1>7, <2>1, WayFacts DEF Stretch
  <2>5. Line(Cat(cells, a), b, c, d, e, f) = Cat(cells, Line(a, b, c, d, e, f))
    BY <2>4, Consumed
  <2>6. Line(a, b, c, d, e, f) \in Stretch
    BY <2>4, LineIs
  <2>7. QED
    BY <2>2, <2>3, <2>5, <2>6
<1>20. Out' \in Nat /\ Out = k + Out'
  <2>1. PICK l, o : l = rbuf.length /\ o = Len(Landed) + (Len(rpool.cells) + (Len(net) + Pending))
    OBVIOUS
  <2>2. l \in Nat /\ o \in Nat
    <3>1. /\ Len(Landed) \in Nat /\ Len(rpool.cells) \in Nat /\ Len(net) \in Nat /\ Pending \in Nat
          /\ rbuf.length \in Nat
      BY WayFacts, LenIs
    <3>2. PICK w, x, y, z : w = Len(Landed) /\ x = Len(rpool.cells) /\ y = Len(net) /\ z = Pending
      OBVIOUS
    <3>3. w \in Nat /\ x \in Nat /\ y \in Nat /\ z \in Nat
      BY <3>1, <3>2
    <3>4. w + (x + (y + z)) \in Nat
      BY <3>3
    <3>5. QED
      BY <2>1, <3>1, <3>2, <3>4
  <2>3. Out = l + o /\ Out' = (l - k) + o
    BY <1>9, <1>17, <1>18, <2>1 DEF Out
  <2>4. k <= l
    BY <1>6, <2>1
  <2>5. QED
    BY <1>6, <2>2, <2>3, <2>4
<1>21. QED
  BY <1>4, <1>7, <1>15, <1>17, <1>19, <1>20 DEF Stretch

LEMMA SaveSendDataInv ==
  ASSUME TypeInv, NEW s \in Sizes, SaveSendData(s)
  PROVE  /\ TypeInv' /\ Out' = Out
         /\ Len(size) + 1 \in 1 .. Len(size')
         /\ ~wrote /\ ~wrote' /\ ~skill /\ ~skill'
         /\ \/ /\ written' = Append(written, Len(size) + 1)
               /\ Way' = Cat(Way, Packet(Len(size) + 1, s))
            \/ written' = written /\ Way' = Way
<1>1. Typed /\ Stored /\ Roles /\ Senders /\ Receivers
  BY DEF TypeInv
<1>2. PICK n : n = Len(size) + 1 /\ n \in Nat
  BY WayFacts
<1>3. /\ ends[1] = "client" /\ Len(size) < MaxPackets /\ size' = Append(size, s)
      /\ UNCHANGED <<ends, wrote, sbuf, complete, looked, sending, sdone, skill, closed, net, rbuf,
                     posted, rdone, packet, handled, rkill, raced, rpool, lost>>
  BY DEF SaveSendData, server, receiver
<1>4. ~wrote /\ ~looked /\ ~skill /\ ~closed
  BY <1>1, <1>3 DEF Roles
<1>5. /\ size' \in Seq(Sizes) /\ Len(size') = n /\ n <= MaxPackets
      /\ Seq(Known) \subseteq Seq(Known') /\ Seq(Known') \subseteq Seq(Cell)
      /\ Pool(Known) \subseteq Pool(Known') /\ Seq(1 .. Len(size)) \subseteq Seq(1 .. Len(size'))
  BY <1>2, <1>3, SizeGrows
<1>6. n \in 1 .. n /\ n >= 1
  BY <1>2, WayFacts
<1>7. Landed' = Landed /\ Dropped' = Dropped /\ Pending' = Pending
  BY <1>3 DEF Landed, Dropped, Pending
<1>8. Out' = Out
  BY <1>3, <1>7 DEF Out
<1>9. Senders'
  <2>1. wrote' => Len(size') >= 1
    BY <1>3, <1>4
  <2>2. QED
    BY <1>1, <1>3, <2>1 DEF Senders
<1>10. Receivers'
  BY <1>1, <1>3 DEF Receivers
<1>11. /\ rpool' \in Pool(Known') /\ Room(rpool') >= 0 /\ net' \in Seq(Known')
       /\ sbuf' \in Ring(SendSize) /\ rbuf' \in Ring(RecvSize)
       /\ Rest(sbuf', Dropped') \in Seq(Known')
       /\ Rest(rbuf', 0) \in Seq(Known') /\ Landed' \in Seq(Known')
  BY <1>1, <1>3, <1>5, <1>7 DEF Stored
<1>12. Roles'
  <2>1. ends'[1] = "client" /\ (ends'[1] # "client" => spool' = <<>>)
    BY <1>3
  <2>2. QED
    BY <1>1, <1>3, <2>1 DEF Roles
<1>13. CASE HasRoomToSend(spool, HeaderLen + s)
  <2>1. PICK cells : cells = Packet(n, s)
    OBVIOUS
  <2>2. spool' = spool \o cells /\ written' = Append(written, n)
    BY <1>2, <1>13, <2>1 DEF SaveSendData, Packet
  <2>3. cells \in Seq(CellsOf(n)) /\ Len(cells) = HeaderLen + s
    BY <1>2, <1>6, <2>1, PacketIs
  <2>4. cells \in Seq(Known')
    BY <1>5, <2>3 DEF Known
  <2>5. spool \in Seq(Known')
    BY <1>1, <1>5 DEF Stored
  <2>6. spool' \in Seq(Known') /\ Len(spool') = Len(spool) + Len(cells)
    BY <2>2, <2>4, <2>5, ConcatProperties
  <2>7. Len(spool') <= MaxNetPool
    <3>1. MaxNetPool - Len(spool) >= HeaderLen + s
      BY <1>13 DEF HasRoomToSend
    <3>2. PICK a, b : a = Len(spool) /\ b = HeaderLen + s
      OBVIOUS
    <3>3. a \in Nat /\ b \in Nat /\ MaxNetPool \in Nat
      BY <2>3, <2>4, <2>5, <3>2, Constants, LenProperties
    <3>4. QED
      BY <2>3, <2>6, <3>1, <3>2, <3>3
  <2>8. Stored'
    BY <1>11, <2>6, <2>7 DEF Stored
  <2>9. Typed'
    <3>1. written \in Seq(1 .. n)
      BY <1>1, <1>5 DEF Typed
    <3>2. written' \in Seq(1 .. n)
      BY <1>6, <2>2, <3>1, AppendProperties
    <3>3. QED
      BY <1>1, <1>3, <1>5, <3>2 DEF Typed
  <2>10. Way' = Cat(Way, cells)
    <3>1. PICK a, b, c, d, e, f : /\ a = Rest(rbuf, 0) /\ b = Landed /\ c = rpool.cells
                                  /\ d = net /\ e = Rest(sbuf, Dropped) /\ f = spool
      OBVIOUS
    <3>2. Way = Line(a, b, c, d, e, f)
      BY <3>1 DEF Way
    <3>3. Way' = Line(a, b, c, d, e, Cat(f, cells))
      BY <1>3, <1>7, <2>2, <3>1 DEF Way, Cat
    <3>4. {a, b, c, d, e, f, cells} \subseteq Stretch
      BY <1>5, <2>4, <3>1, WayFacts DEF Stretch
    <3>5. QED
      BY <3>2, <3>3, <3>4, Extended
  <2>11. QED
    BY <1>2, <1>3, <1>4, <1>5, <1>6, <1>8, <1>9, <1>10, <1>12, <2>1, <2>2, <2>8, <2>9, <2>10
       DEF TypeInv
<1>14. CASE ~HasRoomToSend(spool, HeaderLen + s)
  <2>1. spool' = spool /\ written' = written
    BY <1>14 DEF SaveSendData
  <2>2. Stored'
    BY <1>1, <1>5, <1>11, <2>1 DEF Stored
  <2>3. Typed'
    BY <1>1, <1>3, <1>5, <2>1 DEF Typed
  <2>4. Way' = Way
    BY <1>3, <1>7, <2>1 DEF Way
  <2>5. QED
    BY <1>2, <1>3, <1>4, <1>5, <1>6, <1>8, <1>9, <1>10, <1>12, <2>1, <2>2, <2>3, <2>4 DEF TypeInv
<1>15. QED
  BY <1>13, <1>14

LEMMA SendPoolInv ==
  ASSUME TypeInv, NEW n \in 1 .. Len(spool), SendPool(n)
  PROVE  /\ TypeInv' /\ (lost => lost')
         /\ lost' \/ (Way' = Way /\ ~skill /\ Out' \in Nat /\ Out' <= Len(Way))
<1>1. Typed /\ Stored /\ Roles /\ Senders /\ Receivers
  BY DEF TypeInv
<1>2. PICK cells : cells = SubSeq(spool, 1, n)
  OBVIOUS
<1>3. /\ spool # <<>> /\ net' = net \o cells /\ lost' = (lost \/ n < Len(spool)) /\ spool' = <<>>
      /\ UNCHANGED <<size, ends, wrote, written, sbuf, complete, looked, sending, sdone, skill, closed,
                     rbuf, posted, rdone, packet, handled, rkill, raced, rpool>>
  BY <1>2 DEF SendPool, server, receiver
<1>4. ends[1] = "client" /\ ~skill /\ sbuf.length = 0 /\ sending = None /\ sdone = None
  BY <1>1, <1>3 DEF Roles
<1>5. spool \in Seq(Known) /\ net \in Seq(Known) /\ Len(spool) \in Nat /\ Len(net) \in Nat
  BY <1>1, LenProperties DEF Stored
<1>6. n \in Nat /\ n <= Len(spool)
  BY <1>5
<1>7. cells \in Seq(Known) /\ Len(cells) = n
      /\ spool = cells \o SubSeq(spool, n + 1, Len(spool))
      /\ SubSeq(spool, n + 1, Len(spool)) \in Seq(Known)
      /\ Len(SubSeq(spool, n + 1, Len(spool))) = Len(spool) - n
  BY <1>2, <1>5, <1>6, SplitAt
<1>8. net' \in Seq(Known) /\ Len(net') = Len(net) + n
  BY <1>3, <1>5, <1>7, ConcatProperties
<1>9. Dropped' = Dropped /\ Pending' = Pending /\ Landed' = Landed /\ Dropped = 0 /\ Pending = 0
  BY <1>3, <1>4 DEF Dropped, Pending, Landed
<1>10. Rest(sbuf, 0) = <<>>
  <2>1. Rest(sbuf, 0) \in Seq(Cell) /\ Len(Rest(sbuf, 0)) = 0
    BY <1>4, <1>9, WayFacts DEF Stretch
  <2>2. QED
    BY <2>1, EmptySeq
<1>11. Typed'
  BY <1>1, <1>3 DEF Typed
<1>12. Stored'
  <2>1. Known' = Known
    BY <1>3, SizeStays
  <2>2. <<>> \in Seq(Known) /\ Len(<<>>) <= MaxNetPool
    BY EmptySeq, Constants
  <2>3. QED
    BY <1>1, <1>3, <1>8, <1>9, <2>1, <2>2 DEF Stored
<1>13. Roles' /\ Senders' /\ Receivers'
  <2>1. Roles'
    BY <1>1, <1>3 DEF Roles
  <2>2. Senders' /\ Receivers'
    BY <1>1, <1>3 DEF Senders, Receivers
  <2>3. QED
    BY <2>1, <2>2
<1>14. ASSUME ~lost'
       PROVE  Way' = Way /\ Out' \in Nat /\ Out' <= Len(Way)
  <2>1. n = Len(spool)
    <3>1. ~(n < Len(spool))
      BY <1>3, <1>14
    <3>2. QED
      BY <1>5, <1>6, <3>1
  <2>2. cells = spool
    <3>1. PICK t : t = SubSeq(spool, n + 1, Len(spool))
      OBVIOUS
    <3>2. t \in Seq(Known) /\ Len(t) = 0 /\ spool = cells \o t
      BY <1>5, <1>7, <2>1, <3>1
    <3>3. t = <<>>
      BY <3>2, EmptySeq
    <3>4. QED
      BY <1>7, <3>2, <3>3, ConcatEmptySeq
  <2>3. Way' = Way
    <3>1. PICK a, b, c, d, f : /\ a = Rest(rbuf, 0) /\ b = Landed /\ c = rpool.cells
                               /\ d = net /\ f = spool
      OBVIOUS
    <3>2. Way = Line(a, b, c, d, <<>>, f)
      BY <1>9, <1>10, <3>1 DEF Way
    <3>3. Way' = Line(a, b, c, Cat(d, f), <<>>, <<>>)
      BY <1>3, <1>9, <1>10, <2>2, <3>1 DEF Way, Cat
    <3>4. {d, f} \subseteq Stretch
      BY <3>1, WayFacts
    <3>5. QED
      BY <3>2, <3>3, <3>4, PoolSent
  <2>4. PICK a, b, c, d : /\ a = rbuf.length /\ b = Len(Landed) /\ c = Len(rpool.cells)
                          /\ d = Len(net)
    OBVIOUS
  <2>5. a \in Nat /\ b \in Nat /\ c \in Nat /\ d \in Nat
    BY <2>4, WayFacts, LenIs
  <2>6. Out = a + (b + (c + (d + 0))) /\ Out' = a + (b + (c + ((d + n) + 0)))
    BY <1>3, <1>8, <1>9, <2>4 DEF Out
  <2>7. Len(Way) = Out - 0 + (0 + n)
    <3>1. Len(Rest(sbuf, Dropped)) = 0
      BY <1>9, <1>10, EmptySeq
    <3>2. QED
      BY <1>9, <2>1, <3>1, WayFacts
  <2>8. QED
    BY <1>6, <2>3, <2>5, <2>6, <2>7
<1>15. QED
  BY <1>3, <1>4, <1>11, <1>12, <1>13, <1>14 DEF TypeInv

LEMMA NetWorkTurnInv ==
  ASSUME TypeInv, NEW n \in 0 .. RecvLen, NetWorkTurn(n)
  PROVE  /\ TypeInv' /\ packet' = None /\ (lost => lost')
         /\ \/ lost'
            \/ handled' = handled /\ Way' = Way /\ Out' = Out
            \/ \E s \in Sizes, cells \in Stretch :
                 /\ Len(cells) = HeaderLen + s /\ s = SizeIn(SubSeq(cells, 1, HeaderLen))
                 /\ Way = Cat(cells, Way') /\ Way' \in Stretch
                 /\ Out' \in Nat /\ Out = (HeaderLen + s) + Out'
                 /\ handled' = Append(handled, SubSeq(cells, HeaderLen + 1, HeaderLen + s))
<1>1. Typed /\ Stored /\ Roles /\ Senders /\ Receivers
  BY DEF TypeInv
<1>2. PICK x, rest, saved, s : /\ x = SubSeq(net, 1, n) /\ rest = SubSeq(net, n + 1, Len(net))
                               /\ saved = SaveData(rpool, x) /\ s = PooledPacket(saved)
  OBVIOUS
<1>3. /\ ends[2] = "client" /\ n <= Len(net) /\ net' = rest /\ lost' = (lost \/ ~HasRoom(rpool, n))
      /\ UNCHANGED <<size, ends, wrote, written, sbuf, complete, looked, sending, sdone, skill, closed,
                     rbuf, posted, rdone, packet, rkill, raced, spool>>
  BY <1>2 DEF NetWorkTurn, sender, server
<1>4. rbuf.length = 0 /\ rdone = None /\ packet = None
  BY <1>1, <1>3 DEF Roles
<1>5. n \in Nat
  BY Constants
<1>6. PICK K : K = Known
  OBVIOUS
<1>7. net \in Seq(K) /\ Len(net) \in Nat /\ rpool \in Pool(K) /\ Room(rpool) >= 0
  BY <1>1, <1>6, LenProperties DEF Stored
<1>8. /\ x \in Seq(K) /\ Len(x) = n /\ rest \in Seq(K) /\ Len(rest) = Len(net) - n /\ net = x \o rest
  BY <1>2, <1>3, <1>5, <1>7, SplitAt, ZenonT(30)
<1>9. /\ saved \in Pool(K) /\ Room(saved) >= 0
      /\ saved.cells = IF HasRoom(rpool, n) THEN rpool.cells \o x ELSE rpool.cells
  BY <1>2, <1>7, <1>8, SaveDataIs
<1>10. Seq(K) \subseteq Seq(Cell)
  BY <1>6, WayFacts
<1>11. /\ Dropped' = Dropped /\ Pending' = Pending /\ Landed = <<>> /\ Landed' = <<>>
  BY <1>3, <1>4 DEF Dropped, Pending, Landed
<1>12. Rest(rbuf, 0) = <<>>
  <2>1. Rest(rbuf, 0) \in Seq(Cell) /\ Len(Rest(rbuf, 0)) = 0
    BY <1>4, WayFacts DEF Stretch
  <2>2. QED
    BY <2>1, EmptySeq
<1>13. PICK c, d, e, f, p : /\ c = rpool.cells /\ d = rest /\ e = Rest(sbuf, Dropped)
                            /\ f = spool /\ p = saved.cells
  OBVIOUS
<1>14. {c, d, e, f, x, p} \subseteq Stretch
  <2>1. c \in Seq(K) /\ d \in Seq(K) /\ x \in Seq(K) /\ p \in Seq(K)
    BY <1>7, <1>8, <1>9, <1>13 DEF Pool
  <2>2. QED
    BY <1>10, <1>13, <2>1, WayFacts DEF Stretch
<1>15. /\ c \in Stretch /\ d \in Stretch /\ e \in Stretch /\ f \in Stretch /\ x \in Stretch /\ p \in Stretch
  BY <1>14
<1>16. Way = Line(<<>>, <<>>, c, Cat(x, d), e, f)
  BY <1>8, <1>11, <1>12, <1>13 DEF Way, Cat
<1>17. PICK o : o = Pending /\ o \in Nat
  BY WayFacts
<1>18. PICK l, m : l = Len(c) /\ m = Len(net) /\ l \in Nat /\ m \in Nat
  BY <1>7, <1>15, LenIs
<1>19. Out = l + (m + o) /\ l + (m + o) \in Nat
  <2>1. Len(<<>>) = 0
    BY EmptySeq
  <2>2. Out = 0 + (0 + (l + (m + o)))
    BY <1>4, <1>11, <1>13, <1>17, <1>18, <2>1 DEF Out
  <2>3. QED
    BY <1>17, <1>18, <2>2
<1>20. UNCHANGED <<size, ends, wrote, written, sbuf, sending, sdone, rbuf, spool, rdone>>
       /\ Known' = Known
  BY <1>3, SizeStays
<1>21. ASSUME rpool' \in Pool(K), Room(rpool') >= 0, handled' \in Seq(Seq(Cell))
       PROVE  TypeInv'
  <2>1. Typed'
    BY <1>1, <1>3, <1>21 DEF Typed
  <2>2. Stored'
    <3>1. net' \in Seq(K)
      BY <1>3, <1>8
    <3>2. Landed' \in Seq(K)
      BY <1>11, EmptySeq
    <3>3. QED
      BY <1>1, <1>3, <1>6, <1>11, <1>20, <1>21, <3>1, <3>2 DEF Stored
  <2>3. Roles'
    BY <1>1, <1>3 DEF Roles
  <2>4. Senders' /\ Receivers'
    BY <1>1, <1>3 DEF Senders, Receivers
  <2>5. QED
    BY <2>1, <2>2, <2>3, <2>4 DEF TypeInv
<1>22. (lost => lost') /\ packet' = None /\ (~lost' => HasRoom(rpool, n))
  BY <1>3, <1>4
<1>23. CASE s = None
  <2>1. rpool' = saved /\ handled' = handled
    BY <1>2, <1>23 DEF NetWorkTurn
  <2>2. TypeInv'
    <3>1. handled' \in Seq(Seq(Cell))
      BY <1>1, <2>1 DEF Typed
    <3>2. QED
      BY <1>9, <1>21, <2>1, <3>1
  <2>3. ASSUME HasRoom(rpool, n)
        PROVE  Way' = Way /\ Out' = Out
    <3>1. p = Cat(c, x)
      BY <1>9, <1>13, <2>3 DEF Cat
    <3>2. Way' = Line(<<>>, <<>>, Cat(c, x), d, e, f)
      BY <1>3, <1>11, <1>12, <1>13, <1>20, <2>1, <3>1 DEF Way
    <3>3. {c, d, e, f, x} \subseteq Stretch
      BY <1>15
    <3>4. Way' = Way
      BY <1>16, <3>2, <3>3, Pooled
    <3>5. Len(rpool'.cells) = l + n
      <4>1. Len(Cat(c, x)) = l + n
        BY <1>8, <1>15, <1>18, CatIs
      <4>2. QED
        BY <1>13, <2>1, <3>1, <4>1
    <3>6. Out' = 0 + (0 + ((l + n) + ((m - n) + o)))
      <4>1. Len(<<>>) = 0
        BY EmptySeq
      <4>2. QED
        BY <1>3, <1>4, <1>8, <1>11, <1>17, <1>18, <1>20, <3>5, <4>1 DEF Out
    <3>7. QED
      BY <1>5, <1>17, <1>18, <1>19, <3>4, <3>6
  <2>4. QED
    BY <1>22, <2>1, <2>2, <2>3
<1>24. CASE s # None
  <2>1. /\ rpool' = GetData(saved, HeaderLen + s)
        /\ handled' = Append(handled, SubSeq(saved.cells, HeaderLen + 1, HeaderLen + s))
    BY <1>2, <1>24 DEF NetWorkTurn
  <2>2. /\ s \in Sizes /\ HeaderLen + s <= Len(p) /\ s = SizeIn(SubSeq(p, 1, HeaderLen))
    <3>1. size \in Seq(Sizes) /\ saved \in Pool(CellsOf(Len(size)))
      BY <1>1, <1>6, <1>9 DEF Typed, Known
    <3>2. QED
      BY <1>2, <1>13, <1>24, <3>1, PooledPacketIs
  <2>3. PICK k : k = HeaderLen + s
    OBVIOUS
  <2>4. /\ HeaderLen \in Nat /\ HeaderLen >= 1 /\ s \in Nat
    BY <2>2, Constants
  <2>5. k \in Nat /\ k <= Len(p) /\ HeaderLen <= k
    BY <2>2, <2>3, <2>4
  <2>6. PICK cells, q : cells = SubSeq(p, 1, k) /\ q = SubSeq(p, k + 1, Len(p))
    OBVIOUS
  <2>7. /\ rpool' \in Pool(K) /\ Room(rpool') >= 0 /\ rpool'.cells = q
    BY <1>9, <1>13, <2>1, <2>3, <2>5, <2>6, GetDataIs
  <2>8. p \in Seq(Cell)
    BY <1>15 DEF Stretch
  <2>9. /\ cells \in Seq(Cell) /\ Len(cells) = k /\ q \in Seq(Cell) /\ Len(q) = Len(p) - k
        /\ p = cells \o q
    BY <2>5, <2>6, <2>8, SplitAt, ZenonT(30)
  <2>10. SubSeq(cells, 1, HeaderLen) = SubSeq(p, 1, HeaderLen)
    <3>1. PICK none : none = <<>>
      OBVIOUS
    <3>2. none \in Seq(Cell) /\ cells \o none = cells
      BY <2>9, <3>1, EmptySeq, ConcatEmptySeq
    <3>3. p \in Seq(Cell) /\ q \in Seq(Cell) /\ p \o none = cells \o q
      BY <2>8, <2>9, <3>1, ConcatEmptySeq
    <3>4. 1 <= HeaderLen /\ HeaderLen <= Len(p) /\ HeaderLen <= Len(cells)
      <4>1. Len(p) \in Nat
        BY <1>15, LenIs
      <4>2. QED
        BY <2>4, <2>5, <2>9, <4>1
    <3>5. QED
      BY <2>4, <2>9, <3>2, <3>3, <3>4, Begin
  <2>11. SubSeq(cells, HeaderLen + 1, k) = SubSeq(p, HeaderLen + 1, k)
         /\ SubSeq(p, HeaderLen + 1, k) \in Seq(Cell)
    <3>1. PICK t : t = SubSeq(p, HeaderLen + 1, k)
      OBVIOUS
    <3>2. PICK a, z : a = HeaderLen /\ z = Len(p) /\ a \in Nat /\ z \in Nat
      BY <1>15, <2>4, LenIs
    <3>3. a + 1 \in Int /\ k \in Int /\ \A i \in a + 1 .. k : p[i] \in Cell
      <4>1. \A i \in a + 1 .. k : i \in 1 .. z
        BY <2>5, <3>2
      <4>2. QED
        BY <2>5, <2>8, <3>2, <4>1, ElementOfSeq
    <3>4. /\ t \in Seq(Cell) /\ Len(t) = IF a + 1 <= k THEN k - (a + 1) + 1 ELSE 0
          /\ \A i \in 1 .. k - (a + 1) + 1 : t[i] = p[(a + 1) + i - 1]
      BY <3>1, <3>2, <3>3, SubSeqProperties
    <3>5. k - (a + 1) + 1 = s /\ Len(t) = s /\ k = a + Len(t)
      BY <2>3, <2>4, <2>5, <3>2, <3>4
    <3>6. ASSUME NEW i \in 1 .. s PROVE t[i] = cells[a + i]
      <4>1. t[i] = p[(a + 1) + i - 1] /\ (a + 1) + i - 1 = a + i
        BY <2>4, <3>2, <3>4, <3>5
      <4>2. a + i \in 1 .. k
        BY <2>3, <2>4, <3>2
      <4>3. \A j \in 1 .. k : p[j] = cells[j]
        BY <2>9, ConcatProperties
      <4>4. QED
        BY <4>1, <4>2, <4>3
    <3>7. t = SubSeq(cells, a + 1, k)
      <4>1. k <= Len(cells)
        BY <2>5, <2>9
      <4>2. /\ cells \in Seq(Cell) /\ a \in Nat /\ t \in Seq(Cell) /\ k = a + Len(t)
            /\ k <= Len(cells) /\ \A i \in 1 .. Len(t) : t[i] = cells[a + i]
        BY <2>9, <3>2, <3>4, <3>5, <3>6, <4>1
      <4>3. QED
        BY ONLY <4>2, PartOf
    <3>8. QED
      BY <3>1, <3>2, <3>4, <3>7
  <2>12. handled' = Append(handled, SubSeq(cells, HeaderLen + 1, k)) /\ handled' \in Seq(Seq(Cell))
    <3>1. handled' = Append(handled, SubSeq(cells, HeaderLen + 1, k))
      BY <1>13, <2>1, <2>3, <2>11
    <3>2. SubSeq(cells, HeaderLen + 1, k) \in Seq(Cell)
      BY <2>11
    <3>3. QED
      BY <1>1, <3>1, <3>2, AppendProperties DEF Typed
  <2>13. TypeInv'
    BY <1>21, <2>7, <2>12
  <2>14. ASSUME HasRoom(rpool, n)
         PROVE  /\ Way = Cat(cells, Way') /\ Way' \in Stretch
                /\ Out' \in Nat /\ Out = k + Out'
    <3>1. p = Cat(c, x) /\ p = Cat(cells, q)
      BY <1>9, <1>13, <2>9, <2>14 DEF Cat
    <3>2. Way' = Line(<<>>, <<>>, q, d, e, f)
      BY <1>3, <1>11, <1>12, <1>13, <1>20, <2>7 DEF Way
    <3>3. {c, d, e, f, x} \subseteq Stretch /\ {q, d, e, f, cells} \subseteq Stretch
      BY <1>15, <2>9 DEF Stretch
    <3>4. Way = Line(<<>>, <<>>, p, d, e, f)
      <4>1. Line(<<>>, <<>>, Cat(c, x), d, e, f) = Line(<<>>, <<>>, c, Cat(x, d), e, f)
        BY <3>3, Pooled
      <4>2. QED
        BY <1>16, <3>1, <4>1
    <3>5. Line(<<>>, <<>>, Cat(cells, q), d, e, f) = Cat(cells, Line(<<>>, <<>>, q, d, e, f))
      BY <3>3, Pooled
    <3>6. Way = Cat(cells, Way')
      BY <3>1, <3>2, <3>4, <3>5
    <3>7. Way' \in Stretch
      <4>1. PICK none : none = <<>>
        OBVIOUS
      <4>2. none \in Stretch
        BY <4>1, EmptySeq DEF Stretch
      <4>3. {none, none, q, d, e, f} \subseteq Stretch
        BY <3>3, <4>2
      <4>4. Line(none, none, q, d, e, f) \in Stretch
        BY <4>3, LineIs
      <4>5. QED
        BY <3>2, <4>1, <4>4
    <3>8. PICK z : z = Len(p) /\ z \in Nat
      BY <1>15, LenIs
    <3>9. z = l + n
      <4>1. Len(Cat(c, x)) = Len(c) + Len(x)
        BY <1>15, CatIs
      <4>2. QED
        BY <1>8, <1>18, <3>1, <3>8, <4>1
    <3>10. Out' = 0 + (0 + ((z - k) + ((m - n) + o)))
      <4>1. Len(<<>>) = 0
        BY EmptySeq
      <4>2. Len(rpool'.cells) = z - k
        BY <2>7, <2>9, <3>8
      <4>3. QED
        BY <1>3, <1>4, <1>8, <1>11, <1>17, <1>18, <1>20, <4>1, <4>2 DEF Out
    <3>11. k <= z /\ n <= m
      BY <1>3, <1>18, <2>5, <3>8
    <3>12. QED
      BY <1>5, <1>17, <1>18, <1>19, <2>5, <3>6, <3>7, <3>8, <3>9, <3>10, <3>11
  <2>15. cells \in Stretch /\ Len(cells) = HeaderLen + s /\ s = SizeIn(SubSeq(cells, 1, HeaderLen))
    BY <2>2, <2>3, <2>9, <2>10 DEF Stretch
  <2>16. QED
    BY <1>22, <2>2, <2>3, <2>12, <2>13, <2>14, <2>15
<1>25. QED
  BY <1>23, <1>24

-----------------------------------------------------------------------------
(* The contents.  Of what is on its way the first part are the packets     *)
(* written whole that have not been handled, as far as g: T[k] is what     *)
(* they are when k have been handled.  Behind them may come the header of  *)
(* a packet whose message did not fit, or has not been written yet, and    *)
(* then whatever was written behind such a header.  What the sender has    *)
(* handed to the system lies before that.                                  *)

Carries(sz, wr, hl, way, out, g, T, hd, junk) ==
  /\ g \in hl .. Len(wr)
  /\ T \in [0 .. g -> Stretch]
  /\ T[g] = <<>>
  /\ \A k \in 0 .. g - 1 : T[k] = Cat(Packet(wr[k + 1], sz[wr[k + 1]]), T[k + 1])
  /\ hd = <<>> \/ \E n \in 1 .. Len(sz) : hd = Header(n)
  /\ junk \in Stretch
  /\ way = Cat(Cat(T[hl], hd), junk)
  /\ out <= Len(T[hl]) + Len(hd)

\* sz and wr are the sizes and the packets of a history.
Books(sz, wr) == sz \in Seq(Sizes) /\ wr \in Seq(1 .. Len(sz)) /\ Len(sz) <= MaxPackets

LEMMA BooksFacts ==
  ASSUME NEW sz, NEW wr, Books(sz, wr)
  PROVE  /\ Len(sz) \in Nat /\ Len(wr) \in Nat
         /\ \A i \in 1 .. Len(sz) : sz[i] \in Sizes
         /\ \A i \in 1 .. Len(wr) : wr[i] \in 1 .. Len(sz)
BY LenProperties, ElementOfSeq DEF Books

LEMMA PacketOfBooks ==
  ASSUME NEW k \in Nat, k <= MaxPackets, NEW n \in 1 .. k, NEW s \in Sizes
  PROVE  /\ Packet(n, s) \in Stretch /\ Len(Packet(n, s)) = HeaderLen + s
         /\ Header(n) \in Stretch /\ Len(Header(n)) = HeaderLen
         /\ Body(n, s) \in Stretch /\ Len(Body(n, s)) = s
         /\ Packet(n, s) = Cat(Header(n), Body(n, s))
         /\ SubSeq(Packet(n, s), 1, HeaderLen) = Header(n)
         /\ SubSeq(Packet(n, s), HeaderLen + 1, HeaderLen + s) = Body(n, s)
BY PacketIs, CellsOfAreCells, ZenonT(30) DEF Stretch, Cat

\* The parts of what is on its way.
LEMMA CarriesFacts ==
  ASSUME NEW sz, NEW wr, NEW hl \in Nat, NEW way, NEW out, NEW g, NEW T, NEW hd, NEW junk,
         Books(sz, wr), Carries(sz, wr, hl, way, out, g, T, hd, junk)
  PROVE  /\ g \in Nat /\ hl <= g /\ g <= Len(wr)
         /\ T[hl] \in Stretch /\ hd \in Stretch /\ junk \in Stretch
         /\ Len(hd) \in Nat /\ Len(hd) <= HeaderLen /\ Len(T[hl]) \in Nat
<1>1. g \in hl .. Len(wr) /\ T \in [0 .. g -> Stretch] /\ junk \in Stretch
  BY DEF Carries
<1>2. Len(wr) \in Nat /\ Len(sz) \in Nat /\ Len(sz) <= MaxPackets
  BY BooksFacts DEF Books
<1>3. g \in Nat /\ hl <= g /\ g <= Len(wr) /\ hl \in 0 .. g
  BY <1>1, <1>2
<1>4. T[hl] \in Stretch
  BY <1>1, <1>3
<1>5. Len(T[hl]) \in Nat
  BY <1>4, LenIs
<1>6. HeaderLen \in Nat
  BY Constants
<1>7. CASE hd = <<>>
  <2>1. hd \in Stretch /\ Len(hd) = 0
    BY <1>7, EmptySeq DEF Stretch
  <2>2. QED
    BY <1>1, <1>3, <1>4, <1>5, <1>6, <2>1
<1>8. CASE \E n \in 1 .. Len(sz) : hd = Header(n)
  <2>1. PICK n \in 1 .. Len(sz) : hd = Header(n)
    BY <1>8
  <2>2. Header(n) \in Seq(Cell) /\ Len(Header(n)) = HeaderLen
    <3>1. CASE Sizes = {}
      <4>1. sz = <<>>
        BY <1>2, <3>1, BooksFacts, EmptySeq DEF Books
      <4>2. Len(sz) = 0
        BY <4>1, EmptySeq
      <4>3. QED
        BY <4>2
    <3>2. CASE Sizes # {}
      <4>1. PICK s \in Sizes : TRUE
        BY <3>2
      <4>2. QED
        BY <1>2, <4>1, PacketOfBooks DEF Stretch
    <3>3. QED
      BY <3>1, <3>2
  <2>3. QED
    BY <1>1, <1>3, <1>4, <1>5, <1>6, <2>1, <2>2 DEF Stretch
<1>9. QED
  BY <1>7, <1>8 DEF Carries

\* The next packet, when there is one whole.
LEMMA NextPacket ==
  ASSUME NEW sz, NEW wr, NEW hl \in Nat, NEW way, NEW out, NEW g, NEW T, NEW hd, NEW junk,
         Books(sz, wr), Carries(sz, wr, hl, way, out, g, T, hd, junk), hl < g
  PROVE  /\ wr[hl + 1] \in 1 .. Len(sz) /\ sz[wr[hl + 1]] \in Sizes
         /\ hl + 1 \in 1 .. Len(wr)
         /\ T[hl + 1] \in Stretch
         /\ T[hl] = Cat(Packet(wr[hl + 1], sz[wr[hl + 1]]), T[hl + 1])
         /\ way = Cat(Packet(wr[hl + 1], sz[wr[hl + 1]]), Cat(Cat(T[hl + 1], hd), junk))
         /\ Cat(Cat(T[hl + 1], hd), junk) \in Stretch
<1>1. /\ g \in Nat /\ hl <= g /\ g <= Len(wr) /\ hd \in Stretch /\ junk \in Stretch
  BY CarriesFacts
<1>2. Len(wr) \in Nat /\ Len(sz) \in Nat /\ Len(sz) <= MaxPackets
  BY BooksFacts DEF Books
<1>3. hl \in 0 .. g - 1 /\ hl + 1 \in 0 .. g /\ hl + 1 \in 1 .. Len(wr)
  BY <1>1, <1>2
<1>4. PICK n, s : n = wr[hl + 1] /\ s = sz[wr[hl + 1]]
  OBVIOUS
<1>5. n \in 1 .. Len(sz) /\ s \in Sizes
  BY <1>3, <1>4, BooksFacts
<1>6. PICK p, t, w : p = Packet(n, s) /\ t = T[hl + 1] /\ w = Cat(Cat(t, hd), junk)
  OBVIOUS
<1>7. t \in Stretch /\ T[hl] = Cat(p, t)
  BY <1>3, <1>4, <1>6 DEF Carries
<1>8. p \in Stretch
  BY <1>2, <1>5, <1>6, PacketOfBooks
<1>9. Cat(t, hd) \in Stretch /\ w \in Stretch
  BY <1>1, <1>6, <1>7, CatIs
<1>10. way = Cat(p, w)
  <2>1. way = Cat(Cat(Cat(p, t), hd), junk)
    BY <1>7 DEF Carries
  <2>2. Cat(Cat(p, t), hd) = Cat(p, Cat(t, hd))
    BY <1>1, <1>7, <1>8, CatAssociative
  <2>3. Cat(Cat(p, Cat(t, hd)), junk) = Cat(p, Cat(Cat(t, hd), junk))
    BY <1>1, <1>8, <1>9, CatAssociative
  <2>4. QED
    BY <1>6, <2>1, <2>2, <2>3
<1>11. QED
  BY <1>3, <1>4, <1>5, <1>6, <1>7, <1>9, <1>10

\* What is found at the beginning is the next packet that was written whole.
LEMMA FirstIs ==
  ASSUME NEW wr, NEW hl \in Nat, NEW way, NEW out, NEW g, NEW T, NEW hd, NEW junk,
         Books(size, wr), Carries(size, wr, hl, way, out, g, T, hd, junk),
         NEW x, NEW y, NEW s, {x, y} \subseteq Stretch, way = Cat(x, y),
         s \in Sizes, HeaderLen + s <= Len(x), Len(x) <= out, out \in Nat,
         s = SizeIn(SubSeq(x, 1, HeaderLen))
  PROVE  hl < g /\ s = size[wr[hl + 1]]
<1>1. /\ g \in Nat /\ hl <= g /\ g <= Len(wr) /\ hd \in Stretch /\ junk \in Stretch
      /\ Len(hd) \in Nat /\ Len(hd) <= HeaderLen /\ Len(T[hl]) \in Nat
  BY CarriesFacts
<1>2. x \in Stretch /\ y \in Stretch
  OBVIOUS
<1>3. PICK l, h : l = Len(x) /\ h = HeaderLen /\ l \in Nat /\ h \in Nat /\ h >= 1
  BY <1>2, LenIs, Constants
<1>4. s \in Nat /\ s >= 1 /\ h + s <= l
  BY <1>3, Constants
<1>5. hl < g
  <2>1. SUFFICES ASSUME hl = g PROVE FALSE
    BY <1>1
  <2>2. Len(T[hl]) = 0
    <3>1. T[hl] = <<>>
      BY <2>1 DEF Carries
    <3>2. QED
      BY <3>1, EmptySeq
  <2>3. out <= Len(T[hl]) + Len(hd)
    BY DEF Carries
  <2>4. PICK m : m = Len(hd) /\ m \in Nat /\ m <= h
    BY <1>1, <1>3
  <2>5. out <= 0 + m /\ l <= out
    BY <1>3, <2>2, <2>3, <2>4
  <2>6. QED
    BY <1>3, <1>4, <2>4, <2>5
<1>6. PICK n, z : n = wr[hl + 1] /\ z = size[wr[hl + 1]]
  OBVIOUS
<1>7. /\ n \in 1 .. Len(size) /\ z \in Sizes
      /\ \E t : way = Cat(Packet(n, z), t) /\ t \in Stretch
  BY <1>5, <1>6, NextPacket
<1>8. PICK t : way = Cat(Packet(n, z), t) /\ t \in Stretch
  BY <1>7
<1>9. PICK p : p = Packet(n, z)
  OBVIOUS
<1>10. Len(size) \in Nat /\ Len(size) <= MaxPackets
  BY BooksFacts DEF Books
<1>11. p \in Stretch /\ Len(p) = h + z /\ SubSeq(p, 1, h) = Header(n) /\ z \in Nat
  BY <1>3, <1>7, <1>9, <1>10, PacketOfBooks, Constants, SMTT(30)
<1>12. SubSeq(x, 1, h) = SubSeq(p, 1, h)
  <2>1. x \in Seq(Cell) /\ y \in Seq(Cell) /\ p \in Seq(Cell) /\ t \in Seq(Cell)
    BY <1>2, <1>8, <1>11 DEF Stretch
  <2>2. x \o y = p \o t
    BY <1>8, <1>9 DEF Cat
  <2>3. h <= Len(x) /\ h <= Len(p)
    BY <1>3, <1>4, <1>11
  <2>4. QED
    BY <1>3, <2>1, <2>2, <2>3, Begin, ZenonT(30)
<1>13. s = z
  BY <1>3, <1>6, <1>11, <1>12, SizeInHeader
<1>14. QED
  BY <1>5, <1>6, <1>13

\* It is taken as it was written.
Takes(sz, wr, hl, way, out, g, T, hd, junk, x, y, s, left) ==
  /\ hl \in Nat /\ Books(sz, wr) /\ Carries(sz, wr, hl, way, out, g, T, hd, junk) /\ hl < g
  /\ x \in Stretch /\ y \in Stretch /\ way = Cat(x, y)
  /\ s = sz[wr[hl + 1]] /\ Len(x) = HeaderLen + s
  /\ left \in Nat /\ out = (HeaderLen + s) + left

LEMMA Taken ==
  ASSUME NEW sz, NEW wr, NEW hl, NEW way, NEW out, NEW g, NEW T, NEW hd, NEW junk,
         NEW x, NEW y, NEW s, NEW left,
         Takes(sz, wr, hl, way, out, g, T, hd, junk, x, y, s, left)
  PROVE  /\ x = Packet(wr[hl + 1], s)
         /\ SubSeq(x, HeaderLen + 1, HeaderLen + s) = Body(wr[hl + 1], s)
         /\ Carries(sz, wr, hl + 1, y, left, g, T, hd, junk)
<1> USE DEF Takes
<1>1. /\ g \in Nat /\ g <= Len(wr) /\ hd \in Stretch /\ junk \in Stretch
      /\ Len(hd) \in Nat /\ Len(T[hl]) \in Nat
  BY CarriesFacts
<1>2. x \in Stretch /\ y \in Stretch
  OBVIOUS
<1>3. PICK n : n = wr[hl + 1]
  OBVIOUS
<1>4. PICK t, u : t = T[hl + 1] /\ u = Cat(Cat(T[hl + 1], hd), junk)
  OBVIOUS
<1>5. PICK p : p = Packet(n, s)
  OBVIOUS
<1>6. /\ n \in 1 .. Len(sz) /\ s \in Sizes /\ hl + 1 \in 1 .. Len(wr)
      /\ t \in Stretch /\ T[hl] = Cat(p, t) /\ way = Cat(p, u) /\ u \in Stretch
  BY <1>3, <1>4, <1>5, NextPacket
<1>7. Len(sz) \in Nat /\ Len(sz) <= MaxPackets /\ Len(wr) \in Nat
  BY BooksFacts DEF Books
<1>8. /\ p \in Stretch /\ Len(p) = HeaderLen + s
      /\ SubSeq(p, HeaderLen + 1, HeaderLen + s) = Body(n, s)
  BY <1>5, <1>6, <1>7, PacketOfBooks
<1>9. PICK k : k = HeaderLen + s /\ k \in Nat /\ k >= 1
  <2>1. s \in Nat /\ HeaderLen \in Nat /\ HeaderLen >= 1
    BY <1>6, Constants
  <2>2. HeaderLen + s \in Nat /\ HeaderLen + s >= 1
    BY <2>1
  <2>3. QED
    BY <2>2
<1>10. x = p
  <2>1. x \in Seq(Cell) /\ y \in Seq(Cell) /\ p \in Seq(Cell) /\ u \in Seq(Cell)
    BY <1>2, <1>6, <1>8 DEF Stretch
  <2>2. x \o y = p \o u
    BY <1>6 DEF Cat
  <2>3. Len(x) = k /\ Len(p) = k /\ k \in Nat /\ 1 <= k /\ k <= Len(x) /\ k <= Len(p)
    BY <1>8, <1>9
  <2>4. SubSeq(x, 1, k) = SubSeq(p, 1, k)
    BY ONLY <2>1, <2>2, <2>3, Begin
  <2>5. SubSeq(x, 1, k) = x /\ SubSeq(p, 1, k) = p
    BY <2>1, <2>3, SubSeqFull
  <2>6. QED
    BY <2>4, <2>5
<1>11. y = u
  <2>1. Cat(p, y) = Cat(p, u)
    BY <1>6, <1>10
  <2>2. QED
    BY <1>2, <1>6, <1>8, <2>1, CatCancel
<1>12. left <= Len(t) + Len(hd)
  <2>1. PICK a, b : a = Len(t) /\ b = Len(hd) /\ a \in Nat /\ b \in Nat
    BY <1>1, <1>6, LenIs
  <2>2. Len(T[hl]) = k + a
    BY <1>6, <1>8, <1>9, <2>1, CatIs
  <2>3. left \in Nat /\ k + left <= (k + a) + b
    BY <1>9, <2>1, <2>2 DEF Carries
  <2>4. left <= a + b
    BY ONLY <1>9, <2>1, <2>3
  <2>5. QED
    BY <2>1, <2>4
<1>13. g \in hl + 1 .. Len(wr)
  BY <1>1, <1>7
<1>14. Carries(sz, wr, hl + 1, y, left, g, T, hd, junk)
  BY <1>4, <1>11, <1>12, <1>13 DEF Carries
<1>15. QED
  BY <1>3, <1>5, <1>8, <1>10, <1>14

\* More messages, and more packets behind, change nothing.
LEMMA CarriesOn ==
  ASSUME NEW sz, NEW wr, NEW hl \in Nat, NEW way, NEW out, NEW g, NEW T, NEW hd, NEW junk,
         Books(sz, wr), Carries(sz, wr, hl, way, out, g, T, hd, junk),
         NEW sz2, NEW wr2, Books(sz2, wr2), Len(sz) <= Len(sz2), Len(wr) <= Len(wr2),
         \A i \in 1 .. Len(sz) : sz2[i] = sz[i], \A i \in 1 .. Len(wr) : wr2[i] = wr[i]
  PROVE  Carries(sz2, wr2, hl, way, out, g, T, hd, junk)
<1>1. g \in Nat /\ hl <= g /\ g <= Len(wr)
  BY CarriesFacts
<1>2. Len(wr) \in Nat /\ Len(wr2) \in Nat /\ Len(sz) \in Nat /\ Len(sz2) \in Nat
  BY BooksFacts
<1>3. g \in hl .. Len(wr2)
  BY <1>1, <1>2
<1>4. ASSUME NEW k \in 0 .. g - 1
      PROVE  T[k] = Cat(Packet(wr2[k + 1], sz2[wr2[k + 1]]), T[k + 1])
  <2>1. k + 1 \in 1 .. Len(wr)
    BY <1>1, <1>2
  <2>2. wr2[k + 1] = wr[k + 1] /\ wr[k + 1] \in 1 .. Len(sz)
    BY <2>1, BooksFacts
  <2>3. sz2[wr2[k + 1]] = sz[wr[k + 1]]
    BY <2>2
  <2>4. QED
    BY <1>4, <2>2, <2>3 DEF Carries
<1>5. hd = <<>> \/ \E n \in 1 .. Len(sz2) : hd = Header(n)
  <2>1. 1 .. Len(sz) \subseteq 1 .. Len(sz2)
    BY <1>2
  <2>2. QED
    BY <2>1 DEF Carries
<1>6. QED
  BY <1>3, <1>4, <1>5 DEF Carries

\* Another packet has been written whole, behind what is there.
LEMMA Put ==
  ASSUME NEW sz, NEW wr, NEW hl \in Nat, NEW way, NEW out, NEW g, NEW T, NEW hd, NEW junk,
         Books(sz, wr), Carries(sz, wr, hl, way, out, g, T, hd, junk), g = Len(wr), out \in Nat,
         NEW sz2, NEW wr2, NEW n, wr2 = Append(wr, n), n \in 1 .. Len(sz2), Books(sz2, wr2),
         Len(sz) <= Len(sz2), \A i \in 1 .. Len(sz) : sz2[i] = sz[i],
         NEW way2, way2 = Cat(T[hl], Packet(n, sz2[n])), NEW none, none = <<>>
  PROVE  \E T2 : Carries(sz2, wr2, hl, way2, out, Len(wr2), T2, none, none)
<1>1. /\ g \in Nat /\ hl <= g /\ T[hl] \in Stretch /\ hd \in Stretch
      /\ Len(hd) \in Nat /\ Len(hd) <= HeaderLen /\ Len(T[hl]) \in Nat
  BY CarriesFacts
<1>2. Len(sz2) \in Nat /\ Len(sz2) <= MaxPackets /\ sz2[n] \in Sizes
  BY BooksFacts DEF Books
<1>3. PICK p : p = Packet(n, sz2[n])
  OBVIOUS
<1>4. p \in Stretch /\ Len(p) = HeaderLen + sz2[n]
  BY <1>2, <1>3, PacketOfBooks
<1>5. PICK m : m = g + 1 /\ m \in Nat
  BY <1>1
<1>6. wr \in Seq(1 .. Len(sz2)) /\ Len(wr2) = m /\ wr2[m] = n
      /\ \A i \in 1 .. g : wr2[i] = wr[i]
  <2>1. wr \in Seq(1 .. Len(sz)) /\ Len(sz) \in Nat
    BY BooksFacts DEF Books
  <2>2. 1 .. Len(sz) \subseteq 1 .. Len(sz2)
    BY <1>2, <2>1
  <2>3. wr \in Seq(1 .. Len(sz2))
    BY <2>1, <2>2, SeqMonotonic
  <2>4. /\ Len(Append(wr, n)) = Len(wr) + 1 /\ Append(wr, n)[Len(wr) + 1] = n
        /\ \A i \in 1 .. Len(wr) : Append(wr, n)[i] = wr[i]
    BY <2>3, AppendProperties
  <2>5. QED
    BY <1>5, <2>3, <2>4
<1>7. PICK T2 : T2 = [k \in 0 .. m |-> IF k <= g THEN Cat(T[k], p) ELSE <<>>]
  OBVIOUS
<1>8. T \in [0 .. g -> Stretch] /\ T[g] = <<>>
  BY DEF Carries
<1>9. \A k \in 0 .. g : k \in 0 .. m /\ T2[k] = Cat(T[k], p)
  BY <1>1, <1>5, <1>7
<1>10. m \in 0 .. m /\ ~(m <= g)
  BY <1>1, <1>5
<1>11. T2[m] = <<>>
  BY <1>7, <1>10
<1>12. T2 \in [0 .. m -> Stretch]
  <2>1. \A k \in 0 .. g : Cat(T[k], p) \in Stretch
    BY <1>4, <1>8, CatIs
  <2>2. <<>> \in Stretch
    BY EmptySeq DEF Stretch
  <2>3. \A k \in 0 .. m : k <= g => k \in 0 .. g
    BY <1>1, <1>5
  <2>4. \A k \in 0 .. m : (IF k <= g THEN Cat(T[k], p) ELSE <<>>) \in Stretch
    BY <2>1, <2>2, <2>3
  <2>5. QED
    BY <1>7, <2>4
<1>13. ASSUME NEW k \in 0 .. m - 1
       PROVE  T2[k] = Cat(Packet(wr2[k + 1], sz2[wr2[k + 1]]), T2[k + 1])
  <2>1. k \in 0 .. g
    BY <1>1, <1>5
  <2>2. T2[k] = Cat(T[k], p)
    BY <1>9, <2>1
  <2>3. CASE k = g
    <3>1. T2[k] = p
      BY <1>4, <1>8, <2>2, <2>3, CatEmpty
    <3>2. T2[k + 1] = <<>> /\ wr2[k + 1] = n
      BY <1>5, <1>6, <1>11, <2>3
    <3>3. QED
      BY <1>3, <1>4, <3>1, <3>2, CatEmpty
  <2>4. CASE k # g
    <3>1. k \in 0 .. g - 1 /\ k + 1 \in 0 .. g /\ k + 1 \in 1 .. g
      BY <1>1, <2>1, <2>4
    <3>2. PICK q : q = Packet(wr[k + 1], sz[wr[k + 1]])
      OBVIOUS
    <3>3. T[k] = Cat(q, T[k + 1]) /\ T[k + 1] \in Stretch
      BY <1>8, <3>1, <3>2 DEF Carries
    <3>4. wr[k + 1] \in 1 .. Len(sz) /\ sz[wr[k + 1]] \in Sizes
      BY <3>1, BooksFacts
    <3>5. q \in Stretch
      <4>1. Len(sz) \in Nat /\ Len(sz) <= MaxPackets
        BY BooksFacts DEF Books
      <4>2. QED
        BY <3>2, <3>4, <4>1, PacketOfBooks
    <3>6. wr2[k + 1] = wr[k + 1] /\ sz2[wr2[k + 1]] = sz[wr[k + 1]]
      BY <1>6, <3>1, <3>4
    <3>7. T2[k + 1] = Cat(T[k + 1], p)
      BY <1>9, <3>1
    <3>8. Cat(Cat(q, T[k + 1]), p) = Cat(q, Cat(T[k + 1], p))
      BY <1>4, <3>3, <3>5, CatAssociative
    <3>9. QED
      BY <2>2, <3>2, <3>3, <3>6, <3>7, <3>8
  <2>5. QED
    BY <2>3, <2>4
<1>14. hl \in 0 .. g /\ m \in hl .. m
  BY <1>1, <1>5
<1>15. T2[hl] = way2 /\ way2 \in Stretch
  BY <1>1, <1>3, <1>4, <1>9, <1>14, CatIs
<1>16. way2 = Cat(Cat(T2[hl], <<>>), <<>>)
  BY <1>15, CatEmpty
<1>17. out <= Len(T2[hl]) + 0
  <2>1. PICK a, b, c, s : a = Len(T[hl]) /\ b = Len(hd) /\ c = HeaderLen /\ s = sz2[n]
    OBVIOUS
  <2>2. a \in Nat /\ b \in Nat /\ c \in Nat /\ b <= c /\ s \in Nat
    BY <1>1, <1>2, <2>1, Constants
  <2>3. out <= a + b
    BY <2>1 DEF Carries
  <2>4. Len(T2[hl]) = a + (c + s)
    <3>1. T2[hl] = Cat(T[hl], p)
      BY <1>9, <1>14
    <3>2. Len(Cat(T[hl], p)) = Len(T[hl]) + Len(p)
      BY <1>1, <1>4, CatIs
    <3>3. QED
      BY <1>4, <2>1, <3>1, <3>2
  <2>5. out \in Nat /\ out <= (a + (c + s)) + 0
    BY <2>2, <2>3
  <2>6. QED
    BY <2>4, <2>5
<1>18. Len(<<>>) = 0 /\ <<>> \in Stretch
  BY EmptySeq DEF Stretch
<1>19. Carries(sz2, wr2, hl, way2, out, m, T2, <<>>, <<>>)
  BY <1>6, <1>11, <1>12, <1>13, <1>14, <1>16, <1>17, <1>18 DEF Carries
<1>20. QED
  BY <1>6, <1>19

\* What follows is another header, or is written behind one.
LEMMA Behind ==
  ASSUME NEW sz, NEW wr, NEW hl \in Nat, NEW way, NEW out, NEW g, NEW T, NEW hd, NEW junk,
         Books(sz, wr), Carries(sz, wr, hl, way, out, g, T, hd, junk),
         NEW x \in Stretch
  PROVE  Carries(sz, wr, hl, Cat(way, x), out, g, T, hd, Cat(junk, x))
<1>1. T[hl] \in Stretch /\ hd \in Stretch /\ junk \in Stretch
  BY CarriesFacts
<1>2. PICK w : w = Cat(T[hl], hd)
  OBVIOUS
<1>3. w \in Stretch
  BY <1>1, <1>2, CatIs
<1>4. Cat(way, x) = Cat(w, Cat(junk, x))
  <2>1. way = Cat(w, junk)
    BY <1>2 DEF Carries
  <2>2. Cat(Cat(w, junk), x) = Cat(w, Cat(junk, x))
    BY <1>1, <1>3, CatAssociative
  <2>3. QED
    BY <2>1, <2>2
<1>5. Cat(junk, x) \in Stretch
  BY <1>1, CatIs
<1>6. QED
  BY <1>2, <1>4, <1>5 DEF Carries

LEMMA Headed ==
  ASSUME NEW sz, NEW wr, NEW hl \in Nat, NEW way, NEW out \in Nat, NEW g, NEW T,
         Books(sz, wr), Carries(sz, wr, hl, way, out, g, T, <<>>, <<>>),
         NEW n \in 1 .. Len(sz), Header(n) \in Stretch
  PROVE  Carries(sz, wr, hl, Cat(way, Header(n)), out, g, T, Header(n), <<>>)
<1>1. T[hl] \in Stretch /\ Len(T[hl]) \in Nat
  BY CarriesFacts
<1>2. PICK h : h = Header(n) /\ h \in Stretch
  OBVIOUS
<1>3. way = T[hl]
  <2>1. way = Cat(Cat(T[hl], <<>>), <<>>)
    BY DEF Carries
  <2>2. QED
    BY <1>1, <2>1, CatEmpty
<1>4. Cat(way, h) = Cat(Cat(T[hl], h), <<>>)
  BY <1>1, <1>2, <1>3, CatIs, CatEmpty
<1>5. out <= Len(T[hl]) + Len(h)
  <2>1. out <= Len(T[hl]) + Len(<<>>) /\ Len(<<>>) = 0
    BY EmptySeq DEF Carries
  <2>2. Len(h) \in Nat
    BY <1>2, LenIs
  <2>3. QED
    BY <1>1, <2>1, <2>2
<1>6. QED
  BY <1>2, <1>4, <1>5 DEF Carries

-----------------------------------------------------------------------------
(* The contents, through every step.                                       *)

\* That so much of what is on its way is what Send has written, and that OnRecv was
\* called with what came before it.  As long as no Send has failed that is all of it.
Flowing(g, T, hd, junk) ==
  /\ Carries(size, written, Len(handled), Way, Out, g, T, hd, junk)
  /\ \A i \in 1 .. Len(handled) : handled[i] = Body(written[i], size[written[i]])
  /\ ~skill => /\ g = Len(written) /\ junk = <<>>
               /\ hd = IF wrote THEN Header(Len(size)) ELSE <<>>
  /\ packet # None => Len(handled) < g /\ packet = size[written[Len(handled) + 1]]

Flow == raced \/ lost \/ \E g, T, hd, junk : Flowing(g, T, hd, junk)

LEMMA TypeInvBooks ==
  ASSUME TypeInv
  PROVE  /\ Books(size, written) /\ Len(handled) \in Nat /\ Out \in Nat /\ Way \in Stretch
         /\ Len(size) \in Nat /\ Len(written) \in Nat
         /\ handled \in Seq(Seq(Cell))
<1>1. Typed
  BY DEF TypeInv
<1>2. Books(size, written) /\ handled \in Seq(Seq(Cell))
  BY <1>1 DEF Typed, Books
<1>3. QED
  BY <1>2, WayFacts, BooksFacts, LenProperties

LEMMA FlowInit ==
  ASSUME Init
  PROVE  Flow
<1>1. Way = <<>> /\ Out = 0
  BY InitInv
<1>2. size = <<>> /\ written = <<>> /\ handled = <<>> /\ packet = None /\ ~wrote
  BY DEF Init
<1>3. PICK T : T = [k \in 0 .. 0 |-> <<>>]
  OBVIOUS
<1>4. <<>> \in Stretch /\ Len(<<>>) = 0
  BY EmptySeq DEF Stretch
<1>5. PICK z, none : z = 0 /\ none = <<>>
  OBVIOUS
<1>6. /\ T \in [0 .. z -> Stretch] /\ T[z] = none /\ z \in 0 .. Len(none)
      /\ \A k \in 0 .. z - 1 : FALSE
      /\ none = Cat(Cat(T[z], none), none) /\ 0 <= Len(T[z]) + Len(none)
      /\ none \in Stretch
  <2>1. T \in [0 .. 0 -> Stretch] /\ T[0] = <<>>
    BY <1>3, <1>4
  <2>2. Cat(Cat(<<>>, <<>>), <<>>) = <<>>
    BY <1>4, CatEmpty
  <2>3. 0 \in 0 .. Len(<<>>) /\ 0 <= Len(<<>>) + Len(<<>>)
    BY <1>4
  <2>4. QED
    BY <1>4, <1>5, <2>1, <2>2, <2>3
<1>7. Carries(none, none, z, none, z, z, T, none, none)
  BY <1>5, <1>6 DEF Carries
<1>8. Len(handled) = z /\ Len(written) = z
  BY <1>2, <1>4, <1>5
<1>9. Carries(size, written, Len(handled), Way, Out, z, T, none, none)
  BY <1>1, <1>2, <1>5, <1>7, <1>8
<1>10. \A i \in 1 .. Len(handled) : handled[i] = Body(written[i], size[written[i]])
  <2>1. \A i \in 1 .. 0 : FALSE
    OBVIOUS
  <2>2. QED
    BY <1>5, <1>8, <2>1
<1>11. Flowing(z, T, none, none)
  BY <1>2, <1>5, <1>8, <1>9, <1>10 DEF Flowing
<1>12. QED
  BY <1>11 DEF Flow

\* Most of the steps move what is on its way from one place to the next.
LEMMA FlowStays ==
  ASSUME TypeInv, Flow, UNCHANGED <<size, written, wrote, skill, handled, packet>>,
         raced => raced', lost => lost',
         raced' \/ lost' \/
           /\ Way' = Way
           /\ Out' = Out \/ (~skill /\ Out' \in Nat /\ Out' <= Len(Way))
  PROVE  Flow'
<1>1. CASE raced' \/ lost'
  BY <1>1 DEF Flow
<1>2. CASE ~raced' /\ ~lost'
  <2>1. Way' = Way /\ (Out' = Out \/ (~skill /\ Out' \in Nat /\ Out' <= Len(Way)))
    BY <1>2
  <2>2. PICK g, T, hd, junk : Flowing(g, T, hd, junk)
    BY <1>2 DEF Flow
  <2>3. PICK hl : hl = Len(handled) /\ hl \in Nat
    BY TypeInvBooks
  <2>4. Carries(size, written, hl, Way, Out, g, T, hd, junk)
    BY <2>2, <2>3 DEF Flowing
  <2>5. Out' <= Len(T[hl]) + Len(hd)
    <3>1. CASE Out' = Out
      BY <2>4, <3>1 DEF Carries
    <3>2. CASE ~skill /\ Out' <= Len(Way)
      <4>1. T[hl] \in Stretch /\ hd \in Stretch
        BY <2>3, <2>4, TypeInvBooks, CarriesFacts
      <4>2. junk = <<>>
        BY <2>2, <3>2 DEF Flowing
      <4>3. Way = Cat(Cat(T[hl], hd), <<>>)
        BY <2>4, <4>2 DEF Carries
      <4>4. Cat(T[hl], hd) \in Stretch /\ Len(Cat(T[hl], hd)) = Len(T[hl]) + Len(hd)
        BY <4>1, CatIs
      <4>5. Way = Cat(T[hl], hd)
        BY <4>3, <4>4, CatEmpty
      <4>6. QED
        BY <3>2, <4>4, <4>5
    <3>3. QED
      BY <2>1, <3>1, <3>2
  <2>6. Carries(size, written, hl, Way, Out', g, T, hd, junk)
    BY <2>4, <2>5 DEF Carries
  <2>7. Flowing(g, T, hd, junk)'
    <3>1. Carries(size, written, Len(handled), Way, Out, g, T, hd, junk)'
      BY <2>1, <2>3, <2>6 DEF Carries, Header, Packet
    <3>2. QED
      BY <2>2, <3>1 DEF Flowing, Header, Body
  <2>8. QED
    BY <2>7 DEF Flow
<1>3. QED
  BY <1>1, <1>2

\* The parts of what is on its way, as a predicate of the next state too.
PartsInPlace ==
  /\ Rest(rbuf, 0) \in Stretch /\ Len(Rest(rbuf, 0)) = rbuf.length
  /\ Landed \in Stretch /\ rpool.cells \in Stretch /\ net \in Stretch
  /\ Rest(sbuf, Dropped) \in Stretch /\ spool \in Stretch
  /\ Pending \in Nat /\ rbuf.length \in Nat
  /\ Way \in Stretch /\ Out \in Nat
  /\ Books(size, written)

LEMMA PartsHold == TypeInv => PartsInPlace
BY WayFacts, TypeInvBooks DEF PartsInPlace

LEMMA PartsHoldNext == TypeInv' => PartsInPlace'
BY PartsHold, PTL

\* A step that finds the packet that OnRecv will be called with next.
LEMMA FlowFinds ==
  ASSUME NEW hl \in Nat, NEW g, NEW T, NEW hd, NEW junk, Books(size, written),
         TypeInv', Found', size' = size, packet' # None,
         Carries(size, written, hl, Way', Out', g, T, hd, junk)
  PROVE  hl < g /\ packet' = size[written[hl + 1]]
<1>1. PICK s, x, b, c, d, e, f : /\ s = packet' /\ x = Rest(rbuf', 0) /\ b = Landed'
                                 /\ c = rpool'.cells /\ d = net' /\ e = Rest(sbuf', Dropped')
                                 /\ f = spool'
  OBVIOUS
<1>2. /\ s \in Sizes /\ HeaderLen + s <= rbuf'.length
      /\ s = SizeIn(SubSeq(x, 1, HeaderLen))
  BY <1>1 DEF Found, SizeIn, Header
<1>3. PartsInPlace'
  BY PartsHoldNext
<1>4. /\ x \in Stretch /\ Len(x) = rbuf'.length /\ {b, c, d, e, f} \subseteq Stretch
      /\ Pending' \in Nat /\ rbuf'.length \in Nat /\ Out' \in Nat
  BY <1>1, <1>3 DEF PartsInPlace
<1>5. PICK y : y = Cat(b, Cat(c, Cat(d, Cat(e, f))))
  OBVIOUS
<1>6. y \in Stretch
  <2>1. Cat(e, f) \in Stretch
    BY <1>4, CatIs
  <2>2. Cat(d, Cat(e, f)) \in Stretch
    BY <1>4, <2>1, CatIs
  <2>3. Cat(c, Cat(d, Cat(e, f))) \in Stretch
    BY <1>4, <2>2, CatIs
  <2>4. QED
    BY <1>4, <1>5, <2>3, CatIs
<1>7. Way' = Cat(x, y)
  BY <1>1, <1>5 DEF Way, Line
<1>8. Len(x) <= Out'
  <2>1. Out' = rbuf'.length + (Len(b) + (Len(c) + (Len(d) + Pending')))
    BY <1>1 DEF Out
  <2>2. PICK k, l, m, n, o : /\ k = rbuf'.length /\ l = Len(b) /\ m = Len(c) /\ n = Len(d)
                             /\ o = Pending'
    OBVIOUS
  <2>3. k \in Nat /\ l \in Nat /\ m \in Nat /\ n \in Nat /\ o \in Nat
    BY <1>4, <2>2, LenIs
  <2>4. Len(x) = k /\ Out' = k + (l + (m + (n + o)))
    BY <1>4, <2>1, <2>2
  <2>5. QED
    BY <2>3, <2>4
<1>9. HeaderLen + s <= Len(x)
  BY <1>2, <1>4
<1>10. PICK w, o : w = Way' /\ o = Out'
  OBVIOUS
<1>11. /\ Carries(size, written, hl, w, o, g, T, hd, junk) /\ w = Cat(x, y) /\ Len(x) <= o
       /\ o \in Nat /\ {x, y} \subseteq Stretch
  BY <1>4, <1>6, <1>7, <1>8, <1>10
<1>12. hl < g /\ s = size[written[hl + 1]]
  BY <1>2, <1>9, <1>11, FirstIs
<1>13. QED
  BY <1>1, <1>12

\* What more messages and packets leave alone, and what is left to show of them.
LEMMA Grown ==
  ASSUME TypeInv, TypeInv', NEW g, NEW T, NEW hd, NEW junk, Flowing(g, T, hd, junk),
         Len(size) <= Len(size'), \A i \in 1 .. Len(size) : size'[i] = size[i],
         Len(written) <= Len(written'), \A i \in 1 .. Len(written) : written'[i] = written[i],
         UNCHANGED <<handled, packet>>, NEW hl, hl = Len(handled)
  PROVE  /\ Books(size', written') /\ hl \in Nat
         /\ Carries(size', written', hl, Way, Out, g, T, hd, junk)
         /\ \A g2, T2, h, j :
              /\ Carries(size', written', hl, Way', Out', g2, T2, h, j)
              /\ g <= g2
              /\ ~skill' => /\ g2 = Len(written') /\ j = <<>>
                            /\ h = IF wrote' THEN Header(Len(size))' ELSE <<>>
              => Flowing(g2, T2, h, j)'
<1>1. /\ hl \in Nat /\ Len(size) \in Nat /\ Len(written) \in Nat /\ Out \in Nat /\ Way \in Stretch
      /\ Books(size, written)
  BY TypeInvBooks
<1>2. Books(size', written')
  BY PartsHoldNext DEF PartsInPlace
<1>3. Carries(size, written, hl, Way, Out, g, T, hd, junk)
  BY DEF Flowing
<1>4. Carries(size', written', hl, Way, Out, g, T, hd, junk)
  <2>1. PICK sz, wr : sz = size' /\ wr = written'
    OBVIOUS
  <2>2. /\ Books(sz, wr) /\ Len(size) <= Len(sz) /\ Len(written) <= Len(wr)
        /\ \A i \in 1 .. Len(size) : sz[i] = size[i]
        /\ \A i \in 1 .. Len(written) : wr[i] = written[i]
    BY <1>2, <2>1
  <2>3. Carries(sz, wr, hl, Way, Out, g, T, hd, junk)
    BY <1>1, <1>3, <2>2, CarriesOn
  <2>4. QED
    BY <2>1, <2>3
<1>5. g \in Nat /\ hl <= g /\ g <= Len(written)
  BY <1>1, <1>3, CarriesFacts
<1>6. \A i \in 1 .. hl : handled'[i] = Body(written'[i], size'[written'[i]])
  <2>1. SUFFICES ASSUME NEW i \in 1 .. hl
                 PROVE  handled'[i] = Body(written'[i], size'[written'[i]])
    OBVIOUS
  <2>2. i \in 1 .. Len(written)
    BY <1>1, <1>5
  <2>3. written[i] \in 1 .. Len(size) /\ written'[i] = written[i]
    BY <1>1, <2>2, BooksFacts
  <2>4. handled[i] = Body(written[i], size[written[i]])
    BY DEF Flowing
  <2>5. QED
    BY <2>3, <2>4
<1>7. packet' # None => hl < g /\ packet' = size'[written'[hl + 1]]
  <2>1. SUFFICES ASSUME packet # None
                 PROVE  hl < g /\ packet = size'[written'[hl + 1]]
    OBVIOUS
  <2>2. hl < g /\ packet = size[written[hl + 1]]
    BY <2>1 DEF Flowing
  <2>3. hl + 1 \in 1 .. Len(written)
    BY <1>1, <1>5, <2>2
  <2>4. written[hl + 1] \in 1 .. Len(size) /\ written'[hl + 1] = written[hl + 1]
    BY <1>1, <2>3, BooksFacts
  <2>5. QED
    BY <2>2, <2>4
<1>8. ASSUME NEW g2, NEW T2, NEW h, NEW j,
             Carries(size', written', hl, Way', Out', g2, T2, h, j), g <= g2,
             ~skill' => /\ g2 = Len(written') /\ j = <<>>
                        /\ h = IF wrote' THEN Header(Len(size))' ELSE <<>>
      PROVE  Flowing(g2, T2, h, j)'
  <2>1. Carries(size, written, Len(handled), Way, Out, g2, T2, h, j)'
    BY <1>8 DEF Carries, Packet, Header
  <2>2. g2 \in Int
    BY <1>8 DEF Carries
  <2>3. packet' # None => hl < g2
    BY <1>1, <1>5, <1>7, <1>8, <2>2
  <2>4. QED
    BY <1>6, <1>7, <1>8, <2>1, <2>3 DEF Flowing, Body, Header
<1>9. QED
  BY <1>1, <1>2, <1>4, <1>8

LEMMA FlowSend ==
  ASSUME TypeInv, Flow, NEW s \in Sizes, Send(s)
  PROVE  Flow'
<1>1. /\ TypeInv' /\ Out' = Out
      /\ Len(size) + 1 \in 1 .. Len(size')
      /\ \/ ~wrote /\ wrote' /\ skill' = skill /\ Way' = Cat(Way, Header(Len(size) + 1))
         \/ ~wrote' /\ ~wrote /\ skill' /\ Way' = Way
  BY SendInv
<1>2. /\ size' = Append(size, s) /\ Len(size) < MaxPackets
      /\ UNCHANGED <<written, handled, packet, raced, lost>>
  BY DEF Send, receiver, client
<1>3. Len(size') = Len(size) + 1 /\ \A i \in 1 .. Len(size) : size'[i] = size[i]
  BY <1>2, SizeGrows
<1>4. CASE raced \/ lost
  BY <1>2, <1>4 DEF Flow
<1>5. CASE ~raced /\ ~lost
  <2>1. PICK g, T, hd, junk : Flowing(g, T, hd, junk)
    BY <1>5 DEF Flow
  <2>2. PICK hl, n : hl = Len(handled) /\ n = Len(size) + 1
    OBVIOUS
  <2>3. Len(size) \in Nat /\ Len(written) \in Nat /\ Out \in Nat
    BY TypeInvBooks
  <2>4. Len(size) <= Len(size') /\ Len(written) <= Len(written')
    BY <1>2, <1>3, <2>3
  <2>5. \A i \in 1 .. Len(written) : written'[i] = written[i]
    BY <1>2
  <2>6. /\ Books(size', written') /\ hl \in Nat
        /\ Carries(size', written', hl, Way, Out, g, T, hd, junk)
        /\ \A g2, T2, h, j :
             /\ Carries(size', written', hl, Way', Out', g2, T2, h, j)
             /\ g <= g2
             /\ ~skill' => /\ g2 = Len(written') /\ j = <<>>
                           /\ h = IF wrote' THEN Header(Len(size))' ELSE <<>>
             => Flowing(g2, T2, h, j)'
    BY <1>1, <1>2, <1>3, <2>1, <2>2, <2>4, <2>5, Grown
  <2>7. g <= g
    <3>1. PICK sz, wr : sz = size' /\ wr = written'
      OBVIOUS
    <3>2. g \in hl .. Len(wr)
      BY <2>6, <3>1 DEF Carries
    <3>3. QED
      BY <3>2
  <2>8. Header(n) \in Stretch /\ n \in 1 .. Len(size')
    <3>1. n \in 1 .. Len(size') /\ Len(size') \in Nat /\ Len(size') <= MaxPackets
      BY <1>1, <2>2, <2>6, BooksFacts DEF Books
    <3>2. PICK k : k = Len(size')
      OBVIOUS
    <3>3. n \in 1 .. k /\ k \in Nat /\ k <= MaxPackets
      BY <3>1, <3>2
    <3>4. Header(n) \in Stretch
      BY <3>3, PacketOfBooks
    <3>5. QED
      BY <3>1, <3>4
  <2>9. PICK sz, wr : sz = size' /\ wr = written'
    OBVIOUS
  <2>10. Books(sz, wr) /\ Carries(sz, wr, hl, Way, Out, g, T, hd, junk)
    BY <2>6, <2>9
  <2>11. CASE ~wrote /\ wrote' /\ skill' = skill /\ Way' = Cat(Way, Header(n))
    <3>1. CASE skill
      <4>1. PICK x : x = Header(n) /\ x \in Stretch
        BY <2>8
      <4>2. Carries(sz, wr, hl, Cat(Way, x), Out, g, T, hd, Cat(junk, x))
        BY <2>6, <2>10, <4>1, Behind
      <4>3. Carries(size', written', hl, Way', Out', g, T, hd, Cat(junk, x))
        BY <1>1, <2>9, <2>11, <4>1, <4>2
      <4>4. Flowing(g, T, hd, Cat(junk, x))'
        BY <2>6, <2>7, <2>11, <3>1, <4>3
      <4>5. QED
        BY <4>4 DEF Flow
    <3>2. CASE ~skill
      <4>1. g = Len(written) /\ junk = <<>> /\ hd = <<>>
        BY <2>1, <2>11, <3>2 DEF Flowing
      <4>2. /\ Carries(sz, wr, hl, Way, Out, g, T, <<>>, <<>>)
            /\ n \in 1 .. Len(sz) /\ Header(n) \in Stretch
        BY <2>8, <2>9, <2>10, <4>1
      <4>3. Carries(sz, wr, hl, Cat(Way, Header(n)), Out, g, T, Header(n), <<>>)
        BY <2>3, <2>6, <2>10, <4>2, Headed
      <4>4. Carries(size', written', hl, Way', Out', g, T, Header(n), <<>>)
        BY <1>1, <2>9, <2>11, <4>3
      <4>5. Header(n) = Header(Len(size))'
        BY <1>3, <2>2 DEF Header
      <4>6. Flowing(g, T, Header(n), <<>>)'
        BY <1>2, <2>6, <2>7, <2>11, <4>1, <4>4, <4>5
      <4>7. QED
        BY <4>6 DEF Flow
    <3>3. QED
      BY <3>1, <3>2
  <2>12. CASE ~wrote' /\ ~wrote /\ skill' /\ Way' = Way
    <3>1. Flowing(g, T, hd, junk)'
      BY <1>1, <2>6, <2>7, <2>12
    <3>2. QED
      BY <3>1 DEF Flow
  <2>13. QED
    BY <1>1, <2>2, <2>11, <2>12
<1>6. QED
  BY <1>4, <1>5

LEMMA FlowWriteMessage ==
  ASSUME TypeInv, Flow, WriteMessage
  PROVE  Flow'
<1>1. PICK n : n = Len(size)
  OBVIOUS
<1>2. PICK s : s = size[n]
  OBVIOUS
<1>3. /\ TypeInv' /\ Out' = Out /\ wrote /\ ~wrote' /\ n \in 1 .. Len(size)
      /\ \/ skill' = skill /\ written' = Append(written, n) /\ Way' = Cat(Way, Body(n, s))
         \/ skill' /\ written' = written /\ Way' = Way
  BY <1>1, <1>2, WriteMessageInv
<1>4. UNCHANGED <<size, handled, packet, raced, lost>>
  BY DEF WriteMessage, receiver, client
<1>5. CASE raced \/ lost
  BY <1>4, <1>5 DEF Flow
<1>6. CASE ~raced /\ ~lost
  <2>1. PICK g, T, hd, junk : Flowing(g, T, hd, junk)
    BY <1>6 DEF Flow
  <2>2. PICK hl : hl = Len(handled)
    OBVIOUS
  <2>3. /\ hl \in Nat /\ Len(size) \in Nat /\ Len(written) \in Nat /\ Out \in Nat /\ Way \in Stretch
        /\ Books(size, written) /\ Len(size) <= MaxPackets
    BY <2>2, TypeInvBooks DEF Books
  <2>4. Len(written) <= Len(written') /\ \A i \in 1 .. Len(written) : written'[i] = written[i]
    <3>1. CASE written' = written
      BY <2>3, <3>1
    <3>2. CASE written' = Append(written, n)
      <4>1. written \in Seq(1 .. Len(size))
        BY <2>3 DEF Books
      <4>2. /\ Len(Append(written, n)) = Len(written) + 1
            /\ \A i \in 1 .. Len(written) : Append(written, n)[i] = written[i]
        BY <1>3, <4>1, AppendProperties
      <4>3. QED
        BY <2>3, <3>2, <4>2
    <3>3. QED
      BY <1>3, <3>1, <3>2
  <2>5. Len(size) <= Len(size') /\ \A i \in 1 .. Len(size) : size'[i] = size[i]
    BY <1>4, <2>3
  <2>6. /\ Books(size', written')
        /\ Carries(size', written', hl, Way, Out, g, T, hd, junk)
        /\ \A g2, T2, h, j :
             /\ Carries(size', written', hl, Way', Out', g2, T2, h, j)
             /\ g <= g2
             /\ ~skill' => /\ g2 = Len(written') /\ j = <<>>
                           /\ h = IF wrote' THEN Header(Len(size))' ELSE <<>>
             => Flowing(g2, T2, h, j)'
    BY <1>3, <1>4, <2>1, <2>2, <2>4, <2>5, Grown
  <2>7. PICK sz, wr : sz = size' /\ wr = written'
    OBVIOUS
  <2>8. Books(sz, wr) /\ Carries(sz, wr, hl, Way, Out, g, T, hd, junk) /\ sz = size
    BY <1>4, <2>6, <2>7
  <2>9. g \in Nat /\ g <= g /\ g <= g + 1
    <3>1. g \in Nat
      BY <2>3, <2>8, CarriesFacts
    <3>2. QED
      BY <3>1
  <2>10. s \in Sizes
    BY <1>2, <1>3, <2>3, BooksFacts
  <2>11. /\ Header(n) \in Stretch /\ Body(n, s) \in Stretch
         /\ Packet(n, s) = Cat(Header(n), Body(n, s))
    BY <1>3, <2>3, <2>10, PacketOfBooks
  <2>12. CASE skill' = skill /\ written' = Append(written, n) /\ Way' = Cat(Way, Body(n, s))
    <3>1. CASE skill
      <4>1. PICK x : x = Body(n, s) /\ x \in Stretch
        BY <2>11
      <4>2. Carries(sz, wr, hl, Cat(Way, x), Out, g, T, hd, Cat(junk, x))
        BY <2>3, <2>8, <4>1, Behind
      <4>3. Carries(size', written', hl, Way', Out', g, T, hd, Cat(junk, x))
        BY <1>3, <2>7, <2>12, <4>1, <4>2
      <4>4. Flowing(g, T, hd, Cat(junk, x))'
        BY <2>6, <2>9, <2>12, <3>1, <4>3
      <4>5. QED
        BY <4>4 DEF Flow
    <3>2. CASE ~skill
      <4>1. g = Len(written) /\ junk = <<>> /\ hd = Header(n)
        BY <1>1, <1>3, <2>1, <3>2 DEF Flowing
      <4>2. Carries(size, written, hl, Way, Out, g, T, hd, junk)
        BY <2>1, <2>2 DEF Flowing
      <4>3. PICK way2 : way2 = Cat(T[hl], Packet(n, sz[n]))
        OBVIOUS
      <4>4. /\ wr = Append(written, n) /\ n \in 1 .. Len(sz) /\ Len(size) <= Len(sz)
            /\ \A i \in 1 .. Len(size) : sz[i] = size[i]
        BY <1>3, <2>3, <2>7, <2>8, <2>12
      <4>5. \E T2 : Carries(sz, wr, hl, way2, Out, Len(wr), T2, <<>>, <<>>)
        <5>1. PICK sz1, wr1, way1, out, none : /\ sz1 = size /\ wr1 = written /\ way1 = Way
                                               /\ out = Out /\ none = <<>>
          OBVIOUS
        <5>2. /\ hl \in Nat /\ Books(sz1, wr1) /\ Carries(sz1, wr1, hl, way1, out, g, T, hd, junk)
              /\ g = Len(wr1) /\ out \in Nat /\ wr = Append(wr1, n) /\ n \in 1 .. Len(sz)
              /\ Books(sz, wr) /\ Len(sz1) <= Len(sz) /\ \A i \in 1 .. Len(sz1) : sz[i] = sz1[i]
              /\ way2 = Cat(T[hl], Packet(n, sz[n])) /\ none = <<>>
          BY <2>3, <2>8, <4>1, <4>2, <4>3, <4>4, <5>1
        <5>3. \E T2 : Carries(sz, wr, hl, way2, out, Len(wr), T2, none, none)
          BY ONLY <5>2, Put
        <5>4. QED
          BY <5>1, <5>3
      <4>6. PICK T2 : Carries(sz, wr, hl, way2, Out, Len(wr), T2, <<>>, <<>>)
        BY <4>5
      <4>7. way2 = Way'
        <5>1. T[hl] \in Stretch /\ hd \in Stretch
          BY <2>3, <2>8, CarriesFacts
        <5>2. Way = Cat(Cat(T[hl], hd), <<>>)
          BY <4>1, <4>2 DEF Carries
        <5>3. Cat(T[hl], hd) \in Stretch
          BY <5>1, CatIs
        <5>4. Way = Cat(T[hl], hd)
          BY <5>2, <5>3, CatEmpty
        <5>5. Cat(Cat(T[hl], hd), Body(n, s)) = Cat(T[hl], Cat(hd, Body(n, s)))
          BY <2>11, <5>1, CatAssociative
        <5>6. way2 = Cat(T[hl], Cat(hd, Body(n, s)))
          BY <1>2, <2>8, <2>11, <4>1, <4>3
        <5>7. QED
          BY <2>12, <5>4, <5>5, <5>6
      <4>8. PICK m : m = Len(written')
        OBVIOUS
      <4>9. Carries(size', written', hl, Way', Out', m, T2, <<>>, <<>>) /\ g <= m
        BY <1>3, <2>4, <2>7, <4>1, <4>6, <4>7, <4>8
      <4>10. Flowing(m, T2, <<>>, <<>>)'
        BY <1>3, <2>6, <4>8, <4>9
      <4>11. QED
        BY <4>10 DEF Flow
    <3>3. QED
      BY <3>1, <3>2
  <2>13. CASE skill' /\ written' = written /\ Way' = Way
    <3>1. Flowing(g, T, hd, junk)'
      BY <1>3, <2>6, <2>9, <2>13
    <3>2. QED
      BY <3>1 DEF Flow
  <2>14. QED
    BY <1>3, <2>12, <2>13
<1>7. QED
  BY <1>5, <1>6

LEMMA FlowSaveSendData ==
  ASSUME TypeInv, Flow, NEW s \in Sizes, SaveSendData(s)
  PROVE  Flow'
<1>1. PICK n : n = Len(size) + 1
  OBVIOUS
<1>2. /\ TypeInv' /\ Out' = Out /\ n \in 1 .. Len(size') /\ ~wrote /\ ~wrote' /\ ~skill /\ ~skill'
      /\ \/ written' = Append(written, n) /\ Way' = Cat(Way, Packet(n, s))
         \/ written' = written /\ Way' = Way
  BY <1>1, SaveSendDataInv
<1>3. /\ size' = Append(size, s) /\ Len(size) < MaxPackets
      /\ UNCHANGED <<handled, packet, raced, lost>>
  BY DEF SaveSendData, receiver
<1>4. /\ Len(size') = Len(size) + 1 /\ \A i \in 1 .. Len(size) : size'[i] = size[i]
      /\ size'[n] = s /\ Seq(1 .. Len(size)) \subseteq Seq(1 .. Len(size'))
  BY <1>1, <1>3, SizeGrows
<1>5. CASE raced \/ lost
  BY <1>3, <1>5 DEF Flow
<1>6. CASE ~raced /\ ~lost
  <2>1. PICK g, T, hd, junk : Flowing(g, T, hd, junk)
    BY <1>6 DEF Flow
  <2>2. PICK hl : hl = Len(handled)
    OBVIOUS
  <2>3. /\ hl \in Nat /\ Len(size) \in Nat /\ Len(written) \in Nat /\ Out \in Nat /\ Way \in Stretch
        /\ Books(size, written)
    BY <2>2, TypeInvBooks
  <2>4. Len(written) <= Len(written') /\ \A i \in 1 .. Len(written) : written'[i] = written[i]
    <3>1. CASE written' = written
      BY <2>3, <3>1
    <3>2. CASE written' = Append(written, n)
      <4>1. written \in Seq(1 .. Len(size'))
        BY <1>4, <2>3 DEF Books
      <4>2. /\ Len(Append(written, n)) = Len(written) + 1
            /\ \A i \in 1 .. Len(written) : Append(written, n)[i] = written[i]
        BY <1>2, <4>1, AppendProperties
      <4>3. QED
        BY <2>3, <3>2, <4>2
    <3>3. QED
      BY <1>2, <3>1, <3>2
  <2>5. Len(size) <= Len(size')
    BY <1>4, <2>3
  <2>6. /\ Books(size', written')
        /\ Carries(size', written', hl, Way, Out, g, T, hd, junk)
        /\ \A g2, T2, h, j :
             /\ Carries(size', written', hl, Way', Out', g2, T2, h, j)
             /\ g <= g2
             /\ ~skill' => /\ g2 = Len(written') /\ j = <<>>
                           /\ h = IF wrote' THEN Header(Len(size))' ELSE <<>>
             => Flowing(g2, T2, h, j)'
    BY <1>2, <1>3, <1>4, <2>1, <2>2, <2>4, <2>5, Grown
  <2>7. PICK sz, wr : sz = size' /\ wr = written'
    OBVIOUS
  <2>8. g = Len(written) /\ junk = <<>> /\ hd = <<>>
    BY <1>2, <2>1 DEF Flowing
  <2>9. PICK m : m = Len(written')
    OBVIOUS
  <2>10. g <= m
    BY <2>4, <2>8, <2>9
  <2>11. CASE written' = Append(written, n) /\ Way' = Cat(Way, Packet(n, s))
    <3>1. Carries(size, written, hl, Way, Out, g, T, hd, junk)
      BY <2>1, <2>2 DEF Flowing
    <3>2. PICK way2 : way2 = Cat(T[hl], Packet(n, sz[n]))
      OBVIOUS
    <3>3. \E T2 : Carries(sz, wr, hl, way2, Out, Len(wr), T2, <<>>, <<>>)
      <4>1. PICK sz1, wr1, way1, out, none : /\ sz1 = size /\ wr1 = written /\ way1 = Way
                                             /\ out = Out /\ none = <<>>
        OBVIOUS
      <4>2. /\ hl \in Nat /\ Books(sz1, wr1) /\ Carries(sz1, wr1, hl, way1, out, g, T, hd, junk)
            /\ g = Len(wr1) /\ out \in Nat /\ wr = Append(wr1, n) /\ n \in 1 .. Len(sz)
            /\ Books(sz, wr) /\ Len(sz1) <= Len(sz) /\ \A i \in 1 .. Len(sz1) : sz[i] = sz1[i]
            /\ way2 = Cat(T[hl], Packet(n, sz[n])) /\ none = <<>>
        BY <1>2, <1>4, <2>3, <2>5, <2>6, <2>7, <2>8, <2>11, <3>1, <3>2, <4>1
      <4>3. \E T2 : Carries(sz, wr, hl, way2, out, Len(wr), T2, none, none)
        BY ONLY <4>2, Put
      <4>4. QED
        BY <4>1, <4>3
    <3>4. PICK T2 : Carries(sz, wr, hl, way2, Out, Len(wr), T2, <<>>, <<>>)
      BY <3>3
    <3>5. way2 = Way'
      <4>1. T[hl] \in Stretch
        BY <2>3, <3>1, CarriesFacts
      <4>2. Way = Cat(Cat(T[hl], <<>>), <<>>)
        BY <2>8, <3>1 DEF Carries
      <4>3. Way = T[hl]
        BY <4>1, <4>2, CatEmpty
      <4>4. QED
        BY <1>4, <2>7, <2>11, <3>2, <4>3
    <3>6. Carries(size', written', hl, Way', Out', m, T2, <<>>, <<>>)
      BY <1>2, <2>7, <2>9, <3>4, <3>5
    <3>7. Flowing(m, T2, <<>>, <<>>)'
      BY <1>2, <2>6, <2>9, <2>10, <3>6
    <3>8. QED
      BY <3>7 DEF Flow
  <2>12. CASE written' = written /\ Way' = Way
    <3>1. Carries(size', written', hl, Way', Out', g, T, hd, junk) /\ g <= g
      BY <1>2, <2>3, <2>6, <2>8, <2>12
    <3>2. Flowing(g, T, hd, junk)'
      BY <1>2, <2>6, <2>8, <2>12, <3>1
    <3>3. QED
      BY <3>2 DEF Flow
  <2>13. QED
    BY <1>2, <2>11, <2>12
<1>7. QED
  BY <1>5, <1>6

LEMMA FlowGetFirst ==
  ASSUME TypeInv, Flow, GetFirstPacketPtr
  PROVE  Flow'
<1>1. TypeInv' /\ Found' /\ Way' = Way /\ Out' = Out
  BY GetFirstPacketPtrInv
<1>2. packet' # None /\ UNCHANGED <<size, written, wrote, skill, handled, raced, lost>>
  BY DEF GetFirstPacketPtr, sender, server, client
<1>3. CASE raced \/ lost
  BY <1>2, <1>3 DEF Flow
<1>4. CASE ~raced /\ ~lost
  <2>1. PICK g, T, hd, junk : Flowing(g, T, hd, junk)
    BY <1>4 DEF Flow
  <2>2. PICK hl : hl = Len(handled) /\ hl \in Nat
    BY TypeInvBooks
  <2>3. Books(size, written)
    BY TypeInvBooks
  <2>4. Carries(size, written, hl, Way', Out', g, T, hd, junk)
    BY <1>1, <2>1, <2>2 DEF Flowing
  <2>5. hl < g /\ packet' = size[written[hl + 1]]
    BY <1>1, <1>2, <2>2, <2>3, <2>4, FlowFinds
  <2>6. Carries(size, written, Len(handled), Way, Out, g, T, hd, junk)'
    BY <1>2, <2>2, <2>4 DEF Carries, Header, Packet
  <2>7. Flowing(g, T, hd, junk)'
    BY <1>2, <2>1, <2>2, <2>5, <2>6 DEF Flowing, Header, Body
  <2>8. QED
    BY <2>7 DEF Flow
<1>5. QED
  BY <1>3, <1>4

\* One more packet has been handled.
LEMMA HandledGrows ==
  ASSUME TypeInv, NEW hl, hl = Len(handled), NEW x \in Seq(Cell), handled' = Append(handled, x),
         NEW wr, NEW sz, \A i \in 1 .. hl : handled[i] = Body(wr[i], sz[wr[i]]),
         x = Body(wr[hl + 1], sz[wr[hl + 1]])
  PROVE  /\ Len(handled') = hl + 1
         /\ \A i \in 1 .. hl + 1 : handled'[i] = Body(wr[i], sz[wr[i]])
<1>1. hl \in Nat /\ handled \in Seq(Seq(Cell))
  BY TypeInvBooks
<1>2. /\ Len(handled') = hl + 1 /\ handled'[hl + 1] = x
      /\ \A i \in 1 .. hl : handled'[i] = handled[i]
  BY <1>1, AppendProperties
<1>3. ASSUME NEW i \in 1 .. hl + 1
      PROVE  handled'[i] = Body(wr[i], sz[wr[i]])
  <2>1. CASE i = hl + 1
    BY <1>2, <2>1
  <2>2. CASE i # hl + 1
    <3>1. i \in 1 .. hl
      BY <1>1, <2>2
    <3>2. QED
      BY <1>2, <3>1
  <2>3. QED
    BY <2>1, <2>2
<1>4. QED
  BY <1>2, <1>3

LEMMA FlowOnRecv ==
  ASSUME TypeInv, Flow, OnRecv
  PROVE  Flow'
<1>1. PICK k : k = HeaderLen + packet
  OBVIOUS
<1>2. PICK cells : cells = ReadAt(rbuf, rbuf.head, k)
  OBVIOUS
<1>3. /\ TypeInv' /\ Found' /\ packet \in Sizes /\ cells \in Stretch /\ Len(cells) = k
      /\ Way = Cat(cells, Way') /\ Way' \in Stretch
      /\ Out' \in Nat /\ Out = k + Out'
      /\ handled' = Append(handled, SubSeq(cells, HeaderLen + 1, k))
  BY <1>1, <1>2, OnRecvInv
<1>4. packet # None /\ UNCHANGED <<size, written, wrote, skill, raced, lost>>
  BY DEF OnRecv, sender, server, client
<1>5. CASE raced \/ lost
  BY <1>4, <1>5 DEF Flow
<1>6. CASE ~raced /\ ~lost
  <2>1. PICK g, T, hd, junk : Flowing(g, T, hd, junk)
    BY <1>6 DEF Flow
  <2>2. PICK hl, m : hl = Len(handled) /\ hl \in Nat /\ m = hl + 1 /\ m \in Nat
    BY TypeInvBooks
  <2>3. PICK s, y, out, left : s = packet /\ y = Way' /\ out = Out /\ left = Out'
    OBVIOUS
  <2>4. /\ Books(size, written) /\ hl < g /\ s = size[written[hl + 1]]
        /\ Carries(size, written, hl, Way, out, g, T, hd, junk)
    BY <1>4, <2>1, <2>2, <2>3, TypeInvBooks DEF Flowing
  <2>5. /\ {cells, y} \subseteq Stretch /\ Way = Cat(cells, y) /\ Len(cells) = HeaderLen + s
        /\ left \in Nat /\ out = (HeaderLen + s) + left
    BY <1>1, <1>3, <2>3
  <2>6. /\ SubSeq(cells, HeaderLen + 1, HeaderLen + s) = Body(written[hl + 1], s)
        /\ Carries(size, written, hl + 1, y, left, g, T, hd, junk)
    <3>1. Takes(size, written, hl, Way, out, g, T, hd, junk, cells, y, s, left)
      BY <2>2, <2>4, <2>5 DEF Takes
    <3>2. QED
      BY <3>1, Taken
  <2>7. /\ Len(handled') = m
        /\ \A i \in 1 .. m : handled'[i] = Body(written[i], size[written[i]])
    <3>1. PICK x : x = Body(written[hl + 1], size[written[hl + 1]])
      OBVIOUS
    <3>2. handled' = Append(handled, x)
      BY <1>1, <1>3, <2>3, <2>4, <2>6, <3>1
    <3>3. x \in Seq(Cell)
      <4>1. /\ written[hl + 1] \in 1 .. Len(size) /\ s \in Sizes
            /\ Len(size) \in Nat /\ Len(size) <= MaxPackets
        BY <1>3, <2>2, <2>3, <2>4, NextPacket, BooksFacts DEF Books
      <4>2. PICK n, l : n = written[hl + 1] /\ l = Len(size)
        OBVIOUS
      <4>3. Body(n, s) \in Stretch
        BY <4>1, <4>2, PacketOfBooks
      <4>4. QED
        BY <2>4, <3>1, <4>2, <4>3 DEF Stretch
    <3>4. \A i \in 1 .. hl : handled[i] = Body(written[i], size[written[i]])
      BY <2>1, <2>2 DEF Flowing
    <3>5. PICK wr, sz : wr = written /\ sz = size
      OBVIOUS
    <3>6. /\ Len(handled') = hl + 1
          /\ \A i \in 1 .. hl + 1 : handled'[i] = Body(wr[i], sz[wr[i]])
      BY <2>2, <3>1, <3>2, <3>3, <3>4, <3>5, HandledGrows
    <3>7. QED
      BY <2>2, <3>5, <3>6
  <2>8. Carries(size, written, m, Way', Out', g, T, hd, junk)
    BY <2>2, <2>3, <2>6
  <2>9. packet' # None => m < g /\ packet' = size[written[m + 1]]
    <3>1. SUFFICES ASSUME packet' # None
                   PROVE  m < g /\ packet' = size[written[m + 1]]
      OBVIOUS
    <3>2. QED
      BY <1>3, <1>4, <2>2, <2>4, <2>8, <3>1, FlowFinds
  <2>10. Carries(size, written, Len(handled), Way, Out, g, T, hd, junk)'
    BY <1>4, <2>7, <2>8 DEF Carries, Header, Packet
  <2>11. Flowing(g, T, hd, junk)'
    BY <1>4, <2>1, <2>7, <2>9, <2>10 DEF Flowing, Header, Body
  <2>12. QED
    BY <2>11 DEF Flow
<1>7. QED
  BY <1>5, <1>6

LEMMA FlowNetWorkTurn ==
  ASSUME TypeInv, Flow, NEW n \in 0 .. RecvLen, NetWorkTurn(n)
  PROVE  Flow'
<1>1. /\ TypeInv' /\ packet' = None /\ (lost => lost')
      /\ \/ lost'
         \/ handled' = handled /\ Way' = Way /\ Out' = Out
         \/ \E s \in Sizes, cells \in Stretch :
              /\ Len(cells) = HeaderLen + s /\ s = SizeIn(SubSeq(cells, 1, HeaderLen))
              /\ Way = Cat(cells, Way') /\ Way' \in Stretch
              /\ Out' \in Nat /\ Out = (HeaderLen + s) + Out'
              /\ handled' = Append(handled, SubSeq(cells, HeaderLen + 1, HeaderLen + s))
  BY NetWorkTurnInv
<1>2. UNCHANGED <<size, written, wrote, skill, packet, raced>>
  BY DEF NetWorkTurn, sender, server
<1>3. CASE raced \/ lost'
  BY <1>2, <1>3 DEF Flow
<1>4. CASE handled' = handled /\ Way' = Way /\ Out' = Out
  <2>1. raced => raced'
    BY <1>2
  <2>2. QED
    BY <1>1, <1>2, <1>4, <2>1, FlowStays
<1>5. ASSUME ~raced, ~lost', NEW s \in Sizes, NEW cells \in Stretch,
             Len(cells) = HeaderLen + s, s = SizeIn(SubSeq(cells, 1, HeaderLen)),
             Way = Cat(cells, Way'), Way' \in Stretch,
             Out' \in Nat, Out = (HeaderLen + s) + Out',
             handled' = Append(handled, SubSeq(cells, HeaderLen + 1, HeaderLen + s))
      PROVE  Flow'
  <2>1. PICK g, T, hd, junk : Flowing(g, T, hd, junk)
    BY <1>1, <1>5 DEF Flow
  <2>2. PICK hl, m : hl = Len(handled) /\ hl \in Nat /\ m = hl + 1 /\ m \in Nat
    BY TypeInvBooks, SMTT(30)
  <2>3. PICK y, out, left, way : y = Way' /\ out = Out /\ left = Out' /\ way = Way
    OBVIOUS
  <2>4. /\ Books(size, written) /\ Carries(size, written, hl, way, out, g, T, hd, junk)
        /\ out \in Nat
    BY <2>1, <2>2, <2>3, TypeInvBooks DEF Flowing
  <2>5. /\ {cells, y} \subseteq Stretch /\ way = Cat(cells, y) /\ Len(cells) = HeaderLen + s
        /\ left \in Nat /\ out = (HeaderLen + s) + left
    BY <1>5, <2>3
  <2>6. HeaderLen + s <= Len(cells) /\ Len(cells) <= out
    <3>1. HeaderLen + s \in Nat
      BY Constants
    <3>2. PICK k : k = HeaderLen + s
      OBVIOUS
    <3>3. k \in Nat /\ Len(cells) = k /\ out = k + left /\ left \in Nat
      BY <2>5, <3>1, <3>2
    <3>4. k <= k /\ k <= out
      BY <3>3
    <3>5. QED
      BY <3>2, <3>3, <3>4
  <2>7. s = SizeIn(SubSeq(cells, 1, HeaderLen)) /\ s \in Sizes
    BY <1>5
  <2>8. hl < g /\ s = size[written[hl + 1]]
    BY <2>2, <2>4, <2>5, <2>6, <2>7, FirstIs
  <2>9. /\ SubSeq(cells, HeaderLen + 1, HeaderLen + s) = Body(written[hl + 1], s)
        /\ Carries(size, written, hl + 1, y, left, g, T, hd, junk)
    <3>1. Takes(size, written, hl, way, out, g, T, hd, junk, cells, y, s, left)
      BY <2>2, <2>4, <2>5, <2>8 DEF Takes
    <3>2. QED
      BY <3>1, Taken
  <2>10. /\ Len(handled') = m
         /\ \A i \in 1 .. m : handled'[i] = Body(written[i], size[written[i]])
    <3>1. PICK x : x = Body(written[hl + 1], size[written[hl + 1]])
      OBVIOUS
    <3>2. handled' = Append(handled, x)
      BY <1>5, <2>8, <2>9, <3>1
    <3>3. x \in Seq(Cell)
      <4>1. /\ written[hl + 1] \in 1 .. Len(size) /\ s \in Sizes
            /\ Len(size) \in Nat /\ Len(size) <= MaxPackets
        BY <1>5, <2>2, <2>4, <2>8, NextPacket, BooksFacts DEF Books
      <4>2. PICK j, l : j = written[hl + 1] /\ l = Len(size)
        OBVIOUS
      <4>3. Body(j, s) \in Stretch
        BY <4>1, <4>2, PacketOfBooks
      <4>4. QED
        BY <2>8, <3>1, <4>2, <4>3 DEF Stretch
    <3>4. \A i \in 1 .. hl : handled[i] = Body(written[i], size[written[i]])
      BY <2>1, <2>2 DEF Flowing
    <3>5. PICK wr, sz : wr = written /\ sz = size
      OBVIOUS
    <3>6. /\ Len(handled') = hl + 1
          /\ \A i \in 1 .. hl + 1 : handled'[i] = Body(wr[i], sz[wr[i]])
      BY <2>2, <3>1, <3>2, <3>3, <3>4, <3>5, HandledGrows
    <3>7. QED
      BY <2>2, <3>5, <3>6
  <2>11. Carries(size, written, m, Way', Out', g, T, hd, junk)
    BY <2>2, <2>3, <2>9
  <2>12. Carries(size, written, Len(handled), Way, Out, g, T, hd, junk)'
    BY <1>2, <2>10, <2>11 DEF Carries, Header, Packet
  <2>13. Flowing(g, T, hd, junk)'
    BY <1>1, <1>2, <2>1, <2>10, <2>12 DEF Flowing, Header, Body
  <2>14. QED
    BY <2>13 DEF Flow
<1>6. QED
  BY <1>1, <1>3, <1>4, <1>5

-----------------------------------------------------------------------------
(* The inductive invariant.                                                *)

Inv == TypeInv /\ Flow

LEMMA InvInit == Init => Inv
BY InitInv, FlowInit DEF Inv

LEMMA InvNext == Inv /\ [Next]_vars => Inv'
<1>1. SUFFICES ASSUME TypeInv, Flow, [Next]_vars
               PROVE  TypeInv' /\ Flow'
  BY DEF Inv
<1>2. CASE WriteMessage
  BY <1>1, <1>2, WriteMessageInv, FlowWriteMessage
<1>3. CASE Kick
  <2>1. TypeInv' /\ Way' = Way /\ Out' = Out
    BY <1>1, <1>3, KickInv
  <2>2. UNCHANGED <<size, written, wrote, skill, handled, packet, raced, lost>>
    BY <1>3 DEF Kick, receiver, client
  <2>3. QED
    BY <1>1, <2>1, <2>2, FlowStays
<1>4. CASE LookAtSession
  <2>1. TypeInv' /\ Way' = Way /\ Out' = Out
    BY <1>1, <1>4, LookAtSessionInv
  <2>2. UNCHANGED <<size, written, wrote, skill, handled, packet, raced, lost>>
    BY <1>4 DEF LookAtSession, receiver, client
  <2>3. QED
    BY <1>1, <2>1, <2>2, FlowStays
<1>5. CASE PreSend
  <2>1. /\ TypeInv' /\ Way' = Way /\ (raced => raced')
        /\ Out' = Out \/ raced' \/ (~skill /\ Out' \in Nat /\ Out' <= Len(Way))
    BY <1>1, <1>5, PreSendInv
  <2>2. UNCHANGED <<size, written, wrote, skill, handled, packet, lost>>
    BY <1>5 DEF PreSend, receiver, client
  <2>3. QED
    BY <1>1, <2>1, <2>2, FlowStays
<1>6. CASE SendCompletion
  <2>1. TypeInv' /\ Way' = Way /\ Out' = Out
    BY <1>1, <1>6, SendCompletionInv
  <2>2. UNCHANGED <<size, written, wrote, skill, handled, packet, raced, lost>>
    BY <1>6 DEF SendCompletion, receiver, client
  <2>3. QED
    BY <1>1, <2>1, <2>2, FlowStays
<1>7. CASE Transmit
  <2>1. TypeInv' /\ Way' = Way /\ Out' = Out
    BY <1>1, <1>7, TransmitInv
  <2>2. UNCHANGED <<size, written, wrote, skill, handled, packet, raced, lost>>
    BY <1>7 DEF Transmit, receiver, client
  <2>3. QED
    BY <1>1, <2>1, <2>2, FlowStays
<1>8. CASE ArriveEnd
  <2>1. TypeInv' /\ Way' = Way /\ Out' = Out
    BY <1>1, <1>8, ArriveEndInv
  <2>2. UNCHANGED <<size, written, wrote, skill, handled, packet, raced, lost>>
    BY <1>8 DEF ArriveEnd, sender, server, client
  <2>3. QED
    BY <1>1, <2>1, <2>2, FlowStays
<1>9. CASE RecvCompletion
  <2>1. TypeInv' /\ Way' = Way /\ Out' = Out
    BY <1>1, <1>9, RecvCompletionInv
  <2>2. UNCHANGED <<size, written, wrote, skill, handled, packet, raced, lost>>
    BY <1>9 DEF RecvCompletion, sender, server, client
  <2>3. QED
    BY <1>1, <2>1, <2>2, FlowStays
<1>10. CASE GetFirstPacketPtr
  BY <1>1, <1>10, GetFirstPacketPtrInv, FlowGetFirst
<1>11. CASE OnRecv
  <2>1. TypeInv'
    <3>1. PICK k : k = HeaderLen + packet
      OBVIOUS
    <3>2. PICK cells : cells = ReadAt(rbuf, rbuf.head, k)
      OBVIOUS
    <3>3. QED
      BY <1>1, <1>11, <3>1, <3>2, OnRecvInv
  <2>2. QED
    BY <1>1, <1>11, <2>1, FlowOnRecv
<1>12. ASSUME NEW n \in 1 .. Len(net), Arrive(n)
       PROVE  TypeInv' /\ Flow'
  <2>1. TypeInv' /\ Way' = Way /\ Out' = Out
    BY <1>1, <1>12, ArriveInv
  <2>2. UNCHANGED <<size, written, wrote, skill, handled, packet, raced, lost>>
    BY <1>12 DEF Arrive, sender, server, client
  <2>3. QED
    BY <1>1, <2>1, <2>2, FlowStays
<1>13. ASSUME NEW n \in 1 .. Len(spool), SendPool(n)
       PROVE  TypeInv' /\ Flow'
  <2>1. /\ TypeInv' /\ (lost => lost')
        /\ lost' \/ (Way' = Way /\ ~skill /\ Out' \in Nat /\ Out' <= Len(Way))
    BY <1>1, <1>13, SendPoolInv
  <2>2. UNCHANGED <<size, written, wrote, skill, handled, packet, raced>>
    BY <1>13 DEF SendPool, server, receiver
  <2>3. QED
    BY <1>1, <2>1, <2>2, FlowStays
<1>14. ASSUME NEW n \in 0 .. RecvLen, NetWorkTurn(n)
       PROVE  TypeInv' /\ Flow'
  BY <1>1, <1>14, NetWorkTurnInv, FlowNetWorkTurn
<1>15. ASSUME NEW s \in Sizes, Send(s)
       PROVE  TypeInv' /\ Flow'
  BY <1>1, <1>15, SendInv, FlowSend
<1>16. ASSUME NEW s \in Sizes, SaveSendData(s)
       PROVE  TypeInv' /\ Flow'
  BY <1>1, <1>16, SaveSendDataInv, FlowSaveSendData
<1>17. CASE UNCHANGED vars
  <2>1. UNCHANGED <<size, ends, wrote, written, sbuf, complete, looked, sending, sdone, skill, closed,
                    net, rbuf, posted, rdone, packet, handled, rkill, raced, spool, rpool, lost>>
    BY <1>17 DEF vars, sender, server, receiver, client
  <2>2. Stored' /\ Way' = Way /\ Out' = Out
    BY <1>1, <2>1, Untouched
  <2>3. Typed' /\ Roles'
    BY <1>1, <2>1 DEF TypeInv, Typed, Roles
  <2>4. Senders' /\ Receivers'
    BY <1>1, <2>1 DEF TypeInv, Senders, Receivers
  <2>5. TypeInv'
    BY <2>2, <2>3, <2>4 DEF TypeInv
  <2>6. QED
    BY <1>1, <2>1, <2>2, <2>5, FlowStays
<1>18. QED
  BY <1>1, <1>2, <1>3, <1>4, <1>5, <1>6, <1>7, <1>8, <1>9, <1>10, <1>11, <1>12, <1>13, <1>14,
     <1>15, <1>16, <1>17 DEF Next, Work

LEMMA InvHolds == Spec => []Inv
BY InvInit, InvNext, PTL DEF Spec

\* The rings keep their shape, with the length that head and tail tell, and the pools
\* their bounds.
THEOREM StreamTypes == Spec => []TypeOK
<1>1. Inv => TypeOK
  BY TypeInvIsTypeOK DEF Inv
<1>2. QED
  BY <1>1, InvHolds, PTL

-----------------------------------------------------------------------------
(* What OnRecv is called with, and the channel.                            *)

\* The messages that were written and those that were handled, one by one.
Shown ==
  /\ size \in Seq(Sizes) /\ Len(size) \in Nat /\ written \in Seq(Nat) /\ Len(written) \in Nat
  /\ \A i \in 1 .. Len(written) : written[i] \in 1 .. Len(size)
  /\ Sent \in Seq(Stretch) /\ Len(Sent) = Len(written)
  /\ \A i \in 1 .. Len(written) : Sent[i] = Body(written[i], size[written[i]])
  /\ handled \in Seq(Stretch) /\ Len(handled) \in Nat
  /\ Broken \/ /\ Len(handled) <= Len(written)
               /\ \A i \in 1 .. Len(handled) : handled[i] = Sent[i]

LEMMA SentIs ==
  ASSUME TypeInv
  PROVE  /\ Sent \in Seq(Stretch) /\ Len(Sent) = Len(written)
         /\ \A i \in 1 .. Len(written) : Sent[i] = Body(written[i], size[written[i]])
<1>1. Books(size, written) /\ Len(size) \in Nat /\ Len(written) \in Nat
  BY TypeInvBooks
<1>2. Len(size) <= MaxPackets
  BY <1>1 DEF Books
<1>3. ASSUME NEW i \in 1 .. Len(written)
      PROVE  /\ Message(written[i]) = Body(written[i], size[written[i]])
             /\ Message(written[i]) \in Stretch
  <2>1. PICK n, l : n = written[i] /\ l = Len(size)
    OBVIOUS
  <2>2. n \in 1 .. l /\ size[n] \in Sizes /\ l \in Nat /\ l <= MaxPackets
    BY <1>1, <1>2, <2>1, BooksFacts
  <2>3. Body(n, size[n]) \in Stretch
    BY <2>2, PacketOfBooks
  <2>4. QED
    BY <2>1, <2>3 DEF Message, Body
<1>4. Sent \in [1 .. Len(written) -> Stretch]
  BY <1>3 DEF Sent
<1>5. Sent \in Seq(Stretch) /\ Len(Sent) = Len(written)
  BY <1>1, <1>4, SeqDef
<1>6. QED
  BY <1>3, <1>5 DEF Sent

LEMMA InvShown == Inv => Shown
<1>1. SUFFICES ASSUME TypeInv, Flow PROVE Shown
  BY DEF Inv
<1>2. /\ Books(size, written) /\ Len(handled) \in Nat /\ handled \in Seq(Stretch)
      /\ Len(size) \in Nat /\ Len(written) \in Nat
  BY <1>1, TypeInvBooks DEF Stretch
<1>3. /\ \A i \in 1 .. Len(written) : written[i] \in 1 .. Len(size)
      /\ size \in Seq(Sizes) /\ written \in Seq(1 .. Len(size))
  BY <1>2, BooksFacts DEF Books
<1>4. written \in Seq(Nat)
  <2>1. 1 .. Len(size) \subseteq Nat
    BY <1>2
  <2>2. QED
    BY <1>3, <2>1, SeqMonotonic
<1>5. ASSUME ~Broken
      PROVE  /\ Len(handled) <= Len(written)
             /\ \A i \in 1 .. Len(handled) : handled[i] = Sent[i]
  <2>1. PICK g, T, hd, junk : Flowing(g, T, hd, junk)
    BY <1>1, <1>5 DEF Flow, Broken
  <2>2. g \in Len(handled) .. Len(written)
    BY <2>1 DEF Flowing, Carries
  <2>3. Len(handled) <= Len(written)
    BY <1>2, <2>2
  <2>4. ASSUME NEW i \in 1 .. Len(handled) PROVE handled[i] = Sent[i]
    <3>1. i \in 1 .. Len(written)
      BY <1>2, <2>3
    <3>2. Sent[i] = Body(written[i], size[written[i]])
      BY <1>1, <3>1, SentIs
    <3>3. QED
      BY <2>1, <3>2 DEF Flowing
  <2>5. QED
    BY <2>3, <2>4
<1>6. QED
  BY <1>1, <1>2, <1>3, <1>4, <1>5, SentIs DEF Shown

LEMMA ShownNext == Inv' => Shown'
BY InvShown, PTL

LEMMA ShownIsPrefix ==
  ASSUME Shown
  PROVE  HandledIsWritten
<1>1. CASE Broken
  BY <1>1 DEF HandledIsWritten
<1>2. CASE ~Broken
  <2>1. /\ Len(handled) \in Nat /\ Len(Sent) \in Nat /\ Len(handled) <= Len(Sent)
        /\ handled \in Seq(Stretch) /\ Sent \in Seq(Stretch)
        /\ \A i \in 1 .. Len(handled) : handled[i] = Sent[i]
    BY <1>2 DEF Shown
  <2>2. PICK hl, s : hl = Len(handled) /\ s = Sent
    OBVIOUS
  <2>3. /\ hl \in Int /\ \A i \in 1 .. hl : s[i] \in Stretch
    BY <2>1, <2>2, ElementOfSeq
  <2>4. /\ SubSeq(s, 1, hl) \in Seq(Stretch) /\ Len(SubSeq(s, 1, hl)) = IF 1 <= hl THEN hl - 1 + 1 ELSE 0
        /\ \A i \in 1 .. hl - 1 + 1 : SubSeq(s, 1, hl)[i] = s[1 + i - 1]
    BY <2>3, SubSeqProperties
  <2>5. PICK t : t = SubSeq(s, 1, hl)
    OBVIOUS
  <2>6. t \in Seq(Stretch) /\ Len(t) = hl /\ \A i \in 1 .. hl : t[i] = s[i]
    BY <2>1, <2>2, <2>4, <2>5
  <2>7. t = handled
    BY <2>1, <2>2, <2>6, SeqEqual
  <2>8. SubSeq(handled, 1, Len(handled)) = handled
    BY <2>1, SubSeqFull
  <2>9. QED
    BY <2>1, <2>2, <2>5, <2>7, <2>8 DEF HandledIsWritten, IsPrefix
<1>3. QED
  BY <1>1, <1>2

\* However the packets lie in the rings and the pools, wrap round, come in pieces and are
\* overwritten, and after a Send that did not fit: OnRecv and ServerPro are called with
\* the messages that were written whole, in order, until a ProcessSend has met a session
\* that is to go or a client has thrown something away.
THEOREM HandledWasWritten == Spec => []HandledIsWritten
<1>1. Inv => HandledIsWritten
  BY InvShown, ShownIsPrefix
<1>2. QED
  BY <1>1, InvHolds, PTL

LEMMA SentStays ==
  ASSUME Shown, Shown', written' = written,
         \A i \in 1 .. Len(size) : size'[i] = size[i]
  PROVE  Sent' = Sent
<1>1. PICK s, t : s = Sent /\ t = Sent'
  OBVIOUS
<1>2. /\ s \in Seq(Stretch) /\ t \in Seq(Stretch) /\ Len(s) = Len(written) /\ Len(t) = Len(written)
  BY <1>1 DEF Shown
<1>3. ASSUME NEW i \in 1 .. Len(written) PROVE s[i] = t[i]
  <2>1. written[i] \in 1 .. Len(size) /\ s[i] = Body(written[i], size[written[i]])
    BY <1>1 DEF Shown
  <2>2. t[i] = Body(written[i], size'[written[i]])
    BY <1>1 DEF Shown, Body
  <2>3. QED
    BY <2>1, <2>2
<1>4. QED
  BY <1>1, <1>2, <1>3, SeqEqual

LEMMA SentGrows ==
  ASSUME Shown, Shown', NEW n \in Nat, written' = Append(written, n),
         \A i \in 1 .. Len(size) : size'[i] = size[i]
  PROVE  Sent' # <<>> /\ Sent' = Append(Sent, Sent'[Len(Sent')])
<1>1. PICK s, t, l, m : s = Sent /\ t = Sent' /\ l = Len(written) /\ m = l + 1
  OBVIOUS
<1>2. /\ l \in Nat /\ m \in Nat /\ Len(written') = m /\ m = l + 1
      /\ \A i \in 1 .. l : written'[i] = written[i]
  BY <1>1, AppendProperties DEF Shown
<1>3. s \in Seq(Stretch) /\ t \in Seq(Stretch) /\ Len(s) = l /\ Len(t) = m
  BY <1>1, <1>2 DEF Shown
<1>4. ASSUME NEW i \in 1 .. l PROVE t[i] = s[i]
  <2>1. written[i] \in 1 .. Len(size) /\ s[i] = Body(written[i], size[written[i]])
    BY <1>1 DEF Shown
  <2>2. i \in 1 .. Len(written')
    BY <1>2
  <2>3. t[i] = Body(written'[i], size'[written'[i]])
    BY <1>1, <2>2 DEF Shown, Body
  <2>4. QED
    BY <1>2, <2>1, <2>3
<1>5. PICK x : x = t[m]
  OBVIOUS
<1>6. x \in Stretch
  BY <1>2, <1>3, <1>5, ElementOfSeq
<1>7. /\ Append(s, x) \in Seq(Stretch) /\ Len(Append(s, x)) = l + 1 /\ Append(s, x)[l + 1] = x
      /\ \A i \in 1 .. l : Append(s, x)[i] = s[i]
  BY <1>3, <1>6, AppendProperties
<1>8. ASSUME NEW i \in 1 .. m PROVE t[i] = Append(s, x)[i]
  <2>1. CASE i = m
    BY <1>2, <1>5, <1>7, <2>1
  <2>2. CASE i # m
    <3>1. i \in 1 .. l
      BY <1>2, <2>2
    <3>2. QED
      BY <1>4, <1>7, <3>1
  <2>3. QED
    BY <2>1, <2>2
<1>9. t = Append(s, x)
  BY <1>2, <1>3, <1>7, <1>8, SeqEqual
<1>10. t # <<>>
  BY <1>2, <1>3, EmptySeq
<1>11. QED
  BY <1>1, <1>3, <1>5, <1>9, <1>10

\* A message that is handled is the next one.
LEMMA NextIsHandled ==
  ASSUME Shown, Shown', ~Broken', Sent' = Sent, NEW x \in Stretch, handled' = Append(handled, x)
  PROVE  Len(handled) < Len(Sent) /\ handled' = Append(handled, Sent[Len(handled) + 1])
<1>1. PICK hl : hl = Len(handled) /\ hl \in Nat
  BY DEF Shown
<1>2. Len(handled') = hl + 1 /\ handled'[hl + 1] = x
  BY <1>1, AppendProperties DEF Shown
<1>3. /\ Len(handled') <= Len(Sent') /\ Len(Sent') \in Nat
      /\ \A i \in 1 .. Len(handled') : handled'[i] = Sent'[i]
  BY DEF Shown
<1>4. hl + 1 <= Len(Sent) /\ Len(Sent) \in Nat /\ x = Sent[hl + 1]
  BY <1>1, <1>2, <1>3
<1>5. QED
  BY <1>1, <1>4

LEMMA BrokenStays ==
  ASSUME TypeInv, [Next]_vars
  PROVE  Broken \in BOOLEAN /\ (Broken => Broken')
<1>1. raced \in BOOLEAN /\ lost \in BOOLEAN
  BY DEF TypeInv, Typed
<1>2. (raced => raced') /\ (lost => lost')
  <2>1. CASE PreSend
    BY <2>1 DEF PreSend, client
  <2>2. ASSUME NEW n \in 1 .. Len(spool), SendPool(n) PROVE (raced => raced') /\ (lost => lost')
    BY <2>2 DEF SendPool
  <2>3. ASSUME NEW n \in 0 .. RecvLen, NetWorkTurn(n)
        PROVE  (raced => raced') /\ (lost => lost')
    BY <2>3 DEF NetWorkTurn
  <2>4. ASSUME NEW n \in 1 .. Len(net), Arrive(n) PROVE UNCHANGED <<raced, lost>>
    BY <2>4 DEF Arrive, client
  <2>5. ASSUME NEW s \in Sizes, Send(s) PROVE UNCHANGED <<raced, lost>>
    BY <2>5 DEF Send, client
  <2>6. ASSUME NEW s \in Sizes, SaveSendData(s) PROVE UNCHANGED <<raced, lost>>
    BY <2>6 DEF SaveSendData
  <2>7. CASE UNCHANGED vars \/ WriteMessage \/ Kick \/ LookAtSession \/ SendCompletion
    BY <2>7 DEF vars, WriteMessage, Kick, LookAtSession, SendCompletion, client
  <2>8. CASE Transmit \/ ArriveEnd \/ RecvCompletion \/ GetFirstPacketPtr \/ OnRecv
    BY <2>8 DEF Transmit, ArriveEnd, RecvCompletion, GetFirstPacketPtr, OnRecv, client
  <2>9. QED
    BY <2>1, <2>2, <2>3, <2>4, <2>5, <2>6, <2>7, <2>8 DEF Next, Work
<1>3. QED
  BY <1>1, <1>2 DEF Broken

\* A step that shows puts a message or takes one.
LEMMA StepIsChannel ==
  ASSUME Inv, Shown, Shown', [Next]_vars
  PROVE  [Chan!Next]_<<Sent, handled, Broken>>
<1>1. TypeInv /\ Flow /\ Broken \in BOOLEAN /\ (Broken => Broken')
  BY BrokenStays DEF Inv
<1>2. CASE Broken'
  BY <1>2 DEF Chan!Next, Chan!Break
<1>3. ASSUME ~Broken', handled' = handled, written' = written,
             \A i \in 1 .. Len(size) : size'[i] = size[i]
      PROVE  UNCHANGED <<Sent, handled, Broken>>
  <2>1. Sent' = Sent
    BY <1>3, SentStays
  <2>2. Broken' = Broken
    <3>1. Broken = FALSE /\ Broken' = FALSE
      BY <1>1, <1>3
    <3>2. QED
      BY <3>1
  <2>3. QED
    BY <1>3, <2>1, <2>2
<1>4. ASSUME ~Broken', handled' = handled, NEW n \in Nat, written' = Append(written, n),
             \A i \in 1 .. Len(size) : size'[i] = size[i]
      PROVE  Chan!Put
  <2>1. Sent' # <<>> /\ Sent' = Append(Sent, Sent'[Len(Sent')])
    BY <1>4, SentGrows
  <2>2. Broken = FALSE /\ Broken' = FALSE
    BY <1>1, <1>4
  <2>3. QED
    BY <1>4, <2>1, <2>2 DEF Chan!Put
<1>5. ASSUME ~Broken', size' = size, written' = written, NEW x \in Stretch,
             handled' = Append(handled, x)
      PROVE  Chan!Take
  <2>1. Sent' = Sent
    BY <1>5, SentStays
  <2>2. Len(handled) < Len(Sent) /\ handled' = Append(handled, Sent[Len(handled) + 1])
    BY <1>5, <2>1, NextIsHandled
  <2>3. Broken = FALSE /\ Broken' = FALSE
    BY <1>1, <1>5
  <2>4. QED
    BY <2>1, <2>2, <2>3 DEF Chan!Take
<1>6. ASSUME ~Broken', UNCHANGED <<size, written, handled>>
      PROVE  UNCHANGED <<Sent, handled, Broken>>
  BY <1>3, <1>6
<1>7. ASSUME NEW s \in Sizes, size' = Append(size, s)
      PROVE  \A i \in 1 .. Len(size) : size'[i] = size[i]
  BY <1>7, AppendProperties DEF Shown
<1>8. CASE ~Broken' /\ WriteMessage
  <2>1. UNCHANGED <<size, handled>> /\ (written' = written \/ written' = Append(written, Len(size)))
    BY <1>8 DEF WriteMessage, receiver
  <2>2. Len(size) \in Nat
    BY DEF Shown
  <2>3. QED
    BY <1>4, <1>6, <1>8, <2>1, <2>2 DEF Chan!Next
<1>9. ASSUME ~Broken', NEW s \in Sizes, SaveSendData(s)
      PROVE  [Chan!Next]_<<Sent, handled, Broken>>
  <2>1. PICK n : n = Len(size) + 1 /\ n \in Nat
    BY DEF Shown
  <2>2. /\ size' = Append(size, s) /\ UNCHANGED handled
        /\ written' = written \/ written' = Append(written, n)
    BY <1>9, <2>1 DEF SaveSendData, receiver
  <2>3. \A i \in 1 .. Len(size) : size'[i] = size[i]
    BY <1>7, <2>2
  <2>4. QED
    BY <1>3, <1>4, <1>9, <2>1, <2>2, <2>3 DEF Chan!Next
<1>10. ASSUME ~Broken', NEW s \in Sizes, Send(s)
       PROVE  [Chan!Next]_<<Sent, handled, Broken>>
  <2>1. size' = Append(size, s) /\ UNCHANGED <<handled, written>>
    BY <1>10 DEF Send, receiver
  <2>2. QED
    BY <1>3, <1>7, <1>10, <2>1
<1>11. CASE ~Broken' /\ OnRecv
  <2>1. PICK k : k = HeaderLen + packet
    OBVIOUS
  <2>2. PICK cells : cells = ReadAt(rbuf, rbuf.head, k)
    OBVIOUS
  <2>3. PICK x : x = SubSeq(cells, HeaderLen + 1, k)
    OBVIOUS
  <2>4. handled' = Append(handled, x)
    BY <1>1, <1>11, <2>1, <2>2, <2>3, OnRecvInv
  <2>5. x \in Stretch
    <3>1. Len(handled') = Len(handled) + 1 /\ handled'[Len(handled) + 1] = x
      BY <2>4, AppendProperties DEF Shown
    <3>2. QED
      BY <3>1, ElementOfSeq DEF Shown
  <2>6. UNCHANGED <<size, written>>
    BY <1>11 DEF OnRecv, sender
  <2>7. QED
    BY <1>5, <1>11, <2>4, <2>5, <2>6 DEF Chan!Next
<1>12. ASSUME ~Broken', NEW n \in 0 .. RecvLen, NetWorkTurn(n)
       PROVE  [Chan!Next]_<<Sent, handled, Broken>>
  <2>1. UNCHANGED <<size, written>>
    BY <1>12 DEF NetWorkTurn, sender
  <2>2. ~lost'
    BY <1>12 DEF Broken
  <2>3. CASE handled' = handled
    BY <1>6, <1>12, <2>1, <2>3
  <2>4. ASSUME NEW x, handled' = Append(handled, x), x \in Stretch
        PROVE  Chan!Take
    BY <1>5, <1>12, <2>1, <2>4
  <2>5. ASSUME NEW s \in Sizes, NEW cells \in Stretch, HeaderLen + s = Len(cells),
               handled' = Append(handled, SubSeq(cells, HeaderLen + 1, HeaderLen + s))
        PROVE  Chan!Take
    <3>1. PICK x : x = SubSeq(cells, HeaderLen + 1, HeaderLen + s)
      OBVIOUS
    <3>2. HeaderLen + 1 \in Int /\ HeaderLen + s \in Int /\ 1 <= HeaderLen + 1
      BY Constants
    <3>3. \A i \in HeaderLen + 1 .. HeaderLen + s : cells[i] \in Cell
      <4>1. \A i \in HeaderLen + 1 .. HeaderLen + s : i \in 1 .. HeaderLen + s
        BY Constants
      <4>2. QED
        BY <2>5, <4>1, ElementOfSeq DEF Stretch
    <3>4. x \in Stretch
      BY <3>1, <3>2, <3>3, SubSeqProperties DEF Stretch
    <3>5. QED
      BY <2>4, <2>5, <3>1, <3>4
  <2>6. \/ handled' = handled
        \/ \E s \in Sizes, cells \in Stretch :
             /\ Len(cells) = HeaderLen + s
             /\ handled' = Append(handled, SubSeq(cells, HeaderLen + 1, HeaderLen + s))
    BY <1>1, <1>12, <2>2, NetWorkTurnInv
  <2>7. QED
    BY <2>3, <2>5, <2>6 DEF Chan!Next
<1>13. ASSUME ~Broken', UNCHANGED vars \/ Kick \/ LookAtSession \/ PreSend \/ SendCompletion
              \/ Transmit \/ ArriveEnd \/ RecvCompletion \/ GetFirstPacketPtr
              \/ (\E n \in 1 .. Len(net) : Arrive(n)) \/ \E n \in 1 .. Len(spool) : SendPool(n)
       PROVE  UNCHANGED <<Sent, handled, Broken>>
  <2>1. UNCHANGED <<size, written, handled>>
    BY <1>13 DEF vars, sender, server, receiver, client, Kick, LookAtSession, PreSend,
       SendCompletion, Transmit, Arrive, ArriveEnd, RecvCompletion, GetFirstPacketPtr, SendPool
  <2>2. QED
    BY <1>6, <1>13, <2>1
<1>14. QED
  BY <1>2, <1>8, <1>9, <1>10, <1>11, <1>12, <1>13 DEF Next, Work

LEMMA InitIsChannel == Init => Chan!Init
<1>1. SUFFICES ASSUME Init PROVE Chan!Init
  OBVIOUS
<1>2. written = <<>> /\ handled = <<>> /\ raced = FALSE /\ lost = FALSE
  BY <1>1 DEF Init
<1>3. Inv
  BY <1>1, InvInit
<1>4. Sent \in Seq(Stretch) /\ Len(Sent) = Len(written)
  BY <1>3, InvShown DEF Shown
<1>5. Len(Sent) = 0
  BY <1>2, <1>4
<1>6. Sent = <<>>
  BY <1>4, <1>5, EmptySeq
<1>7. Broken = FALSE
  BY <1>2 DEF Broken
<1>8. QED
  BY <1>2, <1>6, <1>7 DEF Chan!Init

\* The threads and buffers of both ends implement the channel: a message is put when the
\* last of it has been written, or saved by a client, and taken when OnRecv or ServerPro
\* is called with it, and no other step shows.
THEOREM StreamIsChannel == Spec => ChannelSpec
<1>1. Inv /\ Shown /\ Shown' /\ [Next]_vars => [Chan!Next]_<<Sent, handled, Broken>>
  BY StepIsChannel
<1>2. QED
  BY <1>1, InitIsChannel, InvHolds, InvShown, PTL DEF Spec, ChannelSpec, Chan!Spec

-----------------------------------------------------------------------------
(* Packets one behind the other.                                           *)

\* Induction, as a fact about sets of numbers.
LEMMA NaturalsByInduction ==
  ASSUME NEW S, 0 \in S, \A n \in Nat : n \in S => n + 1 \in S
  PROVE  Nat \subseteq S
<1> DEFINE T == Nat \ S
<1>1. ASSUME T # {} PROVE FALSE
  <2>1. PICK x \in T : \A y \in T : ~ (<<y, x>> \in OpToRel(<, Nat))
    BY <1>1, NatLessThanWellFounded, WFMin
  <2>2. x \in Nat /\ x \notin S /\ x # 0
    BY <2>1
  <2>3. x - 1 \in Nat /\ x - 1 \notin S /\ x - 1 < x
    BY <2>2
  <2>4. <<x - 1, x>> \in OpToRel(<, Nat)
    BY <2>2, <2>3 DEF OpToRel
  <2>5. QED
    BY <2>1, <2>3, <2>4
<1>2. QED
  BY <1>1

\* F[k] is what the first k of the stretches in s make one behind the other.
Sums(s, F) ==
  /\ F \in [0 .. Len(s) -> Stretch]
  /\ F[0] = <<>>
  /\ \A i \in 0 .. Len(s) - 1 : F[i + 1] = Cat(F[i], s[i + 1])

LEMMA SumsExist ==
  ASSUME NEW s \in Seq(Stretch)
  PROVE  \E F : Sums(s, F)
<1>1. PICK n : n = Len(s) /\ n \in Nat
  BY LenProperties
<1> DEFINE Makes(F, k) == /\ F \in [0 .. k -> Stretch] /\ F[0] = <<>>
                          /\ \A i \in 0 .. k - 1 : F[i + 1] = Cat(F[i], s[i + 1])
           S == {k \in Nat : k <= n => \E F : Makes(F, k)}
<1>2. 0 \in S
  <2>1. PICK F : F = [i \in 0 .. 0 |-> <<>>]
    OBVIOUS
  <2>2. <<>> \in Stretch
    BY EmptySeq DEF Stretch
  <2>3. F \in [0 .. 0 -> Stretch] /\ F[0] = <<>> /\ \A i \in 0 .. 0 - 1 : FALSE
    BY <2>1, <2>2
  <2>4. QED
    BY <2>3
<1>3. ASSUME NEW k \in Nat, k \in S PROVE k + 1 \in S
  <2>1. SUFFICES ASSUME k + 1 <= n PROVE \E F : Makes(F, k + 1)
    OBVIOUS
  <2>2. PICK F : Makes(F, k)
    BY <1>1, <1>3, <2>1
  <2>3. PICK m, x : m = k + 1 /\ x = Cat(F[k], s[m])
    OBVIOUS
  <2>4. m \in Nat /\ k < m /\ m \in 1 .. n /\ k \in 0 .. k /\ 0 \in 0 .. k /\ m # 0
    BY <1>1, <2>1, <2>3
  <2>5. x \in Stretch
    <3>1. s[m] \in Stretch
      BY <1>1, <2>4, ElementOfSeq
    <3>2. F[k] \in Stretch
      BY <2>2, <2>4
    <3>3. QED
      BY <2>3, <3>1, <3>2, CatIs
  <2>6. PICK G : G = [i \in 0 .. m |-> IF i = m THEN x ELSE F[i]]
    OBVIOUS
  <2>7. \A i \in 0 .. m : i # m => i \in 0 .. k
    BY <2>3
  <2>8. G \in [0 .. m -> Stretch]
    BY <2>2, <2>5, <2>6, <2>7
  <2>9. G[m] = x /\ \A i \in 0 .. k : G[i] = F[i]
    <3>1. \A i \in 0 .. k : i \in 0 .. m /\ i # m
      BY <2>4
    <3>2. m \in 0 .. m
      BY <2>4
    <3>3. QED
      BY <2>6, <3>1, <3>2
  <2>10. G[0] = <<>>
    BY <2>2, <2>4, <2>9
  <2>11. ASSUME NEW i \in 0 .. m - 1 PROVE G[i + 1] = Cat(G[i], s[i + 1])
    <3>1. CASE i = k
      BY <2>3, <2>4, <2>9, <3>1
    <3>2. CASE i # k
      <4>1. i \in 0 .. k - 1 /\ i \in 0 .. k /\ i + 1 \in 0 .. k
        BY <2>3, <3>2
      <4>2. QED
        BY <2>2, <2>9, <4>1
    <3>3. QED
      BY <3>1, <3>2
  <2>12. QED
    BY <2>3, <2>8, <2>10, <2>11
<1>4. n \in S
  <2> HIDE DEF S
  <2>1. QED
    BY <1>1, <1>2, <1>3, NaturalsByInduction
<1>5. PICK F : Makes(F, n)
  BY <1>1, <1>4
<1>6. QED
  BY <1>1, <1>5 DEF Sums

\* That is what FlattenSeq makes of them.
LEMMA FlattenIs ==
  ASSUME NEW s \in Seq(Stretch), NEW F, Sums(s, F)
  PROVE  FlattenSeq(s) = F[Len(s)]
<1>1. PICK n : n = Len(s) /\ n \in Nat
  BY LenProperties
<1>2. /\ F \in [0 .. n -> Stretch] /\ F[0] = <<>>
      /\ \A i \in 0 .. n - 1 : F[i + 1] = Cat(F[i], s[i + 1])
  BY <1>1 DEF Sums
<1> DEFINE Is(f) == f = [i \in 1 .. n |-> IF i = 1 THEN s[i] ELSE f[i - 1] \o s[i]]
<1>3. CASE n = 0
  <2>1. s = <<>>
    BY <1>1, <1>3, EmptySeq
  <2>2. QED
    BY <1>1, <1>2, <1>3, <2>1 DEF FlattenSeq
<1>4. CASE n # 0
  <2>1. n \in 1 .. n /\ 0 \in 0 .. n - 1 /\ 1 \in 1 .. n
    BY <1>1, <1>4
  <2>2. F[1] = s[1]
    <3>1. s[1] \in Stretch
      BY <1>1, <2>1, ElementOfSeq
    <3>2. F[0 + 1] = Cat(F[0], s[0 + 1])
      BY <1>2, <2>1
    <3>3. F[1] = Cat(<<>>, s[1])
      BY <1>2, <3>2
    <3>4. QED
      BY <3>1, <3>3, CatEmpty
  <2>3. ASSUME NEW i \in 1 .. n, i # 1 PROVE F[i] = F[i - 1] \o s[i] /\ i - 1 \in 1 .. n
    <3>1. i - 1 \in 0 .. n - 1 /\ (i - 1) + 1 = i /\ i - 1 \in 1 .. n
      BY <1>1, <2>3
    <3>2. F[(i - 1) + 1] = Cat(F[i - 1], s[(i - 1) + 1])
      BY <1>2, <3>1
    <3>3. QED
      BY <3>1, <3>2 DEF Cat
  <2>4. \E f : Is(f)
    <3>1. PICK f : f = [i \in 1 .. n |-> F[i]]
      OBVIOUS
    <3>2. ASSUME NEW i \in 1 .. n
          PROVE  F[i] = IF i = 1 THEN s[i] ELSE f[i - 1] \o s[i]
      BY <2>2, <2>3, <3>1
    <3>3. Is(f)
      BY <3>1, <3>2
    <3>4. QED
      BY <3>3
  <2>5. PICK f : f = CHOOSE h : Is(h)
    OBVIOUS
  <2>6. Is(f)
    BY <2>4, <2>5
  <2>7. FlattenSeq(s) = f[n]
    BY <1>1, <1>4, <2>5 DEF FlattenSeq
  <2>8. f[1] = s[1] /\ \A i \in 1 .. n : i # 1 => f[i] = f[i - 1] \o s[i]
    BY <2>1, <2>6
  <2> DEFINE S == {k \in Nat : k + 1 <= n => f[k + 1] = F[k + 1]}
  <2>9. 0 \in S
    <3>1. f[0 + 1] = F[0 + 1]
      BY <2>2, <2>8
    <3>2. QED
      BY <3>1
  <2>10. ASSUME NEW k \in Nat, k \in S PROVE k + 1 \in S
    <3>1. SUFFICES ASSUME (k + 1) + 1 <= n PROVE f[(k + 1) + 1] = F[(k + 1) + 1]
      OBVIOUS
    <3>2. PICK i : i = (k + 1) + 1
      OBVIOUS
    <3>3. i \in 1 .. n /\ i # 1 /\ i - 1 = k + 1 /\ k + 1 <= n
      BY <1>1, <3>1, <3>2
    <3>4. f[i - 1] = F[i - 1]
      BY <2>10, <3>3
    <3>5. f[i] = F[i]
      BY <2>3, <2>8, <3>3, <3>4
    <3>6. QED
      BY <3>2, <3>5
  <2>11. n - 1 \in Nat /\ (n - 1) + 1 = n
    BY <1>1, <1>4
  <2>12. n - 1 \in S
    <3> HIDE DEF S
    <3>1. QED
      BY <2>9, <2>10, <2>11, NaturalsByInduction
  <2>13. f[(n - 1) + 1] = F[(n - 1) + 1]
    BY <2>11, <2>12
  <2>14. QED
    BY <1>1, <2>7, <2>11, <2>13
<1>5. QED
  BY <1>3, <1>4

\* Taken from the front, or what is left from behind: together they are all of it.
LEMMA SumsMeet ==
  ASSUME NEW s \in Seq(Stretch), NEW n \in Nat, n = Len(s), NEW F, Sums(s, F),
         NEW T, T \in [0 .. n -> Stretch], T[n] = <<>>,
         \A k \in 0 .. n - 1 : T[k] = Cat(s[k + 1], T[k + 1]),
         NEW h \in 0 .. n
  PROVE  Cat(F[h], T[h]) = F[n] /\ F[h] \in Stretch /\ F[n] \in Stretch
<1>1. /\ F \in [0 .. n -> Stretch] /\ F[0] = <<>>
      /\ \A i \in 0 .. n - 1 : F[i + 1] = Cat(F[i], s[i + 1])
  BY DEF Sums
<1> DEFINE S == {k \in Nat : k <= n => Cat(F[k], T[k]) = T[0]}
<1>2. 0 \in 0 .. n /\ n \in 0 .. n
  OBVIOUS
<1>3. 0 \in S
  <2>1. Cat(F[0], T[0]) = T[0]
    BY <1>1, <1>2, CatEmpty
  <2>2. QED
    BY <2>1
<1>4. ASSUME NEW k \in Nat, k \in S PROVE k + 1 \in S
  <2>1. SUFFICES ASSUME k + 1 <= n PROVE Cat(F[k + 1], T[k + 1]) = T[0]
    OBVIOUS
  <2>2. k \in 0 .. n - 1 /\ k \in 0 .. n /\ k + 1 \in 0 .. n /\ k + 1 \in 1 .. n /\ k <= n
    BY <2>1
  <2>3. PICK x, a, b, t : x = s[k + 1] /\ a = F[k] /\ b = F[k + 1] /\ t = T[k + 1]
    OBVIOUS
  <2>4. x \in Stretch
    BY <2>2, <2>3, ElementOfSeq
  <2>5. a \in Stretch /\ t \in Stretch /\ b = Cat(a, x) /\ T[k] = Cat(x, t)
    BY <1>1, <2>2, <2>3
  <2>6. Cat(a, T[k]) = T[0]
    BY <1>4, <2>2, <2>3
  <2>7. Cat(Cat(a, x), t) = Cat(a, Cat(x, t))
    BY <2>4, <2>5, CatAssociative
  <2>8. QED
    BY <2>3, <2>5, <2>6, <2>7
<1>5. \A k \in 0 .. n : Cat(F[k], T[k]) = T[0]
  <2> HIDE DEF S
  <2>1. Nat \subseteq S
    BY <1>3, <1>4, NaturalsByInduction
  <2> USE DEF S
  <2>2. QED
    BY <2>1
<1>6. F[h] \in Stretch /\ F[n] \in Stretch
  BY <1>1, <1>2
<1>7. Cat(F[n], <<>>) = F[n]
  BY <1>6, CatEmpty
<1>8. QED
  BY <1>2, <1>5, <1>6, <1>7

\* The first of the stretches make what they make among all of them.
LEMMA SumsBegin ==
  ASSUME NEW s \in Seq(Stretch), NEW F, Sums(s, F), NEW t \in Seq(Stretch), Len(t) <= Len(s),
         \A i \in 1 .. Len(t) : t[i] = s[i]
  PROVE  FlattenSeq(t) = F[Len(t)]
<1>1. PICK n, m : n = Len(s) /\ n \in Nat /\ m = Len(t) /\ m \in Nat
  BY LenProperties
<1>2. /\ F \in [0 .. n -> Stretch] /\ F[0] = <<>>
      /\ \A i \in 0 .. n - 1 : F[i + 1] = Cat(F[i], s[i + 1])
  BY <1>1 DEF Sums
<1>3. PICK G : G = [i \in 0 .. m |-> F[i]]
  OBVIOUS
<1>4. m <= n /\ 0 .. m \subseteq 0 .. n /\ 0 \in 0 .. m /\ m \in 0 .. m
  BY <1>1
<1>5. G \in [0 .. m -> Stretch] /\ G[0] = <<>> /\ G[m] = F[m]
  BY <1>2, <1>3, <1>4
<1>6. ASSUME NEW i \in 0 .. m - 1 PROVE G[i + 1] = Cat(G[i], t[i + 1])
  <2>1. i \in 0 .. m /\ i + 1 \in 0 .. m /\ i \in 0 .. n - 1 /\ i + 1 \in 1 .. m
    BY <1>1, <1>4
  <2>2. t[i + 1] = s[i + 1]
    BY <1>1, <2>1
  <2>3. QED
    BY <1>2, <1>3, <2>1, <2>2
<1>7. Sums(t, G)
  BY <1>1, <1>5, <1>6 DEF Sums
<1>8. QED
  BY <1>1, <1>5, <1>7, FlattenIs

LEMMA LineBehind ==
  ASSUME NEW x, NEW a, NEW b, NEW c, NEW d, NEW e, NEW f,
         {x, a, b, c, d, e, f} \subseteq Stretch
  PROVE  (((((x \o a) \o b) \o c) \o d) \o e) \o f = Cat(x, Line(a, b, c, d, e, f))
<1>1. /\ x \in Stretch /\ a \in Stretch /\ b \in Stretch /\ c \in Stretch /\ d \in Stretch
      /\ e \in Stretch /\ f \in Stretch
  OBVIOUS
<1>2. PICK p, q, r, s : p = Cat(x, a) /\ q = Cat(p, b) /\ r = Cat(q, c) /\ s = Cat(r, d)
  OBVIOUS
<1>3. p \in Stretch
  BY <1>1, <1>2, CatIs
<1>4. q \in Stretch
  BY <1>1, <1>2, <1>3, CatIs
<1>5. r \in Stretch
  BY <1>1, <1>2, <1>4, CatIs
<1>6. s \in Stretch
  BY <1>1, <1>2, <1>5, CatIs
<1>7. PICK k, l, m, n : k = Cat(e, f) /\ l = Cat(d, k) /\ m = Cat(c, l) /\ n = Cat(b, m)
  OBVIOUS
<1>8. k \in Stretch
  BY <1>1, <1>7, CatIs
<1>9. l \in Stretch
  BY <1>1, <1>7, <1>8, CatIs
<1>10. m \in Stretch
  BY <1>1, <1>7, <1>9, CatIs
<1>11. n \in Stretch
  BY <1>1, <1>7, <1>10, CatIs
<1>12. Cat(Cat(s, e), f) = Cat(s, k)
  BY <1>1, <1>6, <1>7, CatAssociative
<1>13. Cat(s, k) = Cat(r, l)
  BY <1>1, <1>2, <1>5, <1>7, <1>8, CatAssociative
<1>14. Cat(r, l) = Cat(q, m)
  BY <1>1, <1>2, <1>4, <1>7, <1>9, CatAssociative
<1>15. Cat(q, m) = Cat(p, n)
  BY <1>1, <1>2, <1>3, <1>7, <1>10, CatAssociative
<1>16. Cat(p, n) = Cat(x, Cat(a, n))
  BY <1>1, <1>2, <1>11, CatAssociative
<1>17. (((((x \o a) \o b) \o c) \o d) \o e) \o f = Cat(Cat(s, e), f)
  BY <1>2 DEF Cat
<1>18. Line(a, b, c, d, e, f) = Cat(a, n)
  BY <1>7 DEF Line
<1>19. QED
  BY <1>12, <1>13, <1>14, <1>15, <1>16, <1>17, <1>18

\* Where the property looks for them, the parts of what is on its way lie.
LEMMA PartsAreSeen ==
  ASSUME TypeInv
  PROVE  /\ Peek(rbuf, rbuf.length) = Rest(rbuf, 0)
         /\ SubSeq(Peek(sbuf, sbuf.length), Dropped + 1, sbuf.length) = Rest(sbuf, Dropped)
<1>1. /\ sbuf \in Ring(SendSize) /\ rbuf \in Ring(RecvSize)
      /\ SendSize \in Nat \ {0} /\ RecvSize \in Nat \ {0} /\ MaxPacket \in Nat
  BY Constants, StreamAssumption DEF TypeInv, Stored
<1>2. Peek(rbuf, rbuf.length) = Rest(rbuf, 0) /\ Peek(sbuf, sbuf.length) = Rest(sbuf, 0)
  BY <1>1, PeekRest
<1>3. PICK a, len : a = Dropped /\ len = sbuf.length /\ len \in Nat /\ a \in 0 .. len /\ 0 \in 0 .. len
  BY WayFacts
<1>4. PICK s, t : s = Rest(sbuf, 0) /\ t = Rest(sbuf, a)
  OBVIOUS
<1>5. /\ s \in Seq(Cell) /\ Len(s) = len - 0
      /\ \A i \in 1 .. len - 0 : s[i] = At(sbuf, 0 + i)
  BY <1>1, <1>3, <1>4, RestIs
<1>6. /\ t \in Seq(Cell) /\ Len(t) = len - a
      /\ \A i \in 1 .. len - a : t[i] = At(sbuf, a + i)
  BY <1>1, <1>3, <1>4, RestIs
<1>7. ASSUME NEW i \in 1 .. Len(t) PROVE t[i] = s[a + i]
  <2>1. i \in 1 .. len - a /\ a + i \in 1 .. len - 0 /\ 0 + (a + i) = a + i
    BY <1>3, <1>6
  <2>2. s[a + i] = At(sbuf, 0 + (a + i))
    BY <1>5, <2>1
  <2>3. QED
    BY <1>6, <2>1, <2>2
<1>8. a \in Nat /\ len = a + Len(t) /\ len <= Len(s)
  BY <1>3, <1>5, <1>6
<1>9. t = SubSeq(s, a + 1, len)
  BY <1>5, <1>6, <1>7, <1>8, PartOf
<1>10. QED
  BY <1>2, <1>3, <1>4, <1>9

\* The packets that ns names.
Packed(ns) == [i \in 1 .. Len(ns) |-> Header(ns[i]) \o Message(ns[i])]

LEMMA PackedIs ==
  ASSUME TypeInv, NEW ns, NEW k \in Nat, k <= Len(written), Len(ns) = k,
         \A i \in 1 .. k : ns[i] = written[i]
  PROVE  /\ Packed(ns) \in Seq(Stretch) /\ Len(Packed(ns)) = k
         /\ \A i \in 1 .. k : Packed(ns)[i] = Packet(written[i], size[written[i]])
<1>1. Books(size, written) /\ Len(size) \in Nat /\ Len(written) \in Nat
  BY TypeInvBooks
<1>2. Len(size) <= MaxPackets
  BY <1>1 DEF Books
<1>3. ASSUME NEW i \in 1 .. k
      PROVE  /\ Header(ns[i]) \o Message(ns[i]) = Packet(written[i], size[written[i]])
             /\ Packet(written[i], size[written[i]]) \in Stretch
  <2>1. PICK n, l : n = written[i] /\ l = Len(size)
    OBVIOUS
  <2>2. i \in 1 .. Len(written) /\ ns[i] = n
    BY <1>1, <2>1
  <2>3. n \in 1 .. l /\ size[n] \in Sizes /\ l \in Nat /\ l <= MaxPackets
    BY <1>1, <1>2, <2>1, <2>2, BooksFacts
  <2>4. Packet(n, size[n]) \in Stretch /\ Packet(n, size[n]) = Cat(Header(n), Body(n, size[n]))
    BY <2>3, PacketOfBooks
  <2>5. QED
    BY <2>1, <2>2, <2>4 DEF Message, Body, Cat
<1>4. Packed(ns) \in [1 .. k -> Stretch]
  BY <1>3 DEF Packed
<1>5. Packed(ns) \in Seq(Stretch) /\ Len(Packed(ns)) = k
  BY <1>4, SeqDef
<1>6. QED
  BY <1>3, <1>5 DEF Packed

LEMMA InvKeeps == Inv => NothingLostOnTheWay
<1>1. SUFFICES ASSUME TypeInv, Flow, ~skill, ~lost
               PROVE  NothingLostOnTheWay
  BY DEF Inv, NothingLostOnTheWay
<1>2. PICK g, T, hd, junk : Flowing(g, T, hd, junk)
  BY <1>1 DEF Flow, TypeInv, Senders
<1>3. PICK hl, n : hl = Len(handled) /\ n = Len(written) /\ hl \in Nat /\ n \in Nat
  BY <1>1, TypeInvBooks
<1>4. /\ g = n /\ junk = <<>> /\ hd = (IF wrote THEN Header(Len(size)) ELSE <<>>)
      /\ Carries(size, written, hl, Way, Out, g, T, hd, junk) /\ Books(size, written)
  BY <1>1, <1>2, <1>3, TypeInvBooks DEF Flowing
<1>5. hl <= n /\ hl \in 0 .. n /\ T[hl] \in Stretch /\ hd \in Stretch
  <2>1. g \in Nat /\ hl <= g /\ T[hl] \in Stretch /\ hd \in Stretch
    BY <1>3, <1>4, CarriesFacts
  <2>2. QED
    BY <1>3, <1>4, <2>1
<1>6. PICK s, w, t : s = Packed(written) /\ w = SubSeq(written, 1, hl) /\ t = Packed(w)
  OBVIOUS
<1>7. Len(w) = hl /\ \A i \in 1 .. hl : w[i] = written[i]
  <2>1. \A i \in 1 .. hl : written[i] \in 1 .. Len(size)
    <3>1. \A i \in 1 .. hl : i \in 1 .. Len(written)
      BY <1>3, <1>5
    <3>2. QED
      BY <1>4, <3>1, BooksFacts
  <2>2. /\ Len(w) = IF 1 <= hl THEN hl - 1 + 1 ELSE 0
        /\ \A i \in 1 .. hl - 1 + 1 : w[i] = written[1 + i - 1]
    BY <1>3, <1>6, <2>1, SubSeqProperties
  <2>3. QED
    BY <1>3, <2>2
<1>8. /\ s \in Seq(Stretch) /\ Len(s) = n
      /\ \A i \in 1 .. n : s[i] = Packet(written[i], size[written[i]])
  BY <1>1, <1>3, <1>6, PackedIs
<1>9. /\ t \in Seq(Stretch) /\ Len(t) = hl
      /\ \A i \in 1 .. hl : t[i] = Packet(written[i], size[written[i]])
  BY <1>1, <1>3, <1>5, <1>6, <1>7, PackedIs
<1>10. PICK F : Sums(s, F)
  BY <1>8, SumsExist
<1>11. FlattenSeq(s) = F[n]
  BY <1>8, <1>10, FlattenIs
<1>12. FlattenSeq(t) = F[hl]
  <2>1. \A i \in 1 .. Len(t) : t[i] = s[i]
    <3>1. \A i \in 1 .. hl : i \in 1 .. n
      BY <1>3, <1>5
    <3>2. QED
      BY <1>8, <1>9, <3>1
  <2>2. QED
    BY <1>5, <1>8, <1>9, <1>10, <2>1, SumsBegin
<1>13. Cat(F[hl], T[hl]) = F[n] /\ F[hl] \in Stretch /\ F[n] \in Stretch
  <2>1. T \in [0 .. n -> Stretch] /\ T[n] = <<>>
    BY <1>4 DEF Carries
  <2>2. ASSUME NEW k \in 0 .. n - 1 PROVE T[k] = Cat(s[k + 1], T[k + 1])
    <3>1. k + 1 \in 1 .. n
      BY <1>3
    <3>2. T[k] = Cat(Packet(written[k + 1], size[written[k + 1]]), T[k + 1])
      BY <1>4 DEF Carries
    <3>3. QED
      BY <1>8, <3>1, <3>2
  <2>3. QED
    BY <1>3, <1>5, <1>8, <1>10, <2>1, <2>2, SumsMeet
<1>14. Cat(F[hl], Way) = Cat(F[n], hd)
  <2>1. PICK x, y : x = F[hl] /\ y = T[hl]
    OBVIOUS
  <2>2. x \in Stretch /\ y \in Stretch /\ hd \in Stretch /\ Cat(y, hd) \in Stretch
    BY <1>5, <1>13, <2>1, CatIs
  <2>3. Way = Cat(y, hd)
    BY <1>4, <2>1, <2>2, CatEmpty DEF Carries
  <2>4. Cat(Cat(x, y), hd) = Cat(x, Cat(y, hd))
    BY <2>2, CatAssociative
  <2>5. QED
    BY <1>13, <2>1, <2>3, <2>4
<1>15. PICK x, a, b, c, d, e, f :
         /\ x = F[hl] /\ a = Rest(rbuf, 0) /\ b = Landed /\ c = rpool.cells /\ d = net
         /\ e = Rest(sbuf, Dropped) /\ f = spool
  OBVIOUS
<1>16. {x, a, b, c, d, e, f} \subseteq Stretch
  BY <1>1, <1>13, <1>15, WayFacts
<1>17. (((((x \o a) \o b) \o c) \o d) \o e) \o f = Cat(x, Line(a, b, c, d, e, f))
  BY <1>16, LineBehind
<1>18. (((((FlattenSeq(t) \o a) \o b) \o c) \o d) \o e) \o f = FlattenSeq(s) \o hd
  BY <1>11, <1>12, <1>14, <1>15, <1>17 DEF Way, Cat
<1>19. /\ a = Peek(rbuf, rbuf.length)
       /\ b = IF rdone = None THEN <<>> ELSE ReadAt(rbuf, rbuf.tail, rdone)
       /\ e = SubSeq(Peek(sbuf, sbuf.length), (IF sdone = None THEN 0 ELSE sdone) + 1,
                     sbuf.length)
  BY <1>1, <1>15, PartsAreSeen DEF Landed, Dropped
<1>20. /\ FlattenSeq(t) = FlattenSeq([i \in 1 .. Len(SubSeq(written, 1, Len(handled))) |->
                            Header(SubSeq(written, 1, Len(handled))[i])
                              \o Message(SubSeq(written, 1, Len(handled))[i])])
       /\ FlattenSeq(s) = FlattenSeq([i \in 1 .. Len(written) |->
                                        Header(written[i]) \o Message(written[i])])
  BY <1>3, <1>6 DEF Packed
<1>21. QED
  BY <1>4, <1>15, <1>18, <1>19, <1>20 DEF NothingLostOnTheWay

\* As long as no Send of a server has failed and no client has thrown anything away, every
\* cell that was written is somewhere on its way, in order and only once: a ring gives up
\* nothing that is not sent and overwrites nothing that is not read, whatever the
\* main thread, the send thread and the I/O thread do in between.
THEOREM NothingIsLost == Spec => []NothingLostOnTheWay
BY InvHolds, InvKeeps, PTL
=============================================================================
