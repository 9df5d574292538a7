-------------------------- MODULE DictionaryProofs --------------------------
(***************************************************************************)
(* Theorems about Dictionary for every set of keys, every hash function    *)
(* and every table size.  First the tables: their counters are exact,      *)
(* nothing is left behind the rehash cursor, and the cursor stays inside   *)
(* the table.  Then the entities: through every command and every step of  *)
(* a rehash each is on the chain its hash selects, where lookups search,   *)
(* and a turn of UpdateDict neither loses nor doubles one.                 *)
(***************************************************************************)
EXTENDS Dictionary, FiniteSetTheorems, SequenceTheorems, NaturalsInduction, TLAPS

-----------------------------------------------------------------------------
(* Facts about the operators the model is built from.                      *)

\* First returns the smallest member of a nonempty set of naturals.
LEMMA FirstIsLeast ==
  ASSUME NEW I, I \subseteq Nat, I # {}
  PROVE  First(I) \in I /\ \A j \in I : First(I) <= j
<1> DEFINE R == OpToRel(<, Nat)
<1>1. IsWellFoundedOn(R, Nat)
  BY NatLessThanWellFounded
<1>2. \A x, y \in Nat : <<x, y>> \in R <=> x < y
  BY DEF OpToRel
<1>3. \E i \in I : \A j \in I : <<j, i>> \notin R
  <2> HIDE DEF R
  <2> QED BY <1>1, WFMin
<1> HIDE DEF R
<1>4. PICK i \in I : \A j \in I : <<j, i>> \notin R
  BY <1>3
<1>5. ASSUME NEW j \in I PROVE i <= j
  <2>1. i \in Nat /\ j \in Nat
    OBVIOUS
  <2>2. <<j, i>> \notin R
    BY <1>4
  <2>3. ~(j < i)
    BY <1>2, <2>1, <2>2, Zenon
  <2>4. QED
    BY <2>1, <2>3
<1>6. QED
  BY <1>5 DEF First

\* GetRealSize finds a table size, as long as the bound on entities is kept.
LEMMA RealSizeIsASize ==
  ASSUME NEW n \in Nat, n <= 2 * MaxUsed
  PROVE  RealSize(n) \in Sizes
<1> DEFINE I == {s \in Sizes : s >= n}
<1>1. I \subseteq Nat /\ I # {}
  <2>1. Sizes \subseteq Nat /\ MaxUsed \in Nat
    BY DictionaryAssumption DEF DictionaryAssumption
  <2>2. PICK s \in Sizes : s >= 2 * MaxUsed
    BY DictionaryAssumption DEF DictionaryAssumption
  <2>3. s \in I
    BY <2>1, <2>2
  <2>4. QED
    BY <2>1, <2>3
<1>2. First(I) \in I /\ \A j \in I : First(I) <= j
  <2> HIDE DEF I
  <2> QED BY <1>1, FirstIsLeast
<1>3. \E s \in Sizes : s >= n /\ \A r \in Sizes : r >= n => s <= r
  BY <1>2
<1>4. QED
  BY <1>3 DEF RealSize

\* Unlinking an entity leaves a chain that is one shorter.
LEMMA WithoutAtProperties ==
  ASSUME NEW S, NEW c \in Seq(S), NEW i \in 1 .. Len(c)
  PROVE  WithoutAt(c, i) \in Seq(S) /\ Len(WithoutAt(c, i)) = Len(c) - 1
<1> DEFINE front == SubSeq(c, 1, i - 1)
           back  == SubSeq(c, i + 1, Len(c))
<1>1. front \in Seq(S) /\ Len(front) = i - 1
  BY SubSeqProperties
<1>2. back \in Seq(S) /\ Len(back) = Len(c) - i
  BY SubSeqProperties
<1>3. front \o back \in Seq(S) /\ Len(front \o back) = Len(front) + Len(back)
  <2> HIDE DEF front, back
  <2> QED BY <1>1, <1>2, ConcatProperties
<1>4. Len(c) \in Nat
  BY LenProperties
<1>5. WithoutAt(c, i) = front \o back
  BY DEF WithoutAt
<1> HIDE DEF front, back
<1>6. Len(front) + Len(back) = Len(c) - 1
  BY <1>1, <1>2, <1>4
<1>7. QED
  BY <1>3, <1>5, <1>6, Zenon

\* Remove unlinks an entity of the chain that holds the key.
LEMMA VictimHoldsKey ==
  ASSUME NEW c \in Seq(Entity), NEW k, Holding(c, k) # {}
  PROVE  Victim(c, k) \in 1 .. Len(c)
<1>1. Holding(c, k) \subseteq 1 .. Len(c)
  BY DEF Holding
<1>2. CASE Holding(c, k) \ {1} = {}
  BY <1>1, <1>2 DEF Victim
<1>3. CASE Holding(c, k) \ {1} # {}
  <2> DEFINE behind == Holding(c, k) \ {1}
  <2>1. behind \subseteq Nat /\ behind # {}
    BY <1>1, <1>3, LenProperties
  <2>2. First(behind) \in behind
    <3> HIDE DEF behind
    <3> QED BY <2>1, FirstIsLeast
  <2>3. QED
    BY <1>1, <1>3, <2>2 DEF Victim
<1>4. QED
  BY <1>2, <1>3

-----------------------------------------------------------------------------
(* The slots of one table, and how an operation on one chain changes them. *)

Table(n) == [0 .. n - 1 -> Seq(Entity)]

\* A fresh table has no slots.
LEMMA NoSlots ==
  ASSUME NEW n \in Nat
  PROVE  SlotsOf(NoChains(n), n) = {}
  BY DEF SlotsOf, NoChains

\* A chain that keeps its length keeps the slots.
LEMMA SlotsKept ==
  ASSUME NEW n \in Nat, NEW f \in Table(n), NEW b \in 0 .. n - 1,
         NEW d \in Seq(Entity), Len(d) = Len(f[b])
  PROVE  SlotsOf([f EXCEPT ![b] = d], n) = SlotsOf(f, n)
  BY DEF SlotsOf, Table

\* A chain that grows by one entity adds one slot.
LEMMA SlotsGrow ==
  ASSUME NEW n \in Nat, NEW f \in Table(n), NEW b \in 0 .. n - 1,
         NEW d \in Seq(Entity), Len(d) = Len(f[b]) + 1, IsFiniteSet(SlotsOf(f, n))
  PROVE  /\ IsFiniteSet(SlotsOf([f EXCEPT ![b] = d], n))
         /\ Cardinality(SlotsOf([f EXCEPT ![b] = d], n)) = Cardinality(SlotsOf(f, n)) + 1
<1>1. SlotsOf([f EXCEPT ![b] = d], n) = SlotsOf(f, n) \cup {<<b, Len(d)>>}
  BY DEF SlotsOf, Table
<1>2. <<b, Len(d)>> \notin SlotsOf(f, n)
  BY DEF SlotsOf, Table
<1>3. QED
  BY <1>1, <1>2, FS_AddElement

\* A chain that shrinks by one entity gives up one slot.
LEMMA SlotsShrink ==
  ASSUME NEW n \in Nat, NEW f \in Table(n), NEW b \in 0 .. n - 1,
         NEW d \in Seq(Entity), Len(d) = Len(f[b]) - 1, IsFiniteSet(SlotsOf(f, n))
  PROVE  /\ IsFiniteSet(SlotsOf([f EXCEPT ![b] = d], n))
         /\ Cardinality(SlotsOf([f EXCEPT ![b] = d], n)) = Cardinality(SlotsOf(f, n)) - 1
<1>1. SlotsOf([f EXCEPT ![b] = d], n) = SlotsOf(f, n) \ {<<b, Len(f[b])>>}
  BY DEF SlotsOf, Table
<1>2. <<b, Len(f[b])>> \in SlotsOf(f, n)
  BY DEF SlotsOf, Table
<1>3. QED
  BY <1>1, <1>2, FS_RemoveElement

-----------------------------------------------------------------------------
(* The inductive invariant.  The counters and the cursor need each other:   *)
(* the cursor stays inside table 0 because a positive m_lUsed means that    *)
(* some bucket holds an entity and none of the buckets behind the cursor    *)
(* does; and the swap loses nothing because m_lUsed = 0 means no entities.  *)

SlotsFinite == \A t \in 0 .. 1 : IsFiniteSet(Slots(t))

Bounded == used[0] + used[1] <= MaxUsed

IInv ==
  /\ TypeOK
  /\ SlotsFinite
  /\ UsedCounts
  /\ Bounded
  /\ NothingBehindCursor
  /\ CursorInBounds

\* Table sizes are natural numbers.
LEMMA SizeIsNat ==
  ASSUME TypeOK, NEW t \in 0 .. 1
  PROVE  size[t] \in Nat
<1>1. Sizes \subseteq Nat
  BY DictionaryAssumption DEF DictionaryAssumption
<1>2. size[t] \in Sizes \/ size[t] = 0
  BY DEF TypeOK
<1>3. CASE size[t] = 0
  BY <1>3
<1>4. CASE size[t] \in Sizes
  BY <1>1, <1>4
<1>5. QED
  BY <1>2, <1>3, <1>4

\* A key's chain is one of its table's.
LEMMA BucketOfIsABucket ==
  ASSUME TypeOK, NEW t \in 0 .. 1, size[t] > 0, NEW k \in Keys
  PROVE  /\ BucketOf(t, k) \in Buckets(t)
         /\ ChainOf(t, k) = chain[t][BucketOf(t, k)]
         /\ ChainOf(t, k) \in Seq(Entity)
<1>1. Hash[k] \in Nat /\ size[t] \in Nat
  BY DictionaryAssumption DEF DictionaryAssumption, TypeOK
<1>2. Hash[k] % size[t] \in 0 .. size[t] - 1
  BY <1>1
<1>3. BucketOf(t, k) \in Buckets(t)
  BY <1>2 DEF BucketOf, Buckets
<1>4. QED
  BY <1>3 DEF ChainOf, TypeOK

\* What a command may do to one chain without disturbing the invariant: keep
\* its length, link or unlink one entity, and link none in table 0 during a
\* rehash.
LEMMA OneChainChanges ==
  ASSUME IInv, NEW t \in 0 .. 1, NEW b \in Buckets(t), NEW d \in Seq(Entity),
         chain' = [chain EXCEPT ![t][b] = d],
         Len(d) - Len(chain[t][b]) \in {-1, 0, 1},
         used' = [used EXCEPT ![t] = used[t] + (Len(d) - Len(chain[t][b]))],
         used'[0] + used'[1] <= MaxUsed,
         t = 0 /\ Rehashing => Len(d) <= Len(chain[t][b]),
         size' = size, idx' = idx, pc' = pc, pc = "serve", reply' \in BOOLEAN
  PROVE  IInv'
<1>0. PICK u \in 0 .. 1 : u # t /\ \A w \in 0 .. 1 : w = t \/ w = u
  OBVIOUS
<1>1. /\ size[t] \in Nat /\ size[u] \in Nat
      /\ used[t] \in Nat /\ used[u] \in Nat
      /\ chain[t] \in Table(size[t]) /\ chain[u] \in Table(size[u])
      /\ b \in 0 .. size[t] - 1
  <2>1. size[t] \in Nat /\ size[u] \in Nat
    BY SizeIsNat DEF IInv
  <2>2. used[t] \in Nat /\ used[u] \in Nat
    BY DEF IInv, TypeOK
  <2>3. chain[t] \in Table(size[t]) /\ chain[u] \in Table(size[u])
    BY DEF IInv, TypeOK, Table, Buckets
  <2>4. QED
    BY <2>1, <2>2, <2>3 DEF Buckets
<1>2. /\ chain'[t] = [chain[t] EXCEPT ![b] = d]
      /\ chain'[u] = chain[u]
      /\ chain' \in [0 .. 1 -> {chain'[0], chain'[1]}]
  <2>1. chain \in [0 .. 1 -> {chain[0], chain[1]}]
    BY DEF IInv, TypeOK
  <2>2. chain' = [w \in 0 .. 1 |-> IF w = t THEN [chain[t] EXCEPT ![b] = d] ELSE chain[w]]
    BY <2>1
  <2>3. chain'[t] = [chain[t] EXCEPT ![b] = d] /\ chain'[u] = chain[u]
    BY <1>0, <2>2
  <2>4. \A w \in 0 .. 1 : chain'[w] \in {chain'[0], chain'[1]}
    OBVIOUS
  <2>5. QED
    BY <2>2, <2>3, <2>4
<1>3. /\ used'[t] = used[t] + (Len(d) - Len(chain[t][b]))
      /\ used'[u] = used[u]
      /\ DOMAIN used' = 0 .. 1
      /\ used' = [w \in 0 .. 1 |-> used'[w]]
  <2>1. used \in [0 .. 1 -> Nat]
    BY DEF IInv, TypeOK
  <2>2. QED
    BY <1>0, <2>1
<1>4. /\ IsFiniteSet(SlotsOf(chain[t], size[t])) /\ IsFiniteSet(SlotsOf(chain[u], size[u]))
      /\ used[t] = Cardinality(SlotsOf(chain[t], size[t]))
      /\ used[u] = Cardinality(SlotsOf(chain[u], size[u]))
  BY DEF IInv, SlotsFinite, UsedCounts, Slots
<1>5. /\ IsFiniteSet(SlotsOf(chain'[t], size[t]))
      /\ Cardinality(SlotsOf(chain'[t], size[t]))
           = Cardinality(SlotsOf(chain[t], size[t])) + (Len(d) - Len(chain[t][b]))
  <2>0. Len(d) \in Nat /\ Len(chain[t][b]) \in Nat
    BY <1>1 DEF Table
  <2>1. CASE Len(d) = Len(chain[t][b])
    <3>1. SlotsOf(chain'[t], size[t]) = SlotsOf(chain[t], size[t])
      BY <1>1, <1>2, <2>1, SlotsKept
    <3>2. Cardinality(SlotsOf(chain[t], size[t])) \in Nat
      BY <1>4, FS_CardinalityType
    <3>3. QED
      BY <1>4, <2>0, <2>1, <3>1, <3>2
  <2>2. CASE Len(d) = Len(chain[t][b]) + 1
    BY <1>1, <1>2, <1>4, <2>0, <2>2, SlotsGrow
  <2>3. CASE Len(d) = Len(chain[t][b]) - 1
    BY <1>1, <1>2, <1>4, <2>0, <2>3, SlotsShrink, FS_CardinalityType
  <2>4. \/ Len(d) = Len(chain[t][b])
        \/ Len(d) = Len(chain[t][b]) + 1
        \/ Len(d) = Len(chain[t][b]) - 1
    BY <2>0
  <2>5. QED
    BY <2>1, <2>2, <2>3, <2>4
<1>6. /\ used'[t] = Cardinality(SlotsOf(chain'[t], size[t]))
      /\ used'[u] = Cardinality(SlotsOf(chain'[u], size[u]))
  BY <1>2, <1>3, <1>4, <1>5
<1>7. used'[t] \in Nat /\ used'[u] \in Nat
  BY <1>2, <1>4, <1>5, <1>6, FS_CardinalityType
<1>9. TypeOK'
  <2>1. used' \in [0 .. 1 -> Nat]
    BY <1>3, <1>7, <1>0
  <2>2. \A w \in 0 .. 1 : chain'[w] \in [0 .. size[w] - 1 -> Seq(Entity)]
    BY <1>1, <1>2, <1>0 DEF Table
  <2>3. QED
    BY <1>2, <2>1, <2>2 DEF IInv, TypeOK, Buckets, Rehashing
<1>10. SlotsFinite' /\ UsedCounts'
  BY <1>2, <1>4, <1>5, <1>6, <1>0 DEF SlotsFinite, UsedCounts, Slots
<1>11. NothingBehindCursor'
  <2> SUFFICES ASSUME Rehashing, NEW a \in 0 .. idx - 1, a \in Buckets(0)
               PROVE  chain'[0][a] = <<>>
    BY DEF NothingBehindCursor, Rehashing, Buckets
  <2>1. chain[0][a] = <<>> /\ chain[0] \in [0 .. size[0] - 1 -> Seq(Entity)]
    BY DEF IInv, NothingBehindCursor, TypeOK, Buckets
  <2>2. CASE t = 0 /\ a = b
    BY <1>1, <1>2, <2>1, <2>2 DEF Buckets
  <2>3. CASE t = 0 /\ a # b
    BY <1>1, <1>2, <2>1, <2>3 DEF Buckets, Table
  <2>4. CASE t = 1
    BY <1>2, <2>1, <2>4
  <2>5. QED
    BY <2>2, <2>3, <2>4
<1>12. QED
  BY <1>9, <1>10, <1>11 DEF IInv, Bounded, CursorInBounds

\* A command that is refused changes nothing but its answer.
LEMMA Refused ==
  ASSUME IInv, UNCHANGED <<size, used, chain, idx, pc>>, reply' \in BOOLEAN
  PROVE  IInv'
  BY DEF IInv, TypeOK, SlotsFinite, UsedCounts, Slots, Bounded, NothingBehindCursor,
         CursorInBounds, Buckets, Rehashing

LEMMA AddPreserves ==
  ASSUME IInv, pc = "serve", UNCHANGED <<size, idx, pc>>,
         NEW t \in 0 .. 1, size[t] > 0, t = 0 => ~Rehashing,
         NEW k \in Keys, NEW type \in Types, NEW v \in Vals \cup {Obj},
         HashmapAdd(t, k, type, v)
  PROVE  IInv'
<1>1. CASE HasKey(t, k)
  BY <1>1, Refused DEF HashmapAdd
<1>2. CASE ~HasKey(t, k)
  <2> DEFINE b == BucketOf(t, k)
             e == [key |-> k, type |-> type, val |-> v]
             d == Append(chain[t][b], e)
  <2>1. LinkAtTail(t, k, type, v)
    BY <1>2 DEF HashmapAdd
  <2>2. b \in Buckets(t) /\ chain[t][b] \in Seq(Entity)
    BY BucketOfIsABucket DEF IInv, TypeOK
  <2>3. e \in Entity
    BY DEF Entity
  <2>4. d \in Seq(Entity) /\ Len(d) = Len(chain[t][b]) + 1
    BY <2>2, <2>3, AppendProperties
  <2>5. chain' = [chain EXCEPT ![t][b] = d]
    BY <2>1 DEF LinkAtTail
  <2>6. Len(chain[t][b]) \in Nat
    BY <2>2, LenProperties
  <2>7. used' = [used EXCEPT ![t] = used[t] + 1]
    BY <2>1 DEF LinkAtTail
  <2>8. used[0] \in Nat /\ used[1] \in Nat /\ used[0] + used[1] < MaxUsed
    BY <2>1 DEF LinkAtTail, IInv, TypeOK
  <2>9. used'[0] + used'[1] <= MaxUsed
    BY <2>7, <2>8, DictionaryAssumption DEF IInv, TypeOK, DictionaryAssumption
  <2>10. reply' \in BOOLEAN
    BY <2>1 DEF LinkAtTail
  <2> HIDE DEF b, d
  <2>11. Len(d) - Len(chain[t][b]) = 1
    BY <2>4, <2>6
  <2>12. QED
    BY <2>2, <2>4, <2>5, <2>7, <2>9, <2>10, <2>11, OneChainChanges
<1>3. QED
  BY <1>1, <1>2

LEMMA UpdatePreserves ==
  ASSUME IInv, pc = "serve", UNCHANGED <<size, used, idx, pc>>,
         NEW t \in 0 .. 1, size[t] > 0,
         NEW k \in Keys, NEW v \in Vals, HashmapUpdate(t, k, v)
  PROVE  IInv'
<1>1. CASE ~HasKey(t, k)
  BY <1>1, Refused DEF HashmapUpdate
<1>2. CASE HasKey(t, k)
  <2> DEFINE b == BucketOf(t, k)
             i == First(Holding(ChainOf(t, k), k))
             d == [chain[t][b] EXCEPT ![i].val = v]
  <2>1. /\ b \in Buckets(t) /\ chain[t][b] \in Seq(Entity)
        /\ ChainOf(t, k) = chain[t][b]
    BY BucketOfIsABucket DEF IInv, TypeOK
  <2>2. Holding(chain[t][b], k) \subseteq 1 .. Len(chain[t][b])
    BY <2>1 DEF Holding
  <2>3. i \in 1 .. Len(chain[t][b])
    <3> DEFINE H == Holding(chain[t][b], k)
    <3>1. H \subseteq Nat /\ H # {}
      BY <1>2, <2>1, <2>2, LenProperties DEF HasKey
    <3>2. First(H) \in H
      <4> HIDE DEF H
      <4> QED BY <3>1, FirstIsLeast
    <3>3. QED
      BY <2>1, <2>2, <3>2
  <2>4. chain' = [chain EXCEPT ![t][b] = d] /\ reply' = TRUE
    BY <1>2 DEF HashmapUpdate
  <2>5. d \in Seq(Entity) /\ Len(d) = Len(chain[t][b])
    <3> DEFINE c == chain[t][b]
               e == [c[i] EXCEPT !.val = v]
    <3>1. c \in Seq(Entity) /\ i \in 1 .. Len(c)
      BY <2>1, <2>3
    <3>2. e \in Entity
      <4> HIDE DEF i, c
      <4>1. c[i] \in Entity
        BY <3>1
      <4>2. QED
        BY <4>1 DEF Entity
    <3>3. d = [c EXCEPT ![i] = e]
      OBVIOUS
    <3> HIDE DEF i, c, e, d
    <3>4. d \in Seq(Entity) /\ Len(d) = Len(c)
      BY <3>1, <3>2, <3>3, ExceptSeq
    <3>5. QED
      BY <3>4 DEF c
  <2>6. Len(chain[t][b]) \in Nat
    BY <2>1, LenProperties
  <2> HIDE DEF b, i, d
  <2>7. /\ Len(d) - Len(chain[t][b]) = 0 /\ Len(d) <= Len(chain[t][b])
        /\ Len(d) - Len(chain[t][b]) \in {-1, 0, 1}
    BY <2>5, <2>6
  <2>8. used \in [0 .. 1 -> Nat] /\ used[0] + used[1] <= MaxUsed
    BY DEF IInv, TypeOK, Bounded
  <2>9. used' = [used EXCEPT ![t] = used[t] + (Len(d) - Len(chain[t][b]))]
    BY <2>7, <2>8
  <2>10. used'[0] + used'[1] <= MaxUsed
    BY <2>8
  <2>11. QED
    BY <2>1, <2>4, <2>5, <2>7, <2>9, <2>10, OneChainChanges
<1>3. QED
  BY <1>1, <1>2

LEMMA RemovePreserves ==
  ASSUME IInv, pc = "serve", UNCHANGED <<size, idx, pc>>,
         NEW t \in 0 .. 1, size[t] > 0, NEW k \in Keys, HashmapRemove(t, k)
  PROVE  IInv'
<1>1. CASE ~(used[t] > 0 /\ HasKey(t, k))
  BY <1>1, Refused DEF HashmapRemove
<1>2. CASE used[t] > 0 /\ HasKey(t, k)
  <2> DEFINE b == BucketOf(t, k)
             i == Victim(chain[t][b], k)
             d == WithoutAt(chain[t][b], i)
  <2>1. /\ b \in Buckets(t) /\ chain[t][b] \in Seq(Entity)
        /\ ChainOf(t, k) = chain[t][b]
    BY BucketOfIsABucket DEF IInv, TypeOK
  <2>2. i \in 1 .. Len(chain[t][b])
    BY <1>2, <2>1, VictimHoldsKey DEF HasKey
  <2>3. d \in Seq(Entity) /\ Len(d) = Len(chain[t][b]) - 1
    <3> DEFINE c == chain[t][b]
    <3>1. c \in Seq(Entity) /\ i \in 1 .. Len(c)
      BY <2>1, <2>2
    <3> HIDE DEF c, i
    <3>2. WithoutAt(c, i) \in Seq(Entity) /\ Len(WithoutAt(c, i)) = Len(c) - 1
      BY <3>1, WithoutAtProperties
    <3>3. QED
      BY <3>2 DEF c
  <2>4. /\ chain' = [chain EXCEPT ![t][b] = d]
        /\ used' = [used EXCEPT ![t] = used[t] - 1]
        /\ reply' = TRUE
    BY <1>2 DEF HashmapRemove
  <2>5. Len(chain[t][b]) \in Nat
    BY <2>1, LenProperties
  <2>6. /\ used \in [0 .. 1 -> Nat] /\ used[0] + used[1] <= MaxUsed
        /\ MaxUsed \in Nat
    BY DictionaryAssumption DEF IInv, TypeOK, Bounded, DictionaryAssumption
  <2> HIDE DEF b, i, d
  <2>7. /\ Len(d) - Len(chain[t][b]) = -1 /\ Len(d) <= Len(chain[t][b])
        /\ Len(d) - Len(chain[t][b]) \in {-1, 0, 1}
    BY <2>3, <2>5
  <2>8. used' = [used EXCEPT ![t] = used[t] + (Len(d) - Len(chain[t][b]))]
    BY <2>4, <2>6, <2>7
  <2>9. used'[0] + used'[1] <= MaxUsed
    BY <2>4, <2>6
  <2>10. QED
    BY <2>1, <2>3, <2>4, <2>5, <2>7, <2>8, <2>9, OneChainChanges
<1>3. QED
  BY <1>1, <1>2

-----------------------------------------------------------------------------
(* The steps of a turn of UpdateDict.                                      *)

LEMMA BeginTurnPreserves == IInv /\ BeginTurn => IInv'
<1> SUFFICES ASSUME IInv, BeginTurn PROVE IInv'
  OBVIOUS
<1>1. CASE ~IsNeedResize
  BY <1>1 DEF BeginTurn, IInv, TypeOK, SlotsFinite, UsedCounts, Slots, Bounded,
              NothingBehindCursor, CursorInBounds, Buckets, Rehashing
<1>2. CASE IsNeedResize
  <2> DEFINE n == RealSize(used[0] * 2)
  <2>1. ~Rehashing
    BY <1>2 DEF IsNeedResize
  <2>2. used[0] \in Nat /\ used[1] \in Nat /\ used[0] + used[1] <= MaxUsed
    BY DEF IInv, TypeOK, Bounded
  <2>3. used[0] * 2 \in Nat /\ used[0] * 2 <= 2 * MaxUsed
    BY <2>2, DictionaryAssumption DEF DictionaryAssumption
  <2>4. n \in Sizes
    BY <2>3, RealSizeIsASize
  <2>5. n \in Nat /\ n > 0
    <3>1. Sizes \subseteq Nat \ {0}
      BY DictionaryAssumption DEF DictionaryAssumption
    <3> HIDE DEF n
    <3>2. n \in Nat \ {0}
      BY <2>4, <3>1, Zenon
    <3>3. QED
      BY <3>2
  <2>6. /\ size' = [size EXCEPT ![1] = n]
        /\ chain' = [chain EXCEPT ![1] = NoChains(n)]
        /\ used' = [used EXCEPT ![1] = 0]
        /\ idx' = 0 /\ pc' = "resize" /\ reply' = reply
    BY <1>2 DEF BeginTurn
  <2> HIDE DEF n
  <2>7. /\ size \in [0 .. 1 -> Sizes \cup {0}] /\ used \in [0 .. 1 -> Nat]
        /\ chain \in [0 .. 1 -> {chain[0], chain[1]}]
        /\ size[0] \in Nat /\ size[0] > 0
        /\ chain[0] \in [0 .. size[0] - 1 -> Seq(Entity)]
    BY SizeIsNat DEF IInv, TypeOK, Buckets
  <2>8. /\ size'[0] = size[0] /\ size'[1] = n
        /\ used'[0] = used[0] /\ used'[1] = 0
        /\ chain'[0] = chain[0] /\ chain'[1] = NoChains(n)
    BY <2>6, <2>7
  <2>9. NoChains(n) \in [0 .. n - 1 -> Seq(Entity)]
    BY DEF NoChains
  <2>10. TypeOK'
    <3>1. size' \in [0 .. 1 -> Sizes \cup {0}] /\ used' \in [0 .. 1 -> Nat]
      BY <2>4, <2>6, <2>7
    <3>2. chain' \in [0 .. 1 -> {chain'[0], chain'[1]}]
      <4>1. chain' = [w \in 0 .. 1 |-> chain'[w]]
        BY <2>6, <2>7
      <4>2. \A w \in 0 .. 1 : chain'[w] \in {chain'[0], chain'[1]}
        OBVIOUS
      <4>3. QED
        BY <4>1, <4>2
    <3>3. \A t \in 0 .. 1 : chain'[t] \in [0 .. size'[t] - 1 -> Seq(Entity)]
      BY <2>7, <2>8, <2>9
    <3>4. reply' \in BOOLEAN
      BY <2>6 DEF IInv, TypeOK
    <3>5. idx' \in -1 .. size'[0] /\ size'[0] > 0 /\ size'[1] > 0
      BY <2>5, <2>6, <2>7, <2>8
    <3>6. QED
      BY <2>6, <3>1, <3>2, <3>3, <3>4, <3>5 DEF TypeOK, Buckets, Rehashing
  <2>11. Slots(0)' = Slots(0) /\ Slots(1)' = {}
    BY <2>5, <2>8, NoSlots DEF Slots
  <2>12. SlotsFinite' /\ UsedCounts'
    <3>1. IsFiniteSet(Slots(0)) /\ used[0] = Cardinality(Slots(0))
      BY DEF IInv, SlotsFinite, UsedCounts
    <3>2. IsFiniteSet(Slots(0)') /\ used'[0] = Cardinality(Slots(0)')
      BY <2>8, <2>11, <3>1
    <3>3. IsFiniteSet(Slots(1)') /\ used'[1] = Cardinality(Slots(1)')
      BY <2>8, <2>11, FS_EmptySet
    <3>4. \A w \in 0 .. 1 : w = 0 \/ w = 1
      OBVIOUS
    <3>5. QED
      BY <3>2, <3>3, <3>4 DEF SlotsFinite, UsedCounts
  <2>13. Bounded' /\ NothingBehindCursor' /\ CursorInBounds'
    <3>1. used'[0] + used'[1] <= MaxUsed
      BY <2>2, <2>8, DictionaryAssumption DEF DictionaryAssumption
    <3>2. \A b \in 0 .. idx' - 1 : FALSE
      BY <2>6
    <3>3. pc' # "overrun"
      BY <2>6
    <3>4. QED
      BY <3>1, <3>2, <3>3 DEF Bounded, NothingBehindCursor, CursorInBounds
  <2>14. QED
    BY <2>10, <2>12, <2>13 DEF IInv
<1>3. QED
  BY <1>1, <1>2

LEMMA SwapPreserves == IInv /\ SwapTables => IInv'
<1> SUFFICES ASSUME IInv, SwapTables PROVE IInv'
  OBVIOUS
<1>1. /\ size'[0] = size[1] /\ size'[1] = 0
      /\ used'[0] = used[1] /\ used'[1] = 0
      /\ chain'[0] = chain[1] /\ chain'[1] = NoChains(0)
      /\ size' = [w \in 0 .. 1 |-> size'[w]] /\ used' = [w \in 0 .. 1 |-> used'[w]]
      /\ chain' = [w \in 0 .. 1 |-> chain'[w]]
      /\ idx' = -1 /\ pc' = "serve" /\ reply' = reply
  BY DEF SwapTables
<1>2. \A w \in 0 .. 1 : w = 0 \/ w = 1
  OBVIOUS
<1>3. /\ size[1] \in Sizes \cup {0} /\ size[1] > 0 /\ size[1] \in Nat
      /\ used[0] \in Nat /\ used[1] \in Nat
      /\ chain[1] \in [0 .. size[1] - 1 -> Seq(Entity)]
  BY SizeIsNat DEF IInv, TypeOK, SwapTables, Buckets
<1>4. TypeOK'
  <2>1. size' \in [0 .. 1 -> Sizes \cup {0}] /\ used' \in [0 .. 1 -> Nat]
    BY <1>1, <1>2, <1>3
  <2>2. chain' \in [0 .. 1 -> {chain'[0], chain'[1]}]
    BY <1>1, <1>2
  <2>3. NoChains(0) \in [0 .. 0 - 1 -> Seq(Entity)]
    BY DEF NoChains
  <2>4. \A t \in 0 .. 1 : chain'[t] \in [0 .. size'[t] - 1 -> Seq(Entity)]
    BY <1>1, <1>2, <1>3, <2>3
  <2>5. reply' \in BOOLEAN
    BY <1>1 DEF IInv, TypeOK
  <2>6. QED
    BY <1>1, <1>3, <2>1, <2>2, <2>4, <2>5 DEF TypeOK, Buckets, Rehashing
<1>5. Slots(0)' = Slots(1) /\ Slots(1)' = {}
  BY <1>1, NoSlots DEF Slots
<1>6. SlotsFinite' /\ UsedCounts'
  <2>1. IsFiniteSet(Slots(1)) /\ used[1] = Cardinality(Slots(1))
    BY DEF IInv, SlotsFinite, UsedCounts
  <2>2. IsFiniteSet(Slots(0)') /\ used'[0] = Cardinality(Slots(0)')
    BY <1>1, <1>5, <2>1
  <2>3. IsFiniteSet(Slots(1)') /\ used'[1] = Cardinality(Slots(1)')
    BY <1>1, <1>5, FS_EmptySet
  <2>4. QED
    BY <1>2, <2>2, <2>3 DEF SlotsFinite, UsedCounts
<1>7. Bounded' /\ NothingBehindCursor' /\ CursorInBounds'
  <2>1. used'[0] + used'[1] <= MaxUsed
    BY <1>1, <1>3, DictionaryAssumption DEF IInv, Bounded, DictionaryAssumption
  <2>2. ~Rehashing'
    BY <1>1 DEF Rehashing
  <2>3. pc' # "overrun"
    BY <1>1
  <2>4. QED
    BY <2>1, <2>2, <2>3 DEF Bounded, NothingBehindCursor, CursorInBounds
<1>8. QED
  BY <1>4, <1>6, <1>7 DEF IInv

\* The loop that skips empty buckets finds one that is not: this is where the
\* exact count and the empty buckets behind the cursor are needed together.
LEMMA SkipPreserves == IInv /\ SkipEmptyBuckets => IInv'
<1> SUFFICES ASSUME IInv, SkipEmptyBuckets PROVE IInv'
  OBVIOUS
<1>1. /\ size[0] \in Nat /\ idx \in 0 .. size[0] /\ Rehashing /\ used[0] > 0
      /\ chain[0] \in [0 .. size[0] - 1 -> Seq(Entity)]
  BY SizeIsNat DEF IInv, TypeOK, SkipEmptyBuckets, Buckets, Rehashing
<1>2. Unmoved \subseteq Nat
  BY <1>1 DEF Unmoved
<1>3. Unmoved # {}
  <2>1. Slots(0) # {}
    <3>1. IsFiniteSet(Slots(0)) /\ used[0] = Cardinality(Slots(0))
      BY DEF IInv, SlotsFinite, UsedCounts
    <3>2. QED
      BY <1>1, <3>1, FS_EmptySet
  <2>2. PICK b \in 0 .. size[0] - 1 : DOMAIN chain[0][b] # {}
    BY <2>1 DEF Slots, SlotsOf
  <2>3. chain[0][b] # <<>>
    BY <2>2
  <2>4. ~(b \in 0 .. idx - 1)
    BY <1>1, <2>3 DEF IInv, NothingBehindCursor, Buckets
  <2>5. b \in idx .. size[0] - 1
    BY <1>1, <2>2, <2>4
  <2>6. QED
    BY <2>3, <2>5 DEF Unmoved
<1>4. /\ pc' = "move" /\ idx' = First(Unmoved)
      /\ UNCHANGED <<size, used, chain, reply>>
  BY <1>3 DEF SkipEmptyBuckets
<1>5. idx' \in Unmoved /\ \A j \in Unmoved : idx' <= j
  BY <1>2, <1>3, <1>4, FirstIsLeast
<1>6. idx' \in 0 .. size[0] - 1 /\ idx <= idx'
  BY <1>1, <1>5 DEF Unmoved
<1>7. \A b \in 0 .. idx' - 1 : chain[0][b] = <<>>
  <2> SUFFICES ASSUME NEW b \in 0 .. idx' - 1 PROVE chain[0][b] = <<>>
    OBVIOUS
  <2>1. b \in 0 .. size[0] - 1 /\ b \notin Unmoved
    BY <1>1, <1>5, <1>6
  <2>2. CASE b < idx
    BY <1>1, <2>1, <2>2 DEF IInv, NothingBehindCursor, Buckets
  <2>3. CASE idx <= b
    BY <1>1, <2>1, <2>3 DEF Unmoved
  <2>4. QED
    BY <1>1, <2>1, <2>2, <2>3
<1>8. TypeOK'
  BY <1>1, <1>4, <1>6 DEF IInv, TypeOK, Buckets, Rehashing
<1>9. SlotsFinite' /\ UsedCounts' /\ Bounded'
  BY <1>4 DEF IInv, SlotsFinite, UsedCounts, Slots, Bounded
<1>10. NothingBehindCursor' /\ CursorInBounds'
  BY <1>4, <1>7 DEF NothingBehindCursor, CursorInBounds
<1>11. QED
  BY <1>8, <1>9, <1>10 DEF IInv

\* A migration step: one chain of table 0 gives its head to one of table 1.
LEMMA MovePreserves == IInv /\ MoveEntity => IInv'
<1> SUFFICES ASSUME IInv, MoveEntity PROVE IInv'
  OBVIOUS
<1> DEFINE e == Head(chain[0][idx])
           b == BucketOf(1, e.key)
           shorter == Tail(chain[0][idx])
           longer  == <<e>> \o chain[1][b]
<1>1. /\ size[0] \in Nat /\ size[1] \in Nat /\ size[1] > 0
      /\ idx \in 0 .. size[0] - 1 /\ Rehashing /\ pc = "move"
      /\ chain[0] \in Table(size[0]) /\ chain[1] \in Table(size[1])
      /\ used[0] \in Nat /\ used[1] \in Nat /\ used \in [0 .. 1 -> Nat]
      /\ chain \in [0 .. 1 -> {chain[0], chain[1]}]
  BY SizeIsNat DEF IInv, TypeOK, MoveEntity, Buckets, Rehashing, Table
<1>2. /\ chain[0][idx] \in Seq(Entity) /\ chain[0][idx] # <<>>
      /\ e \in Entity /\ e.key \in Keys
  <2>1. chain[0][idx] \in Seq(Entity) /\ chain[0][idx] # <<>>
    BY <1>1 DEF Table, MoveEntity
  <2>2. e \in Entity
    BY <2>1, HeadTailProperties
  <2> HIDE DEF e
  <2>3. e.key \in Keys
    BY <2>2 DEF Entity
  <2>4. QED
    BY <2>1, <2>2, <2>3
<1>3. b \in 0 .. size[1] - 1 /\ chain[1][b] \in Seq(Entity)
  <2> HIDE DEF e
  <2>1. b \in Buckets(1)
    BY <1>1, <1>2, BucketOfIsABucket DEF IInv
  <2>2. QED
    BY <1>1, <2>1 DEF Buckets, Table
<1>4. shorter \in Seq(Entity) /\ Len(shorter) = Len(chain[0][idx]) - 1
  BY <1>2, HeadTailProperties
<1>5. longer \in Seq(Entity) /\ Len(longer) = Len(chain[1][b]) + 1
  <2> HIDE DEF e, b
  <2>1. <<e>> \in Seq(Entity) /\ Len(<<e>>) = 1
    BY <1>2
  <2>2. Len(chain[1][b]) \in Nat
    BY <1>3, LenProperties
  <2>3. longer \in Seq(Entity) /\ Len(longer) = Len(<<e>>) + Len(chain[1][b])
    BY <1>3, <2>1, ConcatProperties
  <2>4. QED
    BY <2>1, <2>2, <2>3
<1>6. /\ chain' = [chain EXCEPT ![0][idx] = shorter, ![1][b] = longer]
      /\ used' = [used EXCEPT ![0] = used[0] - 1, ![1] = used[1] + 1]
      /\ UNCHANGED <<size, idx, pc, reply>>
  BY DEF MoveEntity
<1> HIDE DEF e, b, shorter, longer
<1>7. /\ chain'[0] = [chain[0] EXCEPT ![idx] = shorter]
      /\ chain'[1] = [chain[1] EXCEPT ![b] = longer]
      /\ used'[0] = used[0] - 1 /\ used'[1] = used[1] + 1
      /\ used' = [w \in 0 .. 1 |-> used'[w]]
      /\ chain' = [w \in 0 .. 1 |-> chain'[w]]
  <2>1. \A w \in 0 .. 1 : w = 0 \/ w = 1
    OBVIOUS
  <2>2. /\ chain'[0] = [chain[0] EXCEPT ![idx] = shorter]
        /\ chain'[1] = [chain[1] EXCEPT ![b] = longer]
        /\ chain' = [w \in 0 .. 1 |-> chain'[w]]
    <3> DEFINE half == [chain EXCEPT ![0][idx] = shorter]
    <3>1. half[0] = [chain[0] EXCEPT ![idx] = shorter] /\ half[1] = chain[1]
      BY <1>1
    <3>2. DOMAIN half = 0 .. 1
      BY <1>1
    <3>3. chain' = [half EXCEPT ![1][b] = longer]
      BY <1>1, <1>6, Zenon
    <3> HIDE DEF half
    <3>4. chain'[0] = half[0]
      BY <3>2, <3>3
    <3>5. chain'[1] = [half[1] EXCEPT ![b] = longer]
      BY <3>2, <3>3
    <3>6. chain' = [w \in 0 .. 1 |-> chain'[w]]
      BY <3>2, <3>3
    <3>7. QED
      BY <3>1, <3>4, <3>5, <3>6
  <2>3. /\ used'[0] = used[0] - 1 /\ used'[1] = used[1] + 1
        /\ used' = [w \in 0 .. 1 |-> used'[w]]
    <3>1. used' = [used EXCEPT ![0] = used[0] - 1, ![1] = used[1] + 1]
      BY <1>6
    <3>2. used \in [0 .. 1 -> Nat]
      BY <1>1
    <3>3. used'[0] = used[0] - 1
      BY <3>1, <3>2
    <3>4. used'[1] = used[1] + 1
      BY <3>1, <3>2
    <3>5. used' = [w \in 0 .. 1 |-> used'[w]]
      BY <3>1, <3>2
    <3>6. QED
      BY <3>3, <3>4, <3>5
  <2>4. QED
    BY <2>2, <2>3
<1>8. \A w \in 0 .. 1 : w = 0 \/ w = 1
  OBVIOUS
<1>9. /\ IsFiniteSet(SlotsOf(chain[0], size[0])) /\ IsFiniteSet(SlotsOf(chain[1], size[1]))
      /\ used[0] = Cardinality(SlotsOf(chain[0], size[0]))
      /\ used[1] = Cardinality(SlotsOf(chain[1], size[1]))
  BY DEF IInv, SlotsFinite, UsedCounts, Slots
<1>10. /\ IsFiniteSet(SlotsOf(chain'[0], size[0]))
       /\ Cardinality(SlotsOf(chain'[0], size[0])) = used[0] - 1
  BY <1>1, <1>4, <1>7, <1>9, SlotsShrink
<1>11. /\ IsFiniteSet(SlotsOf(chain'[1], size[1]))
       /\ Cardinality(SlotsOf(chain'[1], size[1])) = used[1] + 1
  BY <1>1, <1>3, <1>5, <1>7, <1>9, SlotsGrow
<1>12. SlotsFinite' /\ UsedCounts'
  <2>1. size' = size
    BY <1>6
  <2>2. IsFiniteSet(Slots(0)') /\ used'[0] = Cardinality(Slots(0)')
    BY <1>7, <1>10, <2>1 DEF Slots
  <2>3. IsFiniteSet(Slots(1)') /\ used'[1] = Cardinality(Slots(1)')
    BY <1>7, <1>11, <2>1 DEF Slots
  <2>4. QED
    BY <1>8, <2>2, <2>3 DEF SlotsFinite, UsedCounts
<1>13. TypeOK'
  <2>1. used'[0] \in Nat /\ used'[1] \in Nat
    BY <1>1, <1>7, <1>10, <1>11, FS_CardinalityType
  <2>2. used' \in [0 .. 1 -> Nat]
    BY <1>7, <1>8, <2>1
  <2>3. chain' \in [0 .. 1 -> {chain'[0], chain'[1]}]
    BY <1>7, <1>8
  <2>4. chain'[0] \in [0 .. size[0] - 1 -> Seq(Entity)]
    BY <1>1, <1>4, <1>7 DEF Table
  <2>5. chain'[1] \in [0 .. size[1] - 1 -> Seq(Entity)]
    BY <1>1, <1>3, <1>5, <1>7 DEF Table
  <2>6. \A w \in 0 .. 1 : chain'[w] \in [0 .. size[w] - 1 -> Seq(Entity)]
    BY <1>8, <2>4, <2>5
  <2>7. QED
    BY <1>1, <1>6, <2>2, <2>3, <2>6 DEF IInv, TypeOK, Buckets, Rehashing
<1>14. Bounded'
  <2>1. used[0] + used[1] <= MaxUsed /\ MaxUsed \in Nat
    BY DictionaryAssumption DEF IInv, Bounded, DictionaryAssumption
  <2>2. used'[0] + used'[1] = used[0] + used[1]
    BY <1>1, <1>7
  <2>3. QED
    BY <2>1, <2>2 DEF Bounded
<1>15. NothingBehindCursor'
  <2> SUFFICES ASSUME NEW a \in 0 .. idx - 1 PROVE chain'[0][a] = <<>>
    BY <1>6 DEF NothingBehindCursor
  <2>1. a \in 0 .. size[0] - 1 /\ a # idx
    BY <1>1
  <2>2. chain[0][a] = <<>>
    BY <1>1, <2>1 DEF IInv, NothingBehindCursor, Buckets
  <2>3. QED
    BY <1>1, <1>7, <2>1, <2>2 DEF Table
<1>16. CursorInBounds'
  BY <1>1, <1>6 DEF CursorInBounds
<1>17. QED
  BY <1>12, <1>13, <1>14, <1>15, <1>16 DEF IInv

\* The cursor leaves a bucket only when it is empty.
LEMMA FinishPreserves == IInv /\ FinishBucket => IInv'
<1> SUFFICES ASSUME IInv, FinishBucket PROVE IInv'
  OBVIOUS
<1>1. /\ size[0] \in Nat /\ idx \in 0 .. size[0] - 1 /\ Rehashing
      /\ chain[0][idx] = <<>> /\ idx' = idx + 1 /\ pc' \in {"resize", "serve"}
      /\ UNCHANGED <<size, used, chain, reply>>
  BY SizeIsNat DEF IInv, TypeOK, FinishBucket, Rehashing
<1>2. TypeOK'
  BY <1>1 DEF IInv, TypeOK, Buckets, Rehashing
<1>3. SlotsFinite' /\ UsedCounts' /\ Bounded'
  BY <1>1 DEF IInv, SlotsFinite, UsedCounts, Slots, Bounded
<1>4. NothingBehindCursor'
  <2> SUFFICES ASSUME NEW a \in 0 .. idx, a \in Buckets(0) PROVE chain[0][a] = <<>>
    BY <1>1 DEF NothingBehindCursor, Buckets
  <2>1. a = idx \/ a \in 0 .. idx - 1
    BY <1>1
  <2>2. QED
    BY <1>1, <2>1 DEF IInv, NothingBehindCursor
<1>5. CursorInBounds'
  BY <1>1 DEF CursorInBounds
<1>6. QED
  BY <1>2, <1>3, <1>4, <1>5 DEF IInv

LEMMA UpdateDictPreserves == IInv /\ UpdateDict => IInv'
<1> SUFFICES ASSUME IInv, UpdateDict PROVE IInv'
  OBVIOUS
<1>1. CASE NothingToMove
  BY <1>1 DEF NothingToMove, IInv, TypeOK, SlotsFinite, UsedCounts, Slots, Bounded,
              NothingBehindCursor, CursorInBounds, Buckets, Rehashing
<1>2. QED
  BY <1>1, BeginTurnPreserves, SwapPreserves, SkipPreserves, MovePreserves,
     FinishPreserves DEF UpdateDict

-----------------------------------------------------------------------------
(* The commands.                                                           *)

\* The table a command works on has buckets: table 1 does during a rehash.
LEMMA TableInUse ==
  ASSUME IInv, NEW t \in 0 .. 1, t = 0 \/ Rehashing
  PROVE  size[t] > 0
  BY DEF IInv, TypeOK

LEMMA AddElementPreserves ==
  ASSUME IInv, pc = "serve", UNCHANGED <<size, idx, pc>>,
         NEW k \in Keys, NEW type \in Types, NEW v \in Vals \cup {Obj},
         AddElement(k, type, v)
  PROVE  IInv'
<1>1. CASE Rehashing
  <2>1. HashmapAdd(1, k, type, v) /\ size[1] > 0
    BY <1>1, TableInUse DEF AddElement
  <2>2. QED
    BY <2>1, AddPreserves
<1>2. CASE ~Rehashing
  <2>1. HashmapAdd(0, k, type, v) /\ size[0] > 0
    BY <1>2, TableInUse DEF AddElement
  <2>2. QED
    BY <1>2, <2>1, AddPreserves
<1>3. QED
  BY <1>1, <1>2

LEMMA CommandsPreserve ==
  ASSUME IInv, NEW k \in Keys
  PROVE  /\ \A v \in Vals : InsertKV(k, v) => IInv'
         /\ \A type \in Types : AddObject(k, type) => IInv'
         /\ RemoveKV(k) => IInv'
<1>0. TableOf(k) \in 0 .. 1 /\ size[TableOf(k)] > 0
  BY TableInUse DEF TableOf
<1>1. ASSUME NEW v \in Vals, InsertKV(k, v) PROVE IInv'
  <2>1. pc = "serve" /\ UNCHANGED <<size, idx, pc>>
    BY <1>1 DEF InsertKV
  <2>2. CASE Found(k, "STR")
    <3>1. HashmapUpdate(TableOf(k), k, v) /\ UNCHANGED used
      BY <1>1, <2>2 DEF InsertKV, UpdateElement
    <3>2. QED
      BY <1>0, <2>1, <3>1, UpdatePreserves
  <2>3. CASE ~Found(k, "STR")
    <3>1. AddElement(k, "STR", v) /\ "STR" \in Types
      BY <1>1, <2>3 DEF InsertKV, Types
    <3>2. QED
      BY <2>1, <3>1, AddElementPreserves
  <2>4. QED
    BY <2>2, <2>3
<1>2. ASSUME NEW type \in Types, AddObject(k, type) PROVE IInv'
  BY <1>2, AddElementPreserves DEF AddObject
<1>3. ASSUME RemoveKV(k) PROVE IInv'
  BY <1>0, <1>3, RemovePreserves DEF RemoveKV, RemoveElement
<1>4. QED
  BY <1>1, <1>2, <1>3

-----------------------------------------------------------------------------
(* The theorems.                                                           *)

LEMMA InitEstablishes == Init => IInv
<1> SUFFICES ASSUME Init PROVE IInv
  OBVIOUS
<1>1. \A w \in 0 .. 1 : w = 0 \/ w = 1
  OBVIOUS
<1>2. InitialSize \in Nat /\ InitialSize > 0 /\ MaxUsed \in Nat
  BY DictionaryAssumption DEF DictionaryAssumption
<1>3. InitialSize \in Sizes
  <2>1. InitialSize = InitialSize * 2^0
    BY <1>2
  <2>2. 0 \in 0 .. MaxDoublings
    BY DictionaryAssumption DEF DictionaryAssumption
  <2>3. QED
    BY <2>1, <2>2 DEF Sizes
<1>4. /\ size[0] = InitialSize /\ size[1] = 0 /\ used[0] = 0 /\ used[1] = 0
      /\ chain[0] = NoChains(InitialSize) /\ chain[1] = NoChains(0)
      /\ idx = -1 /\ pc = "serve" /\ reply = TRUE
  BY DEF Init
<1>5. TypeOK
  <2>1. size \in [0 .. 1 -> Sizes \cup {0}] /\ used \in [0 .. 1 -> Nat]
    BY <1>3 DEF Init
  <2>2. chain \in [0 .. 1 -> {chain[0], chain[1]}]
    BY <1>1 DEF Init
  <2>3. \A n \in Nat : NoChains(n) \in [0 .. n - 1 -> Seq(Entity)]
    BY DEF NoChains
  <2>4. \A t \in 0 .. 1 : chain[t] \in [0 .. size[t] - 1 -> Seq(Entity)]
    BY <1>1, <1>2, <1>4, <2>3
  <2>5. QED
    BY <1>2, <1>4, <2>1, <2>2, <2>4 DEF TypeOK, Buckets, Rehashing
<1>6. Slots(0) = {} /\ Slots(1) = {}
  BY <1>2, <1>4, NoSlots DEF Slots
<1>7. SlotsFinite /\ UsedCounts
  BY <1>1, <1>4, <1>6, FS_EmptySet DEF SlotsFinite, UsedCounts
<1>8. Bounded /\ NothingBehindCursor /\ CursorInBounds
  BY <1>2, <1>4 DEF Bounded, NothingBehindCursor, CursorInBounds, Rehashing
<1>9. QED
  BY <1>5, <1>7, <1>8 DEF IInv

LEMMA StutterPreserves == IInv /\ UNCHANGED vars => IInv'
  BY DEF IInv, TypeOK, SlotsFinite, UsedCounts, Slots, Bounded, NothingBehindCursor,
         CursorInBounds, Buckets, Rehashing, vars

\* The strengthened invariant is inductive: every command and every step of a
\* turn of UpdateDict preserves it.
LEMMA Inductive == Spec => []IInv
<1>1. IInv /\ [Next]_vars => IInv'
  <2> SUFFICES ASSUME IInv, [Next]_vars PROVE IInv'
    OBVIOUS
  <2>1. CASE \E k \in Keys, v \in Vals : InsertKV(k, v)
    BY <2>1, CommandsPreserve
  <2>2. CASE \E k \in Keys, type \in Types : AddObject(k, type)
    BY <2>2, CommandsPreserve
  <2>3. CASE \E k \in Keys : RemoveKV(k)
    BY <2>3, CommandsPreserve
  <2>4. CASE UpdateDict
    BY <2>4, UpdateDictPreserves
  <2>5. CASE UNCHANGED vars
    BY <2>5, StutterPreserves
  <2>6. QED
    BY <2>1, <2>2, <2>3, <2>4, <2>5 DEF Next
<1>2. QED
  BY <1>1, InitEstablishes, PTL DEF Spec

\* The two tables keep their shape, and a rehash is in progress exactly when
\* table 1 has buckets.
THEOREM TypeCorrect == Spec => []TypeOK
<1>1. IInv => TypeOK
  BY DEF IInv
<1>2. QED
  BY <1>1, Inductive, PTL

\* m_lUsed is exact in both tables, in every state of every rehash.
THEOREM CountsAreExact == Spec => []UsedCounts
<1>1. IInv => UsedCounts
  BY DEF IInv
<1>2. QED
  BY <1>1, Inductive, PTL

\* No command and no migration step leaves an entity behind the cursor, where
\* the swap would free it.
THEOREM NothingIsLeftBehind == Spec => []NothingBehindCursor
<1>1. IInv => NothingBehindCursor
  BY DEF IInv
<1>2. QED
  BY <1>1, Inductive, PTL

\* The loop of UpdateResize that skips empty buckets never reads past m_table,
\* for every hash function and every order of commands and turns.
THEOREM CursorStaysInside == Spec => []CursorInBounds
<1>1. IInv => CursorInBounds
  BY DEF IInv
<1>2. QED
  BY <1>1, Inductive, PTL


-----------------------------------------------------------------------------
(* The entities of one chain.                                              *)

Members(c) == {c[i] : i \in DOMAIN c}

\* A new entity at the end of a chain joins those that are there.
LEMMA MembersOfAppend ==
  ASSUME NEW c \in Seq(Entity), NEW e \in Entity
  PROVE  Members(Append(c, e)) = Members(c) \cup {e}
<1> DEFINE d == Append(c, e)
<1>1. Len(c) \in Nat /\ DOMAIN c = 1 .. Len(c)
  BY LenProperties
<1>2. /\ d \in Seq(Entity) /\ Len(d) = Len(c) + 1
      /\ \A i \in 1 .. Len(c) : d[i] = c[i]
      /\ d[Len(c) + 1] = e
  BY AppendProperties
<1> HIDE DEF d
<1>3. DOMAIN d = 1 .. Len(c) + 1
  BY <1>2, LenProperties
<1>4. ASSUME NEW i \in 1 .. Len(c) + 1 PROVE d[i] \in Members(c) \cup {e}
  BY <1>1, <1>2 DEF Members
<1>5. ASSUME NEW i \in 1 .. Len(c) PROVE c[i] \in Members(d)
  BY <1>1, <1>2, <1>3 DEF Members
<1>6. e \in Members(d)
  BY <1>1, <1>2, <1>3 DEF Members
<1>7. Members(d) = Members(c) \cup {e}
  BY <1>1, <1>3, <1>4, <1>5, <1>6 DEF Members
<1>8. QED
  BY <1>7 DEF d

\* So does one at its beginning.
LEMMA MembersOfCons ==
  ASSUME NEW c \in Seq(Entity), NEW e \in Entity
  PROVE  Members(<<e>> \o c) = Members(c) \cup {e}
<1>1. <<e>> \in Seq(Entity) /\ Len(<<e>>) = 1 /\ <<e>>[1] = e
  OBVIOUS
<1>2. Len(c) \in Nat /\ DOMAIN c = 1 .. Len(c)
  BY LenProperties
<1>3. /\ <<e>> \o c \in Seq(Entity) /\ Len(<<e>> \o c) = Len(c) + 1
      /\ \A i \in 1 .. Len(c) + 1 : (<<e>> \o c)[i] = IF i <= 1 THEN e ELSE c[i - 1]
  BY <1>1, <1>2, ConcatProperties
<1> DEFINE d == <<e>> \o c
<1>4. DOMAIN d = 1 .. Len(c) + 1
  BY <1>3, LenProperties
<1> HIDE DEF d
<1>5. ASSUME NEW x \in Members(d) PROVE x \in Members(c) \cup {e}
  BY <1>2, <1>3, <1>4, <1>5 DEF Members, d
<1>6. e \in Members(d)
  BY <1>2, <1>3, <1>4 DEF Members, d
<1>7. ASSUME NEW i \in 1 .. Len(c) PROVE c[i] \in Members(d)
  <2>1. i + 1 \in 1 .. Len(c) + 1 /\ (i + 1) - 1 = i /\ ~(i + 1 <= 1)
    BY <1>2
  <2>2. d[i + 1] = c[i]
    BY <1>3, <2>1 DEF d
  <2>3. QED
    BY <1>4, <2>1, <2>2 DEF Members
<1>8. QED
  BY <1>2, <1>5, <1>6, <1>7 DEF Members, d

\* The head of a chain and the members of the rest are its members.
LEMMA MembersOfTail ==
  ASSUME NEW c \in Seq(Entity), c # <<>>
  PROVE  Members(c) = Members(Tail(c)) \cup {Head(c)}
<1>1. Len(c) \in Nat \ {0} /\ DOMAIN c = 1 .. Len(c) /\ Head(c) = c[1]
  BY EmptySeq, LenProperties
<1>2. /\ Tail(c) \in Seq(Entity) /\ Len(Tail(c)) = Len(c) - 1
      /\ \A i \in 1 .. Len(Tail(c)) : Tail(c)[i] = c[i + 1]
  BY HeadTailProperties
<1>3. DOMAIN Tail(c) = 1 .. Len(c) - 1
  BY <1>2, LenProperties
<1>4. ASSUME NEW i \in 2 .. Len(c) PROVE c[i] \in Members(Tail(c))
  <2>1. i - 1 \in 1 .. Len(c) - 1 /\ (i - 1) + 1 = i
    BY <1>1
  <2>2. QED
    BY <1>2, <1>3, <2>1 DEF Members
<1>5. ASSUME NEW i \in 1 .. Len(c) - 1 PROVE Tail(c)[i] \in Members(c)
  BY <1>1, <1>2 DEF Members
<1>6. Head(c) \in Members(c)
  BY <1>1 DEF Members
<1>7. ASSUME NEW x \in Members(c) PROVE x \in Members(Tail(c)) \cup {Head(c)}
  <2>1. PICK i \in 1 .. Len(c) : x = c[i]
    BY <1>1 DEF Members
  <2>2. CASE i = 1
    BY <1>1, <2>1, <2>2
  <2>3. CASE i # 1
    <3>1. i \in 2 .. Len(c)
      BY <1>1, <2>3
    <3>2. QED
      BY <1>4, <2>1, <3>1
  <2>4. QED
    BY <2>2, <2>3
<1>8. ASSUME NEW x \in Members(Tail(c)) PROVE x \in Members(c)
  BY <1>3, <1>5 DEF Members
<1>9. QED
  BY <1>6, <1>7, <1>8

\* Unlinking an entity moves those behind it up by one.
LEMMA WithoutAtMeans ==
  ASSUME NEW c \in Seq(Entity), NEW i \in 1 .. Len(c)
  PROVE  /\ WithoutAt(c, i) \in Seq(Entity)
         /\ DOMAIN WithoutAt(c, i) = 1 .. Len(c) - 1
         /\ \A j \in 1 .. Len(c) - 1 :
              WithoutAt(c, i)[j] = IF j < i THEN c[j] ELSE c[j + 1]
<1> DEFINE front == SubSeq(c, 1, i - 1)
           back  == SubSeq(c, i + 1, Len(c))
<1>0. Len(c) \in Nat /\ DOMAIN c = 1 .. Len(c)
  BY LenProperties
<1>00. Len(c) \in Nat
  BY <1>0
<1>1. /\ front \in Seq(Entity) /\ Len(front) = i - 1
      /\ \A j \in 1 .. i - 1 : front[j] = c[j]
  BY <1>0, SubSeqProperties
<1>2. /\ back \in Seq(Entity) /\ Len(back) = Len(c) - i
      /\ \A j \in 1 .. Len(c) - i : back[j] = c[i + j]
  <2>1. /\ back \in Seq(Entity)
        /\ Len(back) = IF i + 1 <= Len(c) THEN Len(c) - (i + 1) + 1 ELSE 0
        /\ \A j \in 1 .. Len(c) - (i + 1) + 1 : back[j] = c[(i + 1) + j - 1]
    BY <1>0, SubSeqProperties
  <2> HIDE DEF back
  <2>2. Len(c) - (i + 1) + 1 = Len(c) - i
    BY <1>00
  <2>3. \A j \in 1 .. Len(c) - i : (i + 1) + j - 1 = i + j
    BY <1>00
  <2>4. ASSUME NEW j \in 1 .. Len(c) - i PROVE back[j] = c[i + j]
    <3>1. back[j] = c[(i + 1) + j - 1]
      BY <2>1, <2>2
    <3>2. (i + 1) + j - 1 = i + j
      BY <2>3
    <3>3. QED
      BY <3>1, <3>2, Zenon
  <2>5. Len(back) = Len(c) - i
    <3>1. CASE i = Len(c)
      <4>1. ~(i + 1 <= Len(c)) /\ Len(c) - i = 0
        BY <1>00, <3>1
      <4>2. QED
        BY <2>1, <4>1
    <3>2. CASE i # Len(c)
      <4>1. i + 1 <= Len(c)
        BY <1>00, <3>2
      <4>2. QED
        BY <2>1, <2>2, <4>1
    <3>3. QED
      BY <3>1, <3>2
  <2>6. QED
    BY <2>1, <2>4, <2>5
<1> HIDE DEF front, back
<1>3. /\ front \o back \in Seq(Entity) /\ Len(front \o back) = Len(c) - 1
      /\ \A j \in 1 .. Len(c) - 1 :
           (front \o back)[j] = IF j <= i - 1 THEN front[j] ELSE back[j - (i - 1)]
  <2>1. Len(front) + Len(back) = Len(c) - 1
    BY <1>0, <1>1, <1>2
  <2>2. /\ front \o back \in Seq(Entity) /\ Len(front \o back) = Len(front) + Len(back)
        /\ \A j \in 1 .. Len(front) + Len(back) :
             (front \o back)[j] = IF j <= Len(front) THEN front[j] ELSE back[j - Len(front)]
    BY <1>1, <1>2, ConcatProperties
  <2>3. QED
    BY <1>1, <2>1, <2>2
<1>4. DOMAIN (front \o back) = 1 .. Len(c) - 1
  BY <1>3, LenProperties
<1>5. ASSUME NEW j \in 1 .. Len(c) - 1
      PROVE  (front \o back)[j] = IF j < i THEN c[j] ELSE c[j + 1]
  <2>1. CASE j <= i - 1
    <3>1. j < i /\ j \in 1 .. i - 1
      BY <1>00, <2>1
    <3>2. QED
      BY <1>1, <1>3, <2>1, <3>1
  <2>2. CASE ~(j <= i - 1)
    <3>1. j - (i - 1) \in 1 .. Len(c) - i /\ i + (j - (i - 1)) = j + 1 /\ ~(j < i)
      BY <1>00, <2>2
    <3>2. QED
      BY <1>2, <1>3, <2>2, <3>1
  <2>3. QED
    BY <2>1, <2>2
<1>6. WithoutAt(c, i) = front \o back
  BY DEF WithoutAt, front, back
<1>7. QED
  BY <1>3, <1>4, <1>5, <1>6

\* And adds none.
LEMMA MembersWithout ==
  ASSUME NEW c \in Seq(Entity), NEW i \in 1 .. Len(c)
  PROVE  Members(WithoutAt(c, i)) \subseteq Members(c)
<1> DEFINE d == WithoutAt(c, i)
<1>1. Len(c) \in Nat
  BY LenProperties
<1>2. DOMAIN c = 1 .. Len(c)
  BY LenProperties
<1>3. /\ DOMAIN d = 1 .. Len(c) - 1
      /\ \A j \in 1 .. Len(c) - 1 : d[j] = IF j < i THEN c[j] ELSE c[j + 1]
  BY WithoutAtMeans
<1> HIDE DEF d
<1>4. ASSUME NEW j \in 1 .. Len(c) - 1 PROVE d[j] \in Members(c)
  <2>1. j \in 1 .. Len(c) /\ j + 1 \in 1 .. Len(c)
    BY <1>1
  <2>2. QED
    BY <1>2, <1>3, <2>1 DEF Members
<1>5. QED
  BY <1>3, <1>4 DEF Members, d

-----------------------------------------------------------------------------
(* Every entity is on its chain.                                           *)

\* The members of each chain of a table of n buckets hash to it.
Chained(table, n) ==
  \A b \in 0 .. n - 1 : \A e \in Members(table[b]) : Hash[e.key] % n = b

LEMMA ChainedMeans == OnItsChain <=> \A t \in 0 .. 1 : Chained(chain[t], size[t])
  BY DEF OnItsChain, Chained, Members, Buckets, BucketOf

LEMMA ChainedMeansNext == OnItsChain' <=> \A t \in 0 .. 1 : Chained(chain'[t], size'[t])
  BY DEF OnItsChain, Chained, Members, Buckets, BucketOf

\* One chain may change as long as what is on it hashes to it.
LEMMA ChainedExcept ==
  ASSUME NEW n \in Nat, NEW f \in Table(n), Chained(f, n), NEW b \in 0 .. n - 1, NEW d,
         \A e \in Members(d) : Hash[e.key] % n = b
  PROVE  Chained([f EXCEPT ![b] = d], n)
  BY DEF Chained, Table

\* That is all a command does.
LEMMA OneChainStaysChained ==
  ASSUME TypeOK, OnItsChain, NEW t \in 0 .. 1, NEW b \in Buckets(t), NEW d,
         chain' = [chain EXCEPT ![t][b] = d], size' = size,
         \A e \in Members(d) : Hash[e.key] % size[t] = b
  PROVE  OnItsChain'
<1>1. /\ \A u \in 0 .. 1 : size[u] \in Nat /\ chain[u] \in Table(size[u])
      /\ DOMAIN chain = 0 .. 1
  BY SizeIsNat DEF TypeOK, Buckets, Table
<1>2. \A u \in 0 .. 1 : Chained(chain[u], size[u])
  BY ChainedMeans
<1>3. b \in 0 .. size[t] - 1
  BY DEF Buckets
<1>4. chain'[t] = [chain[t] EXCEPT ![b] = d] /\ \A u \in 0 .. 1 : u # t => chain'[u] = chain[u]
  BY <1>1
<1>5. Chained(chain'[t], size[t])
  BY <1>1, <1>2, <1>3, <1>4, ChainedExcept
<1>6. \A u \in 0 .. 1 : Chained(chain'[u], size[u])
  BY <1>2, <1>4, <1>5
<1>7. QED
  BY <1>6, ChainedMeansNext

LEMMA AddKeepsChains ==
  ASSUME IInv, OnItsChain, UNCHANGED size, NEW t \in 0 .. 1, size[t] > 0,
         NEW k \in Keys, NEW type \in Types, NEW v \in Vals \cup {Obj},
         HashmapAdd(t, k, type, v)
  PROVE  OnItsChain'
<1> DEFINE b == BucketOf(t, k)
           e == [key |-> k, type |-> type, val |-> v]
           d == Append(chain[t][b], e)
<1>1. CASE HasKey(t, k)
  BY <1>1 DEF HashmapAdd, OnItsChain, Buckets, BucketOf
<1>2. CASE ~HasKey(t, k)
  <2>1. chain' = [chain EXCEPT ![t][b] = d]
    BY <1>2 DEF HashmapAdd, LinkAtTail
  <2>2. b \in Buckets(t) /\ chain[t][b] \in Seq(Entity)
    BY BucketOfIsABucket DEF IInv, TypeOK
  <2>3. e \in Entity /\ e.key = k
    BY DEF Entity
  <2>4. Hash[k] % size[t] = b
    BY DEF BucketOf
  <2>5. \A x \in Members(chain[t][b]) : Hash[x.key] % size[t] = b
    BY <2>2, ChainedMeans DEF Chained, Buckets
  <2> HIDE DEF e, b
  <2>6. Members(d) = Members(chain[t][b]) \cup {e}
    BY <2>2, <2>3, MembersOfAppend
  <2> HIDE DEF d
  <2>7. \A x \in Members(d) : Hash[x.key] % size[t] = b
    BY <2>3, <2>4, <2>5, <2>6
  <2>8. QED
    BY <2>1, <2>2, <2>7, OneChainStaysChained DEF IInv
<1>3. QED
  BY <1>1, <1>2

LEMMA RemoveKeepsChains ==
  ASSUME IInv, OnItsChain, UNCHANGED size, NEW t \in 0 .. 1, size[t] > 0,
         NEW k \in Keys, HashmapRemove(t, k)
  PROVE  OnItsChain'
<1>1. CASE ~(used[t] > 0 /\ HasKey(t, k))
  BY <1>1 DEF HashmapRemove, OnItsChain, Buckets, BucketOf
<1>2. CASE used[t] > 0 /\ HasKey(t, k)
  <2> DEFINE b == BucketOf(t, k)
             c == chain[t][b]
             i == Victim(c, k)
             d == WithoutAt(c, i)
  <2>1. b \in Buckets(t) /\ c \in Seq(Entity) /\ ChainOf(t, k) = c
    BY BucketOfIsABucket DEF IInv, TypeOK
  <2>2. i \in 1 .. Len(c)
    BY <1>2, <2>1, VictimHoldsKey DEF HasKey
  <2>3. chain' = [chain EXCEPT ![t][b] = d]
    BY <1>2 DEF HashmapRemove
  <2>4. \A x \in Members(c) : Hash[x.key] % size[t] = b
    BY <2>1, ChainedMeans DEF Chained, Buckets
  <2>5. Members(d) \subseteq Members(c)
    <3> HIDE DEF c, i
    <3> QED BY <2>1, <2>2, MembersWithout
  <2> HIDE DEF b, c, i, d
  <2>6. QED
    BY <2>1, <2>3, <2>4, <2>5, OneChainStaysChained DEF IInv
<1>3. QED
  BY <1>1, <1>2

LEMMA UpdateKeepsChains ==
  ASSUME IInv, OnItsChain, UNCHANGED size, NEW t \in 0 .. 1, size[t] > 0,
         NEW k \in Keys, NEW v \in Vals, HashmapUpdate(t, k, v)
  PROVE  OnItsChain'
<1>1. CASE ~HasKey(t, k)
  BY <1>1 DEF HashmapUpdate, OnItsChain, Buckets, BucketOf
<1>2. CASE HasKey(t, k)
  <2> DEFINE b == BucketOf(t, k)
             c == chain[t][b]
             i == First(Holding(ChainOf(t, k), k))
             d == [c EXCEPT ![i].val = v]
  <2>1. b \in Buckets(t) /\ c \in Seq(Entity) /\ ChainOf(t, k) = c
    BY BucketOfIsABucket DEF IInv, TypeOK
  <2>2. chain' = [chain EXCEPT ![t][b] = d]
    BY <1>2 DEF HashmapUpdate
  <2>3. \A x \in Members(c) : Hash[x.key] % size[t] = b
    BY <2>1, ChainedMeans DEF Chained, Buckets
  <2>4. ASSUME NEW x \in Members(d) PROVE \E y \in Members(c) : x.key = y.key
    <3> HIDE DEF i, c
    <3>1. PICK j \in DOMAIN d : x = d[j]
      BY DEF Members
    <3>2. j \in DOMAIN c /\ c[j] \in Members(c)
      BY <3>1 DEF Members
    <3>3. c[j] \in Entity
      BY <2>1, <3>2
    <3>4. x = IF j = i THEN [c[i] EXCEPT !.val = v] ELSE c[j]
      BY <3>1, <3>2
    <3>5. x.key = c[j].key
      BY <3>3, <3>4 DEF Entity
    <3>6. QED
      BY <3>2, <3>5
  <2> HIDE DEF b, c, i, d
  <2>5. \A x \in Members(d) : Hash[x.key] % size[t] = b
    BY <2>3, <2>4
  <2>6. QED
    BY <2>1, <2>2, <2>5, OneChainStaysChained DEF c, IInv
<1>3. QED
  BY <1>1, <1>2

-----------------------------------------------------------------------------
(* A turn of UpdateDict keeps every entity, and puts it on its chain.      *)

\* What one table holds.
Held(table, n) == UNION {Members(table[b]) : b \in 0 .. n - 1}

LEMMA ContentsAre == Contents = Held(chain[0], size[0]) \cup Held(chain[1], size[1])
<1>1. \A t \in 0 .. 1 : t = 0 \/ t = 1
  OBVIOUS
<1>2. QED
  BY <1>1 DEF Contents, Held, Members, Buckets

LEMMA ContentsAreNext == Contents' = Held(chain'[0], size'[0]) \cup Held(chain'[1], size'[1])
<1>1. \A t \in 0 .. 1 : t = 0 \/ t = 1
  OBVIOUS
<1>2. QED
  BY <1>1 DEF Contents, Held, Members, Buckets

\* A fresh table holds nothing.
LEMMA NothingHeld ==
  ASSUME NEW n \in Nat
  PROVE  Held(NoChains(n), n) = {} /\ Chained(NoChains(n), n)
  BY DEF Held, NoChains, Members, Chained

\* Nor does a table whose count is 0.
LEMMA EmptyWhenUnused ==
  ASSUME IInv, NEW t \in 0 .. 1, used[t] = 0
  PROVE  Held(chain[t], size[t]) = {}
<1>1. IsFiniteSet(Slots(t)) /\ Cardinality(Slots(t)) = 0
  BY DEF IInv, SlotsFinite, UsedCounts
<1>2. Slots(t) = {}
  BY <1>1, FS_EmptySet
<1>3. ASSUME NEW b \in 0 .. size[t] - 1 PROVE DOMAIN chain[t][b] = {}
  <2>1. ASSUME NEW i \in DOMAIN chain[t][b] PROVE <<b, i>> \in Slots(t)
    BY DEF Slots, SlotsOf
  <2>2. QED
    BY <1>2, <2>1
<1>4. QED
  BY <1>3 DEF Held, Members

\* What a turn leaves as it was: the entities and their number.
Kept == Contents' = Contents /\ used'[0] + used'[1] = used[0] + used[1]

LEMMA BeginTurnKeeps == IInv /\ OnItsChain /\ BeginTurn => Kept /\ OnItsChain'
<1> SUFFICES ASSUME IInv, OnItsChain, BeginTurn PROVE Kept /\ OnItsChain'
  OBVIOUS
<1>1. CASE ~IsNeedResize
  BY <1>1 DEF BeginTurn, Kept, Contents, OnItsChain, Buckets, BucketOf
<1>2. CASE IsNeedResize
  <2> DEFINE n == RealSize(used[0] * 2)
  <2>1. ~Rehashing /\ used[0] \in Nat /\ used[1] \in Nat
    BY <1>2 DEF IsNeedResize, IInv, TypeOK
  <2>2. n \in Nat
    <3>1. used[0] * 2 \in Nat /\ used[0] * 2 <= 2 * MaxUsed
      BY <2>1, DictionaryAssumption DEF IInv, Bounded, DictionaryAssumption
    <3>2. n \in Sizes
      BY <3>1, RealSizeIsASize
    <3> HIDE DEF n
    <3>3. QED
      BY <3>2, DictionaryAssumption DEF DictionaryAssumption
  <2>3. /\ size' = [size EXCEPT ![1] = n] /\ used' = [used EXCEPT ![1] = 0]
        /\ chain' = [chain EXCEPT ![1] = NoChains(n)]
    BY <1>2 DEF BeginTurn
  <2> HIDE DEF n
  <2>4. /\ size'[0] = size[0] /\ size'[1] = n /\ used'[0] = used[0] /\ used'[1] = 0
        /\ chain'[0] = chain[0] /\ chain'[1] = NoChains(n)
    BY <2>3 DEF IInv, TypeOK
  <2>5. used[1] = 0
    <3>1. size[1] = 0
      BY <2>1, SizeIsNat DEF IInv, TypeOK
    <3>2. Slots(1) = {}
      BY <3>1 DEF Slots, SlotsOf
    <3>3. QED
      BY <3>2, FS_EmptySet DEF IInv, UsedCounts
  <2>6. Held(chain[1], size[1]) = {} /\ Held(chain'[1], size'[1]) = {}
    BY <2>2, <2>4, <2>5, EmptyWhenUnused, NothingHeld
  <2>7. Contents' = Contents
    BY <2>4, <2>6, ContentsAre, ContentsAreNext
  <2>8. used'[0] + used'[1] = used[0] + used[1]
    BY <2>4, <2>5
  <2>9. \A t \in 0 .. 1 : Chained(chain'[t], size'[t])
    <3>1. \A t \in 0 .. 1 : t = 0 \/ t = 1
      OBVIOUS
    <3>2. Chained(chain'[0], size'[0])
      BY <2>4, ChainedMeans
    <3>3. Chained(chain'[1], size'[1])
      BY <2>2, <2>4, NothingHeld
    <3>4. QED
      BY <3>1, <3>2, <3>3
  <2>10. QED
    BY <2>7, <2>8, <2>9, ChainedMeansNext DEF Kept
<1>3. QED
  BY <1>1, <1>2

LEMMA SwapKeeps == IInv /\ OnItsChain /\ SwapTables => Kept /\ OnItsChain'
<1> SUFFICES ASSUME IInv, OnItsChain, SwapTables PROVE Kept /\ OnItsChain'
  OBVIOUS
<1>1. /\ size'[0] = size[1] /\ size'[1] = 0 /\ used'[0] = used[1] /\ used'[1] = 0
      /\ chain'[0] = chain[1] /\ chain'[1] = NoChains(0) /\ used[0] = 0
  BY DEF SwapTables
<1>2. Held(chain[0], size[0]) = {} /\ Held(chain'[1], size'[1]) = {}
  BY <1>1, EmptyWhenUnused, NothingHeld
<1>3. Contents' = Contents
  BY <1>1, <1>2, ContentsAre, ContentsAreNext
<1>4. used'[0] + used'[1] = used[0] + used[1]
  BY <1>1 DEF IInv, TypeOK
<1>5. \A t \in 0 .. 1 : Chained(chain'[t], size'[t])
  <2>1. \A t \in 0 .. 1 : t = 0 \/ t = 1
    OBVIOUS
  <2>2. Chained(chain'[0], size'[0])
    BY <1>1, ChainedMeans
  <2>3. Chained(chain'[1], size'[1])
    BY <1>1, NothingHeld
  <2>4. QED
    BY <2>1, <2>2, <2>3
<1>6. QED
  BY <1>3, <1>4, <1>5, ChainedMeansNext DEF Kept

\* What a table holds when one of its chains changes.
LEMMA HeldExcept ==
  ASSUME NEW n \in Nat, NEW f \in Table(n), NEW b \in 0 .. n - 1, NEW d
  PROVE  Held([f EXCEPT ![b] = d], n)
           = Members(d) \cup UNION {Members(f[a]) : a \in (0 .. n - 1) \ {b}}
  BY DEF Held, Table

LEMMA MoveKeeps == IInv /\ OnItsChain /\ MoveEntity => Kept /\ OnItsChain'
<1> SUFFICES ASSUME IInv, OnItsChain, MoveEntity PROVE Kept /\ OnItsChain'
  OBVIOUS
<1> DEFINE from == chain[0][idx]
           e == Head(from)
           b == BucketOf(1, e.key)
           to == chain[1][b]
<1>1. /\ size[0] \in Nat /\ size[1] \in Nat /\ size[1] > 0
      /\ idx \in 0 .. size[0] - 1
      /\ chain[0] \in Table(size[0]) /\ chain[1] \in Table(size[1])
      /\ DOMAIN chain = 0 .. 1
      /\ used[0] \in Nat /\ used[1] \in Nat /\ DOMAIN used = 0 .. 1
  BY SizeIsNat DEF IInv, TypeOK, MoveEntity, Buckets, Rehashing, Table
<1>2. /\ from \in Seq(Entity) /\ from # <<>> /\ e \in Entity
      /\ Members(from) = Members(Tail(from)) \cup {e}
  <2>1. from \in Seq(Entity) /\ from # <<>>
    BY <1>1 DEF Table, MoveEntity
  <2> HIDE DEF from
  <2>2. QED
    BY <2>1, HeadTailProperties, MembersOfTail
<1>3. b \in 0 .. size[1] - 1 /\ to \in Seq(Entity) /\ Hash[e.key] % size[1] = b
  <2>1. e.key \in Keys
    <3> HIDE DEF e
    <3> QED BY <1>2 DEF Entity
  <2>2. b \in Buckets(1)
    <3> HIDE DEF e
    <3> QED BY <1>1, <2>1, BucketOfIsABucket DEF IInv
  <2>3. Hash[e.key] % size[1] = b
    BY DEF BucketOf
  <2>4. to \in Seq(Entity)
    <3> HIDE DEF b
    <3> QED BY <1>1, <2>2 DEF Buckets, Table
  <2>5. QED
    BY <2>2, <2>3, <2>4 DEF Buckets
<1>4. /\ chain' = [chain EXCEPT ![0][idx] = Tail(from), ![1][b] = <<e>> \o to]
      /\ used' = [used EXCEPT ![0] = used[0] - 1, ![1] = used[1] + 1] /\ size' = size
  BY DEF MoveEntity
<1>5. Members(<<e>> \o to) = Members(to) \cup {e}
  <2> HIDE DEF e, to
  <2> QED BY <1>2, <1>3, MembersOfCons
<1> DEFINE less == Tail(from)
           more == <<e>> \o to
<1>6. /\ chain'[0] = [chain[0] EXCEPT ![idx] = less]
      /\ chain'[1] = [chain[1] EXCEPT ![b] = more]
  <2> DEFINE half == [chain EXCEPT ![0][idx] = less]
  <2>1. half[0] = [chain[0] EXCEPT ![idx] = less] /\ half[1] = chain[1] /\ DOMAIN half = 0 .. 1
    <3> HIDE DEF less
    <3> QED BY <1>1
  <2>2. chain' = [half EXCEPT ![1][b] = more]
    <3> HIDE DEF b, more
    <3> QED BY <1>1, <1>4, Zenon DEF more
  <2> HIDE DEF half, b, less, more
  <2>3. chain'[0] = half[0]
    BY <2>1, <2>2
  <2>4. chain'[1] = [half[1] EXCEPT ![b] = more]
    BY <2>1, <2>2
  <2>5. QED
    BY <2>1, <2>3, <2>4
<1>7. used'[0] + used'[1] = used[0] + used[1]
  <2>1. used'[0] = used[0] - 1
    BY <1>1, <1>4
  <2>2. used'[1] = used[1] + 1
    BY <1>1, <1>4
  <2>3. QED
    BY <1>1, <2>1, <2>2
<1>8. /\ Members(from) = Members(less) \cup {e}
      /\ Members(more) = Members(to) \cup {e}
  BY <1>2, <1>5
<1> HIDE DEF e, b, less, more
<1>9. Contents' = Contents
  <2>1. Held(chain'[0], size'[0]) \cup {e} = Held(chain[0], size[0])
    <3>1. Held(chain'[0], size[0])
            = Members(less) \cup UNION {Members(chain[0][a]) : a \in (0 .. size[0] - 1) \ {idx}}
      BY <1>1, <1>6, HeldExcept
    <3>2. Held(chain[0], size[0])
            = Members(from) \cup UNION {Members(chain[0][a]) : a \in (0 .. size[0] - 1) \ {idx}}
      BY <1>1 DEF Held
    <3>3. QED
      BY <1>4, <1>8, <3>1, <3>2
  <2>2. Held(chain'[1], size'[1]) = Held(chain[1], size[1]) \cup {e}
    <3>0. size[1] \in Nat /\ chain[1] \in Table(size[1]) /\ b \in 0 .. size[1] - 1
      BY <1>1, <1>3
    <3>1. Held(chain'[1], size[1])
            = Members(more) \cup UNION {Members(chain[1][a]) : a \in (0 .. size[1] - 1) \ {b}}
      BY <1>6, <3>0, HeldExcept
    <3>2. Held(chain[1], size[1])
            = Members(to) \cup UNION {Members(chain[1][a]) : a \in (0 .. size[1] - 1) \ {b}}
      BY <1>1, <1>3 DEF Held
    <3>3. QED
      BY <1>4, <1>8, <3>1, <3>2
  <2>3. QED
    BY <2>1, <2>2, ContentsAre, ContentsAreNext
<1>10. OnItsChain'
  <2>1. Chained(chain[0], size[0]) /\ Chained(chain[1], size[1])
    BY ChainedMeans
  <2>2. Chained(chain'[0], size'[0])
    <3>1. \A x \in Members(less) : Hash[x.key] % size[0] = idx
      BY <1>1, <1>8, <2>1 DEF Chained
    <3>2. QED
      BY <1>1, <1>4, <1>6, <2>1, <3>1, ChainedExcept
  <2>3. Chained(chain'[1], size'[1])
    <3>1. \A x \in Members(more) : Hash[x.key] % size[1] = b
      BY <1>1, <1>3, <1>8, <2>1 DEF Chained
    <3>2. size[1] \in Nat /\ chain[1] \in Table(size[1]) /\ b \in 0 .. size[1] - 1
      BY <1>1, <1>3
    <3>3. Chained([chain[1] EXCEPT ![b] = more], size[1])
      BY <2>1, <3>1, <3>2, ChainedExcept
    <3>4. QED
      BY <1>4, <1>6, <3>3
  <2>4. \A t \in 0 .. 1 : t = 0 \/ t = 1
    OBVIOUS
  <2>5. QED
    BY <2>2, <2>3, <2>4, ChainedMeansNext
<1>11. QED
  BY <1>7, <1>9, <1>10 DEF Kept

LEMMA UpdateDictKeeps == IInv /\ OnItsChain /\ UpdateDict => Kept /\ OnItsChain'
<1> SUFFICES ASSUME IInv, OnItsChain, UpdateDict PROVE Kept /\ OnItsChain'
  OBVIOUS
<1>1. CASE NothingToMove \/ SkipEmptyBuckets \/ FinishBucket
  <2>1. UNCHANGED <<size, used, chain>>
    BY <1>1 DEF NothingToMove, SkipEmptyBuckets, FinishBucket
  <2>2. QED
    BY <2>1 DEF Kept, Contents, OnItsChain, Buckets, BucketOf
<1>2. QED
  BY <1>1, BeginTurnKeeps, SwapKeeps, MoveKeeps DEF UpdateDict

LEMMA CommandsKeepChains ==
  ASSUME IInv, OnItsChain, NEW k \in Keys
  PROVE  /\ \A v \in Vals : InsertKV(k, v) => OnItsChain'
         /\ \A type \in Types : AddObject(k, type) => OnItsChain'
         /\ RemoveKV(k) => OnItsChain'
<1>1. TableOf(k) \in 0 .. 1 /\ size[TableOf(k)] > 0
  BY TableInUse DEF TableOf
<1>2. ASSUME UNCHANGED size, NEW type \in Types, NEW v \in Vals \cup {Obj}, AddElement(k, type, v)
      PROVE  OnItsChain'
  <2> DEFINE t == IF Rehashing THEN 1 ELSE 0
  <2>1. t \in 0 .. 1 /\ size[t] > 0 /\ HashmapAdd(t, k, type, v)
    BY <1>2, TableInUse DEF AddElement
  <2> HIDE DEF t
  <2>2. QED
    BY <1>2, <2>1, AddKeepsChains
<1>3. ASSUME NEW v \in Vals, InsertKV(k, v) PROVE OnItsChain'
  <2>1. UNCHANGED size /\ "STR" \in Types
    BY <1>3 DEF InsertKV, Types
  <2>2. CASE Found(k, "STR")
    BY <1>1, <1>3, <2>1, <2>2, UpdateKeepsChains DEF InsertKV, UpdateElement
  <2>3. CASE ~Found(k, "STR")
    BY <1>2, <1>3, <2>1, <2>3 DEF InsertKV
  <2>4. QED
    BY <2>2, <2>3
<1>4. ASSUME NEW type \in Types, AddObject(k, type) PROVE OnItsChain'
  BY <1>2, <1>4 DEF AddObject
<1>5. ASSUME RemoveKV(k) PROVE OnItsChain'
  BY <1>1, <1>5, RemoveKeepsChains DEF RemoveKV, RemoveElement
<1>6. QED
  BY <1>3, <1>4, <1>5

-----------------------------------------------------------------------------
(* The theorems.                                                           *)

\* Every entity is on the chain that Get, Update and Remove search, in its table of
\* that moment, whatever the hash function makes of the keys.
THEOREM EntitiesOnTheirChains == Spec => []OnItsChain
<1>1. Init => OnItsChain
  <2> SUFFICES ASSUME Init PROVE OnItsChain
    OBVIOUS
  <2>1. \A t \in 0 .. 1 : chain[t] = NoChains(size[t])
    BY DEF Init
  <2>2. \A t \in 0 .. 1 : \A b \in Buckets(t) : chain[t][b] = <<>>
    BY <2>1 DEF NoChains, Buckets
  <2>3. DOMAIN <<>> = {}
    OBVIOUS
  <2>4. QED
    BY <2>2, <2>3 DEF OnItsChain
<1>2. IInv /\ OnItsChain /\ [Next]_vars => OnItsChain'
  <2> SUFFICES ASSUME IInv, OnItsChain, [Next]_vars PROVE OnItsChain'
    OBVIOUS
  <2>1. CASE UpdateDict
    BY <2>1, UpdateDictKeeps
  <2>2. CASE UNCHANGED vars
    BY <2>2 DEF vars, OnItsChain, Buckets, BucketOf
  <2>3. QED
    BY <2>1, <2>2, CommandsKeepChains DEF Next
<1>3. QED
  BY <1>1, <1>2, Inductive, PTL DEF Spec

\* A turn of UpdateDict, from its beginning to its end, leaves what the two tables
\* hold together as it was, and their counts with it.
THEOREM MigrationKeeps == Spec => MigrationKeepsEntities
<1>1. IInv /\ OnItsChain /\ [Next]_vars
        => [pc' # "serve" \/ pc # "serve" =>
              Contents' = Contents /\ used'[0] + used'[1] = used[0] + used[1]]_vars
  <2> SUFFICES ASSUME IInv, OnItsChain, Next, pc' # "serve" \/ pc # "serve" PROVE Kept
    BY DEF Kept
  <2>1. UpdateDict
    BY DEF Next, InsertKV, AddObject, RemoveKV
  <2>2. QED
    BY <2>1, UpdateDictKeeps
<1>2. QED
  BY <1>1, Inductive, EntitiesOnTheirChains, PTL DEF Spec, MigrationKeepsEntities
=============================================================================
