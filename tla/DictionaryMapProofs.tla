------------------------- MODULE DictionaryMapProofs -------------------------
(***************************************************************************)
(* The theorem that the two tables implement one map (StringMap), for any  *)
(* keys, values, hash function and thresholds: through every command and   *)
(* every step of an incremental rehash, as long as clients keep each key   *)
(* to one type.                                                            *)
(***************************************************************************)
EXTENDS DictionaryMap, DictionaryProofs

-----------------------------------------------------------------------------
(* A chain on which no key comes twice.                                    *)

NoDup(c) == \A i, j \in DOMAIN c : c[i].key = c[j].key => i = j

\* The members of two chains are the same but for those that hold key k.
SameBut(c, d, k) ==
  \A e \in Entity : e.key # k => (e \in Members(d) <=> e \in Members(c))

LEMMA AppendNoDup ==
  ASSUME NEW c \in Seq(Entity), NEW e \in Entity, NoDup(c),
         \A x \in Members(c) : x.key # e.key
  PROVE  /\ Append(c, e) \in Seq(Entity) /\ NoDup(Append(c, e))
         /\ SameBut(c, Append(c, e), e.key)
         /\ e \in Members(Append(c, e))
         /\ \A x \in Members(Append(c, e)) : x.key = e.key => x = e
<1> DEFINE d == Append(c, e)
<1>1. Len(c) \in Nat /\ DOMAIN c = 1 .. Len(c)
  BY LenProperties
<1>2. /\ d \in Seq(Entity) /\ Len(d) = Len(c) + 1
      /\ \A i \in 1 .. Len(c) : d[i] = c[i]
      /\ d[Len(c) + 1] = e
  BY AppendProperties
<1>3. Members(d) = Members(c) \cup {e}
  BY MembersOfAppend
<1> HIDE DEF d
<1>4. DOMAIN d = 1 .. Len(c) + 1
  BY <1>2, LenProperties
<1>5. \A i \in 1 .. Len(c) : c[i].key # e.key
  BY <1>1 DEF Members
<1>6. ASSUME NEW i \in DOMAIN d, NEW j \in DOMAIN d, d[i].key = d[j].key
      PROVE  i = j
  <2>1. CASE i \in 1 .. Len(c) /\ j \in 1 .. Len(c)
    BY <1>1, <1>2, <1>6, <2>1 DEF NoDup
  <2>2. CASE i = Len(c) + 1 /\ j \in 1 .. Len(c)
    BY <1>2, <1>5, <1>6, <2>2
  <2>3. CASE j = Len(c) + 1 /\ i \in 1 .. Len(c)
    BY <1>2, <1>5, <1>6, <2>3
  <2>4. QED
    BY <1>1, <1>4, <2>1, <2>2, <2>3
<1>7. NoDup(d) /\ SameBut(c, d, e.key)
  BY <1>3, <1>6 DEF NoDup, SameBut
<1>8. QED
  BY <1>2, <1>3, <1>7 DEF d

LEMMA ConsNoDup ==
  ASSUME NEW c \in Seq(Entity), NEW e \in Entity, NoDup(c),
         \A x \in Members(c) : x.key # e.key
  PROVE  NoDup(<<e>> \o c)
<1> DEFINE d == <<e>> \o c
<1>1. Len(c) \in Nat /\ DOMAIN c = 1 .. Len(c)
  BY LenProperties
<1>2. /\ d \in Seq(Entity) /\ Len(d) = Len(c) + 1
      /\ \A i \in 1 .. Len(c) + 1 : d[i] = IF i <= 1 THEN e ELSE c[i - 1]
  <2>1. <<e>> \in Seq(Entity) /\ Len(<<e>>) = 1 /\ <<e>>[1] = e
    OBVIOUS
  <2>2. QED
    BY <1>1, <2>1, ConcatProperties
<1> HIDE DEF d
<1>3. DOMAIN d = 1 .. Len(c) + 1
  BY <1>2, LenProperties
<1>4. \A i \in 1 .. Len(c) : c[i].key # e.key
  BY <1>1 DEF Members
<1>5. ASSUME NEW i \in DOMAIN d, NEW j \in DOMAIN d, d[i].key = d[j].key
      PROVE  i = j
  <2>0. Len(c) \in Nat /\ i \in 1 .. Len(c) + 1 /\ j \in 1 .. Len(c) + 1
    BY <1>1, <1>3
  <2>1. CASE i # 1 /\ j # 1
    <3>1. i - 1 \in 1 .. Len(c) /\ j - 1 \in 1 .. Len(c) /\ ~(i <= 1) /\ ~(j <= 1)
      BY <2>0, <2>1
    <3>2. c[i - 1].key = c[j - 1].key
      BY <1>2, <1>5, <2>0, <3>1
    <3>3. i - 1 = j - 1
      BY <1>1, <3>1, <3>2 DEF NoDup
    <3>4. QED
      BY <2>0, <3>3
  <2>2. CASE i = 1 /\ j # 1
    <3>1. j - 1 \in 1 .. Len(c) /\ ~(j <= 1)
      BY <2>0, <2>2
    <3>2. QED
      BY <1>2, <1>4, <1>5, <2>0, <2>2, <3>1
  <2>3. CASE j = 1 /\ i # 1
    <3>1. i - 1 \in 1 .. Len(c) /\ ~(i <= 1)
      BY <2>0, <2>3
    <3>2. QED
      BY <1>2, <1>4, <1>5, <2>0, <2>3, <3>1
  <2>4. QED
    BY <2>1, <2>2, <2>3
<1>6. QED
  BY <1>5 DEF NoDup, d

LEMMA TailNoDup ==
  ASSUME NEW c \in Seq(Entity), c # <<>>, NoDup(c)
  PROVE  NoDup(Tail(c)) /\ \A x \in Members(Tail(c)) : x.key # Head(c).key
<1>1. Len(c) \in Nat \ {0} /\ DOMAIN c = 1 .. Len(c) /\ Head(c) = c[1]
  BY EmptySeq, LenProperties
<1>2. /\ Tail(c) \in Seq(Entity) /\ Len(Tail(c)) = Len(c) - 1
      /\ \A i \in 1 .. Len(Tail(c)) : Tail(c)[i] = c[i + 1]
  BY HeadTailProperties
<1>3. DOMAIN Tail(c) = 1 .. Len(c) - 1
  BY <1>2, LenProperties
<1>4. ASSUME NEW i \in DOMAIN Tail(c)
      PROVE  /\ i \in Nat /\ i + 1 \in DOMAIN c /\ i + 1 # 1
             /\ Tail(c)[i] = c[i + 1]
  BY <1>1, <1>2, <1>3
<1>5. NoDup(Tail(c))
  <2>1. ASSUME NEW i \in DOMAIN Tail(c), NEW j \in DOMAIN Tail(c),
               Tail(c)[i].key = Tail(c)[j].key
        PROVE  i = j
    <3>1. i + 1 = j + 1
      BY <1>4, <2>1 DEF NoDup
    <3>2. QED
      BY <1>4, <3>1
  <2>2. QED
    BY <2>1 DEF NoDup
<1>6. ASSUME NEW i \in DOMAIN Tail(c) PROVE Tail(c)[i].key # Head(c).key
  BY <1>1, <1>4 DEF NoDup
<1>7. QED
  BY <1>5, <1>6 DEF Members

LEMMA WithoutNoDup ==
  ASSUME NEW c \in Seq(Entity), NEW i \in 1 .. Len(c), NoDup(c)
  PROVE  /\ WithoutAt(c, i) \in Seq(Entity) /\ NoDup(WithoutAt(c, i))
         /\ SameBut(c, WithoutAt(c, i), c[i].key)
         /\ \A x \in Members(WithoutAt(c, i)) : x.key # c[i].key
<1> DEFINE d == WithoutAt(c, i)
           At(j) == IF j < i THEN j ELSE j + 1
<1>1. Len(c) \in Nat
  BY LenProperties
<1>2. DOMAIN c = 1 .. Len(c)
  BY LenProperties
<1>3. /\ d \in Seq(Entity) /\ DOMAIN d = 1 .. Len(c) - 1
      /\ \A j \in 1 .. Len(c) - 1 : d[j] = IF j < i THEN c[j] ELSE c[j + 1]
  BY WithoutAtMeans
<1> HIDE DEF d
<1>4. ASSUME NEW j \in 1 .. Len(c) - 1
      PROVE  At(j) \in 1 .. Len(c) /\ At(j) # i /\ d[j] = c[At(j)]
  <2>1. At(j) \in 1 .. Len(c) /\ At(j) # i
    BY <1>1
  <2>2. QED
    BY <1>3, <2>1
<1>5. ASSUME NEW j \in 1 .. Len(c) - 1, NEW m \in 1 .. Len(c) - 1, At(j) = At(m)
      PROVE  j = m
  BY <1>1, <1>5
<1>6. ASSUME NEW m \in 1 .. Len(c), m # i
      PROVE  \E j \in 1 .. Len(c) - 1 : At(j) = m
  <2>1. CASE m < i
    BY <1>1, <2>1
  <2>2. CASE ~(m < i)
    <3>1. m - 1 \in 1 .. Len(c) - 1 /\ At(m - 1) = m
      BY <1>1, <1>6, <2>2
    <3>2. QED
      BY <3>1
  <2>3. QED
    BY <2>1, <2>2
<1> HIDE DEF At
<1>7. NoDup(d)
  <2>1. ASSUME NEW j \in DOMAIN d, NEW m \in DOMAIN d, d[j].key = d[m].key
        PROVE  j = m
    <3>1. j \in 1 .. Len(c) - 1 /\ m \in 1 .. Len(c) - 1
      BY <1>3
    <3>2. c[At(j)].key = c[At(m)].key /\ At(j) \in DOMAIN c /\ At(m) \in DOMAIN c
      BY <1>2, <1>4, <2>1, <3>1
    <3>3. At(j) = At(m)
      BY <3>2 DEF NoDup
    <3>4. QED
      BY <1>5, <3>1, <3>3
  <2>2. QED
    BY <2>1 DEF NoDup
<1>8. ASSUME NEW x \in Members(d) PROVE x \in Members(c) /\ x.key # c[i].key
  <2>1. PICK j \in 1 .. Len(c) - 1 : x = d[j]
    BY <1>3 DEF Members
  <2>2. x = c[At(j)] /\ At(j) \in DOMAIN c /\ At(j) # i /\ i \in DOMAIN c
    BY <1>2, <1>4, <2>1
  <2>3. QED
    BY <2>2 DEF NoDup, Members
<1>9. ASSUME NEW x \in Members(c), x.key # c[i].key PROVE x \in Members(d)
  <2>1. PICK m \in 1 .. Len(c) : x = c[m]
    BY <1>2 DEF Members
  <2>2. m # i
    BY <1>9, <2>1
  <2>3. PICK j \in 1 .. Len(c) - 1 : At(j) = m
    BY <1>6, <2>2
  <2>4. d[j] = x
    BY <1>4, <2>1, <2>3
  <2>5. QED
    BY <1>3, <2>4 DEF Members
<1>10. QED
  BY <1>3, <1>7, <1>8, <1>9 DEF SameBut, d

LEMMA UpdateNoDup ==
  ASSUME NEW c \in Seq(Entity), NEW i \in 1 .. Len(c), NEW v \in Vals \cup {Obj}, NoDup(c)
  PROVE  /\ [c EXCEPT ![i].val = v] \in Seq(Entity) /\ NoDup([c EXCEPT ![i].val = v])
         /\ SameBut(c, [c EXCEPT ![i].val = v], c[i].key)
         /\ [c[i] EXCEPT !.val = v] \in Members([c EXCEPT ![i].val = v])
         /\ \A x \in Members([c EXCEPT ![i].val = v]) :
              x.key = c[i].key => x = [c[i] EXCEPT !.val = v]
<1> DEFINE new == [c[i] EXCEPT !.val = v]
           d   == [c EXCEPT ![i].val = v]
<1>1. DOMAIN c = 1 .. Len(c) /\ c[i] \in Entity
  BY LenProperties, ElementOfSeq
<1>2. new \in Entity /\ new.key = c[i].key /\ new.val = v
  BY <1>1 DEF Entity
<1>3. d = [c EXCEPT ![i] = new]
  BY <1>1
<1> HIDE DEF new, d
<1>4. d \in Seq(Entity) /\ DOMAIN d = DOMAIN c
  BY <1>1, <1>2, <1>3, ExceptSeq
<1>5. \A j \in DOMAIN c : d[j] = IF j = i THEN new ELSE c[j]
  BY <1>3
<1>6. \A j \in DOMAIN c : d[j].key = c[j].key
  BY <1>2, <1>5
<1>7. NoDup(d)
  BY <1>4, <1>6 DEF NoDup
<1>8. new \in Members(d)
  BY <1>1, <1>4, <1>5 DEF Members
<1>9. ASSUME NEW x \in Members(d) PROVE x = new \/ (x \in Members(c) /\ x.key # c[i].key)
  <2>1. PICK j \in DOMAIN c : x = d[j]
    BY <1>4 DEF Members
  <2>2. CASE j = i
    BY <1>5, <2>1, <2>2
  <2>3. CASE j # i
    BY <1>1, <1>5, <2>1, <2>3 DEF NoDup, Members
  <2>4. QED
    BY <2>2, <2>3
<1>10. ASSUME NEW x \in Members(c), x.key # c[i].key PROVE x \in Members(d)
  <2>1. PICK j \in DOMAIN c : x = c[j]
    BY DEF Members
  <2>2. d[j] = x
    BY <1>5, <1>10, <2>1
  <2>3. QED
    BY <1>4, <2>2 DEF Members
<1>11. SameBut(c, d, c[i].key)
  BY <1>2, <1>9, <1>10 DEF SameBut
<1>12. QED
  BY <1>4, <1>7, <1>8, <1>9, <1>11 DEF new, d

-----------------------------------------------------------------------------
(* The invariant: a key is held once, and with the type it is used with.   *)

HeldIn(t) == Held(chain[t], size[t])

Lacks(t, k) == \A e \in HeldIn(t) : e.key # k

Once ==
  /\ \A t \in 0 .. 1 : \A b \in Buckets(t) : NoDup(chain[t][b])
  /\ \A e \in HeldIn(0), f \in HeldIn(1) : e.key # f.key

Typed == \A e \in Contents : <<e.key, e.type>> \in Uses

MapInv == IInv /\ OnItsChain /\ Once /\ Typed

\* What a lookup returns, told by what the tables hold.
LookupMeans ==
  \A k \in Keys :
    /\ (\A e \in Contents : e.key # k) => Lookup(k) = None
    /\ \A e \in Contents : e.key = k => Lookup(k) = e.val

LEMMA ContentsAreHeld == Contents = HeldIn(0) \cup HeldIn(1)
  BY ContentsAre DEF HeldIn

\* An entity is held when it is on one of the chains, and is what the table's
\* type says.
LEMMA HeldMeans ==
  ASSUME IInv, NEW t \in 0 .. 1
  PROVE  /\ \A e \in HeldIn(t) : e \in Entity /\ \E b \in Buckets(t) : e \in Members(chain[t][b])
         /\ \A b \in Buckets(t) : Members(chain[t][b]) \subseteq HeldIn(t)
         /\ \A b \in Buckets(t) : chain[t][b] \in Seq(Entity)
<1>1. \A b \in Buckets(t) : chain[t][b] \in Seq(Entity)
  BY DEF IInv, TypeOK
<1>2. ASSUME NEW b \in Buckets(t), NEW e \in Members(chain[t][b]) PROVE e \in Entity
  <2> DEFINE c == chain[t][b]
  <2>1. c \in Seq(Entity)
    BY <1>1
  <2> HIDE DEF c
  <2>2. \A i \in DOMAIN c : c[i] \in Entity
    BY <2>1, LenProperties, ElementOfSeq
  <2>3. QED
    BY <1>2, <2>2 DEF Members, c
<1>3. HeldIn(t) = UNION {Members(chain[t][b]) : b \in Buckets(t)}
  BY DEF HeldIn, Held, Buckets
<1>4. QED
  BY <1>1, <1>2, <1>3

\* The search of one chain finds what its whole table holds.
LEMMA SearchFinds ==
  ASSUME IInv, OnItsChain, NEW t \in 0 .. 1, size[t] > 0, NEW k \in Keys
  PROVE  /\ Holding(ChainOf(t, k), k) = {} <=> Lacks(t, k)
         /\ Holding(ChainOf(t, k), k) \subseteq Nat
         /\ \A i \in Holding(ChainOf(t, k), k) :
              ChainOf(t, k)[i] \in HeldIn(t) /\ ChainOf(t, k)[i].key = k
<1> DEFINE b == BucketOf(t, k)
           c == chain[t][b]
<1>1. b \in Buckets(t) /\ ChainOf(t, k) = c /\ c \in Seq(Entity)
  BY BucketOfIsABucket DEF IInv
<1>2. Members(c) \subseteq HeldIn(t)
  BY <1>1, HeldMeans
<1>3. Hash[k] % size[t] = b
  BY DEF BucketOf
<1>4. ASSUME NEW e \in HeldIn(t), e.key = k PROVE e \in Members(c)
  <2>1. PICK a \in Buckets(t) : e \in Members(chain[t][a])
    BY HeldMeans
  <2>2. Hash[e.key] % size[t] = a
    BY <2>1, ChainedMeans DEF Chained, Buckets
  <2>3. QED
    BY <1>3, <1>4, <2>1, <2>2
<1> HIDE DEF b, c
<1>5. DOMAIN c \subseteq Nat
  BY <1>1, LenProperties
<1>6. \A i \in Holding(c, k) : i \in DOMAIN c /\ c[i] \in Members(c) /\ c[i].key = k
  BY DEF Holding, Members
<1>7. ASSUME NEW e \in Members(c), e.key = k PROVE Holding(c, k) # {}
  BY <1>7 DEF Holding, Members
<1>8. QED
  BY <1>1, <1>2, <1>4, <1>5, <1>6, <1>7 DEF Lacks

\* With no rehash in progress table 1 has nothing.
LEMMA TableOneUnused ==
  ASSUME IInv, ~Rehashing
  PROVE  HeldIn(1) = {}
<1>1. size[1] = 0
  BY SizeIsNat DEF IInv, TypeOK
<1>2. QED
  BY <1>1 DEF HeldIn, Held

LEMMA SameKey ==
  ASSUME MapInv, NEW e \in Contents, NEW f \in Contents, e.key = f.key
  PROVE  e = f
<1>1. PICK t \in 0 .. 1 : e \in HeldIn(t) /\ f \in HeldIn(t)
  BY ContentsAreHeld DEF MapInv, Once
<1>2. PICK b \in Buckets(t) : e \in Members(chain[t][b])
  BY <1>1, HeldMeans DEF MapInv
<1>3. PICK a \in Buckets(t) : f \in Members(chain[t][a])
  BY <1>1, HeldMeans DEF MapInv
<1>4. a = b
  BY <1>2, <1>3, ChainedMeans DEF Chained, Buckets, MapInv
<1>5. NoDup(chain[t][b])
  BY DEF MapInv, Once
<1>6. QED
  BY <1>2, <1>3, <1>4, <1>5 DEF NoDup, Members

LEMMA LookupIs == MapInv => LookupMeans
<1> SUFFICES ASSUME MapInv, NEW k \in Keys
             PROVE  /\ (\A e \in Contents : e.key # k) => Lookup(k) = None
                    /\ \A e \in Contents : e.key = k => Lookup(k) = e.val
  BY DEF LookupMeans
<1> DEFINE In(t) == UNION {Matching(t, k, type) : type \in Types}
           At(t) == ChainOf(t, k)[First(In(t))]
<1>1. ASSUME NEW t \in 0 .. 1, size[t] > 0
      PROVE  /\ In(t) = {} <=> Lacks(t, k)
             /\ In(t) # {} => At(t) \in HeldIn(t) /\ At(t).key = k
  <2> DEFINE H == Holding(ChainOf(t, k), k)
  <2>1. /\ H = {} <=> Lacks(t, k)
        /\ H \subseteq Nat
        /\ \A i \in H : ChainOf(t, k)[i] \in HeldIn(t) /\ ChainOf(t, k)[i].key = k
    BY <1>1, SearchFinds DEF MapInv
  <2>2. \A i \in H : ChainOf(t, k)[i].type \in Types
    BY <2>1, HeldMeans DEF MapInv, Entity
  <2> HIDE DEF H
  <2>3. In(t) = IF used[t] = 0 THEN {} ELSE H
    BY <2>2 DEF Matching, H
  <2>4. used[t] = 0 => Lacks(t, k)
    BY EmptyWhenUnused DEF Lacks, HeldIn, MapInv
  <2>5. In(t) = {} <=> Lacks(t, k)
    BY <2>1, <2>3, <2>4
  <2>6. In(t) \subseteq H
    BY <2>3
  <2> HIDE DEF In
  <2>7. In(t) # {} => First(In(t)) \in In(t)
    BY <2>1, <2>6, FirstIsLeast
  <2>8. QED
    BY <2>1, <2>5, <2>6, <2>7
<1>2. size[0] > 0 /\ (Rehashing => size[1] > 0) /\ (~Rehashing => Lacks(1, k))
  BY TableInUse, TableOneUnused DEF MapInv, Lacks
<1>3. Lookup(k) = IF In(0) # {} THEN At(0).val
                  ELSE IF Rehashing /\ In(1) # {} THEN At(1).val ELSE None
  BY DEF Lookup
<1> HIDE DEF In, At
<1>4. CASE In(0) # {}
  <2>1. At(0) \in Contents /\ At(0).key = k /\ Lookup(k) = At(0).val
    BY <1>1, <1>2, <1>3, <1>4, ContentsAreHeld
  <2>2. QED
    BY <2>1, SameKey
<1>5. CASE In(0) = {} /\ Rehashing /\ In(1) # {}
  <2>1. At(1) \in Contents /\ At(1).key = k /\ Lookup(k) = At(1).val
    BY <1>1, <1>2, <1>3, <1>5, ContentsAreHeld
  <2>2. QED
    BY <2>1, SameKey
<1>6. CASE In(0) = {} /\ ~(Rehashing /\ In(1) # {})
  <2>1. Lookup(k) = None /\ Lacks(0, k) /\ Lacks(1, k)
    BY <1>1, <1>2, <1>3, <1>6
  <2>2. QED
    BY <2>1, ContentsAreHeld DEF Lacks
<1>7. QED
  BY <1>4, <1>5, <1>6

LEMMA LookupIsNext == MapInv' => LookupMeans'
  BY LookupIs, PTL

LEMMA FoundMeans ==
  ASSUME MapInv, Settled, NEW k \in Keys, NEW type \in Types, <<k, type>> \in Uses
  PROVE  Found(k, type) <=> \E e \in Contents : e.key = k
<1>1. ASSUME NEW t \in 0 .. 1, size[t] > 0
      PROVE  Matching(t, k, type) = {} <=> Lacks(t, k)
  <2> DEFINE H == Holding(ChainOf(t, k), k)
  <2>1. /\ H = {} <=> Lacks(t, k)
        /\ \A i \in H : ChainOf(t, k)[i] \in HeldIn(t) /\ ChainOf(t, k)[i].key = k
    BY <1>1, SearchFinds DEF MapInv
  <2>2. ASSUME NEW i \in H PROVE ChainOf(t, k)[i].type = type
    <3> DEFINE e == ChainOf(t, k)[i]
    <3>1. e \in Contents /\ e.key = k
      <4>1. t = 0 \/ t = 1
        OBVIOUS
      <4>2. QED
        BY <2>1, <4>1, ContentsAreHeld
    <3> HIDE DEF e
    <3>2. <<k, e.type>> \in Uses
      BY <3>1 DEF MapInv, Typed
    <3>3. e.type = type
      BY <3>2 DEF Settled
    <3>4. QED
      BY <3>3 DEF e
  <2> HIDE DEF H
  <2>3. Matching(t, k, type) = IF used[t] = 0 THEN {} ELSE H
    BY <2>2 DEF Matching, H
  <2>4. used[t] = 0 => Lacks(t, k)
    BY EmptyWhenUnused DEF Lacks, HeldIn, MapInv
  <2>5. QED
    BY <2>1, <2>3, <2>4
<1>2. size[0] > 0 /\ (Rehashing => size[1] > 0) /\ (~Rehashing => Lacks(1, k))
  BY TableInUse, TableOneUnused DEF MapInv, Lacks
<1>3. Found(k, type) <=> ~Lacks(0, k) \/ ~Lacks(1, k)
  BY <1>1, <1>2 DEF Found
<1>4. QED
  BY <1>3, ContentsAreHeld DEF Lacks

-----------------------------------------------------------------------------
(* The commands.                                                           *)

\* What the tables hold of every key but k stays as it was.
OnlyKey(k) == \A e \in Entity : e.key # k => (e \in Contents' <=> e \in Contents)

\* A command changes one chain, in the one table that holds its key or may.
LEMMA ChainStep ==
  ASSUME MapInv, NEW t \in 0 .. 1, NEW u \in 0 .. 1, t # u, size[t] > 0,
         NEW k \in Keys, NEW d \in Seq(Entity),
         chain' = [chain EXCEPT ![t][BucketOf(t, k)] = d], size' = size,
         NoDup(d), SameBut(ChainOf(t, k), d, k),
         \A x \in Members(d) : x.key = k => <<x.key, x.type>> \in Uses,
         Lacks(u, k)
  PROVE  /\ Once' /\ Typed' /\ OnlyKey(k)
         /\ \A e \in Contents' : e.key = k => e \in Members(d)
         /\ Members(d) \subseteq Contents'
<1> DEFINE b == BucketOf(t, k)
           c == chain[t][b]
<1>1. b \in Buckets(t) /\ ChainOf(t, k) = c /\ Hash[k] % size[t] = b
  BY BucketOfIsABucket DEF MapInv, IInv, BucketOf
<1>2. /\ DOMAIN chain = 0 .. 1 /\ DOMAIN chain[t] = Buckets(t)
      /\ \A w \in 0 .. 1 : w = t \/ w = u
  BY DEF MapInv, IInv, TypeOK
<1> HIDE DEF b
<1>3. chain' = [chain EXCEPT ![t][b] = d]
  BY DEF b
<1>4. /\ chain'[t] = [chain[t] EXCEPT ![b] = d] /\ chain'[u] = chain[u]
  BY <1>2, <1>3
<1>5. /\ chain'[t][b] = d /\ \A a \in Buckets(t) : a # b => chain'[t][a] = chain[t][a]
  BY <1>1, <1>2, <1>4
<1>6. \A w \in 0 .. 1 : /\ HeldIn(w) = UNION {Members(chain[w][a]) : a \in Buckets(w)}
                       /\ HeldIn(w)' = UNION {Members(chain'[w][a]) : a \in Buckets(w)}
  BY DEF HeldIn, Held, Buckets
<1>7. HeldIn(u)' = HeldIn(u)
  BY <1>4 DEF HeldIn
<1>8. Members(d) \subseteq HeldIn(t)' /\ Members(c) \subseteq HeldIn(t)
  BY <1>1, <1>5, <1>6
<1>9. Members(d) \subseteq Entity
  BY LenProperties, ElementOfSeq DEF Members
<1>10. ASSUME NEW e \in HeldIn(t)'
       PROVE  \/ e \in Members(d)
              \/ e \in HeldIn(t) /\ e.key # k
  <2>1. PICK a \in Buckets(t) : e \in Members(chain'[t][a])
    BY <1>6
  <2>2. CASE a = b
    BY <1>5, <2>1, <2>2
  <2>3. CASE a # b
    <3>1. e \in Members(chain[t][a])
      BY <1>5, <2>1, <2>3
    <3>2. Hash[e.key] % size[t] = a
      BY <3>1, ChainedMeans DEF Chained, Buckets, MapInv
    <3>3. QED
      BY <1>1, <1>6, <2>3, <3>1, <3>2
  <2>4. QED
    BY <2>2, <2>3
<1>11. ASSUME NEW e \in HeldIn(t), e.key # k PROVE e \in HeldIn(t)'
  <2>1. PICK a \in Buckets(t) : e \in Members(chain[t][a])
    BY <1>6
  <2>2. CASE a = b
    <3>1. e \in Entity
      BY HeldMeans DEF MapInv
    <3>2. e \in Members(d)
      BY <1>1, <1>11, <2>1, <2>2, <3>1 DEF SameBut
    <3>3. QED
      BY <1>8, <3>2
  <2>3. CASE a # b
    BY <1>5, <1>6, <2>1, <2>3
  <2>4. QED
    BY <2>2, <2>3
<1>12. ASSUME NEW e \in HeldIn(t)'
       PROVE  e \in Entity /\ (e.key # k => e \in HeldIn(t)) /\ (e.key = k => e \in Members(d))
  <2>1. CASE e \in Members(d) /\ e.key # k
    <3>1. e \in Members(c)
      BY <1>1, <1>9, <2>1 DEF SameBut
    <3>2. QED
      BY <1>8, <1>9, <2>1, <3>1
  <2>2. CASE e \in Members(d) /\ e.key = k
    BY <1>9, <2>2
  <2>3. CASE e \in HeldIn(t) /\ e.key # k
    BY <2>3, HeldMeans DEF MapInv
  <2>4. QED
    BY <1>10, <2>1, <2>2, <2>3
<1>13. /\ Contents = HeldIn(t) \cup HeldIn(u)
       /\ Contents' = HeldIn(t)' \cup HeldIn(u)
  <2>1. Contents = HeldIn(0) \cup HeldIn(1) /\ Contents' = HeldIn(0)' \cup HeldIn(1)'
    BY ContentsAreHeld, ContentsAreNext DEF HeldIn
  <2>2. (t = 0 /\ u = 1) \/ (t = 1 /\ u = 0)
    OBVIOUS
  <2>3. QED
    BY <1>7, <2>1, <2>2
<1>14. OnlyKey(k)
  BY <1>11, <1>12, <1>13 DEF OnlyKey
<1>15. \A e \in Contents' : e.key = k => e \in Members(d)
  BY <1>12, <1>13 DEF Lacks
<1>16. Typed'
  <2>1. \A e \in Contents' : <<e.key, e.type>> \in Uses
    BY <1>12, <1>13 DEF Typed, MapInv
  <2>2. QED
    BY <2>1 DEF Typed
<1>17. \A e \in HeldIn(t)', f \in HeldIn(u)' : e.key # f.key
  <2>1. \A e \in HeldIn(t), f \in HeldIn(u) : e.key # f.key
    <3>1. (t = 0 /\ u = 1) \/ (t = 1 /\ u = 0)
      OBVIOUS
    <3>2. QED
      BY <3>1 DEF MapInv, Once
  <2>2. QED
    BY <1>7, <1>12, <2>1 DEF Lacks
<1>18. ASSUME NEW w \in 0 .. 1, NEW a \in Buckets(w) PROVE NoDup(chain'[w][a])
  <2>1. NoDup(chain[w][a])
    BY DEF MapInv, Once
  <2>2. QED
    BY <1>2, <1>4, <1>5, <2>1
<1>19. Once'
  <2>1. (t = 0 /\ u = 1) \/ (t = 1 /\ u = 0)
    OBVIOUS
  <2>2. \A e \in HeldIn(0)', f \in HeldIn(1)' : e.key # f.key
    BY <1>17, <2>1
  <2>3. \A w \in 0 .. 1 : Buckets(w)' = Buckets(w)
    BY DEF Buckets
  <2>4. QED
    BY <1>18, <2>2, <2>3 DEF Once
<1>20. QED
  BY <1>8, <1>13, <1>14, <1>15, <1>16, <1>19

\* What a command that sets key k to v leaves behind.
Sets(k, v) ==
  /\ Once' /\ Typed' /\ OnlyKey(k) /\ reply' = TRUE
  /\ \E e \in Contents' : e.key = k /\ e.val = v

\* An entity under a key that no table holds.
LEMMA AddStep ==
  ASSUME MapInv, UNCHANGED size, NEW t \in 0 .. 1, size[t] > 0,
         NEW k \in Keys, NEW type \in Types, NEW v \in Vals \cup {Obj}, <<k, type>> \in Uses,
         Lacks(0, k), Lacks(1, k), HashmapAdd(t, k, type, v)
  PROVE  Sets(k, v)
<1> DEFINE b == BucketOf(t, k)
           c == chain[t][b]
           e == [key |-> k, type |-> type, val |-> v]
           d == Append(c, e)
<1>1. b \in Buckets(t) /\ ChainOf(t, k) = c /\ c \in Seq(Entity)
  BY BucketOfIsABucket DEF MapInv, IInv
<1>2. PICK u \in 0 .. 1 : u # t
  OBVIOUS
<1>3. Lacks(t, k) /\ Lacks(u, k)
  <2>1. (t = 0 /\ u = 1) \/ (t = 1 /\ u = 0)
    BY <1>2
  <2>2. QED
    BY <2>1
<1>4. ~HasKey(t, k)
  BY <1>3, SearchFinds DEF HasKey, MapInv
<1>5. chain' = [chain EXCEPT ![t][b] = d] /\ reply' = TRUE
  BY <1>4 DEF HashmapAdd, LinkAtTail
<1>6. e \in Entity /\ e.key = k /\ e.type = type /\ e.val = v
  BY DEF Entity
<1>7. NoDup(c) /\ \A x \in Members(c) : x.key # k
  <2>1. Members(c) \subseteq HeldIn(t)
    BY <1>1, HeldMeans DEF MapInv
  <2>2. QED
    BY <1>1, <1>3, <2>1 DEF MapInv, Once, Lacks
<1> HIDE DEF c, e
<1>8. /\ d \in Seq(Entity) /\ NoDup(d) /\ SameBut(c, d, k) /\ e \in Members(d)
      /\ \A x \in Members(d) : x.key = k => x = e
  BY <1>1, <1>6, <1>7, AppendNoDup
<1> HIDE DEF d
<1>9. \A x \in Members(d) : x.key = k => <<x.key, x.type>> \in Uses
  BY <1>6, <1>8
<1>10. /\ Once' /\ Typed' /\ OnlyKey(k) /\ Members(d) \subseteq Contents'
  BY <1>1, <1>2, <1>3, <1>5, <1>8, <1>9, ChainStep
<1>11. QED
  BY <1>5, <1>6, <1>8, <1>10 DEF Sets

\* A new value for the entity of a key.
LEMMA UpdateStep ==
  ASSUME MapInv, UNCHANGED size, NEW t \in 0 .. 1, NEW u \in 0 .. 1, t # u, size[t] > 0,
         NEW k \in Keys, NEW v \in Vals, Lacks(u, k), HasKey(t, k), HashmapUpdate(t, k, v)
  PROVE  Sets(k, v)
<1> DEFINE b == BucketOf(t, k)
           c == chain[t][b]
           i == First(Holding(ChainOf(t, k), k))
           d == [c EXCEPT ![i].val = v]
           e == [c[i] EXCEPT !.val = v]
<1>1. b \in Buckets(t) /\ ChainOf(t, k) = c /\ c \in Seq(Entity)
  BY BucketOfIsABucket DEF MapInv, IInv
<1>2. chain' = [chain EXCEPT ![t][b] = d] /\ reply' = TRUE
  BY DEF HashmapUpdate
<1>3. i \in Holding(c, k)
  <2>1. Holding(c, k) \subseteq Nat /\ Holding(c, k) # {}
    BY <1>1, SearchFinds DEF HasKey, MapInv
  <2>2. QED
    BY <1>1, <2>1, FirstIsLeast
<1>4. Members(c) \subseteq HeldIn(t) /\ NoDup(c)
  BY <1>1, HeldMeans DEF MapInv, Once
<1> HIDE DEF i, c
<1>5. i \in 1 .. Len(c) /\ c[i].key = k /\ c[i] \in Members(c)
  BY <1>1, <1>3, LenProperties DEF Holding, Members
<1>6. /\ d \in Seq(Entity) /\ NoDup(d) /\ SameBut(c, d, k) /\ e \in Members(d)
      /\ \A x \in Members(d) : x.key = k => x = e
  <2>1. /\ d \in Seq(Entity) /\ NoDup(d) /\ SameBut(c, d, c[i].key) /\ e \in Members(d)
        /\ \A x \in Members(d) : x.key = c[i].key => x = e
    <3>1. c \in Seq(Entity) /\ i \in 1 .. Len(c) /\ v \in Vals \cup {Obj} /\ NoDup(c)
      BY <1>1, <1>4, <1>5
    <3>2. QED
      BY <3>1, UpdateNoDup, Zenon
  <2> HIDE DEF d, e
  <2>2. QED
    BY <1>5, <2>1
<1>7. e.key = k /\ e.type = c[i].type /\ e.val = v
  BY <1>1, <1>5, ElementOfSeq DEF Entity
<1>8. c[i] \in Contents
  <2>1. t = 0 \/ t = 1
    OBVIOUS
  <2>2. QED
    BY <1>4, <1>5, <2>1, ContentsAreHeld
<1> HIDE DEF d, e
<1>9. \A x \in Members(d) : x.key = k => <<x.key, x.type>> \in Uses
  BY <1>5, <1>6, <1>7, <1>8 DEF MapInv, Typed
<1>10. /\ Once' /\ Typed' /\ OnlyKey(k) /\ Members(d) \subseteq Contents'
  BY <1>1, <1>2, <1>6, <1>9, ChainStep DEF c
<1>11. QED
  BY <1>2, <1>6, <1>7, <1>10 DEF Sets

\* A key no table holds any more, and the answer whether one did.
LEMMA RemoveStep ==
  ASSUME MapInv, UNCHANGED size, NEW t \in 0 .. 1, NEW u \in 0 .. 1, t # u, size[t] > 0,
         NEW k \in Keys, Lacks(u, k), HashmapRemove(t, k)
  PROVE  /\ Once' /\ Typed' /\ OnlyKey(k)
         /\ \A e \in Contents' : e.key # k
         /\ reply' = \E e \in Contents : e.key = k
<1>0. (\E e \in Contents : e.key = k) <=> HasKey(t, k)
  <2>1. (t = 0 /\ u = 1) \/ (t = 1 /\ u = 0)
    OBVIOUS
  <2>2. HasKey(t, k) <=> ~Lacks(t, k)
    BY SearchFinds DEF HasKey, MapInv
  <2>3. QED
    BY <2>1, <2>2, ContentsAreHeld DEF Lacks
<1>1. CASE ~HasKey(t, k)
  <2>1. UNCHANGED <<chain, used>> /\ reply' = FALSE
    BY <1>1 DEF HashmapRemove
  <2>2. Contents' = Contents /\ Once' /\ Typed'
    BY <2>1 DEF Contents, Once, Typed, HeldIn, Buckets, MapInv
  <2>3. QED
    BY <1>0, <1>1, <2>1, <2>2 DEF OnlyKey
<1>2. CASE HasKey(t, k)
  <2> DEFINE b == BucketOf(t, k)
             c == chain[t][b]
             i == Victim(c, k)
             d == WithoutAt(c, i)
  <2>1. b \in Buckets(t) /\ ChainOf(t, k) = c /\ c \in Seq(Entity)
    BY BucketOfIsABucket DEF MapInv, IInv
  <2>2. used[t] > 0
    <3>1. used[t] # 0
      BY <1>2, SearchFinds, EmptyWhenUnused DEF MapInv, Lacks, HeldIn, HasKey
    <3>2. used[t] \in Nat
      BY DEF MapInv, IInv, TypeOK
    <3>3. QED
      BY <3>1, <3>2
  <2>3. chain' = [chain EXCEPT ![t][b] = d] /\ reply' = TRUE
    BY <1>2, <2>2 DEF HashmapRemove
  <2>4. NoDup(c)
    BY <2>1 DEF MapInv, Once
  <2>5. i \in Holding(c, k)
    <3> DEFINE behind == Holding(c, k) \ {1}
    <3>1. Holding(c, k) \subseteq Nat /\ Holding(c, k) # {}
      BY <1>2, <2>1, SearchFinds DEF HasKey, MapInv
    <3>2. i = IF behind # {} THEN First(behind) ELSE 1
      BY DEF Victim
    <3>3. behind # {} => First(behind) \in behind
      <4>1. behind \subseteq Nat
        BY <3>1
      <4> HIDE DEF behind
      <4>2. QED
        BY <4>1, FirstIsLeast
    <3>4. QED
      BY <3>1, <3>2, <3>3
  <2> HIDE DEF i, c
  <2>6. i \in 1 .. Len(c) /\ c[i].key = k
    BY <2>1, <2>5, LenProperties DEF Holding
  <2>7. /\ d \in Seq(Entity) /\ NoDup(d) /\ SameBut(c, d, k)
        /\ \A x \in Members(d) : x.key # k
    BY <2>1, <2>4, <2>6, WithoutNoDup
  <2> HIDE DEF d
  <2>8. /\ Once' /\ Typed' /\ OnlyKey(k)
        /\ \A e \in Contents' : e.key = k => e \in Members(d)
    BY <2>1, <2>3, <2>7, ChainStep DEF c
  <2>9. QED
    BY <1>0, <1>2, <2>3, <2>7, <2>8
<1>3. QED
  BY <1>1, <1>2

\* Update and Remove turn to the one table that may hold the key.
LEMMA TableOfHolds ==
  ASSUME MapInv, NEW k \in Keys
  PROVE  \E u \in 0 .. 1 :
           /\ TableOf(k) \in 0 .. 1 /\ TableOf(k) # u
           /\ size[TableOf(k)] > 0 /\ Lacks(u, k)
           /\ HasKey(TableOf(k), k) <=> \E e \in Contents : e.key = k
<1>1. size[0] > 0 /\ (Rehashing => size[1] > 0) /\ (~Rehashing => Lacks(1, k))
  BY TableInUse, TableOneUnused DEF MapInv, Lacks
<1>2. /\ HasKey(0, k) <=> ~Lacks(0, k)
      /\ Rehashing => (HasKey(1, k) <=> ~Lacks(1, k))
  BY <1>1, SearchFinds DEF HasKey, MapInv
<1>3. HasKey(0, k) => Lacks(1, k)
  BY <1>2 DEF MapInv, Once, Lacks
<1>4. (\E e \in Contents : e.key = k) <=> ~Lacks(0, k) \/ ~Lacks(1, k)
  BY ContentsAreHeld DEF Lacks
<1>5. CASE Rehashing /\ ~HasKey(0, k)
  BY <1>1, <1>2, <1>4, <1>5 DEF TableOf
<1>6. CASE ~(Rehashing /\ ~HasKey(0, k))
  BY <1>1, <1>2, <1>3, <1>4, <1>6 DEF TableOf
<1>7. QED
  BY <1>5, <1>6

-----------------------------------------------------------------------------
(* A turn of UpdateDict.                                                   *)

\* The entity that changes tables is new to the chain it joins, and leaves no
\* other with its key behind.
LEMMA MoveStep == MapInv /\ MoveEntity => Once'
<1> SUFFICES ASSUME MapInv, MoveEntity PROVE Once'
  OBVIOUS
<1> DEFINE from == chain[0][idx]
           e == Head(from)
           b == BucketOf(1, e.key)
           to == chain[1][b]
           less == Tail(from)
           more == <<e>> \o to
<1>1. /\ size[0] \in Nat /\ size[1] \in Nat /\ size[1] > 0
      /\ idx \in Buckets(0)
      /\ DOMAIN chain = 0 .. 1 /\ DOMAIN chain[0] = Buckets(0) /\ DOMAIN chain[1] = Buckets(1)
  BY SizeIsNat DEF MapInv, IInv, TypeOK, MoveEntity, Buckets, Rehashing
<1>2. from \in Seq(Entity) /\ from # <<>> /\ NoDup(from)
  BY <1>1 DEF MapInv, IInv, TypeOK, MoveEntity, Once
<1>3. e \in Entity /\ NoDup(less) /\ Members(from) = Members(less) \cup {e}
      /\ \A x \in Members(less) : x.key # e.key
  <2> HIDE DEF from
  <2>1. QED
    BY <1>2, HeadTailProperties, MembersOfTail, TailNoDup
<1>4. e \in HeldIn(0) /\ Hash[e.key] % size[0] = idx
  <2>1. e \in Members(from)
    BY <1>3
  <2>2. Members(from) \subseteq HeldIn(0)
    BY <1>1, HeldMeans DEF MapInv
  <2>3. Hash[e.key] % size[0] = idx
    BY <1>1, <2>1, ChainedMeans DEF Chained, Buckets, MapInv
  <2>4. QED
    BY <2>1, <2>2, <2>3
<1>5. b \in Buckets(1) /\ to \in Seq(Entity) /\ NoDup(to) /\ Members(to) \subseteq HeldIn(1)
  <2>1. e.key \in Keys
    <3> HIDE DEF e
    <3> QED BY <1>3 DEF Entity
  <2>2. b \in Buckets(1)
    <3> HIDE DEF e
    <3> QED BY <1>1, <2>1, BucketOfIsABucket DEF MapInv, IInv
  <2> HIDE DEF b
  <2>3. QED
    BY <2>2, HeldMeans DEF MapInv, Once
<1>6. /\ chain' = [chain EXCEPT ![0][idx] = less, ![1][b] = more] /\ size' = size
  BY DEF MoveEntity
<1> HIDE DEF e, b, to
<1>7. \A x \in Members(to) : x.key # e.key
  BY <1>4, <1>5 DEF MapInv, Once
<1>8. NoDup(more) /\ Members(more) = Members(to) \cup {e}
  BY <1>3, <1>5, <1>7, ConsNoDup, MembersOfCons
<1> HIDE DEF less, more
<1>9. /\ chain'[0] = [chain[0] EXCEPT ![idx] = less]
      /\ chain'[1] = [chain[1] EXCEPT ![b] = more]
  <2> DEFINE half == [chain EXCEPT ![0][idx] = less]
  <2>1. half[0] = [chain[0] EXCEPT ![idx] = less] /\ half[1] = chain[1] /\ DOMAIN half = 0 .. 1
    BY <1>1
  <2>2. chain' = [half EXCEPT ![1][b] = more]
    BY <1>1, <1>6, Zenon
  <2> HIDE DEF half
  <2>3. QED
    BY <2>1, <2>2
<1>10. /\ chain'[0][idx] = less /\ \A a \in Buckets(0) : a # idx => chain'[0][a] = chain[0][a]
       /\ chain'[1][b] = more /\ \A a \in Buckets(1) : a # b => chain'[1][a] = chain[1][a]
  BY <1>1, <1>5, <1>9
<1>11. ASSUME NEW t \in 0 .. 1, NEW a \in Buckets(t) PROVE NoDup(chain'[t][a])
  <2>1. NoDup(chain[t][a])
    BY DEF MapInv, Once
  <2>2. t = 0 \/ t = 1
    OBVIOUS
  <2>3. QED
    BY <1>3, <1>8, <1>10, <2>1, <2>2
<1>12. /\ HeldIn(0)' = UNION {Members(chain'[0][a]) : a \in Buckets(0)}
       /\ HeldIn(1)' = UNION {Members(chain'[1][a]) : a \in Buckets(1)}
  BY <1>6 DEF HeldIn, Held, Buckets
<1>13. ASSUME NEW x \in HeldIn(0)' PROVE x \in HeldIn(0) /\ x.key # e.key
  <2>1. PICK a \in Buckets(0) : x \in Members(chain'[0][a])
    BY <1>12
  <2>2. CASE a = idx
    <3>1. x \in Members(less) /\ x \in Members(from)
      BY <1>3, <1>10, <2>1, <2>2
    <3>2. Members(from) \subseteq HeldIn(0)
      BY <1>1, HeldMeans DEF MapInv
    <3>3. QED
      BY <1>3, <3>1, <3>2
  <2>3. CASE a # idx
    <3>1. x \in Members(chain[0][a])
      BY <1>10, <2>1, <2>3
    <3>2. x \in HeldIn(0)
      BY <3>1, HeldMeans DEF MapInv
    <3>3. Hash[x.key] % size[0] = a
      BY <3>1, ChainedMeans DEF Chained, Buckets, MapInv
    <3>4. QED
      BY <1>4, <2>3, <3>2, <3>3
  <2>4. QED
    BY <2>2, <2>3
<1>14. ASSUME NEW y \in HeldIn(1)' PROVE y \in HeldIn(1) \/ y = e
  <2>1. PICK a \in Buckets(1) : y \in Members(chain'[1][a])
    BY <1>12
  <2>2. CASE a = b
    BY <1>5, <1>8, <1>10, <2>1, <2>2
  <2>3. CASE a # b
    BY <1>10, <2>1, <2>3, HeldMeans DEF MapInv
  <2>4. QED
    BY <2>2, <2>3
<1>15. \A x \in HeldIn(0)', y \in HeldIn(1)' : x.key # y.key
  BY <1>13, <1>14 DEF MapInv, Once
<1>16. \A t \in 0 .. 1 : Buckets(t)' = Buckets(t)
  BY <1>6 DEF Buckets
<1>17. QED
  BY <1>11, <1>15, <1>16 DEF Once

LEMMA NoEntitiesTwice == \A n \in Nat : \A b \in 0 .. n - 1 : NoDup(NoChains(n)[b])
<1>1. DOMAIN <<>> = {}
  OBVIOUS
<1>2. QED
  BY <1>1 DEF NoChains, NoDup

LEMMA UpdateDictStep ==
  ASSUME MapInv, UpdateDict
  PROVE  Once' /\ Typed' /\ Contents' = Contents /\ reply' = reply
<1>1. Contents' = Contents
  BY UpdateDictKeeps DEF MapInv, Kept
<1>2. Typed'
  BY <1>1 DEF MapInv, Typed
<1>3. reply' = reply
  BY DEF UpdateDict, BeginTurn, NothingToMove, SwapTables, SkipEmptyBuckets, MoveEntity,
         FinishBucket
<1>4. CASE UNCHANGED <<size, chain>>
  <2>1. HeldIn(0)' = HeldIn(0) /\ HeldIn(1)' = HeldIn(1)
    BY <1>4 DEF HeldIn
  <2>2. \A t \in 0 .. 1 : Buckets(t)' = Buckets(t)
    BY <1>4 DEF Buckets
  <2>3. Once'
    BY <1>4, <2>1, <2>2 DEF MapInv, Once
  <2>4. QED
    BY <1>1, <1>2, <1>3, <2>3
<1>5. CASE BeginTurn /\ IsNeedResize
  <2> DEFINE n == RealSize(used[0] * 2)
  <2>1. size' = [size EXCEPT ![1] = n] /\ chain' = [chain EXCEPT ![1] = NoChains(n)]
    BY <1>5 DEF BeginTurn
  <2>2. n \in Nat
    <3>1. used[0] * 2 \in Nat /\ used[0] * 2 <= 2 * MaxUsed
      BY DictionaryAssumption DEF MapInv, IInv, TypeOK, Bounded, DictionaryAssumption
    <3>2. n \in Sizes
      BY <3>1, RealSizeIsASize
    <3> HIDE DEF n
    <3>3. QED
      BY <3>2, DictionaryAssumption DEF DictionaryAssumption
  <2> HIDE DEF n
  <2>3. /\ size'[0] = size[0] /\ size'[1] = n
        /\ chain'[0] = chain[0] /\ chain'[1] = NoChains(n)
    BY <2>1 DEF MapInv, IInv, TypeOK
  <2>4. HeldIn(1)' = {}
    BY <2>2, <2>3, NothingHeld DEF HeldIn
  <2>5. ASSUME NEW t \in 0 .. 1, NEW b \in Buckets(t)' PROVE NoDup(chain'[t][b])
    <3>1. CASE t = 0
      BY <2>3, <2>5, <3>1 DEF MapInv, Once, Buckets
    <3>2. CASE t = 1
      BY <2>2, <2>3, <2>5, <3>2, NoEntitiesTwice DEF Buckets
    <3>3. QED
      BY <3>1, <3>2
  <2>6. QED
    BY <1>1, <1>2, <1>3, <2>4, <2>5 DEF Once
<1>6. CASE SwapTables
  <2>1. /\ size'[0] = size[1] /\ size'[1] = 0
        /\ chain'[0] = chain[1] /\ chain'[1] = NoChains(0)
    BY <1>6 DEF SwapTables
  <2>2. HeldIn(1)' = {}
    BY <2>1, NothingHeld DEF HeldIn
  <2>3. ASSUME NEW t \in 0 .. 1, NEW b \in Buckets(t)' PROVE NoDup(chain'[t][b])
    <3>1. CASE t = 0
      BY <2>1, <2>3, <3>1 DEF MapInv, Once, Buckets
    <3>2. CASE t = 1
      BY <2>1, <2>3, <3>2, NoEntitiesTwice DEF Buckets
    <3>3. QED
      BY <3>1, <3>2
  <2>4. QED
    BY <1>1, <1>2, <1>3, <2>2, <2>3 DEF Once
<1>7. CASE MoveEntity
  BY <1>1, <1>2, <1>3, <1>7, MoveStep
<1>8. QED
  BY <1>1, <1>2, <1>3, <1>4, <1>5, <1>6, <1>7
  DEF UpdateDict, BeginTurn, NothingToMove, SkipEmptyBuckets, FinishBucket

-----------------------------------------------------------------------------
(* Every step of the tables is a step of the map.                          *)

Store == [k \in Keys |-> Lookup(k)]

LEMMA OnlyEntities == MapInv => Contents \subseteq Entity
  BY ContentsAreHeld, HeldMeans DEF MapInv

LEMMA OnlyEntitiesNext == MapInv' => (Contents \subseteq Entity)'
  BY OnlyEntities, PTL

\* A lookup of another key returns what it returned.
LEMMA OthersLookup ==
  ASSUME MapInv, MapInv', NEW k \in Keys, OnlyKey(k), NEW j \in Keys, j # k
  PROVE  Lookup(j)' = Lookup(j)
<1>1. LookupMeans /\ LookupMeans'
  BY LookupIs, LookupIsNext
<1>2. Contents \subseteq Entity
  BY OnlyEntities
<1>3. Contents' \subseteq Entity
  BY OnlyEntitiesNext
<1>4. CASE \E e \in Contents : e.key = j
  <2>1. PICK e \in Contents : e.key = j
    BY <1>4
  <2>2. e \in Contents'
    BY <1>2, <2>1 DEF OnlyKey
  <2>3. Lookup(j) = e.val /\ Lookup(j)' = e.val
    BY <1>1, <2>1, <2>2 DEF LookupMeans
  <2>4. QED
    BY <2>3
<1>5. CASE ~\E e \in Contents : e.key = j
  <2>1. \A e \in Contents' : e.key # j
    BY <1>3, <1>5 DEF OnlyKey
  <2>2. Lookup(j) = None /\ Lookup(j)' = None
    BY <1>1, <1>5, <2>1 DEF LookupMeans
  <2>3. QED
    BY <2>2
<1>6. QED
  BY <1>4, <1>5

LEMMA StoreSet ==
  ASSUME MapInv, MapInv', NEW k \in Keys, OnlyKey(k), NEW v,
         \E e \in Contents' : e.key = k /\ e.val = v
  PROVE  Store' = [Store EXCEPT ![k] = v]
<1>1. Lookup(k)' = v
  BY LookupIsNext DEF LookupMeans
<1>2. \A j \in Keys : j # k => Lookup(j)' = Lookup(j)
  BY OthersLookup
<1>3. QED
  BY <1>1, <1>2 DEF Store

LEMMA StoreCleared ==
  ASSUME MapInv, MapInv', NEW k \in Keys, OnlyKey(k), \A e \in Contents' : e.key # k
  PROVE  Store' = [Store EXCEPT ![k] = None]
<1>1. Lookup(k)' = None
  BY LookupIsNext DEF LookupMeans
<1>2. \A j \in Keys : j # k => Lookup(j)' = Lookup(j)
  BY OthersLookup
<1>3. QED
  BY <1>1, <1>2 DEF Store

LEMMA StoreSame ==
  ASSUME MapInv, MapInv', Contents' = Contents
  PROVE  Store' = Store
<1>1. LookupMeans /\ LookupMeans'
  BY LookupIs, LookupIsNext
<1>2. ASSUME NEW k \in Keys PROVE Lookup(k)' = Lookup(k)
  BY <1>1 DEF LookupMeans
<1>3. QED
  BY <1>2 DEF Store

LEMMA CommandsAreOfTheMap ==
  ASSUME MapInv, Settled, NEW k \in Keys
  PROVE  /\ \A v \in Vals : <<k, "STR">> \in Uses /\ InsertKV(k, v)
                             => MapInv' /\ Store' = [Store EXCEPT ![k] = v] /\ reply' = TRUE
         /\ \A type \in Types : <<k, type>> \in Uses /\ AddObject(k, type)
                             => MapInv' /\ Store' = [Store EXCEPT ![k] = Obj] /\ reply' = TRUE
         /\ RemoveKV(k) => /\ MapInv' /\ Store' = [Store EXCEPT ![k] = None]
                           /\ reply' = (Store[k] # None)
<1>1. PICK u \in 0 .. 1 :
        /\ TableOf(k) \in 0 .. 1 /\ TableOf(k) # u
        /\ size[TableOf(k)] > 0 /\ Lacks(u, k)
        /\ HasKey(TableOf(k), k) <=> \E e \in Contents : e.key = k
  BY TableOfHolds
<1>2. ASSUME UNCHANGED size, NEW type \in Types, NEW v \in Vals \cup {Obj}, <<k, type>> \in Uses,
             ~Found(k, type), AddElement(k, type, v)
      PROVE  Sets(k, v)
  <2> DEFINE t == IF Rehashing THEN 1 ELSE 0
  <2>1. t \in 0 .. 1 /\ size[t] > 0 /\ HashmapAdd(t, k, type, v)
    BY <1>2, TableInUse DEF AddElement, MapInv
  <2>2. Lacks(0, k) /\ Lacks(1, k)
    BY <1>2, FoundMeans, ContentsAreHeld DEF Lacks
  <2> HIDE DEF t
  <2>3. QED
    BY <1>2, <2>1, <2>2, AddStep
<1>3. ASSUME NEW v \in Vals, <<k, "STR">> \in Uses, InsertKV(k, v)
      PROVE  MapInv' /\ Store' = [Store EXCEPT ![k] = v] /\ reply' = TRUE
  <2>1. UNCHANGED size /\ "STR" \in Types
    BY <1>3 DEF InsertKV, Types
  <2>2. Sets(k, v)
    <3>1. CASE Found(k, "STR")
      <4>1. HasKey(TableOf(k), k)
        BY <1>1, <1>3, <2>1, <3>1, FoundMeans
      <4>2. HashmapUpdate(TableOf(k), k, v)
        BY <1>3, <3>1 DEF InsertKV, UpdateElement
      <4>3. QED
        BY <1>1, <2>1, <4>1, <4>2, UpdateStep
    <3>2. CASE ~Found(k, "STR")
      <4>1. AddElement(k, "STR", v)
        BY <1>3, <3>2 DEF InsertKV
      <4>2. QED
        BY <1>2, <1>3, <2>1, <3>2, <4>1
    <3>3. QED
      BY <3>1, <3>2
  <2>3. MapInv'
    BY <1>3, <2>2, CommandsPreserve, CommandsKeepChains DEF MapInv, Sets
  <2>4. QED
    BY <2>2, <2>3, StoreSet DEF Sets
<1>4. ASSUME NEW type \in Types, <<k, type>> \in Uses, AddObject(k, type)
      PROVE  MapInv' /\ Store' = [Store EXCEPT ![k] = Obj] /\ reply' = TRUE
  <2>1. UNCHANGED size /\ ~Found(k, type) /\ AddElement(k, type, Obj)
    BY <1>4 DEF AddObject, Settled
  <2>2. Sets(k, Obj)
    BY <1>2, <1>4, <2>1
  <2>3. MapInv'
    BY <1>4, <2>2, CommandsPreserve, CommandsKeepChains DEF MapInv, Sets
  <2>4. QED
    BY <2>2, <2>3, StoreSet DEF Sets
<1>5. ASSUME RemoveKV(k)
      PROVE  /\ MapInv' /\ Store' = [Store EXCEPT ![k] = None]
             /\ reply' = (Store[k] # None)
  <2>1. UNCHANGED size /\ HashmapRemove(TableOf(k), k)
    BY <1>5 DEF RemoveKV, RemoveElement
  <2>2. /\ Once' /\ Typed' /\ OnlyKey(k)
        /\ \A e \in Contents' : e.key # k
        /\ reply' = \E e \in Contents : e.key = k
    BY <1>1, <2>1, RemoveStep
  <2>3. MapInv'
    BY <1>5, <2>2, CommandsPreserve, CommandsKeepChains DEF MapInv
  <2>4. Store' = [Store EXCEPT ![k] = None]
    BY <2>2, <2>3, StoreCleared
  <2>5. (\E e \in Contents : e.key = k) <=> Store[k] # None
    <3>1. LookupMeans
      BY LookupIs
    <3>2. \A e \in Contents : e.val # None
      BY OnlyEntities DEF Entity, Settled
    <3>3. QED
      BY <3>1, <3>2 DEF LookupMeans, Store
  <2>6. (Store[k] # None) \in BOOLEAN /\ (\E e \in Contents : e.key = k) \in BOOLEAN
    OBVIOUS
  <2>7. reply' = (Store[k] # None)
    BY <2>2, <2>5, Zenon
  <2>8. QED
    BY <2>3, <2>4, <2>7
<1>6. QED
  BY <1>3, <1>4, <1>5

\* A step of the tables, as the map sees it.
LEMMA StepIsOfTheMap ==
  ASSUME MapInv, Settled, [Next]_vars
  PROVE  MapInv' /\ [Map!Next]_<<Store, reply>>
<1>1. CASE UpdateDict
  <2>1. Once' /\ Typed' /\ Contents' = Contents /\ reply' = reply
    BY <1>1, UpdateDictStep
  <2>2. MapInv'
    BY <1>1, <2>1, UpdateDictPreserves, UpdateDictKeeps DEF MapInv
  <2>3. Store' = Store
    BY <2>1, <2>2, StoreSame
  <2>4. QED
    BY <2>1, <2>2, <2>3
<1>2. CASE UNCHANGED vars
  <2>1. IInv' /\ OnItsChain' /\ Contents' = Contents
    BY <1>2, StutterPreserves DEF MapInv, vars, OnItsChain, Contents, Buckets, BucketOf
  <2>2. HeldIn(0)' = HeldIn(0) /\ HeldIn(1)' = HeldIn(1)
    BY <1>2 DEF HeldIn, vars
  <2>3. Once' /\ Typed'
    BY <1>2, <2>1, <2>2 DEF MapInv, Once, Typed, vars, Buckets
  <2>4. MapInv' /\ Store' = Store
    BY <2>1, <2>3, StoreSame DEF MapInv
  <2>5. QED
    BY <1>2, <2>4 DEF vars
<1>3. ASSUME NEW k \in Keys, NEW v \in Vals, <<k, "STR">> \in Uses, InsertKV(k, v)
      PROVE  MapInv' /\ [Map!Next]_<<Store, reply>>
  <2>1. MapInv' /\ Store' = [Store EXCEPT ![k] = v] /\ reply' = TRUE
    BY <1>3, CommandsAreOfTheMap
  <2>2. Map!Set(k, v)
    BY <2>1 DEF Map!Set, Store
  <2>3. QED
    BY <2>1, <2>2 DEF Map!Next
<1>4. ASSUME NEW k \in Keys, NEW type \in Types, <<k, type>> \in Uses, AddObject(k, type)
      PROVE  MapInv' /\ [Map!Next]_<<Store, reply>>
  <2>1. MapInv' /\ Store' = [Store EXCEPT ![k] = Obj] /\ reply' = TRUE
    BY <1>4, CommandsAreOfTheMap
  <2>2. Map!Set(k, Obj)
    BY <2>1 DEF Map!Set, Store
  <2>3. QED
    BY <2>1, <2>2 DEF Map!Next
<1>5. ASSUME NEW k \in Keys, RemoveKV(k)
      PROVE  MapInv' /\ [Map!Next]_<<Store, reply>>
  <2>1. /\ MapInv' /\ Store' = [Store EXCEPT ![k] = None]
        /\ reply' = (Store[k] # None)
    BY <1>5, CommandsAreOfTheMap
  <2>2. Map!Remove(k)
    BY <2>1 DEF Map!Remove, Store
  <2>3. QED
    BY <2>1, <2>2 DEF Map!Next
<1>6. QED
  BY <1>1, <1>2, <1>3, <1>4, <1>5 DEF Next

LEMMA InitIsOfTheMap == Settled /\ Init => MapInv /\ Map!Init
<1> SUFFICES ASSUME Settled, Init PROVE MapInv /\ Map!Init
  OBVIOUS
<1>1. IInv
  BY InitEstablishes
<1>2. \A t \in 0 .. 1 : \A b \in Buckets(t) : chain[t][b] = <<>>
  BY DEF Init, NoChains, Buckets
<1>3. DOMAIN <<>> = {}
  OBVIOUS
<1>4. OnItsChain
  BY <1>2, <1>3 DEF OnItsChain
<1>5. Contents = {}
  BY <1>2, <1>3 DEF Contents
<1>6. Once
  BY <1>2, <1>3, <1>5, ContentsAreHeld DEF Once, NoDup
<1>7. MapInv
  BY <1>1, <1>4, <1>5, <1>6 DEF MapInv, Typed
<1>8. \A k \in Keys : Lookup(k) = None
  BY <1>5, <1>7, LookupIs DEF LookupMeans
<1>9. QED
  BY <1>7, <1>8 DEF Map!Init, Init

-----------------------------------------------------------------------------
(* The theorem.                                                            *)

\* For clients that keep each key to one type, SET, GET, the first push to a key
\* and REMOVE behave as the operations of one map do, answers included, whatever
\* JK_Dictionary has moved between its two tables, and a turn of UpdateDict
\* changes nothing that a client can see.
THEOREM TablesAreOneMap ==
  ASSUME Settled
  PROVE  Spec => MapSpec
<1>1. MapInv /\ [Next]_vars
        => MapInv' /\ [Map!Next]_<<[k \in Keys |-> Lookup(k)], reply>>
  BY StepIsOfTheMap DEF Store
<1>2. Init => MapInv /\ Map!Init
  BY InitIsOfTheMap
<1>3. QED
  BY <1>1, <1>2, PTL DEF Spec, MapSpec, Map!Spec
=============================================================================
