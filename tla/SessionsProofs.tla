--------------------------- MODULE SessionsProofs ---------------------------
(***************************************************************************)
(* Theorems about Sessions, for pools of any size and any number of        *)
(* connections and packets: an agent hears what its own client has sent,   *)
(* nothing is dropped on its way, no flag outlives its connection, the     *)
(* sessions are counted exactly and none of them is lost track of.         *)
(*                                                                         *)
(* The inductive invariant, Inv, has ten parts.  Typed and Phased are the  *)
(* shape of the state and what m_pTempList holds at each place in Update.  *)
(* Once puts every session in one place, which is what lets a step about   *)
(* one session leave the others alone.  Sockets, Connected and Dialling    *)
(* say what a session's socket tells of its connection, agent and flag;    *)
(* Lists what has been done for the sessions on each list, those that a    *)
(* loop has passed over included.  Completed orders the completions on the *)
(* port: at most one receive of a session has brought data, and the one    *)
(* that gives it back is its last.  On that rest Flow, that nothing is     *)
(* missing of what a client has sent, and Counted.                         *)
(***************************************************************************)
EXTENDS Sessions, SequenceTheorems, FiniteSetTheorems, WellFoundedInduction, TLAPS

-----------------------------------------------------------------------------
(* Lists.                                                                  *)

\* How often x is on the list q.
Occ(q, x) == Cardinality({i \in DOMAIN q : q[i] = x})

\* Induction, as a fact about sets of numbers.
LEMMA NaturalsByInduction ==
  ASSUME NEW S, 0 \in S, \A n \in Nat : n \in S => n + 1 \in S
  PROVE  Nat \subseteq S
<1> DEFINE T == Nat \ S
<1>1. ASSUME T # {} PROVE FALSE
  <2>1. PICK x \in T : \A y \in T : ~ (<<y, x>> \in OpToRel(<, Nat))
    BY <1>1, NatLessThanWellFounded, WFMin
  <2>2. x \in Nat /\ x \notin S /\ x # 0
    BY <2>1
  <2>3. x - 1 \in Nat /\ x - 1 \notin S /\ x - 1 < x
    BY <2>2
  <2>4. <<x - 1, x>> \in OpToRel(<, Nat)
    BY <2>2, <2>3 DEF OpToRel
  <2>5. QED
    BY <2>1, <2>3, <2>4
<1>2. QED
  BY <1>1

LEMMA OccIs ==
  ASSUME NEW S, NEW q \in Seq(S), NEW x
  PROVE  Occ(q, x) \in Nat /\ IsFiniteSet({i \in DOMAIN q : q[i] = x})
<1>1. Len(q) \in Nat /\ DOMAIN q = 1 .. Len(q)
  BY LenProperties
<1>2. IsFiniteSet(DOMAIN q)
  BY <1>1, FS_Interval
<1>3. IsFiniteSet({i \in DOMAIN q : q[i] = x})
  BY <1>2, FS_Subset
<1>4. QED
  BY <1>3, FS_CardinalityType DEF Occ

LEMMA OccEmpty ==
  ASSUME NEW x
  PROVE  Occ(<<>>, x) = 0
<1>1. {i \in DOMAIN <<>> : <<>>[i] = x} = {}
  OBVIOUS
<1>2. QED
  BY <1>1, FS_EmptySet DEF Occ

LEMMA OccAppend ==
  ASSUME NEW S, NEW q \in Seq(S), NEW e \in S, NEW x
  PROVE  Occ(Append(q, e), x) = Occ(q, x) + (IF e = x THEN 1 ELSE 0)
<1>1. PICK n, r : n = Len(q) /\ r = Append(q, e)
  OBVIOUS
<1>2. n \in Nat /\ DOMAIN q = 1 .. n
  BY <1>1, LenProperties
<1>3. /\ r \in Seq(S) /\ Len(r) = n + 1 /\ \A i \in 1 .. n : r[i] = q[i]
      /\ r[n + 1] = e
  BY <1>1, AppendProperties
<1>4. DOMAIN r = 1 .. n + 1
  BY <1>3, LenProperties
<1>5. PICK A : A = {i \in DOMAIN q : q[i] = x}
  OBVIOUS
<1>6. IsFiniteSet(A) /\ Cardinality(A) \in Nat
  BY <1>5, OccIs, FS_CardinalityType
<1>7. {i \in DOMAIN r : r[i] = x} = IF e = x THEN A \cup {n + 1} ELSE A
  BY <1>2, <1>3, <1>4, <1>5
<1>8. n + 1 \notin A
  BY <1>2, <1>5
<1>9. Cardinality(A \cup {n + 1}) = Cardinality(A) + 1
  BY <1>6, <1>8, FS_AddElement
<1>10. Occ(q, x) = Cardinality(A)
  BY <1>5 DEF Occ
<1>11. Occ(r, x) = IF e = x THEN Cardinality(A \cup {n + 1}) ELSE Cardinality(A)
  BY <1>7 DEF Occ
<1>12. QED
  BY <1>1, <1>6, <1>9, <1>10, <1>11

LEMMA OccConcat ==
  ASSUME NEW S, NEW p \in Seq(S), NEW q \in Seq(S), NEW x
  PROVE  Occ(p \o q, x) = Occ(p, x) + Occ(q, x)
<1>1. PICK m, n, r : m = Len(p) /\ n = Len(q) /\ r = p \o q
  OBVIOUS
<1>2. m \in Nat /\ n \in Nat /\ DOMAIN p = 1 .. m /\ DOMAIN q = 1 .. n
  BY <1>1, LenProperties
<1>3. /\ r \in Seq(S) /\ Len(r) = m + n
      /\ \A i \in 1 .. m + n : r[i] = IF i <= m THEN p[i] ELSE q[i - m]
  BY <1>1, ConcatProperties
<1>4. DOMAIN r = 1 .. m + n
  BY <1>3, LenProperties
<1>5. PICK A, B, C : /\ A = {i \in DOMAIN p : p[i] = x} /\ B = {i \in DOMAIN q : q[i] = x}
                     /\ C = {i \in m + 1 .. m + n : q[i - m] = x}
  OBVIOUS
<1>6. IsFiniteSet(A) /\ IsFiniteSet(B) /\ Cardinality(A) \in Nat /\ Cardinality(B) \in Nat
  BY <1>5, OccIs, FS_CardinalityType
<1>7. Cardinality(C) = Cardinality(B) /\ IsFiniteSet(C)
  <2>1. PICK f : f = [i \in B |-> m + i]
    OBVIOUS
  <2>2. \A i \in B : m + i \in C /\ i \in Nat
    BY <1>2, <1>5
  <2>3. \A j \in C : j - m \in B /\ f[j - m] = j
    BY <1>2, <1>5, <2>1
  <2>4. f \in Bijection(B, C)
    <3>1. f \in [B -> C]
      BY <2>1, <2>2
    <3>2. \A i, j \in B : f[i] = f[j] => i = j
      BY <1>2, <2>1, <2>2
    <3>3. \A j \in C : \E i \in B : f[i] = j
      BY <2>3
    <3>4. QED
      BY <3>1, <3>2, <3>3 DEF Bijection, Injection, Surjection, IsInjective
  <2>5. ExistsBijection(B, C)
    BY <2>4 DEF ExistsBijection
  <2>6. QED
    BY <1>6, <2>5, FS_Bijection
<1>8. {i \in DOMAIN r : r[i] = x} = A \cup C
  <2>1. \A i \in A : i \in DOMAIN r /\ r[i] = x
    BY <1>2, <1>3, <1>4, <1>5
  <2>2. \A i \in C : i \in DOMAIN r /\ r[i] = x
    BY <1>2, <1>3, <1>4, <1>5
  <2>3. \A i \in DOMAIN r : r[i] = x => i \in A \/ i \in C
    BY <1>2, <1>3, <1>4, <1>5
  <2>4. QED
    BY <2>1, <2>2, <2>3
<1>9. A \cap C = {}
  BY <1>2, <1>5
<1>10. Cardinality(A \cup C) = Cardinality(A) + Cardinality(C) - Cardinality(A \cap C)
  BY <1>6, <1>7, FS_Union
<1>11. Cardinality(A \cap C) = 0
  BY <1>9, FS_EmptySet
<1>12. Occ(p, x) = Cardinality(A) /\ Occ(q, x) = Cardinality(B)
  BY <1>5 DEF Occ
<1>13. Occ(r, x) = Cardinality(A \cup C)
  BY <1>8 DEF Occ
<1>14. QED
  BY <1>1, <1>6, <1>7, <1>10, <1>11, <1>12, <1>13

LEMMA OccSingle ==
  ASSUME NEW e, NEW x
  PROVE  Occ(<<e>>, x) = IF e = x THEN 1 ELSE 0
<1>1. PICK q, S : q = <<>> /\ S = {e}
  OBVIOUS
<1>2. q \in Seq(S) /\ e \in S
  BY <1>1, EmptySeq
<1>3. Append(q, e) = <<e>>
  BY <1>1
<1>4. Occ(Append(q, e), x) = Occ(q, x) + (IF e = x THEN 1 ELSE 0)
  BY <1>2, OccAppend
<1>5. QED
  BY <1>1, <1>3, <1>4, OccEmpty

LEMMA OccTail ==
  ASSUME NEW S, NEW q \in Seq(S), q # <<>>, NEW x
  PROVE  Occ(q, x) = (IF Head(q) = x THEN 1 ELSE 0) + Occ(Tail(q), x)
<1>1. PICK h, t : h = Head(q) /\ t = Tail(q)
  OBVIOUS
<1>2. /\ h \in S /\ t \in Seq(S) /\ Len(t) = Len(q) - 1
      /\ \A i \in 1 .. Len(t) : t[i] = q[i + 1]
  BY <1>1, HeadTailProperties
<1>3. Len(q) \in Nat \ {0}
  BY EmptySeq
<1>4. PICK m : m = <<h>>
  OBVIOUS
<1>5. m \in Seq(S) /\ Len(m) = 1 /\ m[1] = h
  BY <1>2, <1>4
<1>6. PICK u : u = m \o t
  OBVIOUS
<1>7. /\ u \in Seq(S) /\ Len(u) = Len(m) + Len(t)
      /\ \A i \in 1 .. Len(m) + Len(t) : u[i] = IF i <= Len(m) THEN m[i] ELSE t[i - Len(m)]
  <2>1. m \in Seq(S) /\ t \in Seq(S)
    BY <1>2, <1>5
  <2>2. /\ m \o t \in Seq(S) /\ Len(m \o t) = Len(m) + Len(t)
        /\ \A i \in 1 .. Len(m) + Len(t) :
             (m \o t)[i] = IF i <= Len(m) THEN m[i] ELSE t[i - Len(m)]
    BY ONLY <2>1, ConcatProperties
  <2>3. QED
    BY <1>6, <2>2
<1>8. q[1] = h
  BY <1>1, <1>3
<1>9. \A i \in 1 .. Len(q) : q[i] = u[i]
  BY <1>2, <1>3, <1>5, <1>7, <1>8
<1>10. q = u
  BY <1>2, <1>3, <1>5, <1>7, <1>9, SeqEqual
<1>11. Occ(u, x) = Occ(m, x) + Occ(t, x)
  BY <1>2, <1>5, <1>6, OccConcat
<1>12. Occ(m, x) = IF h = x THEN 1 ELSE 0
  BY <1>4, OccSingle
<1>13. QED
  BY <1>1, <1>10, <1>11, <1>12

\* The two sides of the k-th of a list.
Sides(S, q, k, p, r) ==
  /\ p \in Seq(S) /\ r \in Seq(S) /\ RemoveAt(q, k) = p \o r
  /\ Len(p) = k - 1 /\ \A i \in 1 .. k - 1 : p[i] = q[i]
  /\ Len(r) = Len(q) - k /\ \A i \in 1 .. Len(q) - k : r[i] = q[k + i]

LEMMA SidesAre ==
  ASSUME NEW S, NEW q \in Seq(S), NEW k \in 1 .. Len(q)
  PROVE  \E p, r : Sides(S, q, k, p, r)
<1>1. Len(q) \in Nat /\ k \in Nat /\ k \in Int /\ 1 \in Int /\ k - 1 \in Int /\ k + 1 \in Int
      /\ Len(q) \in Int
  BY LenProperties
<1>2. \A i \in 1 .. Len(q) : q[i] \in S
  BY ElementOfSeq
<1>3. PICK p, r : p = SubSeq(q, 1, k - 1) /\ r = SubSeq(q, k + 1, Len(q))
  OBVIOUS
<1>4. /\ p \in Seq(S) /\ Len(p) = k - 1 /\ \A i \in 1 .. k - 1 : p[i] = q[i]
  <2>1. \A i \in 1 .. k - 1 : q[i] \in S
    BY <1>1, <1>2
  <2>2. /\ SubSeq(q, 1, k - 1) \in Seq(S)
        /\ Len(SubSeq(q, 1, k - 1)) = IF 1 <= k - 1 THEN k - 1 - 1 + 1 ELSE 0
        /\ \A i \in 1 .. k - 1 - 1 + 1 : SubSeq(q, 1, k - 1)[i] = q[1 + i - 1]
    BY <1>1, <2>1, SubSeqProperties
  <2>3. QED
    BY <1>1, <1>3, <2>2
<1>5. /\ r \in Seq(S) /\ Len(r) = Len(q) - k /\ \A i \in 1 .. Len(q) - k : r[i] = q[k + i]
  <2>1. \A i \in k + 1 .. Len(q) : q[i] \in S
    BY <1>1, <1>2
  <2>2. /\ SubSeq(q, k + 1, Len(q)) \in Seq(S)
        /\ Len(SubSeq(q, k + 1, Len(q))) = IF k + 1 <= Len(q) THEN Len(q) - (k + 1) + 1 ELSE 0
        /\ \A i \in 1 .. Len(q) - (k + 1) + 1 : SubSeq(q, k + 1, Len(q))[i] = q[k + 1 + i - 1]
    BY <1>1, <2>1, SubSeqProperties
  <2>3. Len(r) = Len(q) - k
    BY <1>1, <1>3, <2>2
  <2>4. ASSUME NEW i \in 1 .. Len(q) - k PROVE r[i] = q[k + i]
    <3>1. i \in 1 .. Len(q) - (k + 1) + 1 /\ k + 1 + i - 1 = k + i
      BY <1>1
    <3>2. QED
      BY <1>3, <2>2, <3>1
  <2>5. QED
    BY <1>3, <2>2, <2>3, <2>4
<1>6. RemoveAt(q, k) = p \o r
  BY <1>3 DEF RemoveAt
<1>7. QED
  BY <1>4, <1>5, <1>6 DEF Sides

LEMMA RemoveAtIs ==
  ASSUME NEW S, NEW q \in Seq(S), NEW k \in 1 .. Len(q)
  PROVE  /\ RemoveAt(q, k) \in Seq(S)
         /\ Len(RemoveAt(q, k)) = Len(q) - 1
         /\ \A i \in 1 .. Len(q) - 1 : RemoveAt(q, k)[i] = IF i < k THEN q[i] ELSE q[i + 1]
<1>1. Len(q) \in Nat /\ k \in Nat
  BY LenProperties
<1>0. PICK p, r : Sides(S, q, k, p, r)
  BY SidesAre
<1>2. /\ p \in Seq(S) /\ r \in Seq(S) /\ RemoveAt(q, k) = p \o r
      /\ Len(p) = k - 1 /\ \A i \in 1 .. k - 1 : p[i] = q[i]
      /\ Len(r) = Len(q) - k /\ \A i \in 1 .. Len(q) - k : r[i] = q[k + i]
  BY <1>0 DEF Sides
<1>3. /\ p \o r \in Seq(S) /\ Len(p \o r) = Len(p) + Len(r)
      /\ \A i \in 1 .. Len(p) + Len(r) : (p \o r)[i] = IF i <= Len(p) THEN p[i] ELSE r[i - Len(p)]
  BY <1>2, ConcatProperties
<1>4. ASSUME NEW i \in 1 .. Len(q) - 1
      PROVE  RemoveAt(q, k)[i] = IF i < k THEN q[i] ELSE q[i + 1]
  <2>1. CASE i < k
    <3>1. i \in 1 .. Len(p) + Len(r) /\ i <= Len(p) /\ i \in 1 .. k - 1
      BY <1>1, <1>2, <2>1
    <3>2. QED
      BY <1>2, <1>3, <2>1, <3>1
  <2>2. CASE ~(i < k)
    <3>1. PICK j : j = i - Len(p)
      OBVIOUS
    <3>2. i \in 1 .. Len(p) + Len(r) /\ ~(i <= Len(p)) /\ j \in 1 .. Len(q) - k /\ k + j = i + 1
      BY <1>1, <1>2, <2>2, <3>1
    <3>3. QED
      BY <1>2, <1>3, <2>2, <3>1, <3>2
  <2>3. QED
    BY <2>1, <2>2
<1>5. QED
  BY <1>1, <1>2, <1>3, <1>4

LEMMA OccRemoveAt ==
  ASSUME NEW S, NEW q \in Seq(S), NEW k \in 1 .. Len(q), NEW x
  PROVE  Occ(q, x) = (IF q[k] = x THEN 1 ELSE 0) + Occ(RemoveAt(q, k), x)
<1>1. Len(q) \in Nat /\ k \in Nat
  BY LenProperties
<1>0. PICK p, r : Sides(S, q, k, p, r)
  BY SidesAre
<1>2. /\ p \in Seq(S) /\ r \in Seq(S) /\ RemoveAt(q, k) = p \o r
      /\ Len(p) = k - 1 /\ \A i \in 1 .. k - 1 : p[i] = q[i]
      /\ Len(r) = Len(q) - k /\ \A i \in 1 .. Len(q) - k : r[i] = q[k + i]
  BY <1>0 DEF Sides
<1>3. PICK m : m = <<q[k]>>
  OBVIOUS
<1>4. m \in Seq(S) /\ Len(m) = 1 /\ m[1] = q[k]
  BY <1>3, ElementOfSeq
<1>5. PICK u : u = m \o r
  OBVIOUS
<1>6. /\ u \in Seq(S) /\ Len(u) = Len(m) + Len(r)
      /\ \A i \in 1 .. Len(m) + Len(r) : u[i] = IF i <= Len(m) THEN m[i] ELSE r[i - Len(m)]
  BY <1>2, <1>4, <1>5, ConcatProperties
<1>7. PICK w : w = p \o u
  OBVIOUS
<1>8. /\ w \in Seq(S) /\ Len(w) = Len(p) + Len(u)
      /\ \A i \in 1 .. Len(p) + Len(u) : w[i] = IF i <= Len(p) THEN p[i] ELSE u[i - Len(p)]
  <2>1. p \in Seq(S) /\ u \in Seq(S)
    BY <1>2, <1>6
  <2>2. QED
    BY <1>7, <2>1, ConcatProperties
<1>9. Len(w) = Len(q)
  BY <1>1, <1>2, <1>4, <1>6, <1>8
<1>10. ASSUME NEW i \in 1 .. Len(q) PROVE q[i] = w[i]
  <2>1. i \in 1 .. Len(p) + Len(u)
    BY <1>8, <1>9
  <2>2. CASE i < k
    <3>1. i <= Len(p) /\ i \in 1 .. k - 1
      BY <1>1, <1>2, <2>2
    <3>2. QED
      BY <1>2, <1>8, <2>1, <3>1
  <2>3. CASE i = k
    <3>1. i - Len(p) = 1 /\ ~(i <= Len(p)) /\ 1 \in 1 .. Len(m) + Len(r) /\ 1 <= Len(m)
      BY <1>1, <1>2, <1>4, <2>3
    <3>2. w[i] = u[1] /\ u[1] = m[1]
      BY <1>6, <1>8, <2>1, <3>1
    <3>3. m[1] = q[i]
      BY <1>4, <2>3
    <3>4. QED
      BY <3>2, <3>3
  <2>4. CASE i > k
    <3>1. PICK j : j = i - Len(p)
      OBVIOUS
    <3>2. PICK l : l = j - 1
      OBVIOUS
    <3>3. /\ ~(i <= Len(p)) /\ j \in 1 .. Len(m) + Len(r) /\ ~(j <= Len(m))
          /\ l \in 1 .. Len(q) - k /\ k + l = i /\ l = j - Len(m)
      BY <1>1, <1>2, <1>4, <2>4, <3>1, <3>2
    <3>4. w[i] = u[j] /\ u[j] = r[l]
      BY <1>6, <1>8, <2>1, <3>1, <3>2, <3>3
    <3>5. QED
      BY <1>2, <3>3, <3>4
  <2>5. QED
    BY <1>1, <2>2, <2>3, <2>4
<1>11. q = w
  BY <1>8, <1>9, <1>10, SeqEqual
<1>12. Occ(u, x) = Occ(m, x) + Occ(r, x)
  BY <1>2, <1>4, <1>5, OccConcat
<1>13. Occ(w, x) = Occ(p, x) + Occ(u, x)
  BY <1>2, <1>6, <1>7, OccConcat
<1>14. Occ(RemoveAt(q, k), x) = Occ(p, x) + Occ(r, x)
  BY <1>2, OccConcat
<1>15. Occ(p, x) \in Nat /\ Occ(r, x) \in Nat /\ Occ(m, x) \in Nat
  BY <1>2, <1>4, OccIs
<1>16. Occ(m, x) = IF q[k] = x THEN 1 ELSE 0
  BY <1>3, OccSingle
<1>17. QED
  BY <1>11, <1>12, <1>13, <1>14, <1>15, <1>16

LEMMA OccIn ==
  ASSUME NEW S, NEW q \in Seq(S), NEW x
  PROVE  Occ(q, x) # 0 <=> x \in Range(q)
<1>1. PICK A : A = {i \in DOMAIN q : q[i] = x}
  OBVIOUS
<1>2. IsFiniteSet(A)
  BY <1>1, OccIs
<1>3. Cardinality(A) = 0 <=> A = {}
  BY <1>2, FS_EmptySet
<1>4. A # {} <=> x \in Range(q)
  BY <1>1 DEF Range
<1>5. QED
  BY <1>1, <1>3, <1>4 DEF Occ

LEMMA OccOnce ==
  ASSUME NEW S, NEW q \in Seq(S), NEW i \in DOMAIN q, NEW j \in DOMAIN q, q[i] = q[j],
         Occ(q, q[i]) <= 1
  PROVE  i = j
<1>1. PICK A : A = {k \in DOMAIN q : q[k] = q[i]}
  OBVIOUS
<1>2. IsFiniteSet(A) /\ Cardinality(A) \in Nat /\ Cardinality(A) <= 1
  BY <1>1, OccIs, FS_CardinalityType DEF Occ
<1>3. i \in A /\ j \in A
  BY <1>1
<1>4. Cardinality(A) # 0
  BY <1>2, <1>3, FS_EmptySet
<1>5. Cardinality(A) = 1
  BY <1>2, <1>4
<1>6. \E y : A = {y}
  BY <1>2, <1>5, FS_Singleton
<1>7. QED
  BY <1>3, <1>6

-----------------------------------------------------------------------------
(* What is on a list.                                                      *)

LEMMA RangeIs ==
  ASSUME NEW S, NEW q \in Seq(S)
  PROVE  Range(q) \subseteq S
<1>1. DOMAIN q = 1 .. Len(q)
  BY LenProperties
<1>2. \A i \in DOMAIN q : q[i] \in S
  BY <1>1, ElementOfSeq
<1>3. QED
  BY <1>2 DEF Range

LEMMA RangeAppend ==
  ASSUME NEW S, NEW q \in Seq(S), NEW e \in S
  PROVE  Range(Append(q, e)) = Range(q) \cup {e}
<1>1. PICK n, r : n = Len(q) /\ r = Append(q, e)
  OBVIOUS
<1>2. n \in Nat /\ DOMAIN q = 1 .. n
  BY <1>1, LenProperties
<1>3. /\ r \in Seq(S) /\ Len(r) = n + 1 /\ \A i \in 1 .. n : r[i] = q[i]
      /\ r[n + 1] = e
  BY <1>1, AppendProperties
<1>4. DOMAIN r = 1 .. n + 1
  BY <1>3, LenProperties
<1>5. ASSUME NEW x \in Range(r) PROVE x \in Range(q) \cup {e}
  <2>1. PICK i \in 1 .. n + 1 : x = r[i]
    BY <1>4, <1>5 DEF Range
  <2>2. i = n + 1 \/ i \in 1 .. n
    BY <1>2, <2>1
  <2>3. QED
    BY <1>2, <1>3, <2>1, <2>2 DEF Range
<1>6. ASSUME NEW x \in Range(q) PROVE x \in Range(r)
  <2>1. PICK i \in 1 .. n : x = q[i]
    BY <1>2, <1>6 DEF Range
  <2>2. i \in 1 .. n + 1
    BY <1>2, <2>1
  <2>3. QED
    BY <1>3, <1>4, <2>1, <2>2 DEF Range
<1>7. e \in Range(r)
  <2>1. n + 1 \in 1 .. n + 1
    BY <1>2
  <2>2. QED
    BY <1>3, <1>4, <2>1 DEF Range
<1>8. QED
  BY <1>1, <1>5, <1>6, <1>7

LEMMA RangeTail ==
  ASSUME NEW S, NEW q \in Seq(S), q # <<>>
  PROVE  /\ Head(q) \in S /\ Tail(q) \in Seq(S) /\ Head(q) \in Range(q)
         /\ Range(q) = {Head(q)} \cup Range(Tail(q))
<1>1. PICK h, t : h = Head(q) /\ t = Tail(q)
  OBVIOUS
<1>2. /\ h \in S /\ t \in Seq(S) /\ Len(t) = Len(q) - 1
      /\ \A i \in 1 .. Len(t) : t[i] = q[i + 1]
  BY <1>1, HeadTailProperties
<1>3. Len(q) \in Nat \ {0} /\ DOMAIN q = 1 .. Len(q)
  BY EmptySeq, LenProperties
<1>4. DOMAIN t = 1 .. Len(t)
  BY <1>2, LenProperties
<1>5. q[1] = h /\ 1 \in DOMAIN q
  BY <1>1, <1>3
<1>6. ASSUME NEW x \in Range(q) PROVE x = h \/ x \in Range(t)
  <2>1. PICK i \in 1 .. Len(q) : x = q[i]
    BY <1>3, <1>6 DEF Range
  <2>2. PICK j : j = i - 1
    OBVIOUS
  <2>3. i = 1 \/ (j \in 1 .. Len(t) /\ i = j + 1)
    BY <1>2, <1>3, <2>1, <2>2
  <2>4. QED
    BY <1>2, <1>4, <1>5, <2>1, <2>3 DEF Range
<1>7. ASSUME NEW x \in Range(t) PROVE x \in Range(q)
  <2>1. PICK j \in 1 .. Len(t) : x = t[j]
    BY <1>4, <1>7 DEF Range
  <2>2. j + 1 \in 1 .. Len(q)
    BY <1>2, <1>3, <2>1
  <2>3. QED
    BY <1>2, <1>3, <2>1, <2>2 DEF Range
<1>8. h \in Range(q)
  BY <1>5 DEF Range
<1>9. QED
  BY <1>1, <1>2, <1>6, <1>7, <1>8

LEMMA RangeConcat ==
  ASSUME NEW S, NEW p \in Seq(S), NEW q \in Seq(S)
  PROVE  Range(p \o q) = Range(p) \cup Range(q)
BY RangeConcatenation

LEMMA RangeEmpty == Range(<<>>) = {}
BY DEF Range

\* An append is a concatenation.
LEMMA ConcatSingle ==
  ASSUME NEW S, NEW q \in Seq(S), NEW e \in S
  PROVE  q \o <<e>> = Append(q, e)
BY AppendIsConcat

-----------------------------------------------------------------------------
(* Lists one behind the other.                                             *)

\* F[i] is what the first i of the lists in s make, up to the n-th.
SumsTo(S, s, n, F) ==
  /\ F \in [0 .. n -> Seq(S)]
  /\ F[0] = <<>>
  /\ \A i \in 0 .. n - 1 : F[i + 1] = F[i] \o s[i + 1]

Sums(S, s, F) == SumsTo(S, s, Len(s), F)

LEMMA SumsExist ==
  ASSUME NEW S, NEW s \in Seq(Seq(S))
  PROVE  \E F : Sums(S, s, F)
<1>1. PICK n : n = Len(s) /\ n \in Nat
  BY LenProperties
<1> DEFINE K == {k \in Nat : k <= n => \E F : SumsTo(S, s, k, F)}
<1>2. 0 \in K
  <2>1. PICK F : F = [i \in 0 .. 0 |-> <<>>]
    OBVIOUS
  <2>2. <<>> \in Seq(S)
    BY EmptySeq
  <2>3. F \in [0 .. 0 -> Seq(S)] /\ F[0] = <<>> /\ \A i \in 0 .. 0 - 1 : FALSE
    BY <2>1, <2>2
  <2>4. SumsTo(S, s, 0, F)
    BY <2>3 DEF SumsTo
  <2>5. QED
    BY <2>4
<1>3. ASSUME NEW k \in Nat, k \in K PROVE k + 1 \in K
  <2>1. SUFFICES ASSUME k + 1 <= n PROVE \E F : SumsTo(S, s, k + 1, F)
    OBVIOUS
  <2>15. k <= n
    BY <1>1, <2>1
  <2>14. PICK F : SumsTo(S, s, k, F)
    BY <1>3, <2>15
  <2>2. /\ F \in [0 .. k -> Seq(S)] /\ F[0] = <<>>
        /\ \A i \in 0 .. k - 1 : F[i + 1] = F[i] \o s[i + 1]
    BY <2>14 DEF SumsTo
  <2>3. PICK m, x : m = k + 1 /\ x = F[k] \o s[m]
    OBVIOUS
  <2>4. m \in Nat /\ k < m /\ m \in 1 .. n /\ k \in 0 .. k /\ 0 \in 0 .. k /\ m # 0
    BY <1>1, <2>1, <2>3
  <2>5. x \in Seq(S)
    <3>1. s[m] \in Seq(S)
      BY <1>1, <2>4, ElementOfSeq
    <3>2. F[k] \in Seq(S)
      BY <2>2, <2>4
    <3>3. QED
      BY <2>3, <3>1, <3>2, ConcatProperties
  <2>6. PICK G : G = [i \in 0 .. m |-> IF i = m THEN x ELSE F[i]]
    OBVIOUS
  <2>7. \A i \in 0 .. m : i # m => i \in 0 .. k
    BY <2>3
  <2>8. G \in [0 .. m -> Seq(S)]
    BY <2>2, <2>5, <2>6, <2>7
  <2>9. G[m] = x /\ \A i \in 0 .. k : G[i] = F[i]
    <3>1. \A i \in 0 .. k : i \in 0 .. m /\ i # m
      BY <2>4
    <3>2. m \in 0 .. m
      BY <2>4
    <3>3. QED
      BY <2>6, <3>1, <3>2
  <2>10. G[0] = <<>>
    BY <2>2, <2>4, <2>9
  <2>11. ASSUME NEW i \in 0 .. m - 1 PROVE G[i + 1] = G[i] \o s[i + 1]
    <3>1. CASE i = k
      BY <2>3, <2>4, <2>9, <3>1
    <3>2. CASE i # k
      <4>1. i \in 0 .. k - 1 /\ i \in 0 .. k /\ i + 1 \in 0 .. k
        BY <2>3, <3>2
      <4>2. QED
        BY <2>2, <2>9, <4>1
    <3>3. QED
      BY <3>1, <3>2
  <2>12. SumsTo(S, s, m, G)
    BY <2>8, <2>10, <2>11 DEF SumsTo
  <2>13. QED
    BY <2>3, <2>12
<1>4. n \in K
  <2> HIDE DEF K
  <2>1. QED
    BY <1>1, <1>2, <1>3, NaturalsByInduction
<1>5. PICK F : SumsTo(S, s, n, F)
  BY <1>1, <1>4
<1>6. QED
  BY <1>1, <1>5 DEF Sums

\* That is what FlattenSeq makes of them.
LEMMA FlattenIs ==
  ASSUME NEW S, NEW s \in Seq(Seq(S)), NEW F, Sums(S, s, F)
  PROVE  FlattenSeq(s) = F[Len(s)]
<1>1. PICK n : n = Len(s) /\ n \in Nat
  BY LenProperties
<1>2. /\ F \in [0 .. n -> Seq(S)] /\ F[0] = <<>>
      /\ \A i \in 0 .. n - 1 : F[i + 1] = F[i] \o s[i + 1]
  BY <1>1 DEF Sums, SumsTo
<1> DEFINE Is(f) == f = [i \in 1 .. n |-> IF i = 1 THEN s[i] ELSE f[i - 1] \o s[i]]
<1>3. CASE n = 0
  <2>1. s = <<>>
    BY <1>1, <1>3, EmptySeq
  <2>2. QED
    BY <1>1, <1>2, <1>3, <2>1 DEF FlattenSeq
<1>4. CASE n # 0
  <2>1. n \in 1 .. n /\ 0 \in 0 .. n - 1 /\ 1 \in 1 .. n
    BY <1>1, <1>4
  <2>2. F[1] = s[1]
    <3>1. s[1] \in Seq(S)
      BY <1>1, <2>1, ElementOfSeq
    <3>2. F[0 + 1] = F[0] \o s[0 + 1]
      BY <1>2, <2>1
    <3>3. F[1] = <<>> \o s[1]
      BY <1>2, <3>2
    <3>4. QED
      BY <3>1, <3>3, ConcatEmptySeq
  <2>3. ASSUME NEW i \in 1 .. n, i # 1 PROVE F[i] = F[i - 1] \o s[i] /\ i - 1 \in 1 .. n
    <3>1. i - 1 \in 0 .. n - 1 /\ (i - 1) + 1 = i /\ i - 1 \in 1 .. n
      BY <1>1, <2>3
    <3>2. F[(i - 1) + 1] = F[i - 1] \o s[(i - 1) + 1]
      BY <1>2, <3>1
    <3>3. QED
      BY <3>1, <3>2
  <2>4. \E f : Is(f)
    <3>1. PICK f : f = [i \in 1 .. n |-> F[i]]
      OBVIOUS
    <3>2. ASSUME NEW i \in 1 .. n
          PROVE  F[i] = IF i = 1 THEN s[i] ELSE f[i - 1] \o s[i]
      BY <2>2, <2>3, <3>1
    <3>3. Is(f)
      BY <3>1, <3>2
    <3>4. QED
      BY <3>3
  <2>5. PICK f : f = CHOOSE h : Is(h)
    OBVIOUS
  <2>6. Is(f)
    BY <2>4, <2>5
  <2>7. FlattenSeq(s) = f[n]
    BY <1>1, <1>4, <2>5 DEF FlattenSeq
  <2>8. f[1] = s[1] /\ \A i \in 1 .. n : i # 1 => f[i] = f[i - 1] \o s[i]
    BY <2>1, <2>6
  <2> DEFINE K == {k \in Nat : k + 1 <= n => f[k + 1] = F[k + 1]}
  <2>9. 0 \in K
    <3>1. f[0 + 1] = F[0 + 1]
      BY <2>2, <2>8
    <3>2. QED
      BY <3>1
  <2>10. ASSUME NEW k \in Nat, k \in K PROVE k + 1 \in K
    <3>1. SUFFICES ASSUME (k + 1) + 1 <= n PROVE f[(k + 1) + 1] = F[(k + 1) + 1]
      OBVIOUS
    <3>2. PICK i : i = (k + 1) + 1
      OBVIOUS
    <3>3. i \in 1 .. n /\ i # 1 /\ i - 1 = k + 1 /\ k + 1 <= n
      BY <1>1, <3>1, <3>2
    <3>4. f[i - 1] = F[i - 1]
      BY <2>10, <3>3
    <3>5. f[i] = F[i]
      BY <2>3, <2>8, <3>3, <3>4
    <3>6. QED
      BY <3>2, <3>5
  <2>11. n - 1 \in Nat /\ (n - 1) + 1 = n
    BY <1>1, <1>4
  <2>12. n - 1 \in K
    <3> HIDE DEF K
    <3>1. QED
      BY <2>9, <2>10, <2>11, NaturalsByInduction
  <2>13. f[(n - 1) + 1] = F[(n - 1) + 1]
    BY <2>11, <2>12
  <2>14. QED
    BY <1>1, <2>7, <2>11, <2>13
<1>5. QED
  BY <1>3, <1>4

LEMMA FlattenTyped ==
  ASSUME NEW S, NEW s \in Seq(Seq(S))
  PROVE  FlattenSeq(s) \in Seq(S)
<1>1. PICK F : Sums(S, s, F)
  BY SumsExist
<1>2. FlattenSeq(s) = F[Len(s)]
  BY <1>1, FlattenIs
<1>3. Len(s) \in 0 .. Len(s)
  BY LenProperties
<1>4. QED
  BY <1>1, <1>2, <1>3 DEF Sums, SumsTo

\* All of them are empty.
LEMMA FlattenNone ==
  ASSUME NEW S, NEW s \in Seq(Seq(S)), \A i \in 1 .. Len(s) : s[i] = <<>>
  PROVE  FlattenSeq(s) = <<>>
<1>1. PICK n : n = Len(s) /\ n \in Nat
  BY LenProperties
<1>2. PICK F : Sums(S, s, F)
  BY SumsExist
<1>3. /\ F \in [0 .. n -> Seq(S)] /\ F[0] = <<>>
      /\ \A i \in 0 .. n - 1 : F[i + 1] = F[i] \o s[i + 1]
  BY <1>1, <1>2 DEF Sums, SumsTo
<1> DEFINE K == {i \in Nat : i <= n => F[i] = <<>>}
<1>4. 0 \in K
  BY <1>3
<1>5. ASSUME NEW i \in Nat, i \in K PROVE i + 1 \in K
  <2>1. SUFFICES ASSUME i + 1 <= n PROVE F[i + 1] = <<>>
    OBVIOUS
  <2>2. i \in 0 .. n - 1 /\ i <= n /\ i + 1 \in 1 .. Len(s)
    BY <1>1, <2>1
  <2>3. F[i] = <<>> /\ s[i + 1] = <<>>
    BY <1>5, <2>2
  <2>4. F[i + 1] = F[i] \o s[i + 1]
    BY <1>3, <2>2
  <2>5. <<>> \o <<>> = <<>>
    OBVIOUS
  <2>6. QED
    BY <2>3, <2>4, <2>5
<1>6. n \in K
  <2> HIDE DEF K
  <2>1. QED
    BY <1>1, <1>4, <1>5, NaturalsByInduction
<1>7. FlattenSeq(s) = F[n]
  BY <1>1, <1>2, FlattenIs
<1>8. QED
  BY <1>1, <1>6, <1>7

\* All but the k-th are empty.
LEMMA FlattenOne ==
  ASSUME NEW S, NEW s \in Seq(Seq(S)), NEW k \in 1 .. Len(s),
         \A i \in 1 .. Len(s) : i # k => s[i] = <<>>
  PROVE  FlattenSeq(s) = s[k]
<1>1. PICK n : n = Len(s) /\ n \in Nat
  BY LenProperties
<1>2. PICK F : Sums(S, s, F)
  BY SumsExist
<1>3. /\ F \in [0 .. n -> Seq(S)] /\ F[0] = <<>>
      /\ \A i \in 0 .. n - 1 : F[i + 1] = F[i] \o s[i + 1]
  BY <1>1, <1>2 DEF Sums, SumsTo
<1>4. PICK x : x = s[k]
  OBVIOUS
<1>5. x \in Seq(S)
  BY <1>4, ElementOfSeq
<1> DEFINE K == {i \in Nat : i <= n => F[i] = IF i < k THEN <<>> ELSE x}
<1>6. k \in Nat /\ 0 < k /\ k <= n
  BY <1>1
<1>7. 0 \in K
  BY <1>3, <1>6
<1>8. ASSUME NEW i \in Nat, i \in K PROVE i + 1 \in K
  <2>1. SUFFICES ASSUME i + 1 <= n PROVE F[i + 1] = IF i + 1 < k THEN <<>> ELSE x
    OBVIOUS
  <2>2. i \in 0 .. n - 1 /\ i <= n /\ i + 1 \in 1 .. Len(s)
    BY <1>1, <2>1
  <2>3. F[i] = IF i < k THEN <<>> ELSE x
    BY <1>8, <2>2
  <2>4. F[i + 1] = F[i] \o s[i + 1]
    BY <1>3, <2>2
  <2>5. x \o <<>> = x /\ <<>> \o x = x /\ <<>> \o <<>> = <<>>
    BY <1>5, ConcatEmptySeq
  <2>6. CASE i + 1 = k
    <3>1. i < k /\ ~(i + 1 < k) /\ s[i + 1] = x
      BY <1>4, <2>6
    <3>2. QED
      BY <2>3, <2>4, <2>5, <3>1
  <2>7. CASE i + 1 # k
    <3>1. (i + 1 < k <=> i < k) /\ s[i + 1] = <<>>
      BY <1>6, <2>2, <2>7
    <3>2. QED
      BY <2>3, <2>4, <2>5, <3>1
  <2>8. QED
    BY <2>6, <2>7
<1>9. n \in K
  <2> HIDE DEF K
  <2>1. QED
    BY <1>1, <1>7, <1>8, NaturalsByInduction
<1>10. FlattenSeq(s) = F[n]
  BY <1>1, <1>2, FlattenIs
<1>11. QED
  BY <1>1, <1>4, <1>6, <1>9, <1>10

\* The places in K of the list q, in order.
Sublist(q, K) == FlattenSeq([i \in 1 .. Len(q) |-> IF i \in K THEN <<q[i]>> ELSE <<>>])

LEMMA SublistIs ==
  ASSUME NEW S, NEW q \in Seq(S), NEW K, NEW x
  PROVE  /\ Sublist(q, K) \in Seq(S)
         /\ Occ(Sublist(q, K), x) = Cardinality({i \in DOMAIN q : i \in K /\ q[i] = x})
<1>1. PICK n : n = Len(q) /\ n \in Nat /\ DOMAIN q = 1 .. n
  BY LenProperties
<1>2. PICK s : s = [i \in 1 .. n |-> IF i \in K THEN <<q[i]>> ELSE <<>>]
  OBVIOUS
<1>3. \A i \in 1 .. n : s[i] \in Seq(S)
  <2>1. \A i \in 1 .. n : q[i] \in S
    BY <1>1, ElementOfSeq
  <2>2. \A y \in S : <<y>> \in Seq(S)
    OBVIOUS
  <2>3. QED
    BY <1>2, <2>1, <2>2, EmptySeq
<1>4. s \in Seq(Seq(S)) /\ Len(s) = n
  BY <1>1, <1>2, <1>3
<1>5. Sublist(q, K) = FlattenSeq(s)
  BY <1>1, <1>2 DEF Sublist
<1>6. PICK F : Sums(S, s, F)
  BY <1>4, SumsExist
<1>7. /\ F \in [0 .. n -> Seq(S)] /\ F[0] = <<>>
      /\ \A i \in 0 .. n - 1 : F[i + 1] = F[i] \o s[i + 1]
  BY <1>4, <1>6 DEF Sums, SumsTo
<1> DEFINE P(k) == {i \in 1 .. k : i \in K /\ q[i] = x}
           T == {k \in Nat : k <= n => IsFiniteSet(P(k)) /\ Occ(F[k], x) = Cardinality(P(k))}
<1>8. 0 \in T
  <2>1. P(0) = {}
    OBVIOUS
  <2>2. QED
    BY <1>7, <2>1, OccEmpty, FS_EmptySet
<1>9. ASSUME NEW k \in Nat, k \in T PROVE k + 1 \in T
  <2>1. SUFFICES ASSUME k + 1 <= n
                 PROVE  IsFiniteSet(P(k + 1)) /\ Occ(F[k + 1], x) = Cardinality(P(k + 1))
    OBVIOUS
  <2>2. PICK m : m = k + 1
    OBVIOUS
  <2>3. k \in 0 .. n - 1 /\ k \in 0 .. n /\ k <= n /\ m \in 1 .. n /\ m \notin P(k)
    BY <1>1, <2>1, <2>2
  <2>4. PICK A, a : A = P(k) /\ a = F[k]
    OBVIOUS
  <2>5. IsFiniteSet(A) /\ Occ(a, x) = Cardinality(A) /\ a \in Seq(S) /\ Cardinality(A) \in Nat
    BY <1>7, <1>9, <2>3, <2>4, FS_CardinalityType
  <2>6. F[m] = a \o s[m]
    BY <1>7, <2>2, <2>3, <2>4
  <2>7. P(m) = IF m \in K /\ q[m] = x THEN A \cup {m} ELSE A
    BY <2>2, <2>3, <2>4
  <2>8. CASE m \in K
    <3>1. s[m] = <<q[m]>> /\ q[m] \in S
      BY <1>1, <1>2, <2>3, <2>8, ElementOfSeq
    <3>2. F[m] = Append(a, q[m])
      BY <2>5, <2>6, <3>1, AppendIsConcat
    <3>3. Occ(F[m], x) = Occ(a, x) + (IF q[m] = x THEN 1 ELSE 0)
      BY <2>5, <3>1, <3>2, OccAppend
    <3>4. IsFiniteSet(A \cup {m}) /\ Cardinality(A \cup {m}) = Cardinality(A) + 1
      BY <2>3, <2>4, <2>5, FS_AddElement
    <3>5. CASE q[m] = x
      <4>1. P(m) = A \cup {m}
        BY <2>7, <2>8, <3>5
      <4>2. QED
        BY <2>2, <2>5, <3>3, <3>4, <3>5, <4>1
    <3>6. CASE q[m] # x
      <4>1. P(m) = A
        BY <2>7, <3>6
      <4>2. Occ(F[m], x) = Cardinality(A)
        BY <2>5, <3>3, <3>6
      <4>3. QED
        BY <2>2, <2>5, <4>1, <4>2
    <3>7. QED
      BY <3>5, <3>6
  <2>9. CASE m \notin K
    <3>1. s[m] = <<>>
      BY <1>2, <2>3, <2>9
    <3>2. F[m] = a
      BY <2>5, <2>6, <3>1, ConcatEmptySeq
    <3>3. P(m) = A
      BY <2>7, <2>9
    <3>4. QED
      BY <2>2, <2>5, <3>2, <3>3
  <2>10. QED
    BY <2>8, <2>9
<1>10. n \in T
  <2> HIDE DEF T
  <2>1. QED
    BY <1>1, <1>8, <1>9, NaturalsByInduction
<1>11. Occ(F[n], x) = Cardinality({i \in DOMAIN q : i \in K /\ q[i] = x})
  <2>1. n <= n
    BY <1>1
  <2>2. Occ(F[n], x) = Cardinality(P(n))
    BY <1>10, <2>1
  <2>3. P(n) = {i \in DOMAIN q : i \in K /\ q[i] = x}
    BY <1>1
  <2>4. QED
    BY <2>2, <2>3
<1>12. FlattenSeq(s) = F[n] /\ FlattenSeq(s) \in Seq(S)
  BY <1>4, <1>6, FlattenIs, FlattenTyped
<1>13. QED
  BY <1>5, <1>11, <1>12

LEMMA SublistIn ==
  ASSUME NEW S, NEW q \in Seq(S), NEW K
  PROVE  Range(Sublist(q, K)) = {q[i] : i \in {j \in DOMAIN q : j \in K}}
<1>1. ASSUME NEW x
      PROVE  x \in Range(Sublist(q, K)) <=> \E i \in DOMAIN q : i \in K /\ q[i] = x
  <2>1. PICK A : A = {i \in DOMAIN q : i \in K /\ q[i] = x}
    OBVIOUS
  <2>2. PICK C : C = {i \in DOMAIN q : q[i] = x}
    OBVIOUS
  <2>8. A \in SUBSET C /\ IsFiniteSet(C)
    BY <2>1, <2>2, OccIs
  <2>3. IsFiniteSet(A)
    BY <2>8, FS_Subset
  <2>4. Cardinality(A) = 0 <=> A = {}
    BY <2>3, FS_EmptySet
  <2>5. Sublist(q, K) \in Seq(S) /\ Occ(Sublist(q, K), x) = Cardinality(A)
    BY <2>1, SublistIs
  <2>6. x \in Range(Sublist(q, K)) <=> A # {}
    BY <2>4, <2>5, OccIn
  <2>7. QED
    BY <2>1, <2>6
<1>2. QED
  BY <1>1

\* What is not on the one part is on the other.
LEMMA SublistParts ==
  ASSUME NEW S, NEW q \in Seq(S), NEW K, K \subseteq DOMAIN q, NEW x
  PROVE  Occ(q, x) = Occ(Sublist(q, K), x) + Occ(Sublist(q, DOMAIN q \ K), x)
<1>1. PICK A, B, C : /\ A = {i \in DOMAIN q : i \in K /\ q[i] = x}
                     /\ B = {i \in DOMAIN q : i \in DOMAIN q \ K /\ q[i] = x}
                     /\ C = {i \in DOMAIN q : q[i] = x}
  OBVIOUS
<1>2. C = A \cup B /\ A \cap B = {} /\ A \subseteq C /\ B \subseteq C
  BY <1>1
<1>3. IsFiniteSet(C)
  BY <1>1, OccIs
<1>4. IsFiniteSet(A) /\ IsFiniteSet(B)
  BY <1>2, <1>3, FS_Subset
<1>5. Cardinality(A \cup B) = Cardinality(A) + Cardinality(B) - Cardinality(A \cap B)
  BY <1>4, FS_Union
<1>6. Cardinality(A \cap B) = 0
  BY <1>2, FS_EmptySet
<1>7. Cardinality(A) \in Nat /\ Cardinality(B) \in Nat
  BY <1>4, FS_CardinalityType
<1>8. Occ(Sublist(q, K), x) = Cardinality(A) /\ Occ(Sublist(q, DOMAIN q \ K), x) = Cardinality(B)
  BY <1>1, SublistIs
<1>9. Occ(q, x) = Cardinality(C)
  BY <1>1 DEF Occ
<1>10. QED
  BY <1>2, <1>5, <1>6, <1>7, <1>8, <1>9

-----------------------------------------------------------------------------
(* Completions.                                                            *)

Completion == [type : {"data", "end", "disconnect"}, sess : Sess, conn : Conns, n : 0 .. MaxSent]

\* The sessions that the completions in q give back.
Ret(q) == [i \in 1 .. Len(q) |-> IF q[i].type = "disconnect" THEN q[i].sess ELSE None]

\* How often the completions in q give s back.
Returns(q, s) == Occ(Ret(q), s)

\* At most one receive of a session has brought data, and the completion that
\* gives a session back is the last one of it.
Apart(q) ==
  \A i, j \in DOMAIN q :
    (i < j /\ q[i].sess = q[j].sess) =>
      q[i].type # "disconnect" /\ ~(q[i].type = "data" /\ q[j].type = "data")

\* A completion e may follow d.
Follows(e, d) ==
  d.sess = e.sess => d.type # "disconnect" /\ ~(d.type = "data" /\ e.type = "data")

IsData(e, s) == e.type = "data" /\ e.sess = s

\* The data that the completions in q have for s.
Data(q, s) ==
  FlattenSeq([i \in 1 .. Len(q) |->
    IF q[i].type = "data" /\ q[i].sess = s THEN << <<q[i].conn, q[i].n>> >> ELSE <<>>])

LEMMA Constants ==
  /\ IsFiniteSet(AcceptSess) /\ Dialer \notin AcceptSess
  /\ None \notin Sess /\ None \notin Conns /\ Sess = AcceptSess \cup {Dialer}
  /\ MaxConn \in Nat /\ MaxAccept \in Nat /\ MaxSent \in Nat /\ 0 < MaxConn
  /\ Conns \subseteq Nat /\ 1 \in Conns /\ 0 \in 0 .. MaxSent /\ Dialer \in Sess
  /\ AcceptSess \subseteq Sess
BY SessionsAssumption DEF Sess, Conns

LEMMA RetIs ==
  ASSUME NEW q \in Seq(Completion)
  PROVE  /\ Ret(q) \in Seq(Sess \cup {None}) /\ Len(Ret(q)) = Len(q)
         /\ \A i \in 1 .. Len(q) :
              Ret(q)[i] = IF q[i].type = "disconnect" THEN q[i].sess ELSE None
<1>1. Len(q) \in Nat
  BY LenProperties
<1>2. \A i \in 1 .. Len(q) : q[i].sess \in Sess
  <2>1. \A i \in 1 .. Len(q) : q[i] \in Completion
    BY ElementOfSeq
  <2>2. QED
    BY <2>1 DEF Completion
<1>3. PICK r, n : r = Ret(q) /\ n = Len(q)
  OBVIOUS
<1>4. r = [i \in 1 .. n |-> IF q[i].type = "disconnect" THEN q[i].sess ELSE None]
  BY <1>3 DEF Ret
<1>5. \A i \in 1 .. n : r[i] \in Sess \cup {None}
  BY <1>2, <1>3, <1>4
<1>6. r \in Seq(Sess \cup {None}) /\ Len(r) = n
  BY <1>1, <1>3, <1>4, <1>5
<1>7. QED
  BY <1>3, <1>4, <1>6

LEMMA ReturnsAppend ==
  ASSUME NEW q \in Seq(Completion), NEW e \in Completion, NEW s \in AcceptSess
  PROVE  Returns(Append(q, e), s)
           = Returns(q, s) + (IF e.type = "disconnect" /\ e.sess = s THEN 1 ELSE 0)
<1>1. PICK r, x : r = Append(q, e) /\ x = IF e.type = "disconnect" THEN e.sess ELSE None
  OBVIOUS
<1>2. /\ r \in Seq(Completion) /\ Len(r) = Len(q) + 1
      /\ \A i \in 1 .. Len(q) : r[i] = q[i]
      /\ r[Len(q) + 1] = e
  BY <1>1, AppendProperties
<1>3. PICK p : p = Ret(q)
  OBVIOUS
<1>4. /\ p \in Seq(Sess \cup {None}) /\ Len(p) = Len(q)
      /\ \A i \in 1 .. Len(q) : p[i] = IF q[i].type = "disconnect" THEN q[i].sess ELSE None
  BY <1>3, RetIs
<1>5. x \in Sess \cup {None}
  BY <1>1 DEF Completion
<1>6. PICK w : w = Append(p, x)
  OBVIOUS
<1>7. /\ w \in Seq(Sess \cup {None}) /\ Len(w) = Len(q) + 1
      /\ \A i \in 1 .. Len(q) : w[i] = p[i]
      /\ w[Len(q) + 1] = x
  BY <1>4, <1>5, <1>6, AppendProperties
<1>8. /\ Ret(r) \in Seq(Sess \cup {None}) /\ Len(Ret(r)) = Len(q) + 1
      /\ \A i \in 1 .. Len(r) :
           Ret(r)[i] = IF r[i].type = "disconnect" THEN r[i].sess ELSE None
  BY <1>2, RetIs
<1>9. ASSUME NEW i \in 1 .. Len(q) + 1 PROVE Ret(r)[i] = w[i]
  <2>1. i \in 1 .. Len(r) /\ (i = Len(q) + 1 \/ i \in 1 .. Len(q))
    BY <1>2, LenProperties
  <2>2. CASE i = Len(q) + 1
    BY <1>1, <1>2, <1>7, <1>8, <2>1, <2>2
  <2>3. CASE i \in 1 .. Len(q)
    BY <1>2, <1>4, <1>7, <1>8, <2>1, <2>3
  <2>4. QED
    BY <2>1, <2>2, <2>3
<1>10. Ret(r) = w
  BY <1>7, <1>8, <1>9, SeqEqual
<1>11. Occ(w, s) = Occ(p, s) + (IF x = s THEN 1 ELSE 0)
  BY <1>4, <1>5, <1>6, OccAppend
<1>12. x = s <=> (e.type = "disconnect" /\ e.sess = s)
  BY <1>1, Constants
<1>13. QED
  BY <1>1, <1>3, <1>10, <1>11, <1>12 DEF Returns

LEMMA ReturnsTail ==
  ASSUME NEW q \in Seq(Completion), q # <<>>, NEW s \in AcceptSess
  PROVE  Returns(q, s) = (IF Head(q).type = "disconnect" /\ Head(q).sess = s THEN 1 ELSE 0)
                           + Returns(Tail(q), s)
<1>1. PICK h, t : h = Head(q) /\ t = Tail(q)
  OBVIOUS
<1>2. /\ h \in Completion /\ t \in Seq(Completion) /\ Len(t) = Len(q) - 1
      /\ \A i \in 1 .. Len(t) : t[i] = q[i + 1]
  BY <1>1, HeadTailProperties
<1>3. Len(q) \in Nat \ {0} /\ h = q[1] /\ 1 \in 1 .. Len(q)
  BY <1>1, EmptySeq
<1>4. PICK p : p = Ret(q)
  OBVIOUS
<1>5. /\ p \in Seq(Sess \cup {None}) /\ Len(p) = Len(q)
      /\ \A i \in 1 .. Len(q) : p[i] = IF q[i].type = "disconnect" THEN q[i].sess ELSE None
  BY <1>4, RetIs
<1>6. p # <<>> /\ p[1] = Head(p)
  BY <1>3, <1>5
<1>7. /\ Tail(p) \in Seq(Sess \cup {None}) /\ Len(Tail(p)) = Len(p) - 1
      /\ \A i \in 1 .. Len(Tail(p)) : Tail(p)[i] = p[i + 1]
  BY <1>5, <1>6, HeadTailProperties
<1>8. /\ Ret(t) \in Seq(Sess \cup {None}) /\ Len(Ret(t)) = Len(t)
      /\ \A i \in 1 .. Len(t) : Ret(t)[i] = IF t[i].type = "disconnect" THEN t[i].sess ELSE None
  BY <1>2, RetIs
<1>9. ASSUME NEW i \in 1 .. Len(t) PROVE Ret(t)[i] = Tail(p)[i]
  <2>1. i + 1 \in 1 .. Len(q) /\ i \in 1 .. Len(Tail(p))
    BY <1>2, <1>3, <1>5, <1>7
  <2>2. QED
    BY <1>2, <1>5, <1>7, <1>8, <2>1
<1>10. Ret(t) = Tail(p)
  <2>1. Len(Ret(t)) = Len(t) /\ Len(Tail(p)) = Len(t)
    BY <1>2, <1>5, <1>7, <1>8
  <2>2. QED
    BY <1>7, <1>8, <1>9, <2>1, SeqEqual
<1>11. Occ(p, s) = (IF Head(p) = s THEN 1 ELSE 0) + Occ(Tail(p), s)
  BY <1>5, <1>6, OccTail
<1>12. Head(p) = s <=> (h.type = "disconnect" /\ h.sess = s)
  BY <1>3, <1>5, <1>6, Constants
<1>13. QED
  BY <1>1, <1>4, <1>10, <1>11, <1>12 DEF Returns

LEMMA ReturnsIs ==
  ASSUME NEW q \in Seq(Completion), NEW s
  PROVE  Returns(q, s) \in Nat
BY RetIs, OccIs DEF Returns

LEMMA ApartAppend ==
  ASSUME NEW q \in Seq(Completion), NEW e \in Completion, Apart(q),
         \A d \in Range(q) : Follows(e, d)
  PROVE  Apart(Append(q, e))
<1>1. PICK n, r : n = Len(q) /\ r = Append(q, e)
  OBVIOUS
<1>2. n \in Nat /\ DOMAIN q = 1 .. n
  BY <1>1, LenProperties
<1>3. /\ r \in Seq(Completion) /\ Len(r) = n + 1 /\ \A i \in 1 .. n : r[i] = q[i]
      /\ r[n + 1] = e
  BY <1>1, AppendProperties
<1>4. DOMAIN r = 1 .. n + 1
  BY <1>3, LenProperties
<1>5. ASSUME NEW i \in 1 .. n + 1, NEW j \in 1 .. n + 1, i < j, r[i].sess = r[j].sess
      PROVE  r[i].type # "disconnect" /\ ~(r[i].type = "data" /\ r[j].type = "data")
  <2>1. i \in 1 .. n /\ r[i] = q[i] /\ (j \in 1 .. n \/ j = n + 1)
    BY <1>2, <1>3, <1>5
  <2>2. CASE j = n + 1
    <3>1. q[i] \in Range(q)
      BY <1>2, <2>1 DEF Range
    <3>2. QED
      BY <1>3, <1>5, <2>1, <2>2, <3>1 DEF Follows
  <2>3. CASE j \in 1 .. n
    BY <1>2, <1>3, <1>5, <2>1, <2>3 DEF Apart
  <2>4. QED
    BY <2>1, <2>2, <2>3
<1>6. Apart(r)
  BY <1>4, <1>5 DEF Apart
<1>7. QED
  BY <1>1, <1>6

LEMMA ApartTail ==
  ASSUME NEW q \in Seq(Completion), q # <<>>, Apart(q)
  PROVE  Apart(Tail(q)) /\ \A d \in Range(Tail(q)) : Follows(d, Head(q))
<1>1. PICK h, t : h = Head(q) /\ t = Tail(q)
  OBVIOUS
<1>2. /\ h \in Completion /\ t \in Seq(Completion) /\ Len(t) = Len(q) - 1
      /\ \A i \in 1 .. Len(t) : t[i] = q[i + 1]
  BY <1>1, HeadTailProperties
<1>3. Len(q) \in Nat \ {0} /\ h = q[1] /\ 1 \in 1 .. Len(q) /\ DOMAIN q = 1 .. Len(q)
  BY <1>1, EmptySeq, LenProperties
<1>4. DOMAIN t = 1 .. Len(t)
  BY <1>2, LenProperties
<1>5. ASSUME NEW i \in 1 .. Len(t), NEW j \in 1 .. Len(t), i < j, t[i].sess = t[j].sess
      PROVE  t[i].type # "disconnect" /\ ~(t[i].type = "data" /\ t[j].type = "data")
  <2>1. PICK k, l : k = i + 1 /\ l = j + 1
    OBVIOUS
  <2>2. k \in DOMAIN q /\ l \in DOMAIN q /\ k < l /\ t[i] = q[k] /\ t[j] = q[l]
    BY <1>2, <1>3, <1>5, <2>1
  <2>3. QED
    BY <1>5, <2>2 DEF Apart
<1>6. ASSUME NEW d \in Range(t) PROVE Follows(d, h)
  <2>1. PICK i \in 1 .. Len(t) : d = t[i]
    BY <1>4 DEF Range
  <2>2. PICK k : k = i + 1
    OBVIOUS
  <2>3. k \in DOMAIN q /\ 1 \in DOMAIN q /\ 1 < k /\ d = q[k]
    BY <1>2, <1>3, <2>1, <2>2
  <2>4. QED
    BY <1>3, <2>3 DEF Apart, Follows
<1>7. Apart(t)
  BY <1>4, <1>5 DEF Apart
<1>8. QED
  BY <1>1, <1>6, <1>7

\* The data on its way is that of the only completion there may be.
LEMMA DataIs ==
  ASSUME NEW q \in Seq(Completion), Apart(q), NEW s
  PROVE  /\ \A e \in Range(q) : IsData(e, s) => Data(q, s) = << <<e.conn, e.n>> >>
         /\ (\A e \in Range(q) : ~IsData(e, s)) => Data(q, s) = <<>>
         /\ Data(q, s) \in Seq(Conns \X (0 .. MaxSent))
<1>1. PICK n : n = Len(q) /\ n \in Nat /\ DOMAIN q = 1 .. n
  BY LenProperties
<1>2. PICK f : f = [i \in 1 .. n |->
        IF q[i].type = "data" /\ q[i].sess = s THEN << <<q[i].conn, q[i].n>> >> ELSE <<>>]
  OBVIOUS
<1>3. PICK P : P = Conns \X (0 .. MaxSent)
  OBVIOUS
<1>4. \A i \in 1 .. n : f[i] \in Seq(P)
  <2>1. \A i \in 1 .. n : q[i] \in Completion
    BY <1>1, ElementOfSeq
  <2>2. \A i \in 1 .. n : <<q[i].conn, q[i].n>> \in P
    BY <1>3, <2>1 DEF Completion
  <2>3. \A y \in P : <<y>> \in Seq(P)
    OBVIOUS
  <2>4. <<>> \in Seq(P)
    BY EmptySeq
  <2>5. QED
    BY <1>2, <2>2, <2>3, <2>4
<1>5. f \in Seq(Seq(P)) /\ Len(f) = n
  BY <1>1, <1>2, <1>4
<1>6. Data(q, s) = FlattenSeq(f)
  BY <1>1, <1>2 DEF Data
<1>7. ASSUME NEW e \in Range(q), IsData(e, s)
      PROVE  Data(q, s) = << <<e.conn, e.n>> >>
  <2>1. PICK k \in 1 .. n : e = q[k]
    BY <1>1 DEF Range
  <2>2. ASSUME NEW i \in 1 .. n, i # k PROVE f[i] = <<>>
    <3>1. ~(q[i].type = "data" /\ q[i].sess = s)
      <4>1. CASE i < k
        BY <1>1, <1>7, <2>1, <4>1 DEF Apart, IsData
      <4>2. CASE k < i
        BY <1>1, <1>7, <2>1, <4>2 DEF Apart, IsData
      <4>3. QED
        BY <1>1, <2>2, <4>1, <4>2
    <3>2. QED
      BY <1>2, <3>1
  <2>3. FlattenSeq(f) = f[k]
    BY <1>5, <2>1, <2>2, FlattenOne
  <2>4. f[k] = << <<e.conn, e.n>> >>
    BY <1>2, <1>7, <2>1 DEF IsData
  <2>5. QED
    BY <1>6, <2>3, <2>4
<1>8. ASSUME \A e \in Range(q) : ~IsData(e, s) PROVE Data(q, s) = <<>>
  <2>1. \A i \in 1 .. n : q[i] \in Range(q)
    BY <1>1 DEF Range
  <2>2. \A i \in 1 .. n : f[i] = <<>>
    BY <1>2, <1>8, <2>1 DEF IsData
  <2>3. QED
    BY <1>5, <1>6, <2>2, FlattenNone
<1>9. Data(q, s) \in Seq(P)
  BY <1>5, <1>6, FlattenTyped
<1>10. QED
  BY <1>3, <1>7, <1>8, <1>9

-----------------------------------------------------------------------------
(* The invariant.                                                          *)

Typed ==
  /\ pc \in {"process", "accepted", "onaccept", "connected", "onconnect", "kick",
             "bury", "fault"}
  /\ temp \in Seq(Sess) /\ active \in Seq(Sess) /\ accepted \in Seq(AcceptSess)
  /\ acq \in Seq(AcceptSess) /\ cq \in Seq(Completion)
  /\ at \in Nat \ {0} /\ count \in Nat
  /\ agent \in [Sess -> Conns \cup {None}]
  /\ dial \in {"connecting", "succeeded", "failed", "done"}
  /\ kill \in [Sess -> Conns \cup {None}]
  /\ rbuf \in [Sess -> Seq(Packet)]
  /\ sock \in [Sess -> {"listening", "open", "closing", "closed", "lost"}]
  /\ conn \in [Sess -> Conns \cup {None}]
  /\ port \subseteq Sess /\ posted \subseteq Sess
  /\ sent \in [Conns -> 0 .. MaxSent] /\ gone \subseteq Conns /\ made \in Conns
  /\ heard \in [Conns -> Seq(Packet)]
  /\ passed \subseteq AcceptSess

\* The main thread's place, and what is on m_pTempList there.
Phased ==
  /\ pc \notin {"accepted", "onaccept", "bury", "fault"} => temp = <<>>
  /\ pc \in {"bury", "fault"} => temp # <<>>
  /\ pc \notin {"accepted", "onaccept"} => at = 1
  /\ pc = "accepted" => at <= Len(temp) + 1
  /\ pc = "onaccept" => at <= Len(temp)
  /\ pc = "connected" => dial \in {"succeeded", "failed"}
  /\ pc = "onconnect" => dial = "done"

\* A session is in one place.
Places(s) == Occ(acq, s) + Occ(accepted, s) + Occ(temp, s) + Occ(active, s) + Returns(cq, s)

Once ==
  \A s \in AcceptSess :
    /\ Places(s) = IF sock[s] \in {"listening", "lost"} THEN 0 ELSE 1
    /\ Returns(cq, s) = IF sock[s] = "closing" THEN 1 ELSE 0

\* No receive is pending for s, and none has ended that is not handled yet.
Quiet(s) == s \notin posted /\ \A e \in Range(cq) : e.sess # s

\* How often the dialling session is on the lists of the main thread.
Listed == Occ(temp, Dialer) + Occ(active, Dialer)

Dialling ==
  /\ Listed <= 1
  /\ sock[Dialer] \in {"open", "closed"}
  /\ conn[Dialer] = 1
  /\ dial # "done" => Quiet(Dialer)
  /\ dial # "done" \/ pc = "onconnect" => Listed = 0 /\ agent[Dialer] = 1
  /\ Listed = 1 => agent[Dialer] = 1

\* A session has a connection of its own, which its agent and its flag are for.
Connected ==
  /\ \A s, t \in Sess : conn[s] = conn[t] /\ conn[s] # None => s = t
  /\ \A s \in Sess : conn[s] # None => conn[s] <= made
  /\ \A s \in Sess : agent[s] \in {None, conn[s]} /\ kill[s] \in {None, conn[s]}
  /\ \A c \in Conns : c > made => sent[c] = 0 /\ heard[c] = <<>>

\* What the state of a socket says of its session.
Settled(s) ==
  /\ sock[s] # "closed"
  /\ sock[s] = "listening" => conn[s] = None /\ rbuf[s] = <<>> /\ Quiet(s)
  /\ sock[s] = "lost" => agent[s] = None /\ Quiet(s)
  /\ sock[s] = "closing" => agent[s] = None /\ conn[s] # None /\ s \notin posted
  /\ sock[s] = "open" => conn[s] # None

Sockets == \A s \in AcceptSess : Settled(s)

\* A session on a list: nothing has been done for it yet, or it has an agent,
\* or a receive is posted and it is about to have one.
Fresh(s) ==
  /\ s \in AcceptSess /\ sock[s] = "open"
  /\ agent[s] = None /\ rbuf[s] = <<>> /\ Quiet(s)

Served(s) == s \in AcceptSess /\ sock[s] = "open" /\ agent[s] # None /\ s \in port

Starting(s) == s \in AcceptSess /\ sock[s] = "open" /\ agent[s] = None /\ s \in port

Looked(s) == Served(s) \/ (Fresh(s) /\ s \in passed)

Serving(s) == s = Dialer \/ Looked(s)

Accepting ==
  \A i \in DOMAIN temp :
    /\ i < at => Looked(temp[i])
    /\ i = at => IF pc = "onaccept" THEN Starting(temp[i]) ELSE Fresh(temp[i])
    /\ i > at => Fresh(temp[i])

Lists ==
  /\ \A s \in Range(acq) \cup Range(accepted) : Fresh(s)
  /\ \A s \in Range(active) : Serving(s)
  /\ pc \in {"bury", "fault"} => \A s \in Range(temp) : Serving(s)
  /\ pc \in {"accepted", "onaccept"} => Accepting

\* What is on the port.
Entry(e) ==
  /\ e.conn = conn[e.sess]
  /\ e.sess \in AcceptSess => sock[e.sess] \in {"open", "closing"}
  /\ e.type = "data" => e.n = sent[e.conn] /\ e.n # 0 /\ e.sess \notin posted
  /\ e.type = "disconnect" => e.sess \in AcceptSess /\ sock[e.sess] = "closing"

Completed == Apart(cq) /\ \A e \in Range(cq) : Entry(e)

\* Nothing is missing of what the client of s has sent.
Kept(s) == heard[conn[s]] \o rbuf[s] \o Data(cq, s) = SentOn(conn[s])

Flow ==
  /\ \A s \in AcceptSess : sock[s] = "open" => Kept(s)
  /\ \A c \in Conns : c # 1 => IsPrefix(heard[c], SentOn(c))

Agents == {s \in AcceptSess : agent[s] # None}

Counted ==
  /\ count = Cardinality(Agents) + Listed
  /\ count <= MaxAccept + 1
  /\ dial # "done" \/ pc = "onconnect" => count <= MaxAccept
  /\ pc = "onaccept" => count < MaxAccept

Inv ==
  /\ Typed /\ Phased /\ Once /\ Dialling /\ Connected /\ Sockets /\ Lists
  /\ Completed /\ Flow /\ Counted

-----------------------------------------------------------------------------
(* What follows for a session that is on a list, and for one that a step   *)
(* leaves alone.                                                           *)

LEMMA OccsAre ==
  ASSUME Typed, NEW s
  PROVE  /\ Occ(acq, s) \in Nat /\ Occ(accepted, s) \in Nat /\ Occ(temp, s) \in Nat
         /\ Occ(active, s) \in Nat /\ Returns(cq, s) \in Nat
         /\ Occ(acq, s) # 0 <=> s \in Range(acq)
         /\ Occ(accepted, s) # 0 <=> s \in Range(accepted)
         /\ Occ(temp, s) # 0 <=> s \in Range(temp)
         /\ Occ(active, s) # 0 <=> s \in Range(active)
<1>1. temp \in Seq(Sess) /\ active \in Seq(Sess) /\ accepted \in Seq(AcceptSess)
      /\ acq \in Seq(AcceptSess) /\ cq \in Seq(Completion)
  BY DEF Typed
<1>2. Occ(acq, s) \in Nat /\ (Occ(acq, s) # 0 <=> s \in Range(acq))
  BY <1>1, OccIs, OccIn
<1>3. Occ(accepted, s) \in Nat /\ (Occ(accepted, s) # 0 <=> s \in Range(accepted))
  BY <1>1, OccIs, OccIn
<1>4. Occ(temp, s) \in Nat /\ (Occ(temp, s) # 0 <=> s \in Range(temp))
  BY <1>1, OccIs, OccIn
<1>5. Occ(active, s) \in Nat /\ (Occ(active, s) # 0 <=> s \in Range(active))
  BY <1>1, OccIs, OccIn
<1>6. Returns(cq, s) \in Nat
  BY <1>1, ReturnsIs
<1>7. QED
  BY <1>2, <1>3, <1>4, <1>5, <1>6

\* A session on one list is on no other, and only once.
Alone(s) ==
  /\ s \in Range(acq) => s \notin Range(accepted) \cup Range(temp) \cup Range(active)
  /\ s \in Range(accepted) => s \notin Range(acq) \cup Range(temp) \cup Range(active)
  /\ s \in Range(temp) => s \notin Range(acq) \cup Range(accepted) \cup Range(active)
  /\ s \in Range(active) => s \notin Range(acq) \cup Range(accepted) \cup Range(temp)
  /\ sock[s] \in {"listening", "lost", "closing"} =>
       s \notin Range(acq) \cup Range(accepted) \cup Range(temp) \cup Range(active)
  /\ Occ(temp, s) <= 1 /\ Occ(active, s) <= 1

LEMMA AloneIs ==
  ASSUME Typed, Once, NEW s \in AcceptSess
  PROVE  Alone(s)
<1>1. PICK a, b, t, v, r : /\ a = Occ(acq, s) /\ b = Occ(accepted, s) /\ t = Occ(temp, s)
                           /\ v = Occ(active, s) /\ r = Returns(cq, s)
  OBVIOUS
<1>2. a \in Nat /\ b \in Nat /\ t \in Nat /\ v \in Nat /\ r \in Nat
  BY <1>1, OccsAre
<1>3. /\ a + b + t + v + r = IF sock[s] \in {"listening", "lost"} THEN 0 ELSE 1
      /\ r = IF sock[s] = "closing" THEN 1 ELSE 0
  BY <1>1 DEF Once, Places
<1>4. /\ a # 0 => b = 0 /\ t = 0 /\ v = 0
      /\ b # 0 => a = 0 /\ t = 0 /\ v = 0
      /\ t # 0 => a = 0 /\ b = 0 /\ v = 0
      /\ v # 0 => a = 0 /\ b = 0 /\ t = 0
      /\ t <= 1 /\ v <= 1
  BY <1>2, <1>3
<1>5. sock[s] \in {"listening", "lost", "closing"} => a = 0 /\ b = 0 /\ t = 0 /\ v = 0
  BY <1>2, <1>3
<1>6. /\ a # 0 <=> s \in Range(acq)
      /\ b # 0 <=> s \in Range(accepted)
      /\ t # 0 <=> s \in Range(temp)
      /\ v # 0 <=> s \in Range(active)
  BY <1>1, OccsAre
<1>7. QED
  BY <1>1, <1>4, <1>5, <1>6 DEF Alone

\* A step leaves session t alone.
Same(t) ==
  /\ sock'[t] = sock[t] /\ agent'[t] = agent[t] /\ rbuf'[t] = rbuf[t] /\ conn'[t] = conn[t]
  /\ t \in port => t \in port'
  /\ t \in posted' <=> t \in posted
  /\ t \in passed => t \in passed'
  /\ \A e : e.sess = t => (e \in Range(cq') <=> e \in Range(cq))

LEMMA SameIs ==
  ASSUME NEW t, Same(t)
  PROVE  /\ Quiet(t) => Quiet(t)'
         /\ Fresh(t) => Fresh(t)'
         /\ Served(t) => Served(t)'
         /\ Starting(t) => Starting(t)'
         /\ Looked(t) => Looked(t)'
         /\ Serving(t) => Serving(t)'
         /\ Settled(t) => Settled(t)'
<1>1. Quiet(t) => Quiet(t)'
  BY DEF Same, Quiet
<1>2. Fresh(t) => Fresh(t)'
  BY <1>1 DEF Same, Fresh
<1>3. Served(t) => Served(t)'
  BY DEF Same, Served
<1>4. Starting(t) => Starting(t)'
  BY DEF Same, Starting
<1>5. Looked(t) => Looked(t)'
  BY <1>2, <1>3 DEF Same, Looked
<1>6. Serving(t) => Serving(t)'
  BY <1>5 DEF Serving
<1>7. Settled(t) => Settled(t)'
  BY <1>1 DEF Same, Settled
<1>8. QED
  BY <1>1, <1>2, <1>3, <1>4, <1>5, <1>6, <1>7

\* Nothing happens on the connection of t.
Idle(t) == sent'[conn[t]] = sent[conn[t]] /\ heard'[conn[t]] = heard[conn[t]]

LEMMA SameEntry ==
  ASSUME NEW e, Same(e.sess), Idle(e.sess), Entry(e)
  PROVE  Entry(e)'
<1>1. e.conn = conn[e.sess] /\ conn'[e.sess] = conn[e.sess]
  BY DEF Same, Entry
<1>2. sent'[e.conn] = sent[e.conn]
  BY <1>1 DEF Idle
<1>3. QED
  BY <1>1, <1>2 DEF Same, Entry

LEMMA DataSame ==
  ASSUME NEW q \in Seq(Completion), NEW r \in Seq(Completion), Apart(q), Apart(r), NEW s,
         \A e : IsData(e, s) => (e \in Range(r) <=> e \in Range(q))
  PROVE  Data(r, s) = Data(q, s)
<1>1. CASE \E e \in Range(q) : IsData(e, s)
  <2>1. PICK e \in Range(q) : IsData(e, s)
    BY <1>1
  <2>2. e \in Range(r)
    BY <2>1
  <2>3. QED
    BY <2>1, <2>2, DataIs
<1>2. CASE \A e \in Range(q) : ~IsData(e, s)
  <2>1. \A e \in Range(r) : ~IsData(e, s)
    BY <1>2
  <2>2. Data(q, s) = <<>> /\ Data(r, s) = <<>>
    BY <1>2, <2>1, DataIs
  <2>3. QED
    BY <2>2
<1>3. QED
  BY <1>1, <1>2

LEMMA KeptStays ==
  ASSUME cq \in Seq(Completion), cq' \in Seq(Completion), Apart(cq), Apart(cq'),
         NEW t, conn'[t] = conn[t], rbuf'[t] = rbuf[t], Idle(t), Kept(t),
         \A e : IsData(e, t) => (e \in Range(cq') <=> e \in Range(cq))
  PROVE  Kept(t)'
<1>1. PICK q, r : q = cq /\ r = cq'
  OBVIOUS
<1>2. /\ q \in Seq(Completion) /\ r \in Seq(Completion) /\ Apart(q) /\ Apart(r)
      /\ \A e : IsData(e, t) => (e \in Range(r) <=> e \in Range(q))
  BY <1>1
<1>3. Data(r, t) = Data(q, t)
  BY <1>2, DataSame
<1>4. Data(cq', t) = Data(cq, t)
  BY <1>1, <1>3
<1>5. /\ conn'[t] = conn[t] /\ rbuf'[t] = rbuf[t] /\ heard'[conn[t]] = heard[conn[t]]
      /\ sent'[conn[t]] = sent[conn[t]]
  BY DEF Idle
<1>6. heard[conn[t]] \o rbuf[t] \o Data(cq, t) = SentOn(conn[t])
  BY DEF Kept
<1>7. PICK c : c = conn[t]
  OBVIOUS
<1>8. SentOn(c)' = SentOn(c)
  BY <1>5, <1>7 DEF SentOn
<1>9. heard'[c] \o rbuf'[t] \o Data(cq', t) = SentOn(c)'
  BY <1>4, <1>5, <1>6, <1>7, <1>8
<1>10. QED
  BY <1>5, <1>7, <1>9 DEF Kept, SentOn

LEMMA SameKept ==
  ASSUME cq \in Seq(Completion), cq' \in Seq(Completion), Apart(cq), Apart(cq'),
         NEW t, Same(t), Idle(t), Kept(t)
  PROVE  Kept(t)'
<1>1. /\ conn'[t] = conn[t] /\ rbuf'[t] = rbuf[t]
      /\ \A e : IsData(e, t) => (e \in Range(cq') <=> e \in Range(cq))
  BY DEF Same, IsData
<1>2. QED
  BY <1>1, KeptStays

\* A step leaves all sessions alone but s.
Spared(s) == \A t \in Sess \ {s} : Same(t) /\ (conn[t] \in Conns => Idle(t))

\* What stays as it was.
Kind(t) ==
  /\ Quiet(t) => Quiet(t)'
  /\ Fresh(t) => Fresh(t)'
  /\ Looked(t) => Looked(t)'
  /\ Serving(t) => Serving(t)'
  /\ Starting(t) => Starting(t)'

LEMMA SparedIs ==
  ASSUME Inv, Typed', Apart(cq'), NEW s, Spared(s)
  PROVE  /\ \A t \in Sess \ {s} : Kind(t)
         /\ \A t \in AcceptSess \ {s} : Settled(t)'
         /\ \A t \in AcceptSess \ {s} : sock'[t] = "open" => Kept(t)'
         /\ \A e \in Range(cq') : e.sess # s => Entry(e)'
<1>1. Typed /\ Sockets /\ Completed /\ Flow
  BY DEF Inv
<1>2. cq \in Seq(Completion) /\ cq' \in Seq(Completion) /\ Apart(cq)
  BY <1>1 DEF Typed, Completed
<1>3. ASSUME NEW t \in Sess \ {s} PROVE Kind(t)
  <2>1. Same(t)
    BY <1>3 DEF Spared
  <2>2. QED
    BY <2>1, SameIs DEF Kind
<1>4. ASSUME NEW t \in AcceptSess \ {s} PROVE Settled(t)'
  <2>1. Same(t) /\ Settled(t)
    BY <1>1, <1>4, Constants DEF Spared, Sockets
  <2>2. QED
    BY <2>1, SameIs
<1>5. ASSUME NEW t \in AcceptSess \ {s}, sock'[t] = "open" PROVE Kept(t)'
  <2>1. t \in Sess \ {s} /\ Same(t)
    BY <1>5, Constants DEF Spared
  <2>2. sock[t] = "open"
    BY <1>5, <2>1 DEF Same
  <2>3. conn[t] # None /\ Kept(t)
    BY <1>1, <1>5, <2>2 DEF Sockets, Settled, Flow
  <2>4. conn[t] \in Conns
    BY <1>1, <2>1, <2>3 DEF Typed
  <2>5. Idle(t)
    BY <2>1, <2>4 DEF Spared
  <2>6. QED
    BY <1>2, <2>1, <2>3, <2>5, SameKept
<1>6. ASSUME NEW e \in Range(cq'), e.sess # s PROVE Entry(e)'
  <2>1. e \in Completion
    BY <1>2, <1>6, RangeIs
  <2>2. e.sess \in Sess \ {s} /\ e.conn \in Conns
    BY <1>6, <2>1 DEF Completion
  <2>3. Same(e.sess)
    BY <2>2 DEF Spared
  <2>4. e \in Range(cq)
    BY <1>6, <2>3 DEF Same
  <2>5. Entry(e)
    BY <1>1, <2>4 DEF Completed
  <2>6. conn[e.sess] \in Conns
    BY <2>2, <2>5 DEF Entry
  <2>7. Idle(e.sess)
    BY <2>2, <2>6 DEF Spared
  <2>8. QED
    BY <2>3, <2>5, <2>7, SameEntry
<1>7. QED
  BY <1>3, <1>4, <1>5, <1>6

\* A session with a receive is of another kind only if its socket or its agent is.
LEMMA KindIs ==
  ASSUME NEW s, ~Quiet(s), sock'[s] = sock[s], agent'[s] = agent[s], s \in port => s \in port'
  PROVE  Kind(s)
<1>1. ~Fresh(s)
  BY DEF Fresh
<1>2. Served(s) => Served(s)'
  BY DEF Served
<1>3. Starting(s) => Starting(s)'
  BY DEF Starting
<1>4. Looked(s) => Looked(s)'
  BY <1>1, <1>2 DEF Looked
<1>5. Serving(s) => Serving(s)'
  BY <1>4 DEF Serving
<1>6. QED
  BY <1>1, <1>3, <1>4, <1>5 DEF Kind

LEMMA ListsStay ==
  ASSUME Inv, pc' = pc, at' = at, temp' = temp, active' = active,
         \A t \in Range(temp) \cup Range(active) : Kind(t),
         \A t \in Range(acq') \cup Range(accepted') : Fresh(t)'
  PROVE  Lists'
<1>1. Lists
  BY DEF Inv
<1>2. \A s \in Range(active)' : Serving(s)'
  BY <1>1 DEF Lists, Kind
<1>3. pc' \in {"bury", "fault"} => \A s \in Range(temp)' : Serving(s)'
  BY <1>1 DEF Lists, Kind
<1>4. ASSUME pc' \in {"accepted", "onaccept"} PROVE Accepting'
  <2>1. Accepting
    BY <1>1, <1>4 DEF Lists
  <2>2. ASSUME NEW i \in DOMAIN temp
        PROVE  /\ i < at => Looked(temp[i])'
               /\ i = at => IF pc = "onaccept" THEN Starting(temp[i])' ELSE Fresh(temp[i])'
               /\ i > at => Fresh(temp[i])'
    <3>1. Kind(temp[i]) /\ temp'[i] = temp[i]
      BY DEF Range
    <3>2. /\ i < at => Looked(temp[i])
          /\ i = at => IF pc = "onaccept" THEN Starting(temp[i]) ELSE Fresh(temp[i])
          /\ i > at => Fresh(temp[i])
      BY <2>1 DEF Accepting
    <3>3. QED
      BY <3>1, <3>2 DEF Kind
  <2>3. QED
    BY <2>2 DEF Accepting
<1>5. QED
  BY <1>2, <1>3, <1>4 DEF Lists

\* A step of another thread that neither lists nor connects a session.
Still ==
  /\ pc' = pc /\ at' = at /\ temp' = temp /\ active' = active /\ count' = count
  /\ agent' = agent /\ accepted' = accepted /\ acq' = acq /\ dial' = dial
  /\ sock' = sock /\ conn' = conn /\ made' = made /\ heard' = heard

LEMMA StillKeeps ==
  ASSUME Inv, Still, \A t \in Sess : Kind(t),
         \A t \in AcceptSess : Returns(cq', t) = Returns(cq, t)
  PROVE  Phased' /\ Once' /\ Dialling' /\ Lists' /\ Counted'
<1>1. Typed /\ Phased /\ Once /\ Dialling /\ Lists /\ Counted
  BY DEF Inv
<1>2. Phased'
  BY <1>1 DEF Phased, Still
<1>3. Once'
  <2>1. ASSUME NEW t \in AcceptSess PROVE Places(t)' = Places(t)
    BY DEF Places, Still
  <2>2. QED
    BY <1>1, <2>1 DEF Once, Still
<1>4. Listed' = Listed
  BY DEF Listed, Still
<1>5. Dialling'
  <2>1. Quiet(Dialer) => Quiet(Dialer)'
    BY Constants DEF Kind
  <2>2. QED
    BY <1>1, <1>4, <2>1 DEF Dialling, Still
<1>6. /\ Range(temp) \subseteq Sess /\ Range(active) \subseteq Sess
      /\ Range(acq) \subseteq Sess /\ Range(accepted) \subseteq Sess
  BY <1>1, RangeIs, Constants DEF Typed
<1>7. Lists'
  <2>1. \A s \in Range(acq') \cup Range(accepted') : Fresh(s)'
    BY <1>1, <1>6 DEF Lists, Kind, Still
  <2>2. \A t \in Range(temp) \cup Range(active) : Kind(t)
    BY <1>6
  <2>3. QED
    BY <2>1, <2>2, ListsStay DEF Still
<1>8. Counted'
  <2>1. Agents' = Agents
    BY DEF Agents, Still
  <2>2. QED
    BY <1>1, <1>4, <2>1 DEF Counted, Still
<1>9. QED
  BY <1>2, <1>3, <1>5, <1>7, <1>8

\* What such a step has to show for the session s it is about.
LEMMA StillInv ==
  ASSUME Inv, Typed', Apart(cq'), Still, NEW s, Spared(s),
         s \in Sess => Kind(s),
         s \in AcceptSess => Settled(s)' /\ (sock[s] = "open" => Kept(s)'),
         \A e \in Range(cq') : e.sess = s => Entry(e)',
         \A t \in AcceptSess : Returns(cq', t) = Returns(cq, t),
         \A t \in Sess : kill'[t] \in {None, conn[t]},
         \A c \in Conns : c > made => sent'[c] = 0,
         \A c \in Conns : c # 1 => IsPrefix(heard[c], SentOn(c)')
  PROVE  Inv'
<1>1. /\ \A t \in Sess \ {s} : Kind(t)
      /\ \A t \in AcceptSess \ {s} : Settled(t)'
      /\ \A t \in AcceptSess \ {s} : sock'[t] = "open" => Kept(t)'
      /\ \A e \in Range(cq') : e.sess # s => Entry(e)'
  BY SparedIs
<1>2. \A t \in Sess : Kind(t)
  BY <1>1
<1>3. Phased' /\ Once' /\ Dialling' /\ Lists' /\ Counted'
  BY <1>2, StillKeeps
<1>4. Completed'
  BY <1>1 DEF Completed
<1>5. Connected /\ sock' = sock /\ conn' = conn /\ made' = made /\ heard' = heard /\ agent' = agent
  BY DEF Inv, Still
<1>6. Connected'
  BY <1>5 DEF Connected
<1>7. Sockets'
  BY <1>1 DEF Sockets
<1>8. Flow'
  <2>1. \A t \in AcceptSess : sock'[t] = "open" => Kept(t)'
    BY <1>1, <1>5
  <2>2. QED
    BY <1>5, <2>1 DEF Flow
<1>9. QED
  BY <1>3, <1>4, <1>6, <1>7, <1>8 DEF Inv

LEMMA DoneIs ==
  ASSUME Typed, NEW s \in Sess, conn[s] # None,
         NEW type \in {"data", "end", "disconnect"}, NEW n \in 0 .. MaxSent
  PROVE  /\ Done(type, s, n) \in Completion
         /\ Done(type, s, n).type = type /\ Done(type, s, n).sess = s
         /\ Done(type, s, n).conn = conn[s] /\ Done(type, s, n).n = n
<1>1. conn[s] \in Conns
  BY DEF Typed
<1>2. QED
  BY <1>1 DEF Done, Completion

-----------------------------------------------------------------------------
(* The send thread.                                                        *)

LEMMA SendThreadInv ==
  ASSUME Inv, NEW s \in Sess, SendThread(s)
  PROVE  Inv'
<1>1. /\ kill' = [kill EXCEPT ![s] = conn[s]] /\ conn[s] \in gone
      /\ UNCHANGED <<main, accepted, dial, rbuf, net, heard, passed>>
  BY DEF SendThread, Kill
<1>2. /\ pc' = pc /\ at' = at /\ temp' = temp /\ active' = active /\ count' = count
      /\ agent' = agent /\ accepted' = accepted /\ acq' = acq /\ dial' = dial
      /\ sock' = sock /\ conn' = conn /\ made' = made /\ heard' = heard
      /\ rbuf' = rbuf /\ port' = port /\ posted' = posted /\ cq' = cq /\ sent' = sent
      /\ gone' = gone /\ passed' = passed
  BY <1>1 DEF main, net
<1>3. Typed /\ Completed /\ Connected
  BY DEF Inv
<1>4. Typed'
  <2>1. kill' \in [Sess -> Conns \cup {None}]
    BY <1>1, <1>3 DEF Typed
  <2>2. QED
    BY <1>2, <1>3, <2>1 DEF Typed
<1>5. Still
  BY <1>2 DEF Still
<1>6. Spared(None)
  BY <1>2 DEF Spared, Same, Idle
<1>7. Apart(cq')
  BY <1>2, <1>3 DEF Completed
<1>8. None \notin Sess /\ None \notin AcceptSess
  BY Constants
<1>9. \A e \in Range(cq') : e.sess # None
  <2>1. \A e \in Range(cq') : e \in Completion
    BY <1>4, RangeIs DEF Typed
  <2>2. QED
    BY <1>8, <2>1 DEF Completion
<1>10. \A t \in Sess : kill'[t] \in {None, conn[t]}
  BY <1>1, <1>3 DEF Connected, Typed
<1>11. \A c \in Conns : c > made => sent'[c] = 0
  BY <1>2, <1>3 DEF Connected
<1>12. \A c \in Conns : c # 1 => IsPrefix(heard[c], SentOn(c)')
  BY <1>2 DEF Inv, Flow, SentOn
<1>13. \A t \in AcceptSess : Returns(cq', t) = Returns(cq, t)
  BY <1>2
<1>14. QED
  BY <1>4, <1>5, <1>6, <1>7, <1>8, <1>9, <1>10, <1>11, <1>12, <1>13, StillInv

-----------------------------------------------------------------------------
(* What a client has sent, and what has come of it.                        *)

LEMMA PrefixIs ==
  ASSUME NEW S, NEW p \in Seq(S), NEW q \in Seq(S)
  PROVE  IsPrefix(p, q) <=> Len(p) <= Len(q) /\ \A i \in 1 .. Len(p) : p[i] = q[i]
<1>1. PICK m, n : m = Len(p) /\ n = Len(q) /\ m \in Nat /\ n \in Nat
  BY LenProperties
<1>2. (\A i \in 1 .. m : p[i] \in S) /\ (\A i \in 1 .. n : q[i] \in S)
  BY <1>1, ElementOfSeq
<1>3. PICK a : a = SubSeq(p, 1, m)
  OBVIOUS
<1>4. a \in Seq(S) /\ Len(a) = m /\ \A i \in 1 .. m : a[i] = p[i]
  <2>1. /\ SubSeq(p, 1, m) \in Seq(S)
        /\ Len(SubSeq(p, 1, m)) = IF 1 <= m THEN m - 1 + 1 ELSE 0
        /\ \A i \in 1 .. m - 1 + 1 : SubSeq(p, 1, m)[i] = p[1 + i - 1]
    BY <1>1, <1>2, SubSeqProperties
  <2>2. QED
    BY <1>1, <1>3, <2>1
<1>5. CASE m <= n
  <2>1. PICK b : b = SubSeq(q, 1, m)
    OBVIOUS
  <2>2. b \in Seq(S) /\ Len(b) = m /\ \A i \in 1 .. m : b[i] = q[i]
    <3>1. \A i \in 1 .. m : q[i] \in S
      BY <1>1, <1>2, <1>5
    <3>2. /\ SubSeq(q, 1, m) \in Seq(S)
          /\ Len(SubSeq(q, 1, m)) = IF 1 <= m THEN m - 1 + 1 ELSE 0
          /\ \A i \in 1 .. m - 1 + 1 : SubSeq(q, 1, m)[i] = q[1 + i - 1]
      BY <1>1, <3>1, SubSeqProperties
    <3>3. QED
      BY <1>1, <2>1, <3>2
  <2>3. a = b <=> \A i \in 1 .. m : a[i] = b[i]
    BY <1>4, <2>2, SeqEqual
  <2>4. QED
    BY <1>1, <1>3, <1>4, <1>5, <2>1, <2>2, <2>3 DEF IsPrefix
<1>6. CASE ~(m <= n)
  BY <1>1, <1>6 DEF IsPrefix
<1>7. QED
  BY <1>5, <1>6

LEMMA PrefixAppend ==
  ASSUME NEW S, NEW p \in Seq(S), NEW q \in Seq(S), NEW e \in S, IsPrefix(p, q)
  PROVE  IsPrefix(p, Append(q, e))
<1>1. PICK r, m, n : r = Append(q, e) /\ m = Len(p) /\ n = Len(q) /\ m \in Nat /\ n \in Nat
  BY LenProperties
<1>2. r \in Seq(S) /\ Len(r) = n + 1 /\ \A i \in 1 .. n : r[i] = q[i]
  BY <1>1, AppendProperties
<1>3. m <= n /\ \A i \in 1 .. m : p[i] = q[i]
  BY <1>1, PrefixIs
<1>4. m <= n + 1 /\ \A i \in 1 .. m : p[i] = r[i]
  BY <1>1, <1>2, <1>3
<1>5. IsPrefix(p, r)
  BY <1>1, <1>2, <1>4, PrefixIs
<1>6. QED
  BY <1>1, <1>5

LEMMA PrefixConcat ==
  ASSUME NEW S, NEW p \in Seq(S), NEW q \in Seq(S)
  PROVE  IsPrefix(p, p \o q)
<1>1. PICK r, m, n : r = p \o q /\ m = Len(p) /\ n = Len(q) /\ m \in Nat /\ n \in Nat
  BY LenProperties
<1>2. r \in Seq(S) /\ Len(r) = m + n /\ \A i \in 1 .. m + n : r[i] = IF i <= m THEN p[i] ELSE q[i - m]
  BY <1>1, ConcatProperties
<1>3. m <= m + n /\ \A i \in 1 .. m : p[i] = r[i]
  BY <1>1, <1>2
<1>4. IsPrefix(p, r)
  BY <1>1, <1>2, <1>3, PrefixIs
<1>5. QED
  BY <1>1, <1>4

\* The first n packets of connection c.
First(c, n) == [i \in 1 .. n |-> <<c, i>>]

Packets == Conns \X Nat

LEMMA FirstIs ==
  ASSUME NEW c \in Conns, NEW n \in Nat
  PROVE  /\ First(c, n) \in Seq(Packets)
         /\ First(c, n + 1) = Append(First(c, n), <<c, n + 1>>)
         /\ <<c, n + 1>> \in Packets
         /\ First(c, 0) = <<>>
<1>1. \A m \in Nat : First(c, m) \in Seq(Packets) /\ Len(First(c, m)) = m
  <2>1. ASSUME NEW m \in Nat PROVE First(c, m) \in Seq(Packets) /\ Len(First(c, m)) = m
    <3>1. \A i \in 1 .. m : <<c, i>> \in Packets
      BY DEF Packets
    <3>2. QED
      BY <3>1 DEF First
  <2>2. QED
    BY <2>1
<1>2. PICK m, p, q, x : m = n + 1 /\ p = First(c, n) /\ q = First(c, m) /\ x = <<c, m>>
  OBVIOUS
<1>3. m \in Nat /\ p \in Seq(Packets) /\ Len(p) = n /\ q \in Seq(Packets) /\ Len(q) = m
  BY <1>1, <1>2
<1>4. x \in Packets
  BY <1>2, <1>3 DEF Packets
<1>5. PICK r : r = Append(p, x)
  OBVIOUS
<1>6. r \in Seq(Packets) /\ Len(r) = m /\ (\A i \in 1 .. n : r[i] = p[i]) /\ r[m] = x
  BY <1>2, <1>3, <1>4, <1>5, AppendProperties
<1>7. ASSUME NEW i \in 1 .. m PROVE q[i] = r[i]
  <2>1. i = m \/ i \in 1 .. n
    BY <1>2
  <2>2. QED
    BY <1>2, <1>6, <2>1 DEF First
<1>8. q = r
  BY <1>3, <1>6, <1>7, SeqEqual
<1>9. First(c, 0) = <<>>
  <2>1. First(c, 0) \in Seq(Packets) /\ Len(First(c, 0)) = 0
    BY <1>1
  <2>2. QED
    BY <2>1, EmptySeq
<1>10. QED
  BY <1>1, <1>2, <1>4, <1>5, <1>8, <1>9

LEMMA SentIs == \A c : SentOn(c) = First(c, sent[c])
BY DEF SentOn, First

LEMMA SentIsNext == \A c : SentOn(c)' = First(c, sent'[c])
BY DEF SentOn, First

LEMMA PacketIs == Packet \subseteq Packets /\ Packet \subseteq Conns \X (0 .. MaxSent)
                  /\ Conns \X (0 .. MaxSent) \subseteq Packets
<1>1. 1 .. MaxSent \subseteq 0 .. MaxSent /\ 0 .. MaxSent \subseteq Nat
  BY Constants
<1>2. QED
  BY <1>1 DEF Packet, Packets

\* What the packets of a session are made of.
LEMMA PartsAre ==
  ASSUME Typed, Apart(cq)
  PROVE  /\ \A c \in Conns : heard[c] \in Seq(Packets)
         /\ \A s \in Sess : rbuf[s] \in Seq(Packets)
         /\ \A s : Data(cq, s) \in Seq(Packets)
         /\ \A c \in Conns : sent[c] \in Nat /\ SentOn(c) \in Seq(Packets)
<1>1. Seq(Packet) \subseteq Seq(Packets) /\ Seq(Conns \X (0 .. MaxSent)) \subseteq Seq(Packets)
  <2>1. \A P : P \subseteq Packets => Seq(P) \subseteq Seq(Packets)
    OBVIOUS
  <2>2. QED
    BY <2>1, PacketIs
<1>2. \A c \in Conns : heard[c] \in Seq(Packets)
  BY <1>1 DEF Typed
<1>3. \A s \in Sess : rbuf[s] \in Seq(Packets)
  BY <1>1 DEF Typed
<1>4. \A s : Data(cq, s) \in Seq(Packets)
  <2>1. cq \in Seq(Completion)
    BY DEF Typed
  <2>2. QED
    BY <1>1, <2>1, DataIs
<1>5. \A c \in Conns : sent[c] \in Nat
  BY Constants DEF Typed
<1>6. \A c \in Conns : SentOn(c) \in Seq(Packets)
  BY <1>5, FirstIs, SentIs
<1>7. QED
  BY <1>2, <1>3, <1>4, <1>5, <1>6

-----------------------------------------------------------------------------
(* The peers.                                                              *)

\* A receive is pending for s.
LEMMA PostedIs ==
  ASSUME Inv, NEW s \in posted
  PROVE  /\ s \in Sess /\ conn[s] \in Conns /\ ~Quiet(s)
         /\ s \in AcceptSess => sock[s] = "open"
         /\ \A e \in Range(cq) : e.sess = s => e.type = "end"
<1>1. Typed /\ Sockets /\ Completed /\ Dialling
  BY DEF Inv
<1>2. s \in Sess
  BY <1>1 DEF Typed
<1>3. ~Quiet(s)
  BY DEF Quiet
<1>4. ASSUME s \in AcceptSess PROVE sock[s] = "open" /\ conn[s] # None
  <2>1. Settled(s)
    BY <1>1, <1>4 DEF Sockets
  <2>2. sock[s] # "closed" /\ sock[s] # "listening" /\ sock[s] # "lost" /\ sock[s] # "closing"
    BY <1>3, <2>1 DEF Settled
  <2>3. sock[s] \in {"listening", "open", "closing", "closed", "lost"}
    BY <1>1, <1>2 DEF Typed
  <2>4. QED
    BY <2>1, <2>2, <2>3 DEF Settled
<1>5. conn[s] \in Conns
  <2>1. conn[s] # None
    <3>1. s = Dialer \/ s \in AcceptSess
      BY <1>2, Constants
    <3>2. 1 # None
      BY Constants
    <3>3. QED
      BY <1>1, <1>4, <3>1, <3>2 DEF Dialling
  <2>2. QED
    BY <1>1, <1>2, <2>1 DEF Typed
<1>6. ASSUME NEW e \in Range(cq), e.sess = s PROVE e.type = "end"
  <2>1. Entry(e)
    BY <1>1 DEF Completed
  <2>2. e.type # "data"
    BY <1>6, <2>1 DEF Entry
  <2>3. e.type # "disconnect"
    BY <1>4, <1>6, <2>1 DEF Entry
  <2>4. e \in Completion
    BY <1>1, RangeIs DEF Typed
  <2>5. QED
    BY <2>2, <2>3, <2>4 DEF Completion
<1>7. QED
  BY <1>2, <1>3, <1>4, <1>5, <1>6

\* A completion is put on the port that gives no session back.
LEMMA PushIs ==
  ASSUME Inv, NEW e \in Completion, e.type # "disconnect", cq' = Append(cq, e),
         \A d \in Range(cq) : Follows(e, d)
  PROVE  /\ cq' \in Seq(Completion) /\ Apart(cq') /\ Range(cq') = Range(cq) \cup {e}
         /\ \A t \in AcceptSess : Returns(cq', t) = Returns(cq, t)
<1>1. PICK q : q = cq
  OBVIOUS
<1>2. q \in Seq(Completion) /\ Apart(q) /\ \A d \in Range(q) : Follows(e, d)
  BY <1>1 DEF Inv, Typed, Completed
<1>3. Append(q, e) \in Seq(Completion)
  BY <1>2, AppendProperties
<1>4. Apart(Append(q, e)) /\ Range(Append(q, e)) = Range(q) \cup {e}
  BY <1>2, ApartAppend, RangeAppend
<1>5. ASSUME NEW t \in AcceptSess PROVE Returns(Append(q, e), t) = Returns(q, t)
  <2>1. Returns(Append(q, e), t)
          = Returns(q, t) + (IF e.type = "disconnect" /\ e.sess = t THEN 1 ELSE 0)
    BY <1>2, ReturnsAppend
  <2>2. Returns(q, t) \in Nat
    BY <1>2, ReturnsIs
  <2>3. QED
    BY <2>1, <2>2
<1>6. QED
  BY <1>1, <1>3, <1>4, <1>5

\* Nothing happens on the connections of the other sessions.
LEMMA OthersAre ==
  ASSUME Inv, NEW s \in Sess, NEW t \in Sess \ {s}, conn[t] \in Conns
  PROVE  conn[t] # conn[s]
<1>1. None \notin Conns
  BY Constants
<1>2. QED
  BY <1>1 DEF Inv, Connected

LEMMA PeerSendsInv ==
  ASSUME Inv, NEW s \in Sess, PeerSends(s)
  PROVE  Inv'
<1>1. PICK c, n, e : c = conn[s] /\ n = sent[c] /\ e = Done("data", s, n + 1)
  OBVIOUS
<1>2. /\ s \in posted /\ n < MaxSent
      /\ sent' = [sent EXCEPT ![c] = n + 1]
      /\ posted' = posted \ {s}
      /\ cq' = Append(cq, e)
      /\ pc' = pc /\ at' = at /\ temp' = temp /\ active' = active /\ count' = count
      /\ agent' = agent /\ accepted' = accepted /\ acq' = acq /\ dial' = dial
      /\ sock' = sock /\ conn' = conn /\ made' = made /\ heard' = heard
      /\ rbuf' = rbuf /\ port' = port /\ gone' = gone /\ passed' = passed /\ kill' = kill
  BY <1>1 DEF PeerSends, main, shared
<1>3. Typed /\ Completed /\ Connected /\ Flow /\ Sockets
  BY DEF Inv
<1>4. /\ c \in Conns /\ ~Quiet(s) /\ c # None
      /\ s \in AcceptSess => sock[s] = "open"
      /\ \A d \in Range(cq) : d.sess = s => d.type = "end"
  BY <1>1, <1>2, PostedIs, Constants
<1>5. n \in 0 .. MaxSent /\ n \in Nat /\ n + 1 \in 0 .. MaxSent /\ n + 1 # 0
  <2>1. n \in 0 .. MaxSent /\ MaxSent \in Nat
    BY <1>1, <1>3, <1>4, Constants DEF Typed
  <2>2. QED
    BY <1>2, <2>1
<1>6. e \in Completion /\ e.type = "data" /\ e.sess = s /\ e.conn = c /\ e.n = n + 1
  BY <1>1, <1>3, <1>4, <1>5, DoneIs
<1>7. \A d \in Range(cq) : Follows(e, d)
  BY <1>4, <1>6 DEF Follows
<1>8. /\ cq' \in Seq(Completion) /\ Apart(cq') /\ Range(cq') = Range(cq) \cup {e}
      /\ \A t \in AcceptSess : Returns(cq', t) = Returns(cq, t)
  BY <1>2, <1>6, <1>7, PushIs
<1>9. /\ sent' \in [Conns -> 0 .. MaxSent] /\ sent'[c] = n + 1
      /\ \A d \in Conns \ {c} : sent'[d] = sent[d]
  BY <1>2, <1>3, <1>4, <1>5 DEF Typed
<1>10. Typed'
  <2>1. posted' \subseteq Sess
    BY <1>2, <1>3 DEF Typed
  <2>2. QED
    BY <1>2, <1>3, <1>8, <1>9, <2>1 DEF Typed
<1>11. Still
  BY <1>2 DEF Still
<1>12. Spared(s)
  <2>1. ASSUME NEW t \in Sess \ {s} PROVE Same(t)
    BY <1>2, <1>6, <1>8 DEF Same
  <2>2. ASSUME NEW t \in Sess \ {s}, conn[t] \in Conns PROVE Idle(t)
    <3>1. conn[t] # c
      BY <1>1, <2>2, OthersAre
    <3>2. QED
      BY <1>2, <1>9, <2>2, <3>1 DEF Idle
  <2>3. QED
    BY <2>1, <2>2 DEF Spared
<1>13. Kind(s)
  BY <1>2, <1>4, KindIs
<1>14. s \in AcceptSess => Settled(s)'
  BY <1>2, <1>3, <1>4 DEF Settled, Sockets
<1>15. ASSUME s \in AcceptSess, sock[s] = "open" PROVE Kept(s)'
  <2>1. PICK x, h : x = <<c, n + 1>> /\ h = heard[c] \o rbuf[s]
    OBVIOUS
  <2>2. Kept(s)
    BY <1>3, <1>15 DEF Flow
  <2>3. Data(cq, s) = <<>>
    <3>1. \A d \in Range(cq) : ~IsData(d, s)
      BY <1>4 DEF IsData
    <3>2. cq \in Seq(Completion) /\ Apart(cq)
      BY <1>3 DEF Typed, Completed
    <3>3. QED
      BY <3>1, <3>2, DataIs
  <2>4. Data(cq', s) = <<x>>
    <3>1. e \in Range(cq') /\ IsData(e, s)
      BY <1>6, <1>8 DEF IsData
    <3>2. PICK q : q = cq'
      OBVIOUS
    <3>3. q \in Seq(Completion) /\ Apart(q) /\ e \in Range(q)
      BY <1>8, <3>1, <3>2
    <3>4. Data(q, s) = << <<e.conn, e.n>> >>
      BY <3>1, <3>3, DataIs
    <3>5. QED
      BY <1>6, <2>1, <3>2, <3>4
  <2>5. h \in Seq(Packets) /\ x \in Packets
    <3>1. heard[c] \in Seq(Packets) /\ rbuf[s] \in Seq(Packets)
      BY <1>3, <1>4, PartsAre DEF Completed
    <3>2. QED
      BY <1>4, <1>5, <2>1, <3>1, FirstIs, ConcatProperties
  <2>6. h = First(c, n)
    <3>1. h \o <<>> = SentOn(c)
      BY <1>1, <2>1, <2>2, <2>3 DEF Kept
    <3>2. QED
      BY <1>1, <2>5, <3>1, SentIs, ConcatEmptySeq
  <2>7. h \o <<x>> = First(c, n + 1)
    <3>1. h \o <<x>> = Append(h, x)
      BY <2>5, ConcatSingle
    <3>2. QED
      BY <1>4, <1>5, <2>1, <2>6, <3>1, FirstIs
  <2>8. SentOn(c)' = First(c, n + 1)
    BY <1>9, SentIsNext
  <2>9. heard'[c] \o rbuf'[s] \o Data(cq', s) = SentOn(c)'
    BY <1>2, <2>1, <2>4, <2>7, <2>8
  <2>10. conn'[s] = c
    BY <1>1, <1>2
  <2>11. QED
    BY <2>9, <2>10 DEF Kept, SentOn
<1>16. ASSUME NEW d \in Range(cq'), d.sess = s PROVE Entry(d)'
  <2>1. CASE d = e
    BY <1>1, <1>2, <1>4, <1>5, <1>6, <1>9, <2>1 DEF Entry
  <2>2. CASE d # e
    <3>1. d \in Range(cq) /\ Entry(d) /\ d.type = "end"
      BY <1>3, <1>4, <1>8, <1>16, <2>2 DEF Completed
    <3>2. QED
      BY <1>2, <3>1 DEF Entry
  <2>3. QED
    BY <2>1, <2>2
<1>17. \A t \in Sess : kill'[t] \in {None, conn[t]}
  BY <1>2, <1>3 DEF Connected
<1>18. ASSUME NEW d \in Conns, d > made PROVE sent'[d] = 0
  <2>1. c <= made
    BY <1>1, <1>3, <1>4 DEF Connected
  <2>2. d # c
    <3>1. made \in Nat /\ c \in Nat /\ d \in Nat
      BY <1>3, <1>4, Constants DEF Typed
    <3>2. QED
      BY <1>18, <2>1, <3>1
  <2>3. QED
    BY <1>3, <1>9, <1>18, <2>2 DEF Connected
<1>19. ASSUME NEW d \in Conns, d # 1 PROVE IsPrefix(heard[d], SentOn(d)')
  <2>1. IsPrefix(heard[d], SentOn(d))
    BY <1>3, <1>19 DEF Flow
  <2>2. CASE d = c
    <3>1. PICK p, x, y : p = First(c, n) /\ x = <<c, n + 1>> /\ y = heard[c]
      OBVIOUS
    <3>2. p \in Seq(Packets) /\ x \in Packets /\ First(c, n + 1) = Append(p, x)
      BY <1>4, <1>5, <3>1, FirstIs
    <3>3. y \in Seq(Packets)
      BY <1>3, <1>4, <3>1, PartsAre DEF Completed
    <3>4. IsPrefix(y, p)
      BY <1>1, <2>1, <2>2, <3>1, SentIs
    <3>5. IsPrefix(y, Append(p, x))
      BY <3>2, <3>3, <3>4, PrefixAppend
    <3>6. SentOn(c)' = First(c, n + 1)
      BY <1>9, SentIsNext
    <3>7. QED
      BY <2>2, <3>1, <3>2, <3>5, <3>6
  <2>3. CASE d # c
    <3>1. SentOn(d)' = SentOn(d)
      BY <1>9, <2>3 DEF SentOn
    <3>2. QED
      BY <2>1, <3>1
  <2>4. QED
    BY <2>2, <2>3
<1>20. QED
  BY <1>8, <1>10, <1>11, <1>12, <1>13, <1>14, <1>15, <1>16, <1>17, <1>18, <1>19, StillInv

\* The end of the receive that is pending for s, if any, is put on the port.
Pended(s, q) ==
  /\ q \in Seq(Completion) /\ Apart(q) /\ Range(cq) \subseteq Range(q)
  /\ \A e \in Range(q) :
       e \in Range(cq) \/ (e.sess = s /\ e.type = "end" /\ e.conn = conn[s] /\ s \in posted)
  /\ \A t \in AcceptSess : Returns(q, t) = Returns(cq, t)

LEMMA PendingIs ==
  ASSUME Inv, NEW s \in Sess, conn[s] # None, NEW q, q = cq \o PendingRecv(s)
  PROVE  Pended(s, q)
<1>1. PICK p : p = cq
  OBVIOUS
<1>2. p \in Seq(Completion) /\ Apart(p)
  BY <1>1 DEF Inv, Typed, Completed
<1>3. CASE s \notin posted
  <2>1. q = p
    BY <1>1, <1>2, <1>3, ConcatEmptySeq DEF PendingRecv
  <2>2. QED
    BY <1>1, <1>2, <2>1 DEF Pended
<1>4. CASE s \in posted
  <2>1. PICK e : e = Done("end", s, 0)
    OBVIOUS
  <2>2. e \in Completion /\ e.type = "end" /\ e.sess = s /\ e.conn = conn[s]
    BY <2>1, DoneIs, Constants DEF Inv
  <2>3. q = Append(p, e)
    BY <1>1, <1>2, <1>4, <2>1, <2>2, ConcatSingle DEF PendingRecv
  <2>4. \A d \in Range(p) : Follows(e, d)
    BY <1>1, <1>4, <2>2, PostedIs DEF Follows
  <2>5. q \in Seq(Completion) /\ Apart(q) /\ Range(q) = Range(p) \cup {e}
    BY <1>2, <2>2, <2>3, <2>4, AppendProperties, ApartAppend, RangeAppend
  <2>6. ASSUME NEW t \in AcceptSess PROVE Returns(q, t) = Returns(p, t)
    <3>1. Returns(q, t) = Returns(p, t) + (IF e.type = "disconnect" /\ e.sess = t THEN 1 ELSE 0)
      BY <1>2, <2>2, <2>3, ReturnsAppend
    <3>2. Returns(p, t) \in Nat
      BY <1>2, ReturnsIs
    <3>3. QED
      BY <2>2, <3>1, <3>2
  <2>7. QED
    BY <1>1, <1>4, <2>2, <2>5, <2>6 DEF Pended
<1>5. QED
  BY <1>3, <1>4

LEMMA PeerClosesInv ==
  ASSUME Inv, NEW s \in Sess, PeerCloses(s)
  PROVE  Inv'
<1>1. /\ sock[s] = "open"
      /\ gone' = gone \cup {conn[s]} /\ cq' = cq \o PendingRecv(s) /\ posted' = posted \ {s}
      /\ pc' = pc /\ at' = at /\ temp' = temp /\ active' = active /\ count' = count
      /\ agent' = agent /\ accepted' = accepted /\ acq' = acq /\ dial' = dial
      /\ sock' = sock /\ conn' = conn /\ made' = made /\ heard' = heard /\ sent' = sent
      /\ rbuf' = rbuf /\ port' = port /\ passed' = passed /\ kill' = kill
  BY DEF PeerCloses, main, shared
<1>2. Typed /\ Completed /\ Connected /\ Flow /\ Sockets /\ Dialling
  BY DEF Inv
<1>3. conn[s] \in Conns /\ conn[s] # None
  <2>1. s \in AcceptSess \/ s = Dialer
    BY Constants
  <2>2. conn[s] # None
    BY <1>1, <1>2, <2>1, Constants DEF Sockets, Settled, Dialling
  <2>3. QED
    BY <1>2, <2>2 DEF Typed
<1>4. /\ cq' \in Seq(Completion) /\ Apart(cq') /\ Range(cq) \subseteq Range(cq')
      /\ \A e \in Range(cq') :
           e \in Range(cq) \/ (e.sess = s /\ e.type = "end" /\ e.conn = conn[s] /\ s \in posted)
      /\ \A t \in AcceptSess : Returns(cq', t) = Returns(cq, t)
  <2>1. PICK q : q = cq'
    OBVIOUS
  <2>2. q = cq \o PendingRecv(s)
    BY <1>1, <2>1
  <2>3. /\ q \in Seq(Completion) /\ Apart(q) /\ Range(cq) \subseteq Range(q)
        /\ \A e \in Range(q) :
             e \in Range(cq) \/ (e.sess = s /\ e.type = "end" /\ e.conn = conn[s] /\ s \in posted)
        /\ \A t \in AcceptSess : Returns(q, t) = Returns(cq, t)
    <3>1. Pended(s, q)
      BY <1>3, <2>2, PendingIs
    <3>2. QED
      BY <3>1 DEF Pended
  <2>4. QED
    BY <2>1, <2>3
<1>5. Typed'
  <2>1. posted' \subseteq Sess /\ gone' \subseteq Conns
    BY <1>1, <1>2, <1>3 DEF Typed
  <2>2. QED
    BY <1>1, <1>2, <1>4, <2>1 DEF Typed
<1>6. Still
  BY <1>1 DEF Still
<1>7. Spared(s)
  BY <1>1, <1>4 DEF Spared, Same, Idle
<1>8. Kind(s)
  <2>1. CASE s \in posted
    <3>1. ~Quiet(s)
      BY <2>1 DEF Quiet
    <3>2. QED
      BY <1>1, <3>1, KindIs
  <2>2. CASE s \notin posted
    <3>1. Same(s)
      BY <1>1, <1>4, <2>2 DEF Same
    <3>2. QED
      BY <3>1, SameIs DEF Kind
  <2>3. QED
    BY <2>1, <2>2
<1>9. s \in AcceptSess => Settled(s)'
  BY <1>1, <1>2, <1>3 DEF Settled, Sockets
<1>10. ASSUME s \in AcceptSess, sock[s] = "open" PROVE Kept(s)'
  <2>1. Kept(s)
    BY <1>2, <1>10 DEF Flow
  <2>2. \A e : IsData(e, s) => (e \in Range(cq') <=> e \in Range(cq))
    BY <1>4 DEF IsData
  <2>3. Idle(s)
    BY <1>1 DEF Idle
  <2>4. cq \in Seq(Completion) /\ Apart(cq)
    BY <1>2 DEF Typed, Completed
  <2>5. QED
    BY <1>1, <1>4, <2>1, <2>2, <2>3, <2>4, KeptStays
<1>11. ASSUME NEW e \in Range(cq'), e.sess = s PROVE Entry(e)'
  <2>1. CASE e \in Range(cq)
    BY <1>1, <1>2, <2>1 DEF Entry, Completed
  <2>2. CASE e \notin Range(cq)
    BY <1>1, <1>4, <1>11, <2>2 DEF Entry
  <2>3. QED
    BY <2>1, <2>2
<1>12. \A t \in Sess : kill'[t] \in {None, conn[t]}
  BY <1>1, <1>2 DEF Connected
<1>13. \A c \in Conns : c > made => sent'[c] = 0
  BY <1>1, <1>2 DEF Connected
<1>14. \A c \in Conns : c # 1 => IsPrefix(heard[c], SentOn(c)')
  BY <1>1, <1>2 DEF Flow, SentOn
<1>15. QED
  BY <1>4, <1>5, <1>6, <1>7, <1>8, <1>9, <1>10, <1>11, <1>12, <1>13, <1>14, StillInv

-----------------------------------------------------------------------------
(* The I/O thread.                                                         *)

\* The first completion on the port, and the others.
Pops(h, r) ==
  /\ h \in Completion /\ r \in Seq(Completion) /\ Apart(r) /\ Entry(h)
  /\ Range(cq) = {h} \cup Range(r) /\ \A d \in Range(r) : Follows(d, h)
  /\ \A t \in AcceptSess :
       Returns(cq, t) = (IF h.type = "disconnect" /\ h.sess = t THEN 1 ELSE 0) + Returns(r, t)
  /\ \A t \in AcceptSess : Returns(r, t) \in Nat
  /\ h.sess \in Sess /\ conn[h.sess] \in Conns /\ h.conn = conn[h.sess]

LEMMA PopsIs ==
  ASSUME Inv, cq # <<>>
  PROVE  Pops(Head(cq), Tail(cq))
<1>1. PICK q, h, r : q = cq /\ h = Head(q) /\ r = Tail(q)
  OBVIOUS
<1>2. q \in Seq(Completion) /\ Apart(q) /\ q # <<>> /\ \A e \in Range(q) : Entry(e)
  BY <1>1 DEF Inv, Typed, Completed
<1>3. h \in Completion /\ r \in Seq(Completion) /\ Range(q) = {h} \cup Range(r)
  BY <1>1, <1>2, RangeTail
<1>4. Apart(r) /\ \A d \in Range(r) : Follows(d, h)
  BY <1>1, <1>2, ApartTail
<1>5. \A t \in AcceptSess :
        Returns(q, t) = (IF h.type = "disconnect" /\ h.sess = t THEN 1 ELSE 0) + Returns(r, t)
  BY <1>1, <1>2, ReturnsTail
<1>6. \A t \in AcceptSess : Returns(r, t) \in Nat
  BY <1>3, ReturnsIs
<1>7. Entry(h)
  BY <1>2, <1>3
<1>8. h.sess \in Sess /\ h.conn \in Conns /\ h.conn = conn[h.sess]
  BY <1>3, <1>7 DEF Completion, Entry
<1>9. QED
  BY <1>1, <1>3, <1>4, <1>5, <1>6, <1>7, <1>8 DEF Pops

\* The receive of h's session is posted again, or not.
Reposts(h, r) ==
  \/ cq' = r /\ posted' = posted
  \/ /\ sock[h.sess] = "open" /\ h.type = "data"
     /\ cq' = r /\ posted' = posted \cup {h.sess}
  \/ /\ sock[h.sess] = "open"
     /\ cq' = Append(r, Done("end", h.sess, 0)) /\ posted' = posted

LEMMA RepostsIs ==
  ASSUME Inv, NEW h, NEW r, Pops(h, r), h.type # "disconnect", Reposts(h, r)
  PROVE  /\ cq' \in Seq(Completion) /\ Apart(cq')
         /\ \A d \in Range(cq') :
              d \in Range(r) \/ (d.type = "end" /\ d.sess = h.sess /\ d.conn = h.conn
                                 /\ sock[h.sess] = "open")
         /\ Range(r) \subseteq Range(cq')
         /\ \A t \in AcceptSess : Returns(cq', t) = Returns(cq, t)
         /\ \A t \in Sess \ {h.sess} : t \in posted' <=> t \in posted
<1>1. /\ h \in Completion /\ r \in Seq(Completion) /\ Apart(r)
      /\ \A d \in Range(r) : Follows(d, h)
      /\ h.sess \in Sess /\ conn[h.sess] \in Conns /\ h.conn = conn[h.sess]
  BY DEF Pops
<1>2. \A t \in AcceptSess : Returns(cq, t) = Returns(r, t)
  BY DEF Pops
<1>3. CASE cq' = r
  BY <1>1, <1>2, <1>3 DEF Reposts
<1>4. CASE cq' # r
  <2>1. PICK e, q : e = Done("end", h.sess, 0) /\ q = Append(r, e)
    OBVIOUS
  <2>2. cq' = q /\ sock[h.sess] = "open" /\ posted' = posted
    BY <1>4, <2>1 DEF Reposts
  <2>3. e \in Completion /\ e.type = "end" /\ e.sess = h.sess /\ e.conn = h.conn
    <3>1. conn[h.sess] # None
      BY <1>1, Constants
    <3>2. QED
      BY <1>1, <2>1, <3>1, DoneIs, Constants DEF Inv
  <2>4. \A d \in Range(r) : Follows(e, d)
    <3>1. ASSUME NEW d \in Range(r), d.sess = h.sess PROVE d.type # "disconnect"
      <4>1. Entry(d) /\ d \in Completion
        BY <1>1, <3>1, RangeIs DEF Inv, Completed, Pops
      <4>2. d.type = "disconnect" => sock[h.sess] = "closing"
        BY <3>1, <4>1 DEF Entry
      <4>3. QED
        BY <2>2, <4>2
    <3>2. QED
      BY <2>3, <3>1 DEF Follows
  <2>5. q \in Seq(Completion) /\ Apart(q) /\ Range(q) = Range(r) \cup {e}
    BY <1>1, <2>1, <2>3, <2>4, AppendProperties, ApartAppend, RangeAppend
  <2>6. ASSUME NEW t \in AcceptSess PROVE Returns(q, t) = Returns(r, t)
    <3>1. Returns(q, t) = Returns(r, t) + (IF e.type = "disconnect" /\ e.sess = t THEN 1 ELSE 0)
      BY <1>1, <2>1, <2>3, ReturnsAppend
    <3>2. Returns(r, t) \in Nat
      BY <1>1, ReturnsIs
    <3>3. QED
      BY <2>3, <3>1, <3>2
  <2>7. QED
    BY <1>2, <2>2, <2>3, <2>5, <2>6
<1>5. QED
  BY <1>3, <1>4

\* What is common to the two.
Handled(h, r) ==
  /\ Reposts(h, r)
  /\ pc' = pc /\ at' = at /\ temp' = temp /\ active' = active /\ count' = count
  /\ agent' = agent /\ accepted' = accepted /\ acq' = acq /\ dial' = dial
  /\ sock' = sock /\ conn' = conn /\ made' = made /\ heard' = heard /\ sent' = sent
  /\ gone' = gone /\ port' = port /\ passed' = passed
  /\ kill' = kill \/ kill' = [kill EXCEPT ![h.sess] = h.conn]
  /\ rbuf' = rbuf \/ (h.type = "data" /\
                      rbuf' = [rbuf EXCEPT ![h.sess] = Append(@, <<h.conn, h.n>>)])

LEMMA HandledInv ==
  ASSUME Inv, NEW h, NEW r, Pops(h, r), h.type # "disconnect", Handled(h, r),
         h.sess \in AcceptSess /\ sock[h.sess] = "open" => Kept(h.sess)'
  PROVE  Inv'
<1>1. PICK s : s = h.sess /\ s \in Sess
  BY DEF Pops
<1>2. Typed /\ Completed /\ Connected /\ Flow /\ Sockets /\ Dialling
  BY DEF Inv
<1>3. /\ Reposts(h, r)
      /\ pc' = pc /\ at' = at /\ temp' = temp /\ active' = active /\ count' = count
      /\ agent' = agent /\ accepted' = accepted /\ acq' = acq /\ dial' = dial
      /\ sock' = sock /\ conn' = conn /\ made' = made /\ heard' = heard /\ sent' = sent
      /\ gone' = gone /\ port' = port /\ passed' = passed
      /\ kill' = kill \/ kill' = [kill EXCEPT ![s] = h.conn]
      /\ rbuf' = rbuf \/ (h.type = "data" /\
                          rbuf' = [rbuf EXCEPT ![s] = Append(@, <<h.conn, h.n>>)])
  BY <1>1 DEF Handled
<1>4. /\ h \in Completion /\ h \in Range(cq) /\ Range(cq) = {h} \cup Range(r) /\ Entry(h)
      /\ h.conn = conn[s] /\ h.conn \in Conns
      /\ \A d \in Range(r) : Follows(d, h) /\ Entry(d)
  BY <1>1, <1>2 DEF Pops, Completed
<1>5. /\ cq' \in Seq(Completion) /\ Apart(cq')
      /\ \A d \in Range(cq') :
           d \in Range(r) \/ (d.type = "end" /\ d.sess = s /\ d.conn = conn[s] /\ sock[s] = "open")
      /\ Range(r) \subseteq Range(cq')
      /\ \A t \in AcceptSess : Returns(cq', t) = Returns(cq, t)
      /\ \A t \in Sess \ {s} : t \in posted' <=> t \in posted
  BY <1>1, <1>3, <1>4, RepostsIs
<1>6. posted' \in SUBSET (posted \cup {s}) /\ (sock[s] # "open" => posted' = posted)
      /\ (h.type # "data" => posted' = posted)
  BY <1>1, <1>3 DEF Reposts
<1>7. Typed'
  <2>1. posted' \subseteq Sess
    BY <1>1, <1>2, <1>6 DEF Typed
  <2>2. kill' \in [Sess -> Conns \cup {None}]
    BY <1>1, <1>2, <1>3, <1>4 DEF Typed
  <2>3. rbuf' \in [Sess -> Seq(Packet)]
    <3>1. CASE rbuf' = rbuf
      BY <1>2, <3>1 DEF Typed
    <3>2. CASE rbuf' # rbuf
      <4>1. h.type = "data" /\ rbuf' = [rbuf EXCEPT ![s] = Append(@, <<h.conn, h.n>>)]
        BY <1>3, <3>2
      <4>2. h.n \in 1 .. MaxSent
        <5>1. h.n \in 0 .. MaxSent /\ h.n # 0
          BY <1>4, <4>1 DEF Entry, Completion
        <5>2. QED
          BY <5>1, Constants
      <4>3. <<h.conn, h.n>> \in Packet
        BY <1>4, <4>2 DEF Packet
      <4>4. rbuf[s] \in Seq(Packet)
        BY <1>1, <1>2 DEF Typed
      <4>5. Append(rbuf[s], <<h.conn, h.n>>) \in Seq(Packet)
        BY <4>3, <4>4, AppendProperties
      <4>6. QED
        BY <1>1, <1>2, <4>1, <4>5 DEF Typed
    <3>3. QED
      BY <3>1, <3>2
  <2>4. QED
    BY <1>2, <1>3, <1>5, <2>1, <2>2, <2>3 DEF Typed
<1>8. Still
  BY <1>3 DEF Still
<1>9. Spared(s)
  <2>1. \A t \in Sess \ {s} : rbuf'[t] = rbuf[t]
    BY <1>2, <1>3 DEF Typed
  <2>2. \A e : e.sess # s => (e \in Range(cq') <=> e \in Range(cq))
    BY <1>1, <1>4, <1>5
  <2>3. QED
    BY <1>3, <1>5, <2>1, <2>2 DEF Spared, Same, Idle
<1>10. Kind(s)
  <2>1. ~Quiet(s)
    BY <1>1, <1>4 DEF Quiet
  <2>2. QED
    BY <1>3, <2>1, KindIs
<1>11. s \in AcceptSess => Settled(s)'
  <2>1. ASSUME s \in AcceptSess PROVE Settled(s)'
    <3>1. sock[s] \in {"open", "closing"}
      BY <1>1, <1>4, <2>1 DEF Entry
    <3>2. Settled(s)
      BY <1>2, <2>1 DEF Sockets
    <3>3. QED
      BY <1>3, <1>6, <3>1, <3>2 DEF Settled
  <2>2. QED
    BY <2>1
<1>12. ASSUME NEW d \in Range(cq'), d.sess = s PROVE Entry(d)'
  <2>1. CASE d \in Range(r)
    <3>1. Entry(d) /\ Follows(d, h)
      BY <1>4, <2>1
    <3>2. d.type = "data" => h.type # "data"
      BY <1>1, <1>12, <3>1 DEF Follows
    <3>3. d.type = "data" => posted' = posted
      BY <1>6, <3>2
    <3>4. QED
      BY <1>3, <3>1, <3>3 DEF Entry
  <2>2. CASE d \notin Range(r)
    BY <1>3, <1>5, <1>12, <2>2 DEF Entry
  <2>3. QED
    BY <2>1, <2>2
<1>13. \A t \in Sess : kill'[t] \in {None, conn[t]}
  BY <1>2, <1>3, <1>4 DEF Connected, Typed
<1>14. \A c \in Conns : c > made => sent'[c] = 0
  BY <1>2, <1>3 DEF Connected
<1>15. \A c \in Conns : c # 1 => IsPrefix(heard[c], SentOn(c)')
  BY <1>2, <1>3 DEF Flow, SentOn
<1>16. s \in AcceptSess => Settled(s)' /\ (sock[s] = "open" => Kept(s)')
  BY <1>1, <1>11
<1>17. QED
  BY <1>5, <1>7, <1>8, <1>9, <1>10, <1>12, <1>13, <1>14, <1>15, <1>16, StillInv

LEMMA ReceivedInv ==
  ASSUME Inv, cq # <<>>, Head(cq).type = "data", HandleCompletion(Head(cq), Tail(cq))
  PROVE  Inv'
<1>1. PICK h, r, s : h = Head(cq) /\ r = Tail(cq) /\ s = h.sess
  OBVIOUS
<1>2. Pops(h, r)
  BY <1>1, PopsIs
<1>3. /\ h.type = "data" /\ Received(h, r)
      /\ UNCHANGED <<main, accepted, dial, port, acq, sent, gone, made, heard, passed>>
  BY <1>1 DEF HandleCompletion
<1>4. /\ pc' = pc /\ at' = at /\ temp' = temp /\ active' = active /\ count' = count
      /\ agent' = agent /\ accepted' = accepted /\ acq' = acq /\ dial' = dial
      /\ sock' = sock /\ conn' = conn /\ made' = made /\ heard' = heard /\ sent' = sent
      /\ gone' = gone /\ port' = port /\ passed' = passed
      /\ rbuf' = [rbuf EXCEPT ![s] = Append(@, <<h.conn, h.n>>)]
  BY <1>1, <1>3 DEF Received, main
<1>5. kill' = kill \/ kill' = [kill EXCEPT ![s] = h.conn]
  BY <1>1, <1>3 DEF Received, Kill
<1>6. Reposts(h, r)
  <2>1. CASE PostRecv(s, r)
    BY <1>1, <1>3, <2>1 DEF PostRecv, Reposts
  <2>2. CASE ~PostRecv(s, r)
    BY <1>1, <1>3, <2>2 DEF Received, Reposts
  <2>3. QED
    BY <2>1, <2>2
<1>7. Handled(h, r)
  BY <1>1, <1>3, <1>4, <1>5, <1>6 DEF Handled
<1>8. ASSUME s \in AcceptSess, sock[s] = "open" PROVE Kept(s)'
  <2>1. PICK c, x, a, b : c = conn[s] /\ x = <<h.conn, h.n>> /\ a = heard[c] /\ b = rbuf[s]
    OBVIOUS
  <2>2. Kept(s) /\ Typed /\ Apart(cq) /\ cq \in Seq(Completion)
    BY <1>8 DEF Inv, Flow, Typed, Completed
  <2>3. h \in Completion /\ h \in Range(cq) /\ c \in Conns /\ s \in Sess
        /\ \A d \in Range(r) : Follows(d, h)
    BY <1>1, <1>2, <2>1 DEF Pops
  <2>4. Data(cq, s) = <<x>>
    <3>1. IsData(h, s)
      BY <1>1, <1>3 DEF IsData
    <3>2. QED
      BY <2>1, <2>2, <2>3, <3>1, DataIs
  <2>5. Data(cq', s) = <<>>
    <3>1. PICK q : q = cq'
      OBVIOUS
    <3>2. /\ q \in Seq(Completion) /\ Apart(q)
          /\ \A d \in Range(q) : d \in Range(r) \/ d.type = "end"
      BY <1>2, <1>3, <1>6, <3>1, RepostsIs
    <3>3. \A d \in Range(q) : ~IsData(d, s)
      BY <1>1, <1>3, <2>3, <3>2 DEF IsData, Follows
    <3>4. Data(q, s) = <<>>
      BY <3>2, <3>3, DataIs
    <3>5. QED
      BY <3>1, <3>4
  <2>6. a \in Seq(Packets) /\ b \in Seq(Packets) /\ x \in Packets
    <3>1. h.conn \in Conns /\ h.n \in Nat
      BY <2>3, Constants DEF Completion
    <3>2. x \in Packets
      BY <2>1, <3>1 DEF Packets
    <3>3. QED
      BY <2>1, <2>2, <2>3, <3>2, PartsAre
  <2>7. a \o b \o <<x>> = SentOn(c)
    BY <2>1, <2>2, <2>4 DEF Kept
  <2>8. rbuf'[s] = b \o <<x>>
    <3>1. rbuf'[s] = Append(b, x)
      BY <1>4, <2>1, <2>2, <2>3 DEF Typed
    <3>2. QED
      BY <2>6, <3>1, ConcatSingle
  <2>9. a \o (b \o <<x>>) \o <<>> = a \o b \o <<x>>
    <3>1. <<x>> \in Seq(Packets)
      BY <2>6
    <3>2. PICK y : y = <<x>>
      OBVIOUS
    <3>3. a \o (b \o y) = a \o b \o y
      BY <2>6, <3>1, <3>2, ConcatAssociative
    <3>4. a \o b \in Seq(Packets)
      BY <2>6, ConcatProperties
    <3>5. a \o b \o y \in Seq(Packets)
      BY <3>1, <3>2, <3>4, ConcatProperties
    <3>6. a \o b \o y \o <<>> = a \o b \o y
      BY <3>5, ConcatEmptySeq
    <3>7. QED
      BY <3>2, <3>3, <3>6
  <2>10. SentOn(c)' = SentOn(c)
    BY <1>4 DEF SentOn
  <2>11. heard'[c] \o rbuf'[s] \o Data(cq', s) = SentOn(c)'
    BY <1>4, <2>1, <2>5, <2>7, <2>8, <2>9, <2>10
  <2>12. conn'[s] = c
    BY <1>4, <2>1
  <2>13. QED
    BY <2>11, <2>12 DEF Kept, SentOn
<1>9. h.sess \in AcceptSess /\ sock[h.sess] = "open" => Kept(h.sess)'
  BY <1>1, <1>8
<1>10. QED
  BY <1>2, <1>3, <1>7, <1>9, HandledInv

LEMMA EndedInv ==
  ASSUME Inv, cq # <<>>, Head(cq).type = "end", HandleCompletion(Head(cq), Tail(cq))
  PROVE  Inv'
<1>1. PICK h, r, s : h = Head(cq) /\ r = Tail(cq) /\ s = h.sess
  OBVIOUS
<1>2. Pops(h, r)
  BY <1>1, PopsIs
<1>3. /\ h.type = "end" /\ Ended(h, r)
      /\ UNCHANGED <<main, accepted, dial, port, acq, sent, gone, made, heard, passed>>
  BY <1>1 DEF HandleCompletion
<1>4. /\ pc' = pc /\ at' = at /\ temp' = temp /\ active' = active /\ count' = count
      /\ agent' = agent /\ accepted' = accepted /\ acq' = acq /\ dial' = dial
      /\ sock' = sock /\ conn' = conn /\ made' = made /\ heard' = heard /\ sent' = sent
      /\ gone' = gone /\ port' = port /\ passed' = passed
      /\ rbuf' = rbuf /\ cq' = r /\ posted' = posted
      /\ kill' = kill \/ kill' = [kill EXCEPT ![s] = h.conn]
  BY <1>1, <1>3 DEF Ended, Kill, main
<1>5. Reposts(h, r)
  BY <1>4 DEF Reposts
<1>6. Handled(h, r)
  BY <1>1, <1>4, <1>5 DEF Handled
<1>7. ASSUME s \in AcceptSess, sock[s] = "open" PROVE Kept(s)'
  <2>1. Kept(s) /\ cq \in Seq(Completion) /\ Apart(cq)
    BY <1>7 DEF Inv, Flow, Typed, Completed
  <2>2. r \in Seq(Completion) /\ Apart(r) /\ Range(cq) = {h} \cup Range(r)
    BY <1>2 DEF Pops
  <2>3. \A e : IsData(e, s) => (e \in Range(cq') <=> e \in Range(cq))
    BY <1>3, <1>4, <2>2 DEF IsData
  <2>4. Idle(s)
    BY <1>4 DEF Idle
  <2>5. cq' \in Seq(Completion) /\ Apart(cq')
    BY <1>4, <2>2
  <2>6. QED
    BY <1>4, <2>1, <2>3, <2>4, <2>5, KeptStays
<1>8. h.sess \in AcceptSess /\ sock[h.sess] = "open" => Kept(h.sess)'
  BY <1>1, <1>7
<1>9. h.type # "disconnect"
  BY <1>3
<1>10. QED
  BY <1>2, <1>6, <1>8, <1>9, HandledInv

\* What a step about session s has to show of it, apart from the lists.
LEMMA SparedInv ==
  ASSUME Inv, Typed', Apart(cq'), NEW s, Spared(s),
         s \in AcceptSess => Settled(s)' /\ (sock'[s] = "open" => Kept(s)'),
         \A e \in Range(cq') : e.sess = s => Entry(e)',
         \A c \in Conns : c # 1 => IsPrefix(heard'[c], SentOn(c)')
  PROVE  Sockets' /\ Completed' /\ Flow'
<1>1. /\ \A t \in AcceptSess \ {s} : Settled(t)'
      /\ \A t \in AcceptSess \ {s} : sock'[t] = "open" => Kept(t)'
      /\ \A e \in Range(cq') : e.sess # s => Entry(e)'
  BY SparedIs
<1>2. Completed'
  BY <1>1 DEF Completed
<1>3. Sockets'
  BY <1>1 DEF Sockets
<1>4. Flow'
  <2>1. \A t \in AcceptSess : sock'[t] = "open" => Kept(t)'
    BY <1>1
  <2>2. QED
    BY <2>1 DEF Flow
<1>5. QED
  BY <1>2, <1>3, <1>4

\* The session listens, or its AcceptEx or its disconnect has failed.
LEMMA GivenBackInv ==
  ASSUME Inv, cq # <<>>, Head(cq).type = "disconnect", HandleCompletion(Head(cq), Tail(cq))
  PROVE  Inv'
<1>1. PICK h, r, s : h = Head(cq) /\ r = Tail(cq) /\ s = h.sess
  OBVIOUS
<1>2. Pops(h, r)
  BY <1>1, PopsIs
<1>3. /\ h.type = "disconnect" /\ (PreAccept(h, r) \/ DisconnectFails(h, r))
      /\ UNCHANGED <<main, accepted, dial, port, acq, sent, gone, made, heard, passed>>
  BY <1>1 DEF HandleCompletion
<1>4. /\ pc' = pc /\ at' = at /\ temp' = temp /\ active' = active /\ count' = count
      /\ agent' = agent /\ accepted' = accepted /\ acq' = acq /\ dial' = dial
      /\ made' = made /\ heard' = heard /\ sent' = sent
      /\ gone' = gone /\ port' = port /\ passed' = passed
      /\ cq' = r /\ posted' = posted
  BY <1>1, <1>3 DEF PreAccept, DisconnectFails, main
<1>4a. \/ /\ kill' = [kill EXCEPT ![s] = None] /\ rbuf' = [rbuf EXCEPT ![s] = <<>>]
          /\ \E x \in {"listening", "lost"} : sock' = [sock EXCEPT ![s] = x]
          /\ conn' = [conn EXCEPT ![s] = None]
       \/ /\ kill' = [kill EXCEPT ![s] = h.conn] \/ kill' = kill
          /\ rbuf' = rbuf /\ sock' = [sock EXCEPT ![s] = "lost"] /\ conn' = conn
  BY <1>1, <1>3 DEF PreAccept, DisconnectFails, Listens, Cleared, Kill
<1>5. Typed /\ Phased /\ Once /\ Dialling /\ Connected /\ Sockets /\ Lists /\ Completed
      /\ Flow /\ Counted
  BY DEF Inv
<1>6. /\ h \in Completion /\ r \in Seq(Completion) /\ Apart(r) /\ Entry(h)
      /\ Range(cq) = {h} \cup Range(r) /\ \A d \in Range(r) : d.sess # s
      /\ \A t \in AcceptSess :
           Returns(cq, t) = (IF t = s THEN 1 ELSE 0) + Returns(r, t)
      /\ \A t \in AcceptSess : Returns(r, t) \in Nat
      /\ s \in Sess /\ conn[s] \in Conns /\ h.conn = conn[s]
  <2>1. \A d \in Range(r) : Follows(d, h)
    BY <1>2 DEF Pops
  <2>2. \A d \in Range(r) : d.sess # s
    BY <1>1, <1>3, <2>1 DEF Follows
  <2>3. \A t \in AcceptSess :
           Returns(cq, t) = (IF h.type = "disconnect" /\ h.sess = t THEN 1 ELSE 0) + Returns(r, t)
    BY <1>2 DEF Pops
  <2>4. QED
    BY <1>1, <1>2, <1>3, <2>2, <2>3 DEF Pops
<1>7. s \in AcceptSess /\ sock[s] = "closing" /\ s # Dialer
  BY <1>1, <1>3, <1>6, Constants DEF Entry
<1>8. agent[s] = None /\ s \notin posted
  BY <1>5, <1>7 DEF Sockets, Settled
<1>9. /\ conn'[s] \in {None, conn[s]} /\ kill'[s] \in {None, conn'[s]}
      /\ sock'[s] \in {"listening", "lost"}
      /\ sock'[s] = "listening" => conn'[s] = None /\ rbuf'[s] = <<>>
      /\ \A t \in Sess \ {s} : /\ kill'[t] = kill[t] /\ rbuf'[t] = rbuf[t]
                               /\ sock'[t] = sock[t] /\ conn'[t] = conn[t]
  BY <1>4a, <1>5, <1>6 DEF Typed, Connected
<1>10. Typed'
  <2>1. kill' \in [Sess -> Conns \cup {None}] /\ conn' \in [Sess -> Conns \cup {None}]
    BY <1>4a, <1>5, <1>6 DEF Typed
  <2>2. rbuf' \in [Sess -> Seq(Packet)]
    <3>1. <<>> \in Seq(Packet)
      BY EmptySeq
    <3>2. QED
      BY <1>4a, <1>5, <3>1 DEF Typed
  <2>3. sock' \in [Sess -> {"listening", "open", "closing", "closed", "lost"}]
    BY <1>4a, <1>5 DEF Typed
  <2>4. QED
    BY <1>4, <1>5, <1>6, <2>1, <2>2, <2>3 DEF Typed
<1>11. Apart(cq')
  BY <1>4, <1>6
<1>12. Spared(s)
  <2>1. \A e : e.sess # s => (e \in Range(cq') <=> e \in Range(cq))
    BY <1>1, <1>4, <1>6
  <2>2. QED
    BY <1>4, <1>9, <2>1 DEF Spared, Same, Idle
<1>13. \A t \in Sess \ {s} : Kind(t)
  BY <1>10, <1>11, <1>12, SparedIs
<1>14. Settled(s)'
  <2>1. Quiet(s)'
    BY <1>4, <1>6, <1>8 DEF Quiet
  <2>2. QED
    BY <1>4, <1>8, <1>9, <2>1 DEF Settled
<1>15. Sockets' /\ Completed' /\ Flow'
  <2>1. \A e \in Range(cq') : e.sess # s
    BY <1>4, <1>6
  <2>2. sock'[s] # "open"
    BY <1>9
  <2>3. \A c \in Conns : c # 1 => IsPrefix(heard'[c], SentOn(c)')
    BY <1>4, <1>5 DEF Flow, SentOn
  <2>4. QED
    BY <1>10, <1>11, <1>12, <1>14, <2>1, <2>2, <2>3, SparedInv
<1>16. Phased'
  BY <1>4, <1>5 DEF Phased
<1>17. Once'
  <2>1. ASSUME NEW t \in AcceptSess
        PROVE  /\ Places(t)' = IF sock'[t] \in {"listening", "lost"} THEN 0 ELSE 1
               /\ Returns(cq', t) = IF sock'[t] = "closing" THEN 1 ELSE 0
    <3>1. PICK n : n = Occ(acq, t) + Occ(accepted, t) + Occ(temp, t) + Occ(active, t)
      OBVIOUS
    <3>2. n \in Nat
      BY <1>5, <3>1, OccsAre
    <3>3. /\ n + Returns(cq, t) = IF sock[t] \in {"listening", "lost"} THEN 0 ELSE 1
          /\ Returns(cq, t) = IF sock[t] = "closing" THEN 1 ELSE 0
      BY <1>5, <3>1 DEF Once, Places
    <3>4. Places(t)' = n + Returns(r, t)
      BY <1>4, <3>1 DEF Places
    <3>5. CASE t = s
      <4>1. n + Returns(cq, t) = 1 /\ Returns(cq, t) = 1
        BY <1>7, <3>3, <3>5
      <4>2. Returns(cq, t) = 1 + Returns(r, t) /\ Returns(r, t) \in Nat
        BY <1>6, <3>5
      <4>3. n + Returns(r, t) = 0 /\ Returns(r, t) = 0
        BY <3>2, <4>1, <4>2
      <4>4. QED
        BY <1>4, <1>9, <3>4, <3>5, <4>3
    <3>6. CASE t # s
      <4>1. Returns(cq, t) = Returns(r, t)
        BY <1>6, <3>6
      <4>2. sock'[t] = sock[t]
        BY <1>9, <3>6, Constants
      <4>3. QED
        BY <1>4, <3>3, <3>4, <4>1, <4>2
    <3>7. QED
      BY <3>5, <3>6
  <2>2. QED
    BY <2>1 DEF Once
<1>18. Dialling'
  <2>1. Quiet(Dialer) => Quiet(Dialer)'
    BY <1>7, <1>13, Constants DEF Kind
  <2>2. sock'[Dialer] = sock[Dialer] /\ conn'[Dialer] = conn[Dialer]
    BY <1>7, <1>9, Constants
  <2>3. Listed' = Listed
    BY <1>4 DEF Listed
  <2>4. QED
    BY <1>4, <1>5, <2>1, <2>2, <2>3 DEF Dialling
<1>19. Connected'
  <2>1. \A t, u \in Sess : conn'[t] = conn'[u] /\ conn'[t] # None => t = u
    BY <1>5, <1>9 DEF Connected
  <2>2. \A t \in Sess : conn'[t] # None => conn'[t] <= made
    BY <1>5, <1>9 DEF Connected
  <2>3. \A t \in Sess : agent[t] \in {None, conn'[t]} /\ kill'[t] \in {None, conn'[t]}
    BY <1>5, <1>8, <1>9 DEF Connected
  <2>4. QED
    BY <1>4, <1>5, <2>1, <2>2, <2>3 DEF Connected
<1>20. Lists'
  <2>1. s \notin Range(acq) \cup Range(accepted) \cup Range(temp) \cup Range(active)
    BY <1>5, <1>7, AloneIs DEF Alone
  <2>2. \A t \in Range(temp) \cup Range(active) : Kind(t)
    BY <1>5, <1>13, <2>1, RangeIs DEF Typed
  <2>3. \A t \in Range(acq') \cup Range(accepted') : Fresh(t)'
    <3>1. \A t \in Range(acq) \cup Range(accepted) : t \in Sess \ {s} /\ Fresh(t)
      BY <1>5, <2>1, RangeIs, Constants DEF Typed, Lists
    <3>2. QED
      BY <1>4, <1>13, <3>1 DEF Kind
  <2>4. QED
    BY <1>4, <2>2, <2>3, ListsStay
<1>21. Counted'
  <2>1. Agents' = Agents /\ Listed' = Listed
    BY <1>4 DEF Agents, Listed
  <2>2. QED
    BY <1>4, <1>5, <2>1 DEF Counted
<1>22. QED
  BY <1>10, <1>15, <1>16, <1>17, <1>18, <1>19, <1>20, <1>21 DEF Inv

LEMMA IoThreadInv ==
  ASSUME Inv, IoThread
  PROVE  Inv'
<1>1. cq # <<>> /\ HandleCompletion(Head(cq), Tail(cq))
  BY DEF IoThread
<1>2. \/ Head(cq).type = "data" \/ Head(cq).type = "end" \/ Head(cq).type = "disconnect"
  BY <1>1 DEF HandleCompletion
<1>3. QED
  BY <1>1, <1>2, ReceivedInv, EndedInv, GivenBackInv

-----------------------------------------------------------------------------
(* Clients that connect, the accept thread and the connect thread.         *)

LEMMA PeerConnectsInv ==
  ASSUME Inv, NEW s \in AcceptSess, PeerConnects(s)
  PROVE  Inv'
<1>1. /\ pc' = pc /\ at' = at /\ temp' = temp /\ active' = active /\ count' = count
      /\ agent' = agent /\ accepted' = accepted /\ dial' = dial /\ kill' = kill /\ rbuf' = rbuf
      /\ heard' = heard /\ sent' = sent /\ gone' = gone /\ port' = port /\ passed' = passed
      /\ cq' = cq /\ posted' = posted
      /\ sock[s] = "listening" /\ made < MaxConn /\ made' = made + 1
      /\ sock' = [sock EXCEPT ![s] = "open"] /\ conn' = [conn EXCEPT ![s] = made + 1]
      /\ acq' = Append(acq, s)
  BY DEF PeerConnects, main, shared
<1>2. Typed /\ Phased /\ Once /\ Dialling /\ Connected /\ Sockets /\ Lists /\ Completed
      /\ Flow /\ Counted
  BY DEF Inv
<1>3. PICK c : c = made + 1
  OBVIOUS
<1>4. c \in Conns /\ c # None /\ c > made /\ made \in Nat /\ s \in Sess /\ s # Dialer /\ c # 1
  <2>1. made \in 1 .. MaxConn /\ MaxConn \in Nat /\ s \in Sess /\ s # Dialer
    BY <1>2, Constants DEF Typed, Conns
  <2>2. c \in 1 .. MaxConn /\ c > made /\ made \in Nat /\ c # 1
    BY <1>1, <1>3, <2>1
  <2>3. QED
    BY <2>1, <2>2, Constants DEF Conns
<1>5. /\ sock'[s] = "open" /\ conn'[s] = c
      /\ \A t \in Sess \ {s} : sock'[t] = sock[t] /\ conn'[t] = conn[t]
  BY <1>1, <1>2, <1>3, <1>4 DEF Typed
<1>6. conn[s] = None /\ rbuf[s] = <<>> /\ Quiet(s) /\ agent[s] = None /\ kill[s] = None
  <2>1. conn[s] = None /\ rbuf[s] = <<>> /\ Quiet(s)
    BY <1>1, <1>2 DEF Sockets, Settled
  <2>2. QED
    BY <1>2, <1>4, <2>1 DEF Connected
<1>7. acq' \in Seq(AcceptSess) /\ Range(acq') = Range(acq) \cup {s}
      /\ \A t : Occ(acq', t) = Occ(acq, t) + (IF s = t THEN 1 ELSE 0)
  BY <1>1, <1>2, AppendProperties, RangeAppend, OccAppend DEF Typed
<1>8. Typed'
  <2>1. conn' \in [Sess -> Conns \cup {None}] /\ made' \in Conns
    BY <1>1, <1>2, <1>3, <1>4 DEF Typed
  <2>2. sock' \in [Sess -> {"listening", "open", "closing", "closed", "lost"}]
    BY <1>1, <1>2 DEF Typed
  <2>3. QED
    BY <1>1, <1>2, <1>7, <2>1, <2>2 DEF Typed
<1>9. Apart(cq')
  BY <1>1, <1>2 DEF Completed
<1>10. Spared(s)
  BY <1>1, <1>5 DEF Spared, Same, Idle
<1>11. \A t \in Sess \ {s} : Kind(t)
  BY <1>8, <1>9, <1>10, SparedIs
<1>12. Settled(s)'
  BY <1>4, <1>5 DEF Settled
<1>13. Kept(s)'
  <2>1. heard[c] = <<>> /\ sent[c] = 0
    BY <1>2, <1>4 DEF Connected
  <2>2. Data(cq', s) = <<>>
    <3>1. \A e \in Range(cq) : ~IsData(e, s)
      BY <1>6 DEF Quiet, IsData
    <3>2. cq \in Seq(Completion) /\ Apart(cq)
      BY <1>2 DEF Typed, Completed
    <3>3. Data(cq, s) = <<>>
      BY <3>1, <3>2, DataIs
    <3>4. QED
      BY <1>1, <3>3
  <2>3. SentOn(c)' = <<>>
    <3>1. SentOn(c)' = First(c, 0)
      BY <1>1, <2>1, SentIsNext
    <3>2. First(c, 0) = <<>>
      BY <1>4, FirstIs
    <3>3. QED
      BY <3>1, <3>2
  <2>4. <<>> \o <<>> \o <<>> = <<>>
    OBVIOUS
  <2>5. heard'[c] \o rbuf'[s] \o Data(cq', s) = SentOn(c)'
    BY <1>1, <1>6, <2>1, <2>2, <2>3, <2>4
  <2>6. QED
    BY <1>5, <2>5 DEF Kept, SentOn
<1>14. Sockets' /\ Completed' /\ Flow'
  <2>1. \A e \in Range(cq') : e.sess # s
    BY <1>1, <1>6 DEF Quiet
  <2>2. \A d \in Conns : d # 1 => IsPrefix(heard'[d], SentOn(d)')
    BY <1>1, <1>2 DEF Flow, SentOn
  <2>3. QED
    BY <1>8, <1>9, <1>10, <1>12, <1>13, <2>1, <2>2, SparedInv
<1>15. Phased'
  BY <1>1, <1>2 DEF Phased
<1>16. Once'
  <2>1. ASSUME NEW t \in AcceptSess
        PROVE  /\ Places(t)' = IF sock'[t] \in {"listening", "lost"} THEN 0 ELSE 1
               /\ Returns(cq', t) = IF sock'[t] = "closing" THEN 1 ELSE 0
    <3>1. PICK a, n : a = Occ(acq, t)
                      /\ n = Occ(accepted, t) + Occ(temp, t) + Occ(active, t) + Returns(cq, t)
      OBVIOUS
    <3>2. n \in Nat /\ a \in Nat /\ Places(t) = a + n
      BY <1>2, <3>1, OccsAre DEF Places
    <3>3. /\ a + n = IF sock[t] \in {"listening", "lost"} THEN 0 ELSE 1
          /\ Returns(cq, t) = IF sock[t] = "closing" THEN 1 ELSE 0
      BY <1>2, <3>2 DEF Once
    <3>4. Places(t)' = Occ(acq', t) + n
      <4>1. Occ(acq', t) \in Nat /\ Occ(accepted, t) \in Nat /\ Occ(temp, t) \in Nat
            /\ Occ(active, t) \in Nat /\ Returns(cq, t) \in Nat
        BY <1>2, <1>7, OccsAre, OccIs
      <4>2. Places(t)' = Occ(acq', t) + Occ(accepted, t) + Occ(temp, t) + Occ(active, t) + Returns(cq, t)
        BY <1>1 DEF Places
      <4>3. QED
        BY <3>1, <4>1, <4>2
    <3>5. Occ(acq', t) = a + (IF s = t THEN 1 ELSE 0)
      BY <1>7, <3>1
    <3>6. CASE t = s
      <4>1. Occ(acq', t) = a + 1 /\ a + n = 0 /\ Returns(cq, t) = 0
        BY <1>1, <3>3, <3>5, <3>6
      <4>2. Places(t)' = 1
        BY <3>2, <3>4, <4>1
      <4>3. QED
        BY <1>1, <1>5, <3>6, <4>1, <4>2
    <3>7. CASE t # s
      <4>1. Occ(acq', t) = a /\ sock'[t] = sock[t]
        BY <1>5, <3>2, <3>5, <3>7, Constants
      <4>2. QED
        BY <1>1, <3>3, <3>4, <4>1
    <3>8. QED
      BY <3>6, <3>7
  <2>2. QED
    BY <2>1 DEF Once
<1>17. Dialling'
  <2>1. Quiet(Dialer) => Quiet(Dialer)'
    BY <1>4, <1>11, Constants DEF Kind
  <2>2. sock'[Dialer] = sock[Dialer] /\ conn'[Dialer] = conn[Dialer]
    BY <1>4, <1>5, Constants
  <2>3. Listed' = Listed
    BY <1>1 DEF Listed
  <2>4. QED
    BY <1>1, <1>2, <2>1, <2>2, <2>3 DEF Dialling
<1>18. Connected'
  <2>1. \A t \in Sess : conn[t] # c
    <3>1. \A t \in Sess : conn[t] # None => conn[t] \in Nat /\ conn[t] <= made
      <4>1. \A t \in Sess : conn[t] # None => conn[t] <= made
        BY <1>2 DEF Connected
      <4>2. \A t \in Sess : conn[t] # None => conn[t] \in Conns
        BY <1>2 DEF Typed
      <4>3. QED
        BY <4>1, <4>2, Constants
    <3>2. \A x \in Nat : x <= made => x # c
      BY <1>4
    <3>3. QED
      BY <1>4, <3>1, <3>2
  <2>2. \A t, u \in Sess : conn'[t] = conn'[u] /\ conn'[t] # None => t = u
    BY <1>2, <1>5, <2>1 DEF Connected
  <2>3. \A t \in Sess : conn'[t] # None => conn'[t] <= made'
    <3>1. \A t \in Sess \ {s} : conn[t] # None => conn[t] \in Nat /\ conn[t] <= made
      <4>1. \A t \in Sess : conn[t] # None => conn[t] <= made
        BY <1>2 DEF Connected
      <4>2. \A t \in Sess : conn[t] # None => conn[t] \in Conns
        BY <1>2 DEF Typed
      <4>3. QED
        BY <4>1, <4>2, Constants
    <3>2. \A x \in Nat : x <= made => x <= made + 1
      BY <1>4
    <3>3. c <= made'
      BY <1>1, <1>3, <1>4
    <3>4. QED
      BY <1>1, <1>5, <3>1, <3>2, <3>3
  <2>4. \A t \in Sess : agent[t] \in {None, conn'[t]} /\ kill[t] \in {None, conn'[t]}
    BY <1>2, <1>5, <1>6 DEF Connected
  <2>5. \A d \in Conns : d > made' => d > made
    <3>1. Conns \subseteq Nat
      BY Constants
    <3>2. QED
      BY <1>1, <1>4, <3>1
  <2>6. QED
    BY <1>1, <1>2, <2>2, <2>3, <2>4, <2>5 DEF Connected
<1>19. Lists'
  <2>1. s \notin Range(acq) \cup Range(accepted) \cup Range(temp) \cup Range(active)
    BY <1>1, <1>2, AloneIs DEF Alone
  <2>2. \A t \in Range(temp) \cup Range(active) : Kind(t)
    BY <1>2, <1>11, <2>1, RangeIs DEF Typed
  <2>3. \A t \in Range(acq) \cup Range(accepted) : Fresh(t)'
    <3>1. \A t \in Range(acq) \cup Range(accepted) : t \in Sess \ {s} /\ Fresh(t)
      BY <1>2, <2>1, RangeIs, Constants DEF Typed, Lists
    <3>2. QED
      BY <1>11, <3>1 DEF Kind
  <2>4. Fresh(s)'
    BY <1>1, <1>5, <1>6 DEF Fresh, Quiet
  <2>5. \A t \in Range(acq') \cup Range(accepted') : Fresh(t)'
    BY <1>1, <1>7, <2>3, <2>4
  <2>6. QED
    BY <1>1, <2>2, <2>5, ListsStay
<1>20. Counted'
  <2>1. Agents' = Agents /\ Listed' = Listed
    BY <1>1 DEF Agents, Listed
  <2>2. QED
    BY <1>1, <1>2, <2>1 DEF Counted
<1>21. QED
  BY <1>8, <1>14, <1>15, <1>16, <1>17, <1>18, <1>19, <1>20 DEF Inv

\* The session is listed.
LEMMA AcceptListsInv ==
  ASSUME Inv, AcceptThread, sock' = sock, accepted' = Append(accepted, Head(acq))
  PROVE  Inv'
<1>1. PICK h, r, p : h = Head(acq) /\ r = Tail(acq) /\ p = Append(accepted, h)
  OBVIOUS
<1>2. /\ pc' = pc /\ at' = at /\ temp' = temp /\ active' = active /\ count' = count
      /\ agent' = agent /\ dial' = dial /\ kill' = kill /\ rbuf' = rbuf
      /\ heard' = heard /\ sent' = sent /\ gone' = gone /\ port' = port /\ passed' = passed
      /\ cq' = cq /\ posted' = posted /\ made' = made /\ sock' = sock /\ conn' = conn
      /\ acq # <<>> /\ acq' = r /\ accepted' = p
  BY <1>1 DEF AcceptThread, main
<1>3. Typed /\ Phased /\ Once /\ Dialling /\ Connected /\ Sockets /\ Lists /\ Completed
      /\ Flow /\ Counted
  BY DEF Inv
<1>4. acq \in Seq(AcceptSess) /\ accepted \in Seq(AcceptSess)
  BY <1>3 DEF Typed
<1>5. /\ h \in AcceptSess /\ r \in Seq(AcceptSess) /\ Range(acq) = {h} \cup Range(r)
      /\ \A t : Occ(acq, t) = (IF h = t THEN 1 ELSE 0) + Occ(r, t)
  BY <1>1, <1>2, <1>4, RangeTail, OccTail
<1>6. /\ p \in Seq(AcceptSess) /\ Range(p) = Range(accepted) \cup {h}
      /\ \A t : Occ(p, t) = Occ(accepted, t) + (IF h = t THEN 1 ELSE 0)
  BY <1>1, <1>4, <1>5, AppendProperties, RangeAppend, OccAppend
<1>7. Typed'
  BY <1>2, <1>3, <1>5, <1>6 DEF Typed
<1>8. Apart(cq')
  BY <1>2, <1>3 DEF Completed
<1>9. Spared(None) /\ \A t \in Sess : Same(t)
  BY <1>2 DEF Spared, Same, Idle
<1>10. None \notin Sess /\ None \notin AcceptSess
  BY Constants
<1>11. Sockets' /\ Completed' /\ Flow'
  <2>1. \A e \in Range(cq') : e.sess # None
    <3>1. \A e \in Range(cq') : e \in Completion
      BY <1>7, RangeIs DEF Typed
    <3>2. QED
      BY <1>10, <3>1 DEF Completion
  <2>2. \A c \in Conns : c # 1 => IsPrefix(heard'[c], SentOn(c)')
    BY <1>2, <1>3 DEF Flow, SentOn
  <2>3. QED
    BY <1>7, <1>8, <1>9, <1>10, <2>1, <2>2, SparedInv
<1>12. \A t \in Sess : Kind(t)
  BY <1>9, SameIs DEF Kind
<1>13. Phased'
  BY <1>2, <1>3 DEF Phased
<1>14. Once'
  <2>1. ASSUME NEW t \in AcceptSess PROVE Places(t)' = Places(t)
    <3>1. PICK a, b, x, y, z, u : /\ a = Occ(r, t) /\ b = Occ(accepted, t) /\ x = Occ(temp, t)
                                  /\ y = Occ(active, t) /\ z = Returns(cq, t)
                                  /\ u = IF h = t THEN 1 ELSE 0
      OBVIOUS
    <3>2. a \in Nat /\ b \in Nat /\ x \in Nat /\ y \in Nat /\ z \in Nat /\ u \in Nat
      BY <1>3, <1>5, <3>1, OccsAre, OccIs
    <3>3. Places(t) = u + a + b + x + y + z
      BY <1>5, <3>1 DEF Places
    <3>4. Places(t)' = a + (b + u) + x + y + z
      BY <1>2, <1>6, <3>1 DEF Places
    <3>5. QED
      BY <3>2, <3>3, <3>4
  <2>2. QED
    BY <1>2, <1>3, <2>1 DEF Once
<1>15. Dialling'
  BY <1>2, <1>3 DEF Dialling, Listed, Quiet
<1>16. Connected'
  BY <1>2, <1>3 DEF Connected
<1>17. Lists'
  <2>1. \A t \in Range(temp) \cup Range(active) : Kind(t)
    BY <1>3, <1>12, RangeIs DEF Typed
  <2>2. Range(acq') \cup Range(accepted') = Range(acq) \cup Range(accepted)
    BY <1>2, <1>5, <1>6
  <2>3. \A t \in Range(acq) \cup Range(accepted) : t \in Sess /\ Fresh(t)
    BY <1>3, <1>4, RangeIs, Constants DEF Lists
  <2>4. \A t \in Range(acq') \cup Range(accepted') : Fresh(t)'
    BY <1>12, <2>2, <2>3 DEF Kind
  <2>5. QED
    BY <1>2, <2>1, <2>4, ListsStay
<1>18. Counted'
  BY <1>2, <1>3 DEF Counted, Agents, Listed
<1>19. QED
  BY <1>7, <1>11, <1>13, <1>14, <1>15, <1>16, <1>17, <1>18 DEF Inv

\* The session is dropped.
LEMMA AcceptDropsInv ==
  ASSUME Inv, AcceptThread, accepted' = accepted,
         sock' = [sock EXCEPT ![Head(acq)] = "lost"]
  PROVE  Inv'
<1>1. PICK s, r : s = Head(acq) /\ r = Tail(acq)
  OBVIOUS
<1>2. /\ pc' = pc /\ at' = at /\ temp' = temp /\ active' = active /\ count' = count
      /\ agent' = agent /\ dial' = dial /\ kill' = kill /\ rbuf' = rbuf
      /\ heard' = heard /\ sent' = sent /\ gone' = gone /\ port' = port /\ passed' = passed
      /\ cq' = cq /\ posted' = posted /\ made' = made /\ conn' = conn
      /\ acq # <<>> /\ acq' = r /\ accepted' = accepted
      /\ sock' = [sock EXCEPT ![s] = "lost"]
  BY <1>1 DEF AcceptThread, main
<1>3. Typed /\ Phased /\ Once /\ Dialling /\ Connected /\ Sockets /\ Lists /\ Completed
      /\ Flow /\ Counted
  BY DEF Inv
<1>4. acq \in Seq(AcceptSess) /\ accepted \in Seq(AcceptSess)
  BY <1>3 DEF Typed
<1>5. /\ s \in AcceptSess /\ r \in Seq(AcceptSess) /\ Range(acq) = {s} \cup Range(r)
      /\ \A t : Occ(acq, t) = (IF s = t THEN 1 ELSE 0) + Occ(r, t)
  BY <1>1, <1>2, <1>4, RangeTail, OccTail
<1>6. s \in Sess /\ s # Dialer /\ None \notin AcceptSess
  BY <1>5, Constants
<1>7. Fresh(s)
  BY <1>3, <1>5 DEF Lists
<1>8. /\ sock'[s] = "lost" /\ \A t \in Sess \ {s} : sock'[t] = sock[t]
      /\ sock' \in [Sess -> {"listening", "open", "closing", "closed", "lost"}]
  BY <1>2, <1>3, <1>6 DEF Typed
<1>9. Typed'
  BY <1>2, <1>3, <1>5, <1>8 DEF Typed
<1>10. Apart(cq')
  BY <1>2, <1>3 DEF Completed
<1>11. Spared(s)
  BY <1>2, <1>8 DEF Spared, Same, Idle
<1>12. \A t \in Sess \ {s} : Kind(t)
  BY <1>9, <1>10, <1>11, SparedIs
<1>13. Sockets' /\ Completed' /\ Flow'
  <2>1. Settled(s)'
    BY <1>2, <1>7, <1>8 DEF Settled, Fresh, Quiet
  <2>2. \A e \in Range(cq') : e.sess # s
    BY <1>2, <1>7 DEF Fresh, Quiet
  <2>3. sock'[s] # "open"
    BY <1>8
  <2>4. \A c \in Conns : c # 1 => IsPrefix(heard'[c], SentOn(c)')
    BY <1>2, <1>3 DEF Flow, SentOn
  <2>5. QED
    BY <1>9, <1>10, <1>11, <2>1, <2>2, <2>3, <2>4, SparedInv
<1>14. Phased'
  BY <1>2, <1>3 DEF Phased
<1>15. /\ s \notin Range(r) \cup Range(accepted) \cup Range(temp) \cup Range(active)
       /\ Once'
  <2>1. ASSUME NEW t \in AcceptSess
        PROVE  /\ Places(t)' = IF sock'[t] \in {"listening", "lost"} THEN 0 ELSE 1
               /\ Returns(cq', t) = IF sock'[t] = "closing" THEN 1 ELSE 0
               /\ t = s => /\ Occ(r, t) = 0 /\ Occ(accepted, t) = 0 /\ Occ(temp, t) = 0
                           /\ Occ(active, t) = 0
    <3>1. PICK a, b, x, y, z, u : /\ a = Occ(r, t) /\ b = Occ(accepted, t) /\ x = Occ(temp, t)
                                  /\ y = Occ(active, t) /\ z = Returns(cq, t)
                                  /\ u = IF s = t THEN 1 ELSE 0
      OBVIOUS
    <3>2. a \in Nat /\ b \in Nat /\ x \in Nat /\ y \in Nat /\ z \in Nat /\ u \in Nat
      BY <1>3, <1>5, <3>1, OccsAre, OccIs
    <3>3. Places(t) = u + a + b + x + y + z
      BY <1>5, <3>1 DEF Places
    <3>4. Places(t)' = a + b + x + y + z /\ Returns(cq', t) = z
      BY <1>2, <3>1 DEF Places
    <3>5. /\ Places(t) = IF sock[t] \in {"listening", "lost"} THEN 0 ELSE 1
          /\ z = IF sock[t] = "closing" THEN 1 ELSE 0
      BY <1>3, <3>1 DEF Once
    <3>6. CASE t = s
      <4>1. sock[t] = "open" /\ u = 1
        BY <1>7, <3>1, <3>6 DEF Fresh
      <4>2. u + a + b + x + y + z = 1
        BY <3>3, <3>5, <4>1
      <4>3. a = 0 /\ b = 0 /\ x = 0 /\ y = 0 /\ z = 0
        BY <3>2, <4>1, <4>2
      <4>4. QED
        BY <1>8, <3>1, <3>4, <3>6, <4>3
    <3>7. CASE t # s
      <4>1. u = 0 /\ sock'[t] = sock[t]
        BY <1>8, <3>1, <3>7, Constants
      <4>2. QED
        BY <3>2, <3>3, <3>4, <3>5, <3>7, <4>1
    <3>8. QED
      BY <3>6, <3>7
  <2>2. Once'
    BY <2>1 DEF Once
  <2>3. /\ Occ(r, s) = 0 /\ Occ(accepted, s) = 0 /\ Occ(temp, s) = 0 /\ Occ(active, s) = 0
    BY <1>5, <2>1
  <2>4. /\ r \in Seq(Sess) /\ accepted \in Seq(Sess) /\ temp \in Seq(Sess)
        /\ active \in Seq(Sess)
    BY <1>3, <1>4, <1>5, Constants DEF Typed, Sess
  <2>5. QED
    BY <2>2, <2>3, <2>4, OccIn
<1>16. Dialling'
  BY <1>2, <1>3, <1>6, <1>8, Constants DEF Dialling, Listed, Quiet
<1>17. Connected'
  BY <1>2, <1>3 DEF Connected
<1>18. Lists'
  <2>1. \A t \in Range(temp) \cup Range(active) : Kind(t)
    BY <1>3, <1>12, <1>15, RangeIs DEF Typed
  <2>2. \A t \in Range(r) \cup Range(accepted) : t \in Sess \ {s} /\ Fresh(t)
    BY <1>3, <1>4, <1>5, <1>15, RangeIs, Constants DEF Lists
  <2>3. \A t \in Range(acq') \cup Range(accepted') : Fresh(t)'
    BY <1>2, <1>12, <2>2 DEF Kind
  <2>4. QED
    BY <1>2, <2>1, <2>3, ListsStay
<1>19. Counted'
  BY <1>2, <1>3 DEF Counted, Agents, Listed
<1>20. QED
  BY <1>9, <1>13, <1>14, <1>15, <1>16, <1>17, <1>18, <1>19 DEF Inv

LEMMA AcceptThreadInv ==
  ASSUME Inv, AcceptThread
  PROVE  Inv'
BY AcceptListsInv, AcceptDropsInv DEF AcceptThread

LEMMA DialerKind ==
  ASSUME Quiet(Dialer) => Quiet(Dialer)'
  PROVE  Kind(Dialer)
<1>1. Dialer \notin AcceptSess
  BY Constants
<1>2. QED
  BY <1>1 DEF Kind, Fresh, Served, Looked, Serving, Starting

LEMMA ConnectThreadInv ==
  ASSUME Inv, ConnectThread
  PROVE  Inv'
<1>1. /\ pc' = pc /\ at' = at /\ temp' = temp /\ active' = active /\ count' = count
      /\ agent' = agent /\ accepted' = accepted /\ kill' = kill /\ rbuf' = rbuf
      /\ heard' = heard /\ sent' = sent /\ gone' = gone /\ port' = port /\ passed' = passed
      /\ cq' = cq /\ posted' = posted /\ made' = made /\ conn' = conn /\ acq' = acq
      /\ dial = "connecting" /\ dial' \in {"succeeded", "failed"}
      /\ sock' = sock \/ sock' = [sock EXCEPT ![Dialer] = "open"]
  BY DEF ConnectThread, main
<1>2. Typed /\ Phased /\ Once /\ Dialling /\ Connected /\ Sockets /\ Lists /\ Completed
      /\ Flow /\ Counted
  BY DEF Inv
<1>3. /\ sock'[Dialer] \in {sock[Dialer], "open"}
      /\ \A t \in Sess \ {Dialer} : sock'[t] = sock[t]
      /\ Dialer \in Sess /\ \A t \in AcceptSess : t \in Sess \ {Dialer}
  BY <1>1, <1>2, Constants DEF Typed
<1>4. Typed'
  <2>1. sock' \in [Sess -> {"listening", "open", "closing", "closed", "lost"}]
    BY <1>1, <1>2 DEF Typed
  <2>2. QED
    BY <1>1, <1>2, <2>1 DEF Typed
<1>5. Apart(cq')
  BY <1>1, <1>2 DEF Completed
<1>6. Spared(Dialer)
  BY <1>1, <1>3 DEF Spared, Same, Idle
<1>7. Quiet(Dialer)
  BY <1>1, <1>2 DEF Dialling
<1>8. Sockets' /\ Completed' /\ Flow'
  <2>1. \A e \in Range(cq') : e.sess # Dialer
    BY <1>1, <1>7 DEF Quiet
  <2>2. \A c \in Conns : c # 1 => IsPrefix(heard'[c], SentOn(c)')
    BY <1>1, <1>2 DEF Flow, SentOn
  <2>3. Dialer \notin AcceptSess
    BY Constants
  <2>4. QED
    BY <1>4, <1>5, <1>6, <2>1, <2>2, <2>3, SparedInv
<1>9. \A t \in Sess : Kind(t)
  <2>1. Quiet(Dialer)'
    BY <1>1, <1>7 DEF Quiet
  <2>2. Kind(Dialer)
    BY <2>1, DialerKind
  <2>3. QED
    BY <1>4, <1>5, <1>6, <2>2, SparedIs
<1>10. Phased'
  BY <1>1, <1>2 DEF Phased
<1>11. Once'
  <2>1. \A t \in AcceptSess : Places(t)' = Places(t) /\ sock'[t] = sock[t]
    BY <1>1, <1>3 DEF Places
  <2>2. QED
    BY <1>1, <1>2, <2>1 DEF Once
<1>12. Dialling'
  <2>1. Listed' = Listed
    BY <1>1 DEF Listed
  <2>2. QED
    BY <1>1, <1>2, <1>3, <2>1 DEF Dialling, Quiet
<1>13. Connected'
  BY <1>1, <1>2 DEF Connected
<1>14. Lists'
  <2>1. \A t \in Range(temp) \cup Range(active) : Kind(t)
    BY <1>2, <1>9, RangeIs DEF Typed
  <2>2. \A t \in Range(acq) \cup Range(accepted) : t \in Sess /\ Fresh(t)
    BY <1>2, RangeIs, Constants DEF Lists, Typed
  <2>3. \A t \in Range(acq') \cup Range(accepted') : Fresh(t)'
    BY <1>1, <1>9, <2>2 DEF Kind
  <2>4. QED
    BY <1>1, <2>1, <2>3, ListsStay
<1>15. Counted'
  <2>1. Agents' = Agents /\ Listed' = Listed
    BY <1>1 DEF Agents, Listed
  <2>2. QED
    BY <1>1, <1>2, <2>1 DEF Counted
<1>16. QED
  BY <1>4, <1>8, <1>10, <1>11, <1>12, <1>13, <1>14, <1>15 DEF Inv

-----------------------------------------------------------------------------
(* ProcessActiveSessionList.                                               *)

\* What the sessions in ready hand to agent c.
Handed(ready, c) ==
  FlattenSeq([i \in 1 .. Len(active) |->
    IF active[i] \in ready /\ agent[active[i]] = c THEN rbuf[active[i]] ELSE <<>>])

LEMMA ActiveOnce ==
  ASSUME Inv, NEW s \in Sess
  PROVE  Occ(active, s) <= 1
<1>1. Typed /\ Once /\ Dialling
  BY DEF Inv
<1>2. CASE s \in AcceptSess
  BY <1>1, <1>2, AloneIs DEF Alone
<1>3. CASE s \notin AcceptSess
  <2>1. s = Dialer
    BY <1>3, Constants
  <2>2. PICK a, b : a = Occ(temp, s) /\ b = Occ(active, s)
    OBVIOUS
  <2>3. a \in Nat /\ b \in Nat
    BY <1>1, <2>2, OccsAre
  <2>4. a + b <= 1
    BY <1>1, <2>1, <2>2 DEF Dialling, Listed
  <2>5. QED
    BY <2>2, <2>3, <2>4
<1>4. QED
  BY <1>2, <1>3

LEMMA HandedIs ==
  ASSUME Inv, NEW ready, ready \subseteq Range(active), NEW c \in Conns
  PROVE  /\ Handed(ready, c) \in Seq(Packet)
         /\ \A s \in ready : agent[s] = c => Handed(ready, c) = rbuf[s]
         /\ (\A s \in ready : agent[s] # c) => Handed(ready, c) = <<>>
<1>1. Typed /\ Connected
  BY DEF Inv
<1>2. PICK n : n = Len(active) /\ n \in Nat /\ DOMAIN active = 1 .. n
  BY <1>1, LenProperties DEF Typed
<1>3. \A i \in 1 .. n : active[i] \in Sess
  BY <1>1, <1>2, ElementOfSeq DEF Typed
<1>4. PICK f : f = [i \in 1 .. n |->
        IF active[i] \in ready /\ agent[active[i]] = c THEN rbuf[active[i]] ELSE <<>>]
  OBVIOUS
<1>5. \A i \in 1 .. n : f[i] \in Seq(Packet)
  <2>1. \A i \in 1 .. n : rbuf[active[i]] \in Seq(Packet)
    BY <1>1, <1>3 DEF Typed
  <2>2. QED
    BY <1>4, <2>1, EmptySeq
<1>6. f \in Seq(Seq(Packet)) /\ Len(f) = n
  BY <1>2, <1>4, <1>5
<1>7. Handed(ready, c) = FlattenSeq(f)
  BY <1>2, <1>4 DEF Handed
<1>8. FlattenSeq(f) \in Seq(Packet)
  BY <1>6, FlattenTyped
<1>9. ASSUME NEW s \in ready, agent[s] = c PROVE FlattenSeq(f) = rbuf[s]
  <2>1. PICK k \in 1 .. n : s = active[k]
    BY <1>2, <1>9 DEF Range
  <2>2. f[k] = rbuf[s]
    BY <1>4, <1>9, <2>1
  <2>3. ASSUME NEW i \in 1 .. n, i # k PROVE f[i] = <<>>
    <3>1. ASSUME agent[active[i]] = c PROVE FALSE
      <4>1. conn[active[i]] = c /\ conn[s] = c /\ c # None
        <5>1. c # None
          BY Constants
        <5>2. active[i] \in Sess /\ s \in Sess
          BY <1>3, <2>1
        <5>3. QED
          BY <1>1, <1>9, <3>1, <5>1, <5>2 DEF Connected
      <4>2. active[i] = s
        BY <1>1, <1>3, <2>1, <4>1 DEF Connected
      <4>3. Occ(active, active[i]) <= 1 /\ active \in Seq(Sess)
        BY <1>1, <1>3, ActiveOnce DEF Typed
      <4>4. i = k
        BY <1>2, <2>1, <4>2, <4>3, OccOnce
      <4>5. QED
        BY <2>3, <4>4
    <3>2. QED
      BY <1>4, <3>1
  <2>4. QED
    BY <1>6, <2>2, <2>3, FlattenOne
<1>10. ASSUME \A s \in ready : agent[s] # c PROVE FlattenSeq(f) = <<>>
  <2>1. \A i \in 1 .. n : f[i] = <<>>
    BY <1>4, <1>10
  <2>2. QED
    BY <1>6, <2>1, FlattenNone
<1>11. QED
  BY <1>7, <1>8, <1>9, <1>10

\* The data that has been received moves on: to the agent, if it is handed over.
LEMMA HandedKept ==
  ASSUME Inv, NEW ready, ready \subseteq Range(active), NEW s \in AcceptSess, Kept(s),
         conn[s] \in Conns,
         heard'[conn[s]] = heard[conn[s]] \o Handed(ready, conn[s]),
         rbuf'[s] = IF s \in ready THEN <<>> ELSE rbuf[s],
         cq' = cq, sent' = sent, conn' = conn
  PROVE  Kept(s)'
<1>1. Typed /\ Completed /\ Connected /\ Lists
  BY DEF Inv
<1>2. PICK c, a, b, d, x : /\ c = conn[s] /\ a = heard[c] /\ b = rbuf[s] /\ d = Data(cq, s)
                           /\ x = Handed(ready, c)
  OBVIOUS
<1>3. a \in Seq(Packets) /\ b \in Seq(Packets) /\ d \in Seq(Packets)
  BY <1>1, <1>2, PartsAre, Constants DEF Completed
<1>4. a \o b \o d = SentOn(c)
  BY <1>2 DEF Kept
<1>5. \A t \in ready : agent[t] = c => t = s
  <2>1. c \in Conns /\ c # None
    BY <1>2, Constants
  <2>2. ready \subseteq Sess
    BY <1>1, RangeIs DEF Typed
  <2>3. s \in Sess
    BY Constants
  <2>4. QED
    BY <1>1, <1>2, <2>1, <2>2, <2>3 DEF Connected
<1>6. rbuf'[s] \in Seq(Packets) /\ a \o x \o rbuf'[s] \o d = a \o b \o d
  <2>1. CASE s \in ready /\ agent[s] = c
    <3>1. x = b /\ rbuf'[s] = <<>>
      BY <1>2, <2>1, HandedIs
    <3>2. a \o b \in Seq(Packets)
      BY <1>3, ConcatProperties
    <3>3. a \o b \o <<>> = a \o b
      BY <3>2, ConcatEmptySeq
    <3>4. QED
      BY <3>1, <3>3, EmptySeq
  <2>2. CASE ~(s \in ready /\ agent[s] = c)
    <3>1. \A t \in ready : agent[t] # c
      BY <1>5, <2>2
    <3>2. x = <<>>
      BY <1>2, <3>1, HandedIs
    <3>3. rbuf'[s] = b
      <4>1. CASE s \notin ready
        BY <1>2, <4>1
      <4>2. CASE s \in ready
        <5>1. agent[s] = None
          BY <1>1, <1>2, <2>2, <4>2, Constants DEF Connected
        <5>2. Serving(s) /\ s # Dialer
          BY <1>1, <4>2, Constants DEF Lists
        <5>3. b = <<>>
          BY <1>2, <5>1, <5>2 DEF Serving, Looked, Served, Fresh
        <5>4. QED
          BY <4>2, <5>3
      <4>3. QED
        BY <4>1, <4>2
    <3>4. a \o <<>> = a
      BY <1>3, ConcatEmptySeq
    <3>5. QED
      BY <1>3, <3>2, <3>3, <3>4
  <2>3. QED
    BY <2>1, <2>2
<1>7. SentOn(c)' = SentOn(c)
  BY DEF SentOn
<1>8. heard'[c] \o rbuf'[s] \o Data(cq', s) = SentOn(c)'
  BY <1>2, <1>4, <1>6, <1>7
<1>9. QED
  BY <1>2, <1>8 DEF Kept, SentOn

LEMMA NextPlace == AfterAccepted \in {"connected", "kick"}
                   /\ (AfterAccepted = "connected" => dial \in {"succeeded", "failed"})
BY DEF AfterAccepted

LEMMA ProcessActiveInv ==
  ASSUME Inv, NEW idle, NEW bad, ProcessActive(idle, bad)
  PROVE  Inv'
<1> DEFINE served == {s \in Range(active) : kill[s] = None}
           ended  == idle \cup bad
           ready  == served \ ended
<1>1. /\ pc = "process"
      /\ kill' = [s \in Sess |-> IF s \in ended THEN conn[s] ELSE kill[s]]
      /\ rbuf' = [s \in Sess |-> IF s \in ready THEN <<>> ELSE rbuf[s]]
      /\ heard' = [c \in Conns |-> heard[c] \o Handed(ready, c)]
      /\ temp' = accepted /\ accepted' = <<>>
      /\ pc' = IF accepted # <<>> THEN "accepted" ELSE AfterAccepted
      /\ at' = at /\ active' = active /\ count' = count /\ agent' = agent /\ dial' = dial
      /\ sock' = sock /\ conn' = conn /\ port' = port /\ posted' = posted /\ cq' = cq
      /\ acq' = acq /\ sent' = sent /\ gone' = gone /\ made' = made /\ passed' = passed
  BY DEF ProcessActive, Handed, net
<1>2. Typed /\ Phased /\ Once /\ Dialling /\ Connected /\ Sockets /\ Lists /\ Completed
      /\ Flow /\ Counted
  BY DEF Inv
<1>3. PICK R : R = ready
  OBVIOUS
<1>4. R \subseteq Range(active) /\ Range(active) \subseteq Sess
  BY <1>2, <1>3, RangeIs DEF Typed
<1>5. \A s \in Sess : /\ kill'[s] \in {kill[s], conn[s]}
                      /\ rbuf'[s] = IF s \in R THEN <<>> ELSE rbuf[s]
  BY <1>1, <1>3
<1>6. \A c \in Conns : heard'[c] = heard[c] \o Handed(R, c)
  BY <1>1, <1>3
<1>7. temp = <<>> /\ at = 1
  BY <1>1, <1>2 DEF Phased
<1> HIDE DEF ready, served, ended
<1>8. ASSUME NEW c \in Conns, \A s \in R : agent[s] # c PROVE heard'[c] = heard[c]
  <2>1. Handed(R, c) = <<>>
    BY <1>4, <1>8, HandedIs
  <2>2. heard[c] \in Seq(Packet)
    BY <1>2 DEF Typed
  <2>3. QED
    BY <1>6, <2>1, <2>2, ConcatEmptySeq
<1>9. Typed'
  <2>1. kill' \in [Sess -> Conns \cup {None}]
    <3>1. \A s \in Sess : kill'[s] \in Conns \cup {None}
      BY <1>2, <1>5 DEF Typed
    <3>2. QED
      BY <1>1, <3>1
  <2>2. rbuf' \in [Sess -> Seq(Packet)]
    <3>1. \A s \in Sess : rbuf'[s] \in Seq(Packet)
      BY <1>2, <1>5, EmptySeq DEF Typed
    <3>2. QED
      BY <1>1, <3>1
  <2>3. heard' \in [Conns -> Seq(Packet)]
    <3>1. ASSUME NEW c \in Conns PROVE heard'[c] \in Seq(Packet)
      <4>1. heard[c] \in Seq(Packet) /\ Handed(R, c) \in Seq(Packet)
        BY <1>2, <1>4, HandedIs DEF Typed
      <4>2. QED
        BY <1>6, <4>1, ConcatProperties
    <3>2. QED
      BY <1>1, <3>1
  <2>4. pc' \in {"process", "accepted", "onaccept", "connected", "onconnect", "kick",
                 "bury", "fault"}
    BY <1>1, NextPlace
  <2>5. accepted \in Seq(AcceptSess) /\ accepted \in Seq(Sess) /\ <<>> \in Seq(AcceptSess)
    BY <1>2, Constants, EmptySeq DEF Typed
  <2>6. temp' \in Seq(Sess) /\ accepted' \in Seq(AcceptSess)
    BY <1>1, <2>5
  <2>7. QED
    BY <1>1, <1>2, <2>1, <2>2, <2>3, <2>4, <2>6 DEF Typed
<1>10. Phased'
  <2>1. accepted # <<>> => pc' = "accepted" /\ temp' # <<>>
    BY <1>1
  <2>2. accepted = <<>> => pc' \in {"connected", "kick"} /\ temp' = <<>>
        /\ (pc' = "connected" => dial' \in {"succeeded", "failed"})
    BY <1>1, NextPlace
  <2>3. at' = 1 /\ 1 <= Len(temp') + 1
    <3>1. Len(temp') \in Nat
      BY <1>9, LenProperties DEF Typed
    <3>2. QED
      BY <1>1, <1>7, <3>1
  <2>4. QED
    BY <2>1, <2>2, <2>3 DEF Phased
<1>11. Once'
  <2>1. ASSUME NEW t \in AcceptSess PROVE Places(t)' = Places(t)
    <3>1. PICK a, b, y, z : /\ a = Occ(acq, t) /\ b = Occ(accepted, t)
                            /\ y = Occ(active, t) /\ z = Returns(cq, t)
      OBVIOUS
    <3>2. a \in Nat /\ b \in Nat /\ y \in Nat /\ z \in Nat
      BY <1>2, <3>1, OccsAre
    <3>3. Occ(temp, t) = 0 /\ Occ(accepted', t) = 0
      BY <1>1, <1>7, OccEmpty
    <3>4. Places(t) = a + b + 0 + y + z
      BY <3>1, <3>3 DEF Places
    <3>5. Places(t)' = a + 0 + b + y + z
      BY <1>1, <3>1, <3>3 DEF Places
    <3>6. QED
      BY <3>2, <3>4, <3>5
  <2>2. QED
    BY <1>1, <1>2, <2>1 DEF Once
<1>12. Listed' = Listed
  <2>1. Occ(temp, Dialer) = 0
    BY <1>7, OccEmpty
  <2>2. Occ(accepted, Dialer) = 0
    <3>1. Range(accepted) \subseteq AcceptSess /\ Dialer \notin AcceptSess
      BY <1>2, RangeIs, Constants DEF Typed
    <3>2. Dialer \notin Range(accepted)
      BY <3>1
    <3>3. QED
      BY <1>2, <3>2, OccsAre
  <2>3. QED
    BY <1>1, <2>1, <2>2 DEF Listed
<1>13. Dialling'
  <2>1. pc' # "onconnect" /\ pc # "onconnect"
    BY <1>1, NextPlace
  <2>2. Quiet(Dialer)' = Quiet(Dialer)
    BY <1>1 DEF Quiet
  <2>3. QED
    BY <1>1, <1>2, <1>12, <2>1, <2>2 DEF Dialling
<1>14. Connected'
  <2>1. \A s \in Sess : kill'[s] \in {None, conn[s]}
    BY <1>2, <1>5 DEF Connected
  <2>2. ASSUME NEW c \in Conns, c > made PROVE heard'[c] = <<>>
    <3>1. ASSUME NEW s \in R, agent[s] = c PROVE FALSE
      <4>1. s \in Sess /\ c # None
        BY <1>4, Constants
      <4>2. conn[s] = c /\ c <= made
        BY <1>2, <3>1, <4>1 DEF Connected
      <4>3. c \in Nat /\ made \in Nat
        BY <1>2, Constants DEF Typed
      <4>4. QED
        BY <2>2, <4>2, <4>3
    <3>2. heard'[c] = heard[c]
      BY <1>8, <3>1
    <3>3. QED
      BY <1>2, <2>2, <3>2 DEF Connected
  <2>3. QED
    BY <1>1, <1>2, <2>1, <2>2 DEF Connected
<1>15. Sockets'
  <2>1. ASSUME NEW t \in AcceptSess PROVE Settled(t)'
    <3>1. Settled(t)
      BY <1>2 DEF Sockets
    <3>2. rbuf'[t] \in {<<>>, rbuf[t]}
      BY <1>5, Constants
    <3>3. QED
      BY <1>1, <3>1, <3>2 DEF Settled, Quiet
  <2>2. QED
    BY <2>1 DEF Sockets
<1>16. Completed'
  BY <1>1, <1>2 DEF Completed, Entry
<1>17. Flow'
  <2>1. ASSUME NEW s \in AcceptSess, sock'[s] = "open" PROVE Kept(s)'
    <3>1. Kept(s) /\ conn[s] # None
      BY <1>1, <1>2, <2>1 DEF Flow, Sockets, Settled
    <3>2. s \in Sess /\ conn[s] \in Conns
      BY <1>2, <3>1, Constants DEF Typed
    <3>3. QED
      BY <1>1, <1>4, <1>5, <1>6, <3>1, <3>2, HandedKept
  <2>2. ASSUME NEW c \in Conns, c # 1 PROVE IsPrefix(heard'[c], SentOn(c)')
    <3>1. SentOn(c)' = SentOn(c)
      BY <1>1 DEF SentOn
    <3>2. IsPrefix(heard[c], SentOn(c))
      BY <1>2, <2>2 DEF Flow
    <3>3. CASE \A s \in R : agent[s] # c
      BY <1>8, <3>1, <3>2, <3>3
    <3>4. CASE \E s \in R : agent[s] = c
      <4>1. PICK s \in R : agent[s] = c
        BY <3>4
      <4>2. s \in Sess /\ s \in Range(active) /\ c # None /\ conn[s] = c
        BY <1>2, <1>4, <4>1, Constants DEF Connected
      <4>3. s # Dialer
        BY <1>2, <2>2, <4>2 DEF Dialling
      <4>4. s \in AcceptSess /\ sock[s] = "open"
        BY <1>2, <4>2, <4>3 DEF Lists, Serving, Looked, Served, Fresh
      <4>5. Kept(s)
        BY <1>2, <4>4 DEF Flow
      <4>6. heard'[c] = heard[c] \o rbuf[s]
        BY <1>4, <1>6, <4>1, HandedIs
      <4>7. PICK a, b, d : a = heard[c] /\ b = rbuf[s] /\ d = Data(cq, s)
        OBVIOUS
      <4>8. a \in Seq(Packets) /\ b \in Seq(Packets) /\ d \in Seq(Packets)
        BY <1>2, <4>2, <4>7, PartsAre DEF Completed
      <4>9. a \o b \o d = SentOn(c)
        BY <4>2, <4>5, <4>7 DEF Kept
      <4>10. IsPrefix(a \o b, a \o b \o d)
        <5>1. a \o b \in Seq(Packets)
          BY <4>8, ConcatProperties
        <5>2. QED
          BY <4>8, <5>1, PrefixConcat
      <4>11. QED
        BY <3>1, <4>6, <4>7, <4>9, <4>10
    <3>5. QED
      BY <3>3, <3>4
  <2>3. QED
    BY <2>1, <2>2 DEF Flow
<1>18. Lists'
  <2>1. ASSUME NEW t \in Sess PROVE (Fresh(t) => Fresh(t)') /\ (Serving(t) => Serving(t)')
    <3>1. rbuf'[t] \in {<<>>, rbuf[t]}
      BY <1>5
    <3>2. Quiet(t)' = Quiet(t)
      BY <1>1 DEF Quiet
    <3>3. Fresh(t) => Fresh(t)'
      BY <1>1, <3>1, <3>2 DEF Fresh
    <3>4. Served(t) => Served(t)'
      BY <1>1 DEF Served
    <3>5. QED
      BY <1>1, <3>3, <3>4 DEF Serving, Looked
  <2>2. \A s \in Range(acq') \cup Range(accepted') : Fresh(s)'
    <3>1. Range(accepted') = {}
      BY <1>1, RangeEmpty
    <3>2. \A s \in Range(acq) : s \in Sess /\ Fresh(s)
      BY <1>2, RangeIs, Constants DEF Typed, Lists
    <3>3. QED
      BY <1>1, <2>1, <3>1, <3>2
  <2>3. \A s \in Range(active') : Serving(s)'
    BY <1>1, <1>2, <1>4, <2>1 DEF Lists
  <2>4. pc' \notin {"bury", "fault", "onaccept"}
    BY <1>1, NextPlace
  <2>5. Accepting'
    <3>1. PICK l : l = accepted
      OBVIOUS
    <3>2. ASSUME NEW i \in DOMAIN l PROVE Fresh(l[i])' /\ ~(i < 1)
      <4>1. l[i] \in Range(accepted)
        BY <3>1 DEF Range
      <4>2. l[i] \in Sess /\ Fresh(l[i])
        BY <1>2, <4>1, RangeIs, Constants DEF Typed, Lists
      <4>3. i \in 1 .. Len(l)
        BY <1>2, <3>1, <3>2, LenProperties DEF Typed
      <4>4. Fresh(l[i])'
        BY <2>1, <4>2
      <4>5. QED
        BY <4>3, <4>4
    <3>3. temp' = l /\ at' = 1 /\ pc' # "onaccept"
      BY <1>1, <1>7, <2>4, <3>1
    <3>5. ASSUME NEW i \in DOMAIN temp' PROVE Fresh(temp[i])' /\ ~(i < at')
      <4>1. temp'[i] = l[i] /\ i \in DOMAIN l
        BY <3>3, <3>5
      <4>2. Fresh(l[i])' /\ ~(i < 1)
        BY <3>2, <4>1
      <4>3. Fresh(temp[i])'
        BY <4>1, <4>2 DEF Fresh, Quiet
      <4>4. QED
        BY <3>3, <4>2, <4>3
    <3>4. QED
      BY <3>3, <3>5 DEF Accepting
  <2>6. QED
    BY <2>2, <2>3, <2>4, <2>5 DEF Lists
<1>19. Counted'
  <2>1. Agents' = Agents
    BY <1>1 DEF Agents
  <2>2. pc' # "onconnect" /\ pc' # "onaccept"
    BY <1>1, NextPlace
  <2>3. QED
    BY <1>1, <1>2, <1>12, <2>1, <2>2 DEF Counted
<1>20. QED
  BY <1>9, <1>10, <1>11, <1>13, <1>14, <1>15, <1>16, <1>17, <1>18, <1>19 DEF Inv

-----------------------------------------------------------------------------
(* A session is given back.                                                *)

\* The completion that gives s back is put on the port.
LEMMA GivesBack ==
  ASSUME NEW s \in AcceptSess, NEW q \in Seq(Completion), Apart(q),
         \A d \in Range(q) : d.sess = s => d.type # "disconnect",
         NEW e \in Completion, e.type = "disconnect", e.sess = s
  PROVE  /\ Append(q, e) \in Seq(Completion) /\ Apart(Append(q, e))
         /\ Range(Append(q, e)) = Range(q) \cup {e}
         /\ \A t \in AcceptSess :
              Returns(Append(q, e), t) = Returns(q, t) + (IF t = s THEN 1 ELSE 0)
<1>1. \A d \in Range(q) : Follows(e, d)
  BY DEF Follows
<1>2. /\ Append(q, e) \in Seq(Completion) /\ Apart(Append(q, e))
      /\ Range(Append(q, e)) = Range(q) \cup {e}
  BY <1>1, AppendProperties, ApartAppend, RangeAppend
<1>3. ASSUME NEW t \in AcceptSess
      PROVE  Returns(Append(q, e), t) = Returns(q, t) + (IF t = s THEN 1 ELSE 0)
  <2>1. Returns(Append(q, e), t) = Returns(q, t) + (IF e.type = "disconnect" /\ e.sess = t THEN 1 ELSE 0)
    BY ReturnsAppend
  <2>2. QED
    BY <2>1
<1>4. QED
  BY <1>2, <1>3

\* What Reuse does to s: its socket is on its way back, or lost.
Freed(s) ==
  /\ cq' \in Seq(Completion) /\ Apart(cq') /\ Range(cq) \subseteq Range(cq')
  /\ \A e \in Range(cq') :
       \/ e \in Range(cq)
       \/ /\ e.sess = s /\ e.conn = conn[s] /\ e.type \in {"end", "disconnect"}
          /\ sock'[s] = "closing"
  /\ \A t \in AcceptSess :
       Returns(cq', t) = Returns(cq, t) + (IF t = s /\ sock'[s] = "closing" THEN 1 ELSE 0)
  /\ sock'[s] \in {"closing", "lost"} /\ \A t \in Sess \ {s} : sock'[t] = sock[t]
  /\ sock' \in [Sess -> {"listening", "open", "closing", "closed", "lost"}]
  /\ posted' = posted \ {s}

LEMMA ReuseIs ==
  ASSUME Inv, NEW s \in AcceptSess, sock[s] = "open", NEW reporting \in {port, port \cup {s}},
         Reuse(s, reporting)
  PROVE  /\ Freed(s)
         /\ s \in reporting => sock'[s] = "closing"
         /\ \A t \in Sess \ {s} : t \in port => t \in port'
         /\ port' \subseteq Sess
<1>1. Typed /\ Sockets /\ Completed
  BY DEF Inv
<1>2. s \in Sess /\ conn[s] # None
  BY <1>1, Constants DEF Sockets, Settled
<1>3. \A d \in Range(cq) : d.sess = s => d.type # "disconnect"
  BY <1>1 DEF Completed, Entry
<1>4. posted' = posted \ {s}
  BY DEF Reuse
<1>5. ASSUME NEW x \in {"closing", "lost"}, sock' = [sock EXCEPT ![s] = x]
      PROVE  /\ sock'[s] = x /\ \A t \in Sess \ {s} : sock'[t] = sock[t]
             /\ sock' \in [Sess -> {"listening", "open", "closing", "closed", "lost"}]
  BY <1>1, <1>2, <1>5 DEF Typed
<1>6. PICK q0, e : q0 = cq /\ e = Done("disconnect", s, 0)
  OBVIOUS
<1>7. q0 \in Seq(Completion) /\ Apart(q0) /\ \A d \in Range(q0) : d.sess = s => d.type # "disconnect"
  BY <1>1, <1>3, <1>6 DEF Typed, Completed
<1>14. e \in Completion /\ e.type = "disconnect" /\ e.sess = s /\ e.conn = conn[s]
  BY <1>1, <1>2, <1>6, DoneIs, Constants
<1>8. ASSUME s \in reporting, cq' = cq \o PendingRecv(s) \o <<Done("disconnect", s, 0)>>,
             sock' = [sock EXCEPT ![s] = "closing"], port' = reporting
      PROVE  Freed(s) /\ sock'[s] = "closing"
  <2>1. PICK p : p = cq \o PendingRecv(s)
    OBVIOUS
  <2>2. /\ p \in Seq(Completion) /\ Apart(p) /\ Range(cq) \subseteq Range(p)
        /\ \A d \in Range(p) :
             d \in Range(cq) \/ (d.sess = s /\ d.type = "end" /\ d.conn = conn[s] /\ s \in posted)
        /\ \A t \in AcceptSess : Returns(p, t) = Returns(cq, t)
    <3>1. s \in Sess /\ conn[s] # None /\ p = cq \o PendingRecv(s)
      BY <1>2, <2>1
    <3>2. Pended(s, p)
      BY <3>1, PendingIs
    <3>3. QED
      BY <3>2 DEF Pended
  <2>3. \A d \in Range(p) : d.sess = s => d.type # "disconnect"
    BY <1>3, <2>2
  <2>4. e \in Completion
    BY <1>14
  <2>5. PICK r : r = Append(p, e)
    OBVIOUS
  <2>6. cq' = r
    BY <1>6, <1>8, <2>1, <2>2, <2>4, <2>5, ConcatSingle
  <2>7. /\ r \in Seq(Completion) /\ Apart(r) /\ Range(r) = Range(p) \cup {e}
        /\ e.sess = s /\ e.conn = conn[s] /\ e.type = "disconnect"
        /\ \A t \in AcceptSess : Returns(r, t) = Returns(p, t) + (IF t = s THEN 1 ELSE 0)
    BY <1>14, <2>2, <2>3, <2>5, GivesBack
  <2>8. /\ sock'[s] = "closing" /\ \A t \in Sess \ {s} : sock'[t] = sock[t]
        /\ sock' \in [Sess -> {"listening", "open", "closing", "closed", "lost"}]
    BY <1>5, <1>8
  <2>9. cq' \in Seq(Completion) /\ Apart(cq') /\ Range(cq) \subseteq Range(cq')
    BY <2>2, <2>6, <2>7
  <2>10. \A d \in Range(cq') :
           \/ d \in Range(cq)
           \/ /\ d.sess = s /\ d.conn = conn[s] /\ d.type \in {"end", "disconnect"}
              /\ sock'[s] = "closing"
    BY <2>2, <2>6, <2>7, <2>8
  <2>11. \A t \in AcceptSess :
           Returns(cq', t) = Returns(cq, t) + (IF t = s /\ sock'[s] = "closing" THEN 1 ELSE 0)
    BY <2>2, <2>6, <2>7, <2>8
  <2>12. QED
    BY <1>4, <2>8, <2>9, <2>10, <2>11 DEF Freed
<1>9. ASSUME sock' = [sock EXCEPT ![s] = "lost"], cq' = cq
      PROVE  Freed(s)
  <2>1. /\ sock'[s] = "lost" /\ \A t \in Sess \ {s} : sock'[t] = sock[t]
        /\ sock' \in [Sess -> {"listening", "open", "closing", "closed", "lost"}]
    BY <1>5, <1>9
  <2>2. \A t \in AcceptSess : Returns(q0, t) \in Nat
    BY <1>7, ReturnsIs
  <2>3. \A t \in AcceptSess :
           Returns(cq', t) = Returns(cq, t) + (IF t = s /\ sock'[s] = "closing" THEN 1 ELSE 0)
    BY <1>6, <1>9, <2>1, <2>2
  <2>4. QED
    BY <1>4, <1>6, <1>7, <1>9, <2>1, <2>3 DEF Freed
<1>10. ASSUME cq' = Append(cq, Done("disconnect", s, 0)), sock' = [sock EXCEPT ![s] = "closing"]
       PROVE  Freed(s) /\ sock'[s] = "closing"
  <2>1. PICK r : r = Append(q0, e)
    OBVIOUS
  <2>2. cq' = r
    BY <1>6, <1>10, <2>1
  <2>3. /\ r \in Seq(Completion) /\ Apart(r) /\ Range(r) = Range(q0) \cup {e}
        /\ e.sess = s /\ e.conn = conn[s] /\ e.type = "disconnect"
        /\ \A t \in AcceptSess : Returns(r, t) = Returns(q0, t) + (IF t = s THEN 1 ELSE 0)
    BY <1>7, <1>14, <2>1, GivesBack
  <2>4. /\ sock'[s] = "closing" /\ \A t \in Sess \ {s} : sock'[t] = sock[t]
        /\ sock' \in [Sess -> {"listening", "open", "closing", "closed", "lost"}]
    BY <1>5, <1>10
  <2>5. cq' \in Seq(Completion) /\ Apart(cq') /\ Range(cq) \subseteq Range(cq')
    BY <1>6, <2>2, <2>3
  <2>6. \A d \in Range(cq') :
           \/ d \in Range(cq)
           \/ /\ d.sess = s /\ d.conn = conn[s] /\ d.type \in {"end", "disconnect"}
              /\ sock'[s] = "closing"
    BY <1>6, <2>2, <2>3, <2>4
  <2>7. \A t \in AcceptSess :
           Returns(cq', t) = Returns(cq, t) + (IF t = s /\ sock'[s] = "closing" THEN 1 ELSE 0)
    BY <1>6, <2>2, <2>3, <2>4
  <2>8. QED
    BY <1>4, <2>4, <2>5, <2>6, <2>7 DEF Freed
<1>11. /\ Freed(s)
       /\ s \in reporting => sock'[s] = "closing"
  <2>1. \/ /\ s \in reporting /\ port' = reporting
           /\ cq' = cq \o PendingRecv(s) \o <<Done("disconnect", s, 0)>>
           /\ sock' = [sock EXCEPT ![s] = "closing"]
        \/ /\ s \notin reporting /\ sock' = [sock EXCEPT ![s] = "lost"] /\ cq' = cq
        \/ /\ cq' = Append(cq, Done("disconnect", s, 0))
           /\ sock' = [sock EXCEPT ![s] = "closing"]
    BY DEF Reuse
  <2>2. QED
    BY <1>8, <1>9, <1>10, <2>1
<1>12. \A t \in Sess \ {s} : t \in port => t \in port'
  BY DEF Reuse
<1>13. port' \subseteq Sess
  BY <1>1, <1>2 DEF Reuse, Typed
<1>15. QED
  BY <1>11, <1>12, <1>13

\* What such a step keeps, when s is taken off m_pTempList.
Parted(s) ==
  /\ active' = active /\ accepted' = accepted /\ acq' = acq /\ dial' = dial
  /\ kill' = kill /\ rbuf' = rbuf /\ conn' = conn /\ sent' = sent /\ gone' = gone
  /\ made' = made /\ heard' = heard
  /\ temp' \in Seq(Sess) /\ \A t : Occ(temp, t) = (IF t = s THEN 1 ELSE 0) + Occ(temp', t)
  /\ agent'[s] = None /\ \A t \in Sess \ {s} : agent'[t] = agent[t]
  /\ passed \subseteq passed' /\ \A t \in Sess \ {s} : t \in port => t \in port'

LEMMA FreedInv ==
  ASSUME Inv, Typed', NEW s \in AcceptSess, sock[s] = "open", Freed(s), Parted(s),
         sock'[s] = "lost" => Quiet(s),
         pc # "onconnect", pc' # "onconnect"
  PROVE  /\ Once' /\ Dialling' /\ Connected' /\ Sockets' /\ Completed' /\ Flow'
         /\ Listed' = Listed /\ Agents' = Agents \ {s}
         /\ \A t \in Sess \ {s} : Kind(t)
         /\ s \notin Range(acq) \cup Range(accepted) \cup Range(active) \cup Range(temp')
<1>1. Typed /\ Once /\ Dialling /\ Connected /\ Sockets /\ Completed /\ Flow
  BY DEF Inv
<1>2. /\ cq' \in Seq(Completion) /\ Apart(cq') /\ Range(cq) \subseteq Range(cq')
      /\ \A e \in Range(cq') :
           \/ e \in Range(cq)
           \/ /\ e.sess = s /\ e.conn = conn[s] /\ e.type \in {"end", "disconnect"}
              /\ sock'[s] = "closing"
      /\ \A t \in AcceptSess :
           Returns(cq', t) = Returns(cq, t) + (IF t = s /\ sock'[s] = "closing" THEN 1 ELSE 0)
      /\ sock'[s] \in {"closing", "lost"} /\ \A t \in Sess \ {s} : sock'[t] = sock[t]
      /\ posted' = posted \ {s}
  BY DEF Freed
<1>3. /\ active' = active /\ accepted' = accepted /\ acq' = acq /\ dial' = dial
      /\ kill' = kill /\ rbuf' = rbuf /\ conn' = conn /\ sent' = sent /\ gone' = gone
      /\ made' = made /\ heard' = heard
      /\ temp' \in Seq(Sess) /\ \A t : Occ(temp, t) = (IF t = s THEN 1 ELSE 0) + Occ(temp', t)
      /\ agent'[s] = None /\ \A t \in Sess \ {s} : agent'[t] = agent[t]
      /\ passed \subseteq passed' /\ \A t \in Sess \ {s} : t \in port => t \in port'
  BY DEF Parted
<1>4. s \in Sess /\ s # Dialer /\ conn[s] # None /\ Dialer \in Sess /\ Dialer \in Sess \ {s}
  BY <1>1, Constants DEF Sockets, Settled
<1>5. Spared(s)
  <2>1. \A e : e.sess # s => (e \in Range(cq') <=> e \in Range(cq))
    BY <1>2
  <2>2. QED
    BY <1>2, <1>3, <2>1 DEF Spared, Same, Idle
<1>6. \A t \in Sess \ {s} : Kind(t)
  BY <1>2, <1>5, SparedIs
<1>7. sock'[s] = "lost" => Quiet(s)'
  BY <1>2 DEF Quiet
<1>8. Settled(s)'
  BY <1>2, <1>3, <1>4, <1>7 DEF Settled
<1>9. Sockets' /\ Completed' /\ Flow'
  <2>1. ASSUME NEW e \in Range(cq'), e.sess = s PROVE Entry(e)'
    <3>1. CASE e \in Range(cq)
      <4>1. Entry(e) /\ ~Quiet(s)
        BY <1>1, <2>1, <3>1 DEF Completed, Quiet
      <4>2. sock'[s] = "closing"
        BY <1>2, <4>1
      <4>3. e.type # "disconnect"
        BY <2>1, <4>1 DEF Entry
      <4>4. QED
        BY <1>2, <1>3, <2>1, <4>1, <4>2, <4>3 DEF Entry
    <3>2. CASE e \notin Range(cq)
      BY <1>2, <1>3, <2>1, <3>2 DEF Entry
    <3>3. QED
      BY <3>1, <3>2
  <2>2. \A c \in Conns : c # 1 => IsPrefix(heard'[c], SentOn(c)')
    BY <1>1, <1>3 DEF Flow, SentOn
  <2>3. sock'[s] # "open"
    BY <1>2
  <2>4. QED
    BY <1>2, <1>5, <1>8, <2>1, <2>2, <2>3, SparedInv
<1>10. Once'
  <2>1. ASSUME NEW t \in AcceptSess
        PROVE  /\ Places(t)' = IF sock'[t] \in {"listening", "lost"} THEN 0 ELSE 1
               /\ Returns(cq', t) = IF sock'[t] = "closing" THEN 1 ELSE 0
    <3>1. PICK a, b, x, y, z : /\ a = Occ(acq, t) /\ b = Occ(accepted, t) /\ x = Occ(temp', t)
                               /\ y = Occ(active, t) /\ z = Returns(cq, t)
      OBVIOUS
    <3>2. a \in Nat /\ b \in Nat /\ x \in Nat /\ y \in Nat /\ z \in Nat
      BY <1>1, <1>3, <3>1, OccsAre, OccIs
    <3>3. /\ a + b + Occ(temp, t) + y + z = IF sock[t] \in {"listening", "lost"} THEN 0 ELSE 1
          /\ z = IF sock[t] = "closing" THEN 1 ELSE 0
      BY <1>1, <3>1 DEF Once, Places
    <3>4. Places(t)' = a + b + x + y + Returns(cq', t)
      BY <1>3, <3>1 DEF Places
    <3>5. CASE t = s
      <4>1. a + b + (1 + x) + y + z = 1 /\ z = 0
        BY <1>3, <3>1, <3>3, <3>5
      <4>2. a = 0 /\ b = 0 /\ x = 0 /\ y = 0
        BY <3>2, <4>1
      <4>3. CASE sock'[s] = "closing"
        <5>1. Returns(cq', t) = 1
          <6>1. Returns(cq', t) = z + (IF t = s /\ sock'[s] = "closing" THEN 1 ELSE 0)
            BY <1>2, <3>1
          <6>2. QED
            BY <3>5, <4>1, <4>3, <6>1
        <5>2. Places(t)' = 1
          BY <3>4, <4>2, <5>1
        <5>3. QED
          BY <3>5, <4>3, <5>1, <5>2
      <4>4. CASE sock'[s] = "lost"
        <5>1. Returns(cq', t) = 0
          <6>1. Returns(cq', t) = z + (IF t = s /\ sock'[s] = "closing" THEN 1 ELSE 0)
            BY <1>2, <3>1
          <6>2. QED
            BY <4>1, <4>4, <6>1
        <5>2. Places(t)' = 0
          BY <3>4, <4>2, <5>1
        <5>3. QED
          BY <3>5, <4>4, <5>1, <5>2
      <4>5. QED
        BY <1>2, <4>3, <4>4
    <3>6. CASE t # s
      <4>1. Occ(temp, t) = x /\ Returns(cq', t) = z
        BY <1>2, <1>3, <3>1, <3>2, <3>6
      <4>2. sock'[t] = sock[t]
        BY <1>2, <3>6, Constants
      <4>3. QED
        BY <3>3, <3>4, <4>1, <4>2
    <3>7. QED
      BY <3>5, <3>6
  <2>2. QED
    BY <2>1 DEF Once
<1>11. Listed' = Listed
  <2>1. Occ(temp', Dialer) \in Nat
    BY <1>3, OccIs
  <2>2. Occ(temp, Dialer) = Occ(temp', Dialer)
    BY <1>3, <1>4, <2>1
  <2>3. QED
    BY <1>3, <2>2 DEF Listed
<1>12. Dialling'
  <2>1. Quiet(Dialer) => Quiet(Dialer)'
    BY <1>4, <1>6 DEF Kind
  <2>2. sock'[Dialer] = sock[Dialer] /\ agent'[Dialer] = agent[Dialer]
    BY <1>2, <1>3, <1>4
  <2>3. QED
    BY <1>1, <1>3, <1>11, <2>1, <2>2 DEF Dialling
<1>13. Connected'
  BY <1>1, <1>3 DEF Connected
<1>14. Agents' = Agents \ {s}
  <2>1. \A t \in AcceptSess : t # s => agent'[t] = agent[t]
    BY <1>3, Constants
  <2>2. QED
    BY <1>3, <2>1 DEF Agents
<1>15. s \notin Range(acq) \cup Range(accepted) \cup Range(active) \cup Range(temp')
  <2>1. Occ(temp', s) \in Nat /\ Occ(temp, s) = 1 + Occ(temp', s)
    BY <1>3, OccIs
  <2>2. Occ(temp, s) <= 1 /\ (s \in Range(temp) => s \notin Range(acq) \cup Range(accepted) \cup Range(active))
    BY <1>1, AloneIs DEF Alone
  <2>3. Occ(temp', s) = 0 /\ Occ(temp, s) # 0
    BY <2>1, <2>2
  <2>4. s \in Range(temp)
    BY <1>1, <2>3, OccsAre
  <2>5. s \notin Range(temp')
    BY <1>3, <2>3, OccIn
  <2>6. QED
    BY <2>2, <2>4, <2>5
<1>16. QED
  BY <1>6, <1>9, <1>10, <1>11, <1>12, <1>13, <1>14, <1>15

-----------------------------------------------------------------------------
(* ProcessAcceptedSessionList.                                             *)

\* The session that it is at.
LEMMA AtIs ==
  ASSUME Inv, pc \in {"accepted", "onaccept"}, at <= Len(temp)
  PROVE  /\ at \in Nat \ {0} /\ at \in 1 .. Len(temp) /\ DOMAIN temp = 1 .. Len(temp)
         /\ Len(temp) \in Nat /\ temp \in Seq(Sess) /\ temp[at] \in AcceptSess
         /\ pc = "accepted" => Fresh(temp[at])
         /\ pc = "onaccept" => Starting(temp[at])
         /\ \A i \in 1 .. Len(temp) : /\ i < at => Looked(temp[i])
                                      /\ i > at => Fresh(temp[i])
<1>1. Typed /\ Lists
  BY DEF Inv
<1>2. temp \in Seq(Sess) /\ Len(temp) \in Nat /\ DOMAIN temp = 1 .. Len(temp) /\ at \in Nat \ {0}
  BY <1>1, LenProperties DEF Typed
<1>3. at \in 1 .. Len(temp)
  BY <1>2
<1>4. Accepting
  BY <1>1 DEF Lists
<1>5. /\ pc = "accepted" => Fresh(temp[at])
      /\ pc = "onaccept" => Starting(temp[at])
      /\ \A i \in 1 .. Len(temp) : /\ i < at => Looked(temp[i])
                                   /\ i > at => Fresh(temp[i])
  BY <1>2, <1>3, <1>4 DEF Accepting
<1>6. temp[at] \in AcceptSess
  BY <1>5 DEF Fresh, Starting
<1>7. QED
  BY <1>2, <1>3, <1>5, <1>6

\* It is taken off the list.
Erased ==
  /\ temp' \in Seq(Sess) /\ Len(temp') = Len(temp) - 1
  /\ \A i \in 1 .. Len(temp) - 1 : temp'[i] = IF i < at THEN temp[i] ELSE temp[i + 1]
  /\ \A t : Occ(temp, t) = (IF t = temp[at] THEN 1 ELSE 0) + Occ(temp', t)
  /\ at' \in Nat \ {0} /\ at' <= Len(temp')  + 1
  /\ passed \subseteq passed' /\ passed' \subseteq AcceptSess
  /\ at > 1 => at' = at
  /\ at = 1 /\ Len(temp) > 1 => at' = 2 /\ temp[2] \in passed'

LEMMA EraseIs ==
  ASSUME Inv, pc = "accepted", at <= Len(temp), EraseAt
  PROVE  Erased
<1>1. /\ at \in Nat \ {0} /\ at \in 1 .. Len(temp) /\ DOMAIN temp = 1 .. Len(temp)
      /\ Len(temp) \in Nat /\ temp \in Seq(Sess)
      /\ \A i \in 1 .. Len(temp) : /\ i < at => Looked(temp[i])
                                   /\ i > at => Fresh(temp[i])
  BY AtIs
<1>2. PICK q, k, r, n : q = temp /\ k = at /\ r = RemoveAt(q, k) /\ n = Len(q)
  OBVIOUS
<1>3. q \in Seq(Sess) /\ k \in 1 .. Len(q) /\ n \in Nat /\ k \in 1 .. n /\ temp' = r
  BY <1>1, <1>2 DEF EraseAt
<1>4. /\ r \in Seq(Sess) /\ Len(r) = n - 1
      /\ \A i \in 1 .. n - 1 : r[i] = IF i < k THEN q[i] ELSE q[i + 1]
  <2>1. q \in Seq(Sess) /\ k \in 1 .. Len(q)
    BY <1>3
  <2>2. /\ RemoveAt(q, k) \in Seq(Sess) /\ Len(RemoveAt(q, k)) = Len(q) - 1
        /\ \A i \in 1 .. Len(q) - 1 : RemoveAt(q, k)[i] = IF i < k THEN q[i] ELSE q[i + 1]
    BY ONLY <2>1, RemoveAtIs
  <2>3. QED
    BY <1>2, <2>2
<1>5. \A t : Occ(q, t) = (IF t = q[k] THEN 1 ELSE 0) + Occ(r, t)
  BY <1>2, <1>3, OccRemoveAt
<1>6. passed \subseteq AcceptSess
  BY DEF Inv, Typed
<1>7. CASE k > 1
  <2>1. at' = at /\ passed' = passed
    BY <1>2, <1>7 DEF EraseAt
  <2>2. at' <= Len(temp') + 1 /\ at' \in Nat \ {0}
    BY <1>2, <1>3, <1>4, <1>7, <2>1
  <2>3. QED
    BY <1>2, <1>3, <1>4, <1>5, <1>6, <1>7, <2>1, <2>2 DEF Erased
<1>8. CASE k = 1 /\ n > 1
  <2>1. at' = 2 /\ passed' = passed \cup {temp[2]}
    BY <1>2, <1>8 DEF EraseAt
  <2>2. 2 \in 1 .. Len(temp) /\ 2 > at
    BY <1>2, <1>3, <1>8
  <2>3. temp[2] \in AcceptSess
    BY <1>1, <2>2 DEF Fresh
  <2>4. at' <= Len(temp') + 1 /\ at' \in Nat \ {0}
    BY <1>2, <1>3, <1>4, <1>8, <2>1
  <2>5. QED
    BY <1>2, <1>3, <1>4, <1>5, <1>6, <1>8, <2>1, <2>3, <2>4 DEF Erased
<1>9. CASE k = 1 /\ ~(n > 1)
  <2>1. at' = 1 /\ passed' = passed
    BY <1>2, <1>9 DEF EraseAt
  <2>2. at' <= Len(temp') + 1 /\ at' \in Nat \ {0}
    BY <1>2, <1>3, <1>4, <1>9, <2>1
  <2>3. QED
    BY <1>2, <1>3, <1>4, <1>5, <1>6, <1>9, <2>1, <2>2 DEF Erased
<1>10. QED
  BY <1>3, <1>7, <1>8, <1>9

LEMMA ErasedLists ==
  ASSUME Inv, pc = "accepted", pc' = "accepted", at <= Len(temp), Erased,
         active' = active, acq' = acq, accepted' = accepted, dial' = dial,
         \A t \in Sess \ {temp[at]} : Kind(t),
         temp[at] \notin Range(acq) \cup Range(accepted) \cup Range(active) \cup Range(temp')
  PROVE  Phased' /\ Lists'
<1>1. /\ temp' \in Seq(Sess) /\ Len(temp') = Len(temp) - 1
      /\ \A i \in 1 .. Len(temp) - 1 : temp'[i] = IF i < at THEN temp[i] ELSE temp[i + 1]
      /\ at' \in Nat \ {0} /\ at' <= Len(temp') + 1
      /\ at > 1 => at' = at
      /\ at = 1 /\ Len(temp) > 1 => at' = 2 /\ temp[2] \in passed'
  BY DEF Erased
<1>2. /\ at \in Nat \ {0} /\ Len(temp) \in Nat
      /\ \A i \in 1 .. Len(temp) : /\ i < at => Looked(temp[i])
                                   /\ i > at => Fresh(temp[i])
  BY AtIs
<1>3. Phased'
  BY <1>1 DEF Phased
<1>4. DOMAIN temp' = 1 .. Len(temp) - 1
  BY <1>1, LenProperties
<1>13. PICK l : l = temp'
  OBVIOUS
<1>5. \A i \in 1 .. Len(temp) - 1 : Kind(l[i])
  <2>1. \A i \in 1 .. Len(temp) - 1 : l[i] \in Range(temp') /\ l[i] \in Sess
    BY <1>1, <1>4, <1>13, ElementOfSeq DEF Range
  <2>2. QED
    BY <2>1
<1>6. ASSUME NEW i \in 1 .. Len(temp) - 1
      PROVE  /\ i < at' => Looked(temp[i])'
             /\ i >= at' => Fresh(temp[i])'
  <2>1. CASE i < at
    <3>1. at > 1 /\ at' = at /\ i \in 1 .. Len(temp) /\ temp'[i] = temp[i] /\ i < at'
      BY <1>1, <1>2, <2>1
    <3>2. PICK x : x = l[i] /\ x = temp'[i]
      BY <1>13
    <3>3. Looked(x)
      BY <1>2, <2>1, <3>1, <3>2
    <3>8. Kind(x)
      BY <1>5, <3>2
    <3>4. Looked(x)'
      BY <3>3, <3>8 DEF Kind
    <3>5. Looked(temp[i])'
      BY <3>2, <3>4 DEF Looked, Served, Fresh, Quiet
    <3>6. ~(i >= at')
      BY <1>1, <1>2, <3>1
    <3>7. QED
      BY <3>5, <3>6
  <2>2. CASE ~(i < at)
    <3>1. i + 1 \in 1 .. Len(temp) /\ i + 1 > at /\ temp'[i] = temp[i + 1]
      BY <1>1, <1>2, <2>2
    <3>2. PICK x : x = l[i] /\ x = temp'[i]
      BY <1>13
    <3>3. Fresh(x)
      BY <1>2, <3>1, <3>2
    <3>8. Kind(x)
      BY <1>5, <3>2
    <3>4. Fresh(x)'
      BY <3>3, <3>8 DEF Kind
    <3>5. Fresh(temp[i])'
      BY <3>2, <3>4 DEF Fresh, Quiet
    <3>6. ASSUME i < at' PROVE Looked(temp[i])'
      <4>1. at = 1
        BY <1>1, <1>2, <2>2, <3>6
      <4>2. Len(temp) > 1
        BY <1>2
      <4>3. at' = 2 /\ temp[2] \in passed'
        BY <1>1, <4>1, <4>2
      <4>4. i = 1 /\ i + 1 = 2
        BY <3>6, <4>3
      <4>5. temp'[i] \in passed'
        BY <3>1, <4>3, <4>4
      <4>6. QED
        BY <3>5, <4>5 DEF Looked
    <3>7. QED
      BY <3>5, <3>6
  <2>3. QED
    BY <2>1, <2>2
<1>7. Accepting'
  <2>1. \A i \in 1 .. Len(temp) - 1 :
          /\ i < at' => Looked(temp[i])'
          /\ i = at' => Fresh(temp[i])'
          /\ i > at' => Fresh(temp[i])'
    BY <1>1, <1>6
  <2>2. pc' # "onaccept"
    OBVIOUS
  <2>3. QED
    BY <1>4, <2>1, <2>2 DEF Accepting
<1>8. Lists /\ Typed
  BY DEF Inv
<1>9. \A t \in Range(active') : Serving(t)'
  <2>1. \A t \in Range(active) : t \in Sess \ {temp[at]} /\ Serving(t)
    BY <1>8, RangeIs DEF Lists, Typed
  <2>2. QED
    BY <2>1 DEF Kind
<1>10. \A t \in Range(acq') \cup Range(accepted') : Fresh(t)'
  <2>1. \A t \in Range(acq) \cup Range(accepted) : t \in Sess \ {temp[at]} /\ Fresh(t)
    BY <1>8, RangeIs, Constants DEF Lists, Typed
  <2>2. QED
    BY <2>1 DEF Kind
<1>11. Lists'
  BY <1>7, <1>9, <1>10 DEF Lists
<1>12. QED
  BY <1>3, <1>11

\* It is given back, for the reason that there are too many or that it is gone.
LEMMA DroppedInv ==
  ASSUME Inv, pc = "accepted", at <= Len(temp), pc' = pc, NEW s, s = temp[at],
         NEW reporting \in {port, port \cup {s}}, Reuse(s, reporting), EraseAt,
         UNCHANGED <<active, count, agent, shared, conn, acq, sent, gone, made, heard>>
  PROVE  Inv'
<1>1. /\ active' = active /\ count' = count /\ agent' = agent /\ accepted' = accepted
      /\ dial' = dial /\ kill' = kill /\ rbuf' = rbuf /\ conn' = conn /\ acq' = acq
      /\ sent' = sent /\ gone' = gone /\ made' = made /\ heard' = heard
  BY DEF shared
<1>2. Typed /\ Counted
  BY DEF Inv
<1>3. s \in AcceptSess /\ Fresh(s) /\ s \in Sess
  BY AtIs, Constants
<1>4. sock[s] = "open" /\ agent[s] = None /\ Quiet(s)
  BY <1>3 DEF Fresh
<1>5. /\ Freed(s)
      /\ \A t \in Sess \ {s} : t \in port => t \in port'
      /\ port' \subseteq Sess
  BY <1>3, <1>4, ReuseIs
<1>6. Erased
  BY EraseIs
<1>7. /\ temp' \in Seq(Sess) /\ at' \in Nat \ {0} /\ passed \subseteq passed' /\ passed' \subseteq AcceptSess
      /\ \A t : Occ(temp, t) = (IF t = s THEN 1 ELSE 0) + Occ(temp', t)
  BY <1>6 DEF Erased
<1>8. Typed'
  <2>1. /\ cq' \in Seq(Completion) /\ posted' \subseteq Sess
        /\ sock' \in [Sess -> {"listening", "open", "closing", "closed", "lost"}]
    BY <1>2, <1>5 DEF Freed, Typed
  <2>2. QED
    BY <1>1, <1>2, <1>5, <1>7, <2>1 DEF Typed
<1>9. Parted(s)
  BY <1>1, <1>4, <1>5, <1>7 DEF Parted
<1>10. /\ Once' /\ Dialling' /\ Connected' /\ Sockets' /\ Completed' /\ Flow'
       /\ Listed' = Listed /\ Agents' = Agents \ {s}
       /\ \A t \in Sess \ {s} : Kind(t)
       /\ s \notin Range(acq) \cup Range(accepted) \cup Range(active) \cup Range(temp')
  <2>1. pc # "onconnect" /\ pc' # "onconnect"
    OBVIOUS
  <2>2. QED
    BY <1>3, <1>4, <1>5, <1>8, <1>9, <2>1, FreedInv
<1>11. Phased' /\ Lists'
  <2>1. pc' = "accepted"
    OBVIOUS
  <2>2. /\ \A t \in Sess \ {temp[at]} : Kind(t)
        /\ temp[at] \notin Range(acq) \cup Range(accepted) \cup Range(active) \cup Range(temp')
    BY <1>10
  <2>3. QED
    BY <1>1, <1>6, <2>1, <2>2, ErasedLists
<1>12. Counted'
  <2>1. Agents' = Agents
    BY <1>4, <1>10 DEF Agents
  <2>2. QED
    BY <1>1, <1>2, <1>10, <2>1 DEF Counted
<1>13. QED
  BY <1>8, <1>10, <1>11, <1>12 DEF Inv

LEMMA RefuseInv ==
  ASSUME Inv, Refuse
  PROVE  Inv'
<1>1. PICK s, p : s = temp[at] /\ p = port
  OBVIOUS
<1>2. /\ pc = "accepted" /\ at <= Len(temp) /\ Reuse(s, p) /\ EraseAt /\ pc' = pc
      /\ UNCHANGED <<active, count, agent, shared, conn, acq, sent, gone, made, heard>>
  BY <1>1 DEF Refuse
<1>3. p \in {port, port \cup {s}}
  BY <1>1
<1>4. QED
  BY <1>1, <1>2, <1>3, DroppedInv

\* A receive is posted for a session that had none.
Receives(s) ==
  /\ cq' \in Seq(Completion) /\ Apart(cq') /\ Range(cq) \subseteq Range(cq')
  /\ \A e \in Range(cq') :
       e \in Range(cq) \/ (e.sess = s /\ e.type = "end" /\ e.conn = conn[s])
  /\ \A t \in AcceptSess : Returns(cq', t) = Returns(cq, t)
  /\ \A t \in Sess \ {s} : t \in posted' <=> t \in posted
  /\ posted' \subseteq posted \cup {s}
  /\ sock[s] = "open"

LEMMA PostRecvIs ==
  ASSUME Inv, NEW s \in Sess, conn[s] # None, Quiet(s), PostRecv(s, cq)
  PROVE  Receives(s)
<1>1. cq \in Seq(Completion) /\ Apart(cq)
  BY DEF Inv, Typed, Completed
<1>2. sock[s] = "open"
  BY DEF PostRecv
<1>3. CASE cq' = cq
  <2>1. posted' = posted \/ posted' = posted \cup {s}
    BY DEF PostRecv
  <2>2. QED
    BY <1>1, <1>2, <1>3, <2>1 DEF Receives
<1>4. CASE cq' # cq
  <2>1. PICK e : e = Done("end", s, 0)
    OBVIOUS
  <2>2. cq' = Append(cq, e) /\ posted' = posted
    BY <1>4, <2>1 DEF PostRecv
  <2>3. e \in Completion /\ e.type = "end" /\ e.sess = s /\ e.conn = conn[s]
    BY <2>1, DoneIs, Constants DEF Inv
  <2>4. \A d \in Range(cq) : Follows(e, d)
    BY <2>3 DEF Follows, Quiet
  <2>5. /\ cq' \in Seq(Completion) /\ Apart(cq') /\ Range(cq') = Range(cq) \cup {e}
        /\ \A t \in AcceptSess : Returns(cq', t) = Returns(cq, t)
    BY <2>2, <2>3, <2>4, PushIs
  <2>6. QED
    BY <1>2, <2>2, <2>3, <2>5 DEF Receives
<1>5. QED
  BY <1>3, <1>4

LEMMA AcceptedInv ==
  ASSUME Inv, pc = "accepted", at <= Len(temp), count < MaxAccept,
         NEW s, s = temp[at], PostRecv(s, cq), port' = port \cup {s}, pc' = "onaccept",
         sock' = sock, temp' = temp, at' = at, passed' = passed,
         UNCHANGED <<active, count, agent, shared, conn, acq, sent, gone, made, heard>>
  PROVE  Inv'
<1>1. /\ active' = active /\ count' = count /\ agent' = agent /\ accepted' = accepted
      /\ dial' = dial /\ kill' = kill /\ rbuf' = rbuf /\ conn' = conn /\ acq' = acq
      /\ sent' = sent /\ gone' = gone /\ made' = made /\ heard' = heard
  BY DEF shared
<1>2. Typed /\ Phased /\ Once /\ Dialling /\ Connected /\ Sockets /\ Lists /\ Completed
      /\ Flow /\ Counted
  BY DEF Inv
<1>3. /\ s \in AcceptSess /\ Fresh(s) /\ s \in Sess /\ s # Dialer /\ temp \in Seq(Sess)
      /\ DOMAIN temp = 1 .. Len(temp) /\ at \in 1 .. Len(temp)
      /\ \A i \in 1 .. Len(temp) : /\ i < at => Looked(temp[i])
                                   /\ i > at => Fresh(temp[i])
  BY AtIs, Constants
<1>4. sock[s] = "open" /\ agent[s] = None /\ Quiet(s) /\ conn[s] # None
  BY <1>2, <1>3 DEF Fresh, Sockets, Settled
<1>5. Receives(s)
  BY <1>3, <1>4, PostRecvIs
<1>6. /\ cq' \in Seq(Completion) /\ Apart(cq') /\ Range(cq) \subseteq Range(cq')
      /\ \A e \in Range(cq') :
           e \in Range(cq) \/ (e.sess = s /\ e.type = "end" /\ e.conn = conn[s])
      /\ \A t \in AcceptSess : Returns(cq', t) = Returns(cq, t)
      /\ \A t \in Sess \ {s} : t \in posted' <=> t \in posted
      /\ posted' \subseteq posted \cup {s}
  BY <1>5 DEF Receives
<1>7. Typed'
  <2>1. posted' \subseteq Sess /\ port' \subseteq Sess
    BY <1>2, <1>3, <1>6 DEF Typed
  <2>2. QED
    BY <1>1, <1>2, <1>6, <2>1 DEF Typed
<1>8. Spared(s)
  <2>1. \A e : e.sess # s => (e \in Range(cq') <=> e \in Range(cq))
    BY <1>6
  <2>2. QED
    BY <1>1, <1>6, <2>1 DEF Spared, Same, Idle
<1>9. \A t \in Sess \ {s} : Kind(t)
  BY <1>6, <1>7, <1>8, SparedIs
<1>10. Kept(s)'
  <2>1. Kept(s) /\ cq \in Seq(Completion) /\ Apart(cq)
    BY <1>2, <1>3, <1>4 DEF Flow, Typed, Completed
  <2>2. \A e : IsData(e, s) => (e \in Range(cq') <=> e \in Range(cq))
    BY <1>6 DEF IsData
  <2>3. Idle(s)
    BY <1>1 DEF Idle
  <2>4. QED
    BY <1>1, <1>6, <2>1, <2>2, <2>3, KeptStays
<1>11. Settled(s)'
  BY <1>1, <1>4 DEF Settled
<1>12. Sockets' /\ Completed' /\ Flow'
  <2>1. ASSUME NEW e \in Range(cq'), e.sess = s PROVE Entry(e)'
    <3>1. e.type = "end" /\ e.conn = conn[s]
      BY <1>4, <1>6, <2>1 DEF Quiet
    <3>2. QED
      BY <1>1, <1>4, <2>1, <3>1 DEF Entry
  <2>2. \A c \in Conns : c # 1 => IsPrefix(heard'[c], SentOn(c)')
    BY <1>1, <1>2 DEF Flow, SentOn
  <2>3. QED
    BY <1>6, <1>7, <1>8, <1>10, <1>11, <2>1, <2>2, SparedInv
<1>13. Phased'
  BY <1>2 DEF Phased
<1>14. Once'
  <2>1. \A t \in AcceptSess : Places(t)' = Places(t)
    BY <1>1, <1>6 DEF Places
  <2>2. QED
    BY <1>2, <1>6, <2>1 DEF Once
<1>15. Dialling'
  <2>1. Quiet(Dialer) => Quiet(Dialer)'
    BY <1>3, <1>9, Constants DEF Kind
  <2>2. Listed' = Listed
    BY <1>1 DEF Listed
  <2>3. QED
    BY <1>1, <1>2, <2>1, <2>2 DEF Dialling
<1>16. Connected'
  BY <1>1, <1>2 DEF Connected
<1>17. Lists'
  <2>1. Alone(s)
    BY <1>2, <1>3, AloneIs
  <2>2. s \in Range(temp)
    BY <1>3 DEF Range
  <2>3. s \notin Range(acq) \cup Range(accepted) \cup Range(active)
    BY <2>1, <2>2 DEF Alone
  <2>4. \A t \in Range(active') : Serving(t)'
    <3>1. \A t \in Range(active) : t \in Sess \ {s} /\ Serving(t)
      BY <1>2, <2>3, RangeIs DEF Lists, Typed
    <3>2. QED
      BY <1>1, <1>9, <3>1 DEF Kind
  <2>5. \A t \in Range(acq') \cup Range(accepted') : Fresh(t)'
    <3>1. \A t \in Range(acq) \cup Range(accepted) : t \in Sess \ {s} /\ Fresh(t)
      BY <1>2, <2>3, RangeIs, Constants DEF Lists, Typed
    <3>2. QED
      BY <1>1, <1>9, <3>1 DEF Kind
  <2>6. Starting(s)'
    BY <1>1, <1>3, <1>4 DEF Starting
  <2>7. ASSUME NEW i \in 1 .. Len(temp), i # at PROVE Kind(temp[i])
    <3>1. Occ(temp, s) <= 1
      BY <2>1 DEF Alone
    <3>2. temp[i] # s
      BY <1>3, <2>7, <3>1, OccOnce
    <3>3. temp[i] \in Sess
      BY <1>3, ElementOfSeq
    <3>4. QED
      BY <1>9, <3>2, <3>3
  <2>8. ASSUME NEW i \in 1 .. Len(temp)
        PROVE  /\ i < at => Looked(temp[i])'
               /\ i = at => Starting(temp[i])'
               /\ i > at => Fresh(temp[i])'
    <3>1. PICK x : x = temp[i]
      OBVIOUS
    <3>2. i = at => Starting(x)'
      BY <2>6, <3>1
    <3>3. i < at => Looked(x)'
      <4>1. i < at => i # at
        BY <1>3
      <4>2. i < at => Kind(x) /\ Looked(x)
        BY <1>3, <2>7, <3>1, <4>1
      <4>3. QED
        BY <4>2 DEF Kind
    <3>4. i > at => Fresh(x)'
      <4>1. i > at => i # at
        BY <1>3
      <4>2. i > at => Kind(x) /\ Fresh(x)
        BY <1>3, <2>7, <3>1, <4>1
      <4>3. QED
        BY <4>2 DEF Kind
    <3>5. temp'[i] = x
      BY <3>1
    <3>6. QED
      BY <3>2, <3>3, <3>4, <3>5 DEF Looked, Served, Fresh, Starting, Quiet
  <2>9. Accepting'
    BY <1>3, <2>8 DEF Accepting
  <2>10. QED
    BY <2>4, <2>5, <2>9 DEF Lists
<1>18. Counted'
  <2>1. Agents' = Agents /\ Listed' = Listed
    BY <1>1 DEF Agents, Listed
  <2>2. QED
    BY <1>1, <1>2, <2>1 DEF Counted
<1>19. QED
  BY <1>7, <1>12, <1>13, <1>14, <1>15, <1>16, <1>17, <1>18 DEF Inv

LEMMA AcceptInv ==
  ASSUME Inv, Accept
  PROVE  Inv'
<1>1. PICK s, p : s = temp[at] /\ p = port \cup {s}
  OBVIOUS
<1>2. /\ pc = "accepted" /\ at <= Len(temp) /\ ~IsFull
      /\ \/ /\ PostRecv(s, cq) /\ port' = port \cup {s} /\ pc' = "onaccept"
            /\ UNCHANGED <<sock, temp, at, passed>>
         \/ Reuse(s, p) /\ EraseAt /\ pc' = pc
      /\ UNCHANGED <<active, count, agent, shared, conn, acq, sent, gone, made, heard>>
  BY <1>1 DEF Accept
<1>3. count < MaxAccept
  <2>1. count \in Nat /\ MaxAccept \in Nat
    BY Constants DEF Inv, Typed
  <2>2. QED
    BY <1>2, <2>1 DEF IsFull
<1>4. CASE /\ PostRecv(s, cq) /\ port' = port \cup {s} /\ pc' = "onaccept"
           /\ UNCHANGED <<sock, temp, at, passed>>
  <2>1. sock' = sock /\ temp' = temp /\ at' = at /\ passed' = passed
    BY <1>4
  <2>2. QED
    BY <1>1, <1>2, <1>3, <1>4, <2>1, AcceptedInv
<1>5. CASE Reuse(s, p) /\ EraseAt /\ pc' = pc
  <2>1. p \in {port, port \cup {s}}
    BY <1>1
  <2>2. QED
    BY <1>1, <1>2, <1>5, <2>1, DroppedInv
<1>6. QED
  BY <1>2, <1>4, <1>5

LEMMA AgentsAre == IsFiniteSet(Agents) /\ Cardinality(Agents) \in Nat
                   /\ Cardinality(Agents) <= Cardinality(AcceptSess)
                   /\ Cardinality(AcceptSess) \in Nat
<1>1. Agents \in SUBSET AcceptSess /\ IsFiniteSet(AcceptSess)
  BY Constants DEF Agents
<1>2. QED
  BY <1>1, FS_Subset, FS_CardinalityType

LEMMA ListedIs ==
  ASSUME Typed
  PROVE  Listed \in Nat
<1>1. Occ(temp, Dialer) \in Nat /\ Occ(active, Dialer) \in Nat
  BY OccsAre
<1>2. QED
  BY <1>1 DEF Listed

LEMMA OnAcceptInv ==
  ASSUME Inv, OnAccept
  PROVE  Inv'
<1>1. PICK s, c : s = temp[at] /\ c = conn[s]
  OBVIOUS
<1>2. /\ pc = "onaccept" /\ pc' = "accepted"
      /\ agent' = [agent EXCEPT ![s] = c] /\ kill' = [kill EXCEPT ![s] = None]
      /\ count' = count + 1 /\ at' = at + 1
      /\ temp' = temp /\ active' = active /\ accepted' = accepted /\ dial' = dial
      /\ rbuf' = rbuf /\ sock' = sock /\ conn' = conn /\ port' = port /\ posted' = posted
      /\ cq' = cq /\ acq' = acq /\ sent' = sent /\ gone' = gone /\ made' = made
      /\ heard' = heard /\ passed' = passed
  BY <1>1 DEF OnAccept, net
<1>3. Typed /\ Phased /\ Once /\ Dialling /\ Connected /\ Sockets /\ Lists /\ Completed
      /\ Flow /\ Counted
  BY DEF Inv
<1>4. at <= Len(temp)
  BY <1>2, <1>3 DEF Phased
<1>5. /\ s \in AcceptSess /\ Starting(s) /\ s \in Sess /\ s # Dialer /\ temp \in Seq(Sess)
      /\ DOMAIN temp = 1 .. Len(temp) /\ at \in 1 .. Len(temp) /\ Len(temp) \in Nat
      /\ \A i \in 1 .. Len(temp) : /\ i < at => Looked(temp[i])
                                   /\ i > at => Fresh(temp[i])
  BY <1>1, <1>2, <1>4, AtIs, Constants
<1>6. sock[s] = "open" /\ agent[s] = None /\ s \in port /\ c # None /\ c \in Conns
  <2>1. sock[s] = "open" /\ agent[s] = None /\ s \in port
    BY <1>5 DEF Starting
  <2>2. c # None
    BY <1>1, <1>3, <1>5, <2>1 DEF Sockets, Settled
  <2>3. QED
    BY <1>1, <1>3, <1>5, <2>1, <2>2 DEF Typed
<1>7. /\ agent'[s] = c /\ kill'[s] = None
      /\ \A t \in Sess \ {s} : agent'[t] = agent[t] /\ kill'[t] = kill[t]
  BY <1>2, <1>3, <1>5 DEF Typed
<1>8. Typed'
  <2>1. /\ agent' \in [Sess -> Conns \cup {None}] /\ kill' \in [Sess -> Conns \cup {None}]
    BY <1>2, <1>3, <1>6 DEF Typed
  <2>2. count' \in Nat /\ at' \in Nat \ {0}
    BY <1>2, <1>3 DEF Typed
  <2>3. QED
    BY <1>2, <1>3, <2>1, <2>2 DEF Typed
<1>9. Apart(cq') /\ cq \in Seq(Completion) /\ cq' \in Seq(Completion) /\ Apart(cq)
  BY <1>2, <1>3 DEF Completed, Typed
<1>10. Spared(s)
  BY <1>2, <1>7 DEF Spared, Same, Idle
<1>11. \A t \in Sess \ {s} : Kind(t)
  BY <1>8, <1>9, <1>10, SparedIs
<1>12. Kept(s)'
  <2>1. Kept(s)
    BY <1>3, <1>5, <1>6 DEF Flow
  <2>2. Idle(s)
    BY <1>2 DEF Idle
  <2>3. QED
    BY <1>2, <1>9, <2>1, <2>2, KeptStays
<1>13. Settled(s)'
  BY <1>1, <1>2, <1>6 DEF Settled
<1>14. Sockets' /\ Completed' /\ Flow'
  <2>1. \A e \in Range(cq') : Entry(e)'
    BY <1>2, <1>3 DEF Completed, Entry
  <2>2. \A d \in Conns : d # 1 => IsPrefix(heard'[d], SentOn(d)')
    BY <1>2, <1>3 DEF Flow, SentOn
  <2>3. QED
    BY <1>8, <1>9, <1>10, <1>12, <1>13, <2>1, <2>2, SparedInv
<1>15. Phased'
  <2>1. at + 1 <= Len(temp) + 1
    BY <1>4, <1>5
  <2>2. QED
    BY <1>2, <2>1 DEF Phased
<1>16. Once'
  <2>1. \A t \in AcceptSess : Places(t)' = Places(t)
    BY <1>2 DEF Places
  <2>2. QED
    BY <1>2, <1>3, <2>1 DEF Once
<1>17. Listed' = Listed
  BY <1>2 DEF Listed
<1>18. Dialling'
  <2>1. agent'[Dialer] = agent[Dialer]
    BY <1>5, <1>7, Constants
  <2>2. QED
    BY <1>2, <1>3, <1>17, <2>1 DEF Dialling, Quiet
<1>19. Connected'
  <2>1. \A t \in Sess : agent'[t] \in {None, conn[t]} /\ kill'[t] \in {None, conn[t]}
    BY <1>1, <1>3, <1>7 DEF Connected
  <2>2. QED
    BY <1>2, <1>3, <2>1 DEF Connected
<1>20. Lists'
  <2>1. Alone(s)
    BY <1>3, <1>5, AloneIs
  <2>2. s \in Range(temp)
    BY <1>1, <1>5 DEF Range
  <2>3. s \notin Range(acq) \cup Range(accepted) \cup Range(active)
    BY <2>1, <2>2 DEF Alone
  <2>4. \A t \in Range(active') : Serving(t)'
    <3>1. \A t \in Range(active) : t \in Sess \ {s} /\ Serving(t)
      BY <1>3, <2>3, RangeIs DEF Lists, Typed
    <3>2. QED
      BY <1>2, <1>11, <3>1 DEF Kind
  <2>5. \A t \in Range(acq') \cup Range(accepted') : Fresh(t)'
    <3>1. \A t \in Range(acq) \cup Range(accepted) : t \in Sess \ {s} /\ Fresh(t)
      BY <1>3, <2>3, RangeIs, Constants DEF Lists, Typed
    <3>2. QED
      BY <1>2, <1>11, <3>1 DEF Kind
  <2>6. Looked(s)'
    BY <1>2, <1>5, <1>6, <1>7 DEF Looked, Served
  <2>7. ASSUME NEW i \in 1 .. Len(temp), i # at PROVE Kind(temp[i])
    <3>1. Occ(temp, s) <= 1
      BY <2>1 DEF Alone
    <3>2. temp[i] # s
      BY <1>1, <1>5, <2>7, <3>1, OccOnce
    <3>3. temp[i] \in Sess
      BY <1>5, ElementOfSeq
    <3>4. QED
      BY <1>11, <3>2, <3>3
  <2>8. ASSUME NEW i \in 1 .. Len(temp)
        PROVE  /\ i < at' => Looked(temp[i])'
               /\ i >= at' => Fresh(temp[i])'
    <3>1. PICK x : x = temp[i]
      OBVIOUS
    <3>2. i < at => Looked(x)'
      <4>1. i < at => i # at
        BY <1>5
      <4>2. i < at => Kind(x) /\ Looked(x)
        BY <1>5, <2>7, <3>1, <4>1
      <4>3. QED
        BY <4>2 DEF Kind
    <3>3. i > at => Fresh(x)'
      <4>1. i > at => i # at
        BY <1>5
      <4>2. i > at => Kind(x) /\ Fresh(x)
        BY <1>5, <2>7, <3>1, <4>1
      <4>3. QED
        BY <4>2 DEF Kind
    <3>4. i = at => Looked(x)'
      BY <1>1, <2>6, <3>1
    <3>5. i < at' => i < at \/ i = at
      BY <1>2, <1>5
    <3>6. i >= at' => i > at
      BY <1>2, <1>5
    <3>7. temp'[i] = x
      BY <1>2, <3>1
    <3>8. QED
      BY <3>2, <3>3, <3>4, <3>5, <3>6, <3>7 DEF Looked, Served, Fresh, Quiet
  <2>9. Accepting'
    <3>1. ASSUME NEW i \in 1 .. Len(temp)
          PROVE  /\ i < at' => Looked(temp[i])'
                 /\ i = at' => Fresh(temp[i])'
                 /\ i > at' => Fresh(temp[i])'
      <4>1. at' \in Nat /\ i \in Nat
        BY <1>2, <1>5
      <4>2. QED
        BY <2>8, <4>1
    <3>2. QED
      BY <1>2, <1>5, <3>1 DEF Accepting
  <2>10. QED
    BY <1>2, <2>4, <2>5, <2>9 DEF Lists
<1>21. Counted'
  <2>1. Agents' = Agents \cup {s} /\ s \notin Agents
    <3>1. \A t \in AcceptSess : t # s => agent'[t] = agent[t]
      BY <1>7, Constants
    <3>2. QED
      BY <1>5, <1>6, <1>7, <3>1 DEF Agents
  <2>2. PICK k, n, l : k = count /\ n = Cardinality(Agents) /\ l = Listed
    OBVIOUS
  <2>3. n \in Nat /\ l \in Nat /\ k = n + l /\ k < MaxAccept /\ MaxAccept \in Nat
    BY <1>2, <1>3, <2>2, AgentsAre, ListedIs, Constants DEF Counted
  <2>4. Cardinality(Agents') = n + 1
    <3>1. PICK A : A = Agents
      OBVIOUS
    <3>2. Cardinality(A \cup {s}) = Cardinality(A) + 1
      BY <2>1, <3>1, AgentsAre, FS_AddElement
    <3>3. QED
      BY <2>1, <2>2, <3>1, <3>2
  <2>5. count' = Cardinality(Agents') + Listed'
    BY <1>2, <1>17, <2>2, <2>3, <2>4
  <2>6. count' <= MaxAccept + 1 /\ count' <= MaxAccept
    BY <1>2, <2>2, <2>3
  <2>7. QED
    BY <1>2, <2>5, <2>6 DEF Counted
<1>22. QED
  BY <1>8, <1>14, <1>15, <1>16, <1>18, <1>19, <1>20, <1>21 DEF Inv

LEMMA AcceptDoneInv ==
  ASSUME Inv, AcceptDone
  PROVE  Inv'
<1>1. /\ pc = "accepted" /\ at > Len(temp) /\ active' = temp \o active /\ temp' = <<>>
      /\ at' = 1 /\ pc' = AfterAccepted
      /\ count' = count /\ agent' = agent /\ accepted' = accepted /\ dial' = dial
      /\ kill' = kill /\ rbuf' = rbuf /\ sock' = sock /\ conn' = conn /\ port' = port
      /\ posted' = posted /\ cq' = cq /\ acq' = acq /\ sent' = sent /\ gone' = gone
      /\ made' = made /\ heard' = heard /\ passed' = passed
  BY DEF AcceptDone, shared, net
<1>2. Typed /\ Phased /\ Once /\ Dialling /\ Connected /\ Sockets /\ Lists /\ Completed
      /\ Flow /\ Counted
  BY DEF Inv
<1>3. temp \in Seq(Sess) /\ active \in Seq(Sess)
  BY <1>2 DEF Typed
<1>4. /\ active' \in Seq(Sess) /\ Range(active') = Range(temp) \cup Range(active)
      /\ \A t : Occ(active', t) = Occ(temp, t) + Occ(active, t)
  <2>1. PICK p, q, r : p = temp /\ q = active /\ r = p \o q
    OBVIOUS
  <2>2. p \in Seq(Sess) /\ q \in Seq(Sess)
    BY <1>3, <2>1
  <2>3. r \in Seq(Sess) /\ Range(r) = Range(p) \cup Range(q)
    BY <2>1, <2>2, ConcatProperties, RangeConcat
  <2>4. \A t : Occ(r, t) = Occ(p, t) + Occ(q, t)
    BY <2>1, <2>2, OccConcat
  <2>5. QED
    BY <1>1, <2>1, <2>3, <2>4
<1>5. pc' \in {"connected", "kick"} /\ (pc' = "connected" => dial \in {"succeeded", "failed"})
  BY <1>1, NextPlace
<1>6. Typed'
  <2>1. temp' \in Seq(Sess) /\ at' \in Nat \ {0}
    BY <1>1, EmptySeq
  <2>2. pc' \in {"process", "accepted", "onaccept", "connected", "onconnect", "kick",
                 "bury", "fault"}
    BY <1>5
  <2>3. QED
    BY <1>1, <1>2, <1>4, <2>1, <2>2 DEF Typed
<1>7. Apart(cq')
  BY <1>1, <1>2 DEF Completed
<1>8. Spared(None) /\ \A t \in Sess : Same(t)
  BY <1>1 DEF Spared, Same, Idle
<1>9. None \notin Sess /\ None \notin AcceptSess
  BY Constants
<1>10. Sockets' /\ Completed' /\ Flow'
  <2>1. \A e \in Range(cq') : Entry(e)'
    BY <1>1, <1>2 DEF Completed, Entry
  <2>2. \A c \in Conns : c # 1 => IsPrefix(heard'[c], SentOn(c)')
    BY <1>1, <1>2 DEF Flow, SentOn
  <2>3. QED
    BY <1>6, <1>7, <1>8, <1>9, <2>1, <2>2, SparedInv
<1>11. \A t \in Sess : Kind(t)
  BY <1>8, SameIs DEF Kind
<1>12. Phased'
  BY <1>1, <1>5 DEF Phased
<1>13. Once'
  <2>1. ASSUME NEW t \in AcceptSess PROVE Places(t)' = Places(t)
    <3>1. PICK a, b, x, y, z : /\ a = Occ(acq, t) /\ b = Occ(accepted, t) /\ x = Occ(temp, t)
                               /\ y = Occ(active, t) /\ z = Returns(cq, t)
      OBVIOUS
    <3>2. a \in Nat /\ b \in Nat /\ x \in Nat /\ y \in Nat /\ z \in Nat
      BY <1>2, <3>1, OccsAre
    <3>3. Occ(temp', t) = 0 /\ Occ(active', t) = x + y
      BY <1>1, <1>4, <3>1, OccEmpty
    <3>4. Places(t) = a + b + x + y + z
      BY <3>1 DEF Places
    <3>5. Places(t)' = a + b + 0 + (x + y) + z
      BY <1>1, <3>1, <3>3 DEF Places
    <3>6. QED
      BY <3>2, <3>4, <3>5
  <2>2. QED
    BY <1>1, <1>2, <2>1 DEF Once
<1>14. Listed' = Listed
  <2>1. Occ(temp, Dialer) \in Nat /\ Occ(active, Dialer) \in Nat
    BY <1>2, OccsAre
  <2>2. Occ(temp', Dialer) = 0 /\ Occ(active', Dialer) = Occ(temp, Dialer) + Occ(active, Dialer)
    BY <1>1, <1>4, OccEmpty
  <2>3. QED
    BY <2>1, <2>2 DEF Listed
<1>15. Dialling'
  BY <1>1, <1>2, <1>5, <1>14 DEF Dialling, Quiet
<1>16. Connected'
  BY <1>1, <1>2 DEF Connected
<1>17. Lists'
  <2>1. ASSUME NEW t \in Range(temp) PROVE Serving(t)
    <3>1. Accepting
      BY <1>1, <1>2 DEF Lists
    <3>2. PICK i \in 1 .. Len(temp) : t = temp[i]
      BY <1>3, <2>1, LenProperties DEF Range
    <3>3. i < at /\ i \in DOMAIN temp
      <4>1. at \in Nat /\ Len(temp) \in Nat /\ DOMAIN temp = 1 .. Len(temp)
        BY <1>2, <1>3, LenProperties DEF Typed
      <4>2. QED
        BY <1>1, <4>1
    <3>4. QED
      BY <3>1, <3>2, <3>3 DEF Accepting, Serving
  <2>2. \A t \in Range(temp) \cup Range(active) : t \in Sess /\ Serving(t)
    BY <1>2, <1>3, <2>1, RangeIs DEF Lists
  <2>3. \A t \in Range(active') : Serving(t)'
    BY <1>4, <1>11, <2>2 DEF Kind
  <2>4. \A t \in Range(acq') \cup Range(accepted') : Fresh(t)'
    <3>1. \A t \in Range(acq) \cup Range(accepted) : t \in Sess /\ Fresh(t)
      BY <1>2, RangeIs, Constants DEF Lists, Typed
    <3>2. QED
      BY <1>1, <1>11, <3>1 DEF Kind
  <2>5. QED
    BY <1>5, <2>3, <2>4 DEF Lists
<1>18. Counted'
  <2>1. Agents' = Agents
    BY <1>1 DEF Agents
  <2>2. QED
    BY <1>1, <1>2, <1>5, <1>14, <2>1 DEF Counted
<1>19. QED
  BY <1>6, <1>10, <1>12, <1>13, <1>15, <1>16, <1>17, <1>18 DEF Inv

-----------------------------------------------------------------------------
(* The dialling session.                                                   *)

\* A step of the main thread about the dialling session.
Dials ==
  /\ acq' = acq /\ accepted' = accepted /\ conn' = conn /\ made' = made /\ heard' = heard
  /\ sent' = sent /\ gone' = gone
  /\ cq' \in Seq(Completion) /\ Apart(cq') /\ Range(cq) \subseteq Range(cq')
  /\ \A e \in Range(cq') :
       e \in Range(cq) \/ (e.sess = Dialer /\ e.type = "end" /\ e.conn = conn[Dialer])
  /\ \A t \in AcceptSess : Returns(cq', t) = Returns(cq, t)
  /\ \A t \in AcceptSess : Occ(temp', t) = Occ(temp, t) /\ Occ(active', t) = Occ(active, t)
  /\ kill'[Dialer] \in {None, kill[Dialer]} /\ agent'[Dialer] \in {None, agent[Dialer]}
  /\ passed' = passed
  /\ \A t \in Sess \ {Dialer} :
       /\ sock'[t] = sock[t] /\ agent'[t] = agent[t] /\ rbuf'[t] = rbuf[t] /\ kill'[t] = kill[t]
       /\ t \in port => t \in port'
       /\ t \in posted' <=> t \in posted
  /\ ~Quiet(Dialer) => posted' \subseteq posted

LEMMA DialsInv ==
  ASSUME Inv, Typed', Dials
  PROVE  /\ Once' /\ Connected' /\ Sockets' /\ Completed' /\ Flow' /\ Agents' = Agents
         /\ \A t \in Sess \ {Dialer} : Kind(t)
         /\ \A t \in Range(acq') \cup Range(accepted') : Fresh(t)'
<1>1. Typed /\ Once /\ Connected /\ Sockets /\ Completed /\ Flow /\ Lists
  BY DEF Inv
<1>2. \A t \in AcceptSess : t \in Sess \ {Dialer}
  BY Constants
<1>3. /\ acq' = acq /\ accepted' = accepted /\ conn' = conn /\ made' = made /\ heard' = heard
      /\ sent' = sent /\ gone' = gone
      /\ Apart(cq') /\ Range(cq) \subseteq Range(cq')
      /\ \A e \in Range(cq') :
           e \in Range(cq) \/ (e.sess = Dialer /\ e.type = "end" /\ e.conn = conn[Dialer])
      /\ \A t \in AcceptSess : Returns(cq', t) = Returns(cq, t)
      /\ \A t \in AcceptSess : Occ(temp', t) = Occ(temp, t) /\ Occ(active', t) = Occ(active, t)
      /\ kill'[Dialer] \in {None, kill[Dialer]} /\ agent'[Dialer] \in {None, agent[Dialer]}
      /\ passed' = passed
      /\ ~Quiet(Dialer) => posted' \subseteq posted
  BY DEF Dials
<1>4. \A t \in Sess \ {Dialer} :
       /\ sock'[t] = sock[t] /\ agent'[t] = agent[t] /\ rbuf'[t] = rbuf[t] /\ kill'[t] = kill[t]
       /\ t \in port => t \in port'
       /\ t \in posted' <=> t \in posted
  BY DEF Dials
<1>5. Spared(Dialer)
  <2>1. \A e : e.sess # Dialer => (e \in Range(cq') <=> e \in Range(cq))
    BY <1>3
  <2>2. QED
    BY <1>3, <1>4, <2>1 DEF Spared, Same, Idle
<1>6. \A t \in Sess \ {Dialer} : Kind(t)
  BY <1>3, <1>5, SparedIs
<1>7. Sockets' /\ Completed' /\ Flow'
  <2>1. ASSUME NEW e \in Range(cq'), e.sess = Dialer PROVE Entry(e)'
    <3>1. Dialer \notin AcceptSess
      BY Constants
    <3>2. CASE e \in Range(cq)
      <4>1. Entry(e) /\ ~Quiet(Dialer)
        BY <1>1, <2>1, <3>2 DEF Completed, Quiet
      <4>2. posted' \subseteq posted
        BY <1>3, <4>1
      <4>3. QED
        BY <1>3, <2>1, <3>1, <4>1, <4>2 DEF Entry
    <3>3. CASE e \notin Range(cq)
      BY <1>3, <2>1, <3>1, <3>3 DEF Entry
    <3>4. QED
      BY <3>2, <3>3
  <2>2. \A c \in Conns : c # 1 => IsPrefix(heard'[c], SentOn(c)')
    BY <1>1, <1>3 DEF Flow, SentOn
  <2>3. Dialer \notin AcceptSess
    BY Constants
  <2>4. QED
    BY <1>3, <1>5, <2>1, <2>2, <2>3, SparedInv
<1>8. Once'
  <2>1. \A t \in AcceptSess : Places(t)' = Places(t) /\ sock'[t] = sock[t]
    BY <1>2, <1>3, <1>4 DEF Places
  <2>2. QED
    BY <1>1, <1>3, <2>1 DEF Once
<1>9. Connected'
  <2>1. \A t \in Sess : agent'[t] \in {None, conn[t]} /\ kill'[t] \in {None, conn[t]}
    BY <1>1, <1>3, <1>4 DEF Connected
  <2>2. QED
    BY <1>1, <1>3, <2>1 DEF Connected
<1>10. Agents' = Agents
  BY <1>2, <1>4 DEF Agents
<1>11. \A t \in Range(acq') \cup Range(accepted') : Fresh(t)'
  <2>1. \A t \in Range(acq) \cup Range(accepted) : t \in Sess \ {Dialer} /\ Fresh(t)
    BY <1>1, <1>2, RangeIs DEF Lists, Typed
  <2>2. QED
    BY <1>3, <1>6, <2>1 DEF Kind
<1>12. QED
  BY <1>6, <1>7, <1>8, <1>9, <1>10, <1>11

LEMMA ActiveServes ==
  ASSUME Inv, \A t \in Sess \ {Dialer} : Kind(t), NEW t \in Range(active)
  PROVE  Serving(t)'
<1>1. Serving(t) /\ t \in Sess
  BY RangeIs DEF Inv, Lists, Typed
<1>2. QED
  BY <1>1 DEF Kind, Serving

LEMMA ConnectSucceedsInv ==
  ASSUME Inv, ConnectSucceeds
  PROVE  Inv'
<1>1. /\ pc = "connected" /\ dial = "succeeded" /\ PostRecv(Dialer, cq)
      /\ port' = port \cup {Dialer} /\ dial' = "done" /\ pc' = "onconnect"
      /\ at' = at /\ temp' = temp /\ active' = active /\ count' = count /\ agent' = agent
      /\ accepted' = accepted /\ kill' = kill /\ rbuf' = rbuf /\ sock' = sock /\ conn' = conn
      /\ acq' = acq /\ sent' = sent /\ gone' = gone /\ made' = made /\ heard' = heard
      /\ passed' = passed
  BY DEF ConnectSucceeds
<1>2. Typed /\ Phased /\ Dialling /\ Counted
  BY DEF Inv
<1>3. Dialer \in Sess /\ conn[Dialer] # None /\ Quiet(Dialer)
  <2>1. 1 # None
    BY Constants
  <2>2. QED
    BY <1>1, <1>2, <2>1, Constants DEF Dialling
<1>4. Receives(Dialer)
  BY <1>1, <1>3, PostRecvIs
<1>5. /\ cq' \in Seq(Completion) /\ Apart(cq') /\ Range(cq) \subseteq Range(cq')
      /\ \A e \in Range(cq') :
           e \in Range(cq) \/ (e.sess = Dialer /\ e.type = "end" /\ e.conn = conn[Dialer])
      /\ \A t \in AcceptSess : Returns(cq', t) = Returns(cq, t)
      /\ \A t \in Sess \ {Dialer} : t \in posted' <=> t \in posted
      /\ posted' \subseteq posted \cup {Dialer}
      /\ sock[Dialer] = "open"
  BY <1>4 DEF Receives
<1>6. Typed'
  <2>1. posted' \subseteq Sess /\ port' \subseteq Sess
    BY <1>1, <1>2, <1>3, <1>5 DEF Typed
  <2>2. QED
    BY <1>1, <1>2, <1>5, <2>1 DEF Typed
<1>7. Dials
  BY <1>1, <1>3, <1>5 DEF Dials
<1>8. /\ Once' /\ Connected' /\ Sockets' /\ Completed' /\ Flow' /\ Agents' = Agents
      /\ \A t \in Sess \ {Dialer} : Kind(t)
      /\ \A t \in Range(acq') \cup Range(accepted') : Fresh(t)'
  BY <1>6, <1>7, DialsInv
<1>9. Listed' = Listed
  BY <1>1 DEF Listed
<1>10. Phased'
  BY <1>1, <1>2 DEF Phased
<1>11. Dialling'
  BY <1>1, <1>2, <1>9 DEF Dialling
<1>12. Lists'
  <2>1. \A t \in Range(active') : Serving(t)'
    BY <1>1, <1>8, ActiveServes
  <2>2. QED
    BY <1>1, <1>8, <2>1 DEF Lists
<1>13. Counted'
  BY <1>1, <1>2, <1>8, <1>9 DEF Counted
<1>14. QED
  BY <1>6, <1>8, <1>10, <1>11, <1>12, <1>13 DEF Inv

LEMMA OnConnectInv ==
  ASSUME Inv, OnConnect
  PROVE  Inv'
<1>1. /\ pc = "onconnect" /\ pc' = "kick"
      /\ kill' = [kill EXCEPT ![Dialer] = None] /\ rbuf' = [rbuf EXCEPT ![Dialer] = <<>>]
      /\ active' = Append(active, Dialer) /\ count' = count + 1
      /\ at' = at /\ temp' = temp /\ agent' = agent /\ accepted' = accepted /\ dial' = dial
      /\ sock' = sock /\ conn' = conn /\ port' = port /\ posted' = posted /\ cq' = cq
      /\ acq' = acq /\ sent' = sent /\ gone' = gone /\ made' = made /\ heard' = heard
      /\ passed' = passed
  BY DEF OnConnect, Cleared, net
<1>2. Typed /\ Phased /\ Dialling /\ Counted /\ Completed
  BY DEF Inv
<1>3. Dialer \in Sess /\ \A t \in AcceptSess : t # Dialer
  BY Constants
<1>4. /\ kill'[Dialer] = None
      /\ \A t \in Sess \ {Dialer} : kill'[t] = kill[t] /\ rbuf'[t] = rbuf[t]
  BY <1>1, <1>2, <1>3 DEF Typed
<1>5. /\ active' \in Seq(Sess) /\ Range(active') = Range(active) \cup {Dialer}
      /\ \A t : Occ(active', t) = Occ(active, t) + (IF Dialer = t THEN 1 ELSE 0)
  <2>1. PICK p, r : p = active /\ r = Append(p, Dialer)
    OBVIOUS
  <2>2. p \in Seq(Sess)
    BY <1>2, <2>1 DEF Typed
  <2>3. r \in Seq(Sess) /\ Range(r) = Range(p) \cup {Dialer}
    BY <1>3, <2>1, <2>2, AppendProperties, RangeAppend
  <2>4. \A t : Occ(r, t) = Occ(p, t) + (IF Dialer = t THEN 1 ELSE 0)
    BY <1>3, <2>1, <2>2, OccAppend
  <2>5. QED
    BY <1>1, <2>1, <2>3, <2>4
<1>6. \A t : Occ(active, t) \in Nat
  BY <1>2, OccsAre
<1>7. Typed'
  <2>1. kill' \in [Sess -> Conns \cup {None}]
    BY <1>1, <1>2 DEF Typed
  <2>2. rbuf' \in [Sess -> Seq(Packet)]
    <3>1. <<>> \in Seq(Packet)
      BY EmptySeq
    <3>2. QED
      BY <1>1, <1>2, <3>1 DEF Typed
  <2>3. count' \in Nat
    BY <1>1, <1>2 DEF Typed
  <2>4. QED
    BY <1>1, <1>2, <1>5, <2>1, <2>2, <2>3 DEF Typed
<1>8. Dials
  <2>1. \A t \in AcceptSess : Occ(active', t) = Occ(active, t)
    BY <1>3, <1>5, <1>6
  <2>2. cq' \in Seq(Completion) /\ Apart(cq')
    BY <1>1, <1>2 DEF Typed, Completed
  <2>3. QED
    BY <1>1, <1>4, <2>1, <2>2 DEF Dials
<1>9. /\ Once' /\ Connected' /\ Sockets' /\ Completed' /\ Flow' /\ Agents' = Agents
      /\ \A t \in Sess \ {Dialer} : Kind(t)
      /\ \A t \in Range(acq') \cup Range(accepted') : Fresh(t)'
  BY <1>7, <1>8, DialsInv
<1>10. Listed = 0 /\ Listed' = 1 /\ agent[Dialer] = 1
  <2>1. Listed = 0 /\ agent[Dialer] = 1
    BY <1>1, <1>2 DEF Dialling
  <2>2. PICK a, b : a = Occ(temp, Dialer) /\ b = Occ(active, Dialer)
    OBVIOUS
  <2>3. a \in Nat /\ b \in Nat /\ a + b = 0
    BY <1>2, <2>1, <2>2, OccsAre DEF Listed
  <2>4. Occ(active', Dialer) = b + 1
    BY <1>5, <2>2
  <2>5. Listed' = a + (b + 1)
    BY <1>1, <2>2, <2>4 DEF Listed
  <2>6. QED
    BY <2>1, <2>3, <2>5
<1>11. Phased'
  BY <1>1, <1>2 DEF Phased
<1>12. Dialling'
  <2>1. dial = "done"
    BY <1>1, <1>2 DEF Phased
  <2>2. QED
    BY <1>1, <1>2, <1>10, <2>1 DEF Dialling
<1>13. Lists'
  <2>1. \A t \in Range(active) : Serving(t)'
    BY <1>9, ActiveServes
  <2>2. Serving(Dialer)'
    BY DEF Serving
  <2>3. QED
    BY <1>1, <1>5, <1>9, <2>1, <2>2 DEF Lists
<1>14. Counted'
  <2>1. dial = "done"
    BY <1>1, <1>2 DEF Phased
  <2>2. PICK k, n : k = count /\ n = Cardinality(Agents)
    OBVIOUS
  <2>3. k = n + 0 /\ k <= MaxAccept /\ n \in Nat /\ MaxAccept \in Nat
    BY <1>1, <1>2, <1>10, <2>2, AgentsAre, Constants DEF Counted
  <2>4. count' = Cardinality(Agents') + Listed'
    BY <1>1, <1>9, <1>10, <2>2, <2>3
  <2>5. count' <= MaxAccept + 1
    BY <1>1, <2>2, <2>3
  <2>6. QED
    BY <1>1, <2>1, <2>4, <2>5 DEF Counted
<1>15. QED
  BY <1>7, <1>9, <1>11, <1>12, <1>13, <1>14 DEF Inv

\* The dialling session's socket is closed.
Hangs ==
  /\ sock' = [sock EXCEPT ![Dialer] = "closed"] /\ port' = port \ {Dialer}
  /\ posted' = posted \ {Dialer} /\ cq' = cq
  /\ kill' = [kill EXCEPT ![Dialer] = None] /\ rbuf' = [rbuf EXCEPT ![Dialer] = <<>>]
  /\ agent' = [agent EXCEPT ![Dialer] = None]

LEMMA HangsIs ==
  ASSUME Inv, Hangs, passed' = passed, sent' = sent, gone' = gone,
         acq' = acq, accepted' = accepted, conn' = conn, made' = made, heard' = heard,
         \A t \in AcceptSess : Occ(temp', t) = Occ(temp, t) /\ Occ(active', t) = Occ(active, t)
  PROVE  /\ Dials /\ sock'[Dialer] = "closed" /\ agent'[Dialer] = None
         /\ agent' \in [Sess -> Conns \cup {None}] /\ kill' \in [Sess -> Conns \cup {None}]
         /\ rbuf' \in [Sess -> Seq(Packet)]
         /\ sock' \in [Sess -> {"listening", "open", "closing", "closed", "lost"}]
         /\ port' \subseteq Sess /\ posted' \subseteq Sess
<1>1. Typed /\ Completed
  BY DEF Inv
<1>2. /\ sock' = [sock EXCEPT ![Dialer] = "closed"] /\ port' = port \ {Dialer}
      /\ posted' = posted \ {Dialer} /\ cq' = cq
      /\ kill' = [kill EXCEPT ![Dialer] = None] /\ rbuf' = [rbuf EXCEPT ![Dialer] = <<>>]
      /\ agent' = [agent EXCEPT ![Dialer] = None]
  BY DEF Hangs
<1>3. Dialer \in Sess
  BY Constants
<1>4. /\ sock'[Dialer] = "closed" /\ agent'[Dialer] = None /\ kill'[Dialer] = None
      /\ \A t \in Sess \ {Dialer} : /\ sock'[t] = sock[t] /\ agent'[t] = agent[t]
                                    /\ rbuf'[t] = rbuf[t] /\ kill'[t] = kill[t]
                                    /\ t \in port => t \in port'
                                    /\ t \in posted' <=> t \in posted
  BY <1>1, <1>2, <1>3 DEF Typed
<1>5. cq' \in Seq(Completion) /\ Apart(cq') /\ posted' \subseteq posted
  BY <1>1, <1>2 DEF Typed, Completed
<1>6. Dials
  <2>1. /\ Range(cq) \subseteq Range(cq') /\ \A e \in Range(cq') : e \in Range(cq)
        /\ \A t \in AcceptSess : Returns(cq', t) = Returns(cq, t)
    BY <1>2
  <2>2. QED
    BY <1>4, <1>5, <2>1 DEF Dials
<1>7. /\ agent' \in [Sess -> Conns \cup {None}] /\ kill' \in [Sess -> Conns \cup {None}]
      /\ sock' \in [Sess -> {"listening", "open", "closing", "closed", "lost"}]
      /\ port' \subseteq Sess /\ posted' \subseteq Sess
  BY <1>1, <1>2 DEF Typed
<1>8. rbuf' \in [Sess -> Seq(Packet)]
  <2>1. <<>> \in Seq(Packet)
    BY EmptySeq
  <2>2. QED
    BY <1>1, <1>2, <2>1 DEF Typed
<1>9. QED
  BY <1>4, <1>6, <1>7, <1>8

LEMMA ConnectFailsInv ==
  ASSUME Inv, ConnectFails
  PROVE  Inv'
<1>1. /\ pc = "connected" /\ dial \in {"failed", "succeeded"} /\ dial' = "done" /\ pc' = "kick"
      /\ at' = at /\ temp' = temp /\ active' = active /\ count' = count
      /\ accepted' = accepted /\ conn' = conn /\ acq' = acq /\ sent' = sent /\ gone' = gone
      /\ made' = made /\ heard' = heard /\ passed' = passed
  BY DEF ConnectFails
<1>2. Hangs
  BY DEF ConnectFails, Free, Cleared, Hangs
<1>3. Typed /\ Phased /\ Dialling /\ Counted
  BY DEF Inv
<1>4. /\ Dials /\ sock'[Dialer] = "closed" /\ agent'[Dialer] = None
      /\ agent' \in [Sess -> Conns \cup {None}] /\ kill' \in [Sess -> Conns \cup {None}]
      /\ rbuf' \in [Sess -> Seq(Packet)]
      /\ sock' \in [Sess -> {"listening", "open", "closing", "closed", "lost"}]
      /\ port' \subseteq Sess /\ posted' \subseteq Sess
  BY <1>1, <1>2, HangsIs
<1>5. Typed'
  <2>1. cq' \in Seq(Completion)
    BY <1>4 DEF Dials
  <2>2. QED
    BY <1>1, <1>3, <1>4, <2>1 DEF Typed
<1>6. /\ Once' /\ Connected' /\ Sockets' /\ Completed' /\ Flow' /\ Agents' = Agents
      /\ \A t \in Sess \ {Dialer} : Kind(t)
      /\ \A t \in Range(acq') \cup Range(accepted') : Fresh(t)'
  BY <1>4, <1>5, DialsInv
<1>7. Listed' = Listed /\ Listed = 0
  BY <1>1, <1>3 DEF Listed, Dialling
<1>8. Phased'
  BY <1>1, <1>3 DEF Phased
<1>9. Dialling'
  BY <1>1, <1>3, <1>4, <1>7 DEF Dialling
<1>10. Lists'
  <2>1. \A t \in Range(active') : Serving(t)'
    BY <1>1, <1>6, ActiveServes
  <2>2. QED
    BY <1>1, <1>6, <2>1 DEF Lists
<1>11. Counted'
  BY <1>1, <1>3, <1>6, <1>7 DEF Counted
<1>12. QED
  BY <1>5, <1>6, <1>8, <1>9, <1>10, <1>11 DEF Inv

-----------------------------------------------------------------------------
(* KickDeadSessions.                                                       *)

LEMMA KickDeadSessionsInv ==
  ASSUME Inv, KickDeadSessions
  PROVE  Inv'
<1>1. PICK K, A : /\ K = {i \in 1 .. Len(active) :
                           kill[active[i]] # None /\ ~(i = 2 /\ kill[active[1]] # None)}
                  /\ A = active
  OBVIOUS
<1>2. /\ pc = "kick" /\ temp' = Sublist(A, K) /\ active' = Sublist(A, (1 .. Len(A)) \ K)
      /\ pc' = IF K = {} THEN "process" ELSE "bury"
      /\ at' = at /\ count' = count /\ agent' = agent /\ accepted' = accepted /\ dial' = dial
      /\ kill' = kill /\ rbuf' = rbuf /\ sock' = sock /\ conn' = conn /\ port' = port
      /\ posted' = posted /\ cq' = cq /\ acq' = acq /\ sent' = sent /\ gone' = gone
      /\ made' = made /\ heard' = heard /\ passed' = passed
  BY <1>1 DEF KickDeadSessions, Sublist, shared, net
<1>3. Typed /\ Phased /\ Once /\ Dialling /\ Connected /\ Sockets /\ Lists /\ Completed
      /\ Flow /\ Counted
  BY DEF Inv
<1>4. A \in Seq(Sess) /\ DOMAIN A = 1 .. Len(A) /\ K \subseteq DOMAIN A
  BY <1>1, <1>3, LenProperties DEF Typed
<1>5. /\ temp' \in Seq(Sess) /\ active' \in Seq(Sess)
      /\ \A t : Occ(A, t) = Occ(temp', t) + Occ(active', t)
      /\ Range(temp') \subseteq Range(A) /\ Range(active') \subseteq Range(A)
      /\ K # {} => Range(temp') # {}
      /\ K = {} => Range(temp') = {}
  <2>1. PICK L, p, q : L = DOMAIN A \ K /\ p = Sublist(A, K) /\ q = Sublist(A, L)
    OBVIOUS
  <2>2. p \in Seq(Sess) /\ q \in Seq(Sess)
    BY <1>4, <2>1, SublistIs
  <2>3. \A t : Occ(A, t) = Occ(p, t) + Occ(q, t)
    BY <1>4, <2>1, SublistParts
  <2>4. /\ Range(p) = {A[i] : i \in {j \in DOMAIN A : j \in K}}
        /\ Range(q) = {A[i] : i \in {j \in DOMAIN A : j \in L}}
    BY <1>4, <2>1, SublistIn
  <2>5. Range(p) \subseteq Range(A) /\ Range(q) \subseteq Range(A)
    BY <2>4 DEF Range
  <2>6. (K # {} => Range(p) # {}) /\ (K = {} => Range(p) = {})
    BY <1>4, <2>4
  <2>7. temp' = p /\ active' = q
    BY <1>2, <1>4, <2>1
  <2>8. QED
    BY <2>2, <2>3, <2>5, <2>6, <2>7
<1>6. K # {} <=> temp' # <<>>
  <2>1. PICK l : l = temp'
    OBVIOUS
  <2>2. l \in Seq(Sess) /\ (K # {} => Range(l) # {}) /\ (K = {} => Range(l) = {})
    BY <1>5, <2>1
  <2>3. l # <<>> => Range(l) # {}
    BY <2>2, RangeTail
  <2>4. QED
    BY <2>1, <2>2, <2>3, RangeEmpty
<1>7. Typed'
  BY <1>2, <1>3, <1>5 DEF Typed
<1>8. Apart(cq')
  BY <1>2, <1>3 DEF Completed
<1>9. Spared(None) /\ \A t \in Sess : Same(t)
  BY <1>2 DEF Spared, Same, Idle
<1>10. None \notin Sess /\ None \notin AcceptSess
  BY Constants
<1>11. Sockets' /\ Completed' /\ Flow'
  <2>1. \A e \in Range(cq') : Entry(e)'
    BY <1>2, <1>3 DEF Completed, Entry
  <2>2. \A c \in Conns : c # 1 => IsPrefix(heard'[c], SentOn(c)')
    BY <1>2, <1>3 DEF Flow, SentOn
  <2>3. QED
    BY <1>7, <1>8, <1>9, <1>10, <2>1, <2>2, SparedInv
<1>12. \A t \in Sess : Kind(t)
  BY <1>9, SameIs DEF Kind
<1>13. Phased'
  BY <1>2, <1>3, <1>6 DEF Phased
<1>14. temp = <<>> /\ A = active
  BY <1>1, <1>2, <1>3 DEF Phased
<1>15. Once'
  <2>1. ASSUME NEW t \in AcceptSess PROVE Places(t)' = Places(t)
    <3>1. PICK a, b, x, y, z : /\ a = Occ(acq, t) /\ b = Occ(accepted, t) /\ x = Occ(temp', t)
                               /\ y = Occ(active', t) /\ z = Returns(cq, t)
      OBVIOUS
    <3>2. a \in Nat /\ b \in Nat /\ x \in Nat /\ y \in Nat /\ z \in Nat
      BY <1>3, <1>5, <3>1, OccsAre, OccIs
    <3>3. Occ(temp, t) = 0 /\ Occ(active, t) = x + y
      BY <1>5, <1>14, <3>1, OccEmpty
    <3>4. Places(t) = a + b + 0 + (x + y) + z
      BY <3>1, <3>3 DEF Places
    <3>5. Places(t)' = a + b + x + y + z
      BY <1>2, <3>1 DEF Places
    <3>6. QED
      BY <3>2, <3>4, <3>5
  <2>2. QED
    BY <1>2, <1>3, <2>1 DEF Once
<1>16. Listed' = Listed
  <2>1. PICK x, y : x = Occ(temp', Dialer) /\ y = Occ(active', Dialer)
    OBVIOUS
  <2>2. x \in Nat /\ y \in Nat
    BY <1>5, <2>1, OccIs
  <2>3. Occ(temp, Dialer) = 0 /\ Occ(active, Dialer) = x + y
    BY <1>5, <1>14, <2>1, OccEmpty
  <2>4. Listed = 0 + (x + y) /\ Listed' = x + y
    BY <2>1, <2>3 DEF Listed
  <2>5. QED
    BY <2>2, <2>4
<1>17. pc' \in {"process", "bury"}
  BY <1>2
<1>18. Dialling'
  BY <1>2, <1>3, <1>16, <1>17 DEF Dialling, Quiet
<1>19. Connected'
  BY <1>2, <1>3 DEF Connected
<1>20. Lists'
  <2>1. \A t \in Range(active) : t \in Sess /\ Serving(t)
    BY <1>3, RangeIs DEF Lists, Typed
  <2>2. \A t \in Range(active') \cup Range(temp') : Serving(t)'
    BY <1>5, <1>12, <1>14, <2>1 DEF Kind
  <2>3. \A t \in Range(acq') \cup Range(accepted') : Fresh(t)'
    <3>1. \A t \in Range(acq) \cup Range(accepted) : t \in Sess /\ Fresh(t)
      BY <1>3, RangeIs, Constants DEF Lists, Typed
    <3>2. QED
      BY <1>2, <1>12, <3>1 DEF Kind
  <2>4. QED
    BY <1>17, <2>2, <2>3 DEF Lists
<1>21. Counted'
  <2>1. Agents' = Agents
    BY <1>2 DEF Agents
  <2>2. QED
    BY <1>2, <1>3, <1>16, <1>17, <2>1 DEF Counted
<1>22. QED
  BY <1>7, <1>11, <1>13, <1>15, <1>18, <1>19, <1>20, <1>21 DEF Inv

\* The session on the list of those that are to end, at its head.
LEMMA HeadIs ==
  ASSUME Inv, pc \in {"bury", "fault"}
  PROVE  /\ temp \in Seq(Sess) /\ temp # <<>> /\ Head(temp) \in Sess /\ Tail(temp) \in Seq(Sess)
         /\ Serving(Head(temp)) /\ Range(temp) = {Head(temp)} \cup Range(Tail(temp))
         /\ \A t : Occ(temp, t) = (IF t = Head(temp) THEN 1 ELSE 0) + Occ(Tail(temp), t)
         /\ \A t \in Range(Tail(temp)) : t \in Sess /\ Serving(t)
         /\ Len(temp) > 1 <=> Tail(temp) # <<>>
<1>1. Typed /\ Phased /\ Lists
  BY DEF Inv
<1>2. PICK q, h, l : q = temp /\ h = Head(q) /\ l = Tail(q)
  OBVIOUS
<1>3. q \in Seq(Sess) /\ q # <<>>
  BY <1>1, <1>2 DEF Typed, Phased
<1>4. h \in Sess /\ l \in Seq(Sess) /\ h \in Range(q) /\ Range(q) = {h} \cup Range(l)
  BY <1>2, <1>3, RangeTail
<1>5. \A t : Occ(q, t) = (IF t = h THEN 1 ELSE 0) + Occ(l, t)
  BY <1>2, <1>3, OccTail
<1>6. \A t \in Range(q) : t \in Sess /\ Serving(t)
  BY <1>1, <1>2, <1>3, RangeIs DEF Lists
<1>7. Len(q) > 1 <=> l # <<>>
  <2>1. Len(q) \in Nat \ {0} /\ Len(l) = Len(q) - 1
    BY <1>2, <1>3, EmptySeq, HeadTailProperties
  <2>2. l # <<>> <=> Len(l) # 0
    BY <1>4, EmptySeq
  <2>3. QED
    BY <2>1, <2>2
<1>8. QED
  BY <1>2, <1>3, <1>4, <1>5, <1>6, <1>7

\* The rest of the loop that buries.
LEMMA BuriesLists ==
  ASSUME Inv, pc = "bury", temp' = Tail(temp), active' = active, acq' = acq,
         accepted' = accepted, at' = at, pc' = IF Len(temp) > 1 THEN "bury" ELSE "process",
         dial' = dial, NEW s, s = Head(temp), \A t \in Sess \ {s} : Kind(t),
         s \notin Range(acq) \cup Range(accepted) \cup Range(active) \cup Range(temp')
  PROVE  Phased' /\ Lists'
<1>1. Typed /\ Phased /\ Lists
  BY DEF Inv
<1>2. /\ \A t \in Range(temp') : t \in Sess /\ Serving(t)
      /\ Len(temp) > 1 <=> temp' # <<>>
  BY HeadIs
<1>3. Phased'
  BY <1>1, <1>2 DEF Phased
<1>4. \A t \in Range(temp') : Serving(t)'
  BY <1>2 DEF Kind
<1>5. \A t \in Range(active') : Serving(t)'
  <2>1. \A t \in Range(active) : t \in Sess \ {s} /\ Serving(t)
    BY <1>1, RangeIs DEF Lists, Typed
  <2>2. QED
    BY <2>1 DEF Kind
<1>6. \A t \in Range(acq') \cup Range(accepted') : Fresh(t)'
  <2>1. \A t \in Range(acq) \cup Range(accepted) : t \in Sess \ {s} /\ Fresh(t)
    BY <1>1, RangeIs, Constants DEF Lists, Typed
  <2>2. QED
    BY <2>1 DEF Kind
<1>7. pc' \notin {"accepted", "onaccept"}
  OBVIOUS
<1>8. Lists'
  BY <1>4, <1>5, <1>6, <1>7 DEF Lists
<1>9. QED
  BY <1>3, <1>8

LEMMA BuryInv ==
  ASSUME Inv, Bury
  PROVE  Inv'
<1>1. PICK s : s = Head(temp)
  OBVIOUS
<1>2. /\ pc = "bury" /\ agent[s] # None /\ temp' = Tail(temp) /\ count' = count - 1
      /\ agent' = [agent EXCEPT ![s] = None]
      /\ IF s = Dialer
         THEN Free(s) /\ Cleared(s)
         ELSE Reuse(s, port) /\ kill' = kill /\ rbuf' = rbuf
      /\ pc' = IF Len(temp) > 1 THEN "bury" ELSE "process"
      /\ at' = at /\ active' = active /\ accepted' = accepted /\ dial' = dial /\ conn' = conn
      /\ acq' = acq /\ sent' = sent /\ gone' = gone /\ made' = made /\ heard' = heard
      /\ passed' = passed
  BY <1>1 DEF Bury
<1>3. Typed /\ Once /\ Dialling /\ Counted
  BY DEF Inv
<1>4. /\ s \in Sess /\ Serving(s) /\ temp' \in Seq(Sess) /\ s \in Range(temp)
      /\ \A t : Occ(temp, t) = (IF t = s THEN 1 ELSE 0) + Occ(temp', t)
      /\ temp \in Seq(Sess)
  <2>1. PICK l : l = Tail(temp)
    OBVIOUS
  <2>2. /\ s \in Sess /\ Serving(s) /\ l \in Seq(Sess) /\ s \in Range(temp)
        /\ \A t : Occ(temp, t) = (IF t = s THEN 1 ELSE 0) + Occ(l, t)
        /\ temp \in Seq(Sess)
    BY <1>1, <1>2, <2>1, HeadIs
  <2>3. QED
    BY <1>2, <2>1, <2>2
<1>5. /\ agent'[s] = None /\ agent' \in [Sess -> Conns \cup {None}]
      /\ \A t \in Sess \ {s} : agent'[t] = agent[t]
  BY <1>2, <1>3, <1>4 DEF Typed
<1>6. pc' \in {"bury", "process"} /\ pc # "onconnect" /\ pc' # "onconnect"
  BY <1>2
<1>7. PICK k, n, l : k = count /\ n = Cardinality(Agents) /\ l = Listed
  OBVIOUS
<1>8. /\ k \in Nat /\ n \in Nat /\ l \in Nat /\ k = n + l /\ k <= MaxAccept + 1
      /\ MaxAccept \in Nat
  BY <1>2, <1>3, <1>7, AgentsAre, ListedIs, Constants DEF Counted, Typed
<1>12. dial # "done" => k <= MaxAccept
  BY <1>3, <1>7 DEF Counted
<1>13. count' = k - 1
  BY <1>2, <1>7
<1>9. CASE s = Dialer
  <2>1. Hangs
    BY <1>2, <1>9 DEF Free, Cleared, Hangs
  <2>2. PICK a, b : a = Occ(temp', Dialer) /\ b = Occ(active, Dialer)
    OBVIOUS
  <2>3. a \in Nat /\ b \in Nat /\ Occ(temp, Dialer) = 1 + a
    BY <1>3, <1>4, <1>9, <2>2, OccIs, OccsAre
  <2>4. Listed = (1 + a) + b /\ Listed' = a + b /\ Listed <= 1
    BY <1>2, <1>3, <2>2, <2>3 DEF Listed, Dialling
  <2>5. Listed = 1 /\ Listed' = 0 /\ a = 0 /\ b = 0
    BY <2>3, <2>4
  <2>6. dial = "done" /\ dial' = "done"
    BY <1>2, <1>3, <2>5 DEF Dialling
  <2>7. \A t \in AcceptSess : Occ(temp', t) = Occ(temp, t) /\ Occ(active', t) = Occ(active, t)
    <3>1. \A t \in AcceptSess : t # s /\ Occ(temp', t) \in Nat
      BY <1>4, <1>9, Constants, OccIs
    <3>2. QED
      BY <1>2, <1>4, <3>1
  <2>8. /\ Dials /\ sock'[Dialer] = "closed"
        /\ agent' \in [Sess -> Conns \cup {None}] /\ kill' \in [Sess -> Conns \cup {None}]
        /\ rbuf' \in [Sess -> Seq(Packet)]
        /\ sock' \in [Sess -> {"listening", "open", "closing", "closed", "lost"}]
        /\ port' \subseteq Sess /\ posted' \subseteq Sess
    BY <1>2, <2>1, <2>7, HangsIs
  <2>9. k = n + 1 /\ count' = n /\ count' \in Nat
    BY <1>7, <1>8, <1>13, <2>5
  <2>10. Typed'
    <3>1. cq' \in Seq(Completion)
      BY <2>8 DEF Dials
    <3>2. QED
      BY <1>2, <1>3, <1>4, <1>6, <2>8, <2>9, <3>1 DEF Typed
  <2>11. /\ Once' /\ Connected' /\ Sockets' /\ Completed' /\ Flow' /\ Agents' = Agents
         /\ \A t \in Sess \ {Dialer} : Kind(t)
    BY <2>8, <2>10, DialsInv
  <2>12. Dialling'
    BY <1>2, <1>3, <1>6, <2>5, <2>6, <2>8 DEF Dialling
  <2>13. Dialer \notin Range(acq) \cup Range(accepted) \cup Range(active) \cup Range(temp')
    <3>1. Dialer \notin Range(active) /\ Dialer \notin Range(temp')
      BY <1>3, <1>4, <2>2, <2>5, OccsAre, OccIn
    <3>2. Range(acq) \subseteq AcceptSess /\ Range(accepted) \subseteq AcceptSess
      BY <1>3, RangeIs DEF Typed
    <3>3. QED
      BY <3>1, <3>2, Constants
  <2>14. Phased' /\ Lists'
    BY <1>1, <1>2, <1>9, <2>11, <2>13, BuriesLists
  <2>15. Counted'
    <3>1. count' = Cardinality(Agents') + Listed'
      BY <1>7, <1>8, <2>5, <2>9, <2>11
    <3>2. count' <= MaxAccept + 1
      <4>1. n <= MaxAccept + 1
        BY <1>8, <2>9
      <4>2. QED
        BY <2>9, <4>1
    <3>3. pc' # "onaccept"
      BY <1>6
    <3>4. QED
      BY <1>6, <2>6, <3>1, <3>2, <3>3 DEF Counted
  <2>16. QED
    BY <2>10, <2>11, <2>12, <2>14, <2>15 DEF Inv
<1>10. CASE s # Dialer
  <2>1. s \in AcceptSess /\ sock[s] = "open" /\ s \in port
    <3>1. Served(s)
      BY <1>2, <1>4, <1>10 DEF Serving, Looked, Fresh
    <3>2. QED
      BY <3>1 DEF Served
  <2>2. Reuse(s, port) /\ kill' = kill /\ rbuf' = rbuf
    BY <1>2, <1>10
  <2>3. PICK p : p = port
    OBVIOUS
  <2>4. /\ Freed(s) /\ sock'[s] = "closing"
        /\ \A t \in Sess \ {s} : t \in port => t \in port'
        /\ port' \subseteq Sess
    <3>1. p \in {port, port \cup {s}} /\ Reuse(s, p) /\ s \in p
      BY <2>1, <2>2, <2>3
    <3>2. QED
      BY <2>1, <3>1, ReuseIs
  <2>5. Parted(s)
    BY <1>2, <1>4, <1>5, <2>2, <2>4 DEF Parted
  <2>6. PICK A, B : A = Agents /\ B = Agents \ {s}
    OBVIOUS
  <2>7. s \in A /\ Cardinality(B) = n - 1 /\ Cardinality(B) \in Nat
    <3>1. s \in A /\ IsFiniteSet(A)
      BY <1>2, <2>1, <2>6, AgentsAre DEF Agents
    <3>2. Cardinality(A \ {s}) = Cardinality(A) - 1 /\ IsFiniteSet(A \ {s})
      BY <3>1, FS_RemoveElement
    <3>3. QED
      BY <1>7, <2>6, <3>1, <3>2, FS_CardinalityType
  <2>8. count' \in Nat
    BY <1>8, <1>13, <2>7
  <2>9. Typed'
    <3>1. /\ cq' \in Seq(Completion) /\ posted' \subseteq Sess
          /\ sock' \in [Sess -> {"listening", "open", "closing", "closed", "lost"}]
      BY <1>3, <2>4 DEF Freed, Typed
    <3>2. QED
      BY <1>2, <1>3, <1>4, <1>5, <1>6, <2>2, <2>4, <2>8, <3>1 DEF Typed
  <2>10. /\ Once' /\ Dialling' /\ Connected' /\ Sockets' /\ Completed' /\ Flow'
         /\ Listed' = Listed /\ Agents' = Agents \ {s}
         /\ \A t \in Sess \ {s} : Kind(t)
         /\ s \notin Range(acq) \cup Range(accepted) \cup Range(active) \cup Range(temp')
    <3>1. sock'[s] = "lost" => Quiet(s)
      BY <2>4
    <3>2. QED
      BY <1>6, <2>1, <2>4, <2>5, <2>9, <3>1, FreedInv
  <2>11. Phased' /\ Lists'
    BY <1>1, <1>2, <2>10, BuriesLists
  <2>12. Counted'
    <3>1. count' = Cardinality(Agents') + Listed'
      <4>1. Cardinality(Agents') = n - 1 /\ Listed' = l
        BY <1>7, <2>6, <2>7, <2>10
      <4>2. k - 1 = (n - 1) + l
        BY <1>8
      <4>3. QED
        BY <1>13, <4>1, <4>2
    <3>2. count' <= MaxAccept + 1 /\ (dial' # "done" => count' <= MaxAccept)
      <4>1. PICK m : m = k - 1
        OBVIOUS
      <4>2. m <= MaxAccept + 1 /\ (k <= MaxAccept => m <= MaxAccept)
        BY <1>8, <4>1
      <4>3. count' = m /\ dial' = dial
        BY <1>2, <1>13, <4>1
      <4>4. QED
        BY <1>12, <4>2, <4>3
    <3>3. pc' # "onaccept"
      BY <1>6
    <3>4. QED
      BY <1>6, <3>1, <3>2, <3>3 DEF Counted
  <2>13. QED
    BY <2>9, <2>10, <2>11, <2>12 DEF Inv
<1>11. QED
  BY <1>9, <1>10

LEMMA FaultInv ==
  ASSUME Inv, Fault
  PROVE  Inv'
<1>1. /\ pc = "bury" /\ pc' = "fault"
      /\ at' = at /\ temp' = temp /\ active' = active /\ count' = count /\ agent' = agent
      /\ accepted' = accepted /\ dial' = dial /\ kill' = kill /\ rbuf' = rbuf /\ sock' = sock
      /\ conn' = conn /\ port' = port /\ posted' = posted /\ cq' = cq /\ acq' = acq
      /\ sent' = sent /\ gone' = gone /\ made' = made /\ heard' = heard /\ passed' = passed
  BY DEF Fault, shared, net
<1>2. Typed /\ Phased /\ Once /\ Dialling /\ Connected /\ Sockets /\ Lists /\ Completed
      /\ Flow /\ Counted
  BY DEF Inv
<1>3. Typed' /\ Phased' /\ Connected' /\ Completed'
  BY <1>1, <1>2 DEF Typed, Phased, Connected, Completed, Entry
<1>4. Once'
  BY <1>1, <1>2 DEF Once, Places
<1>5. Dialling'
  BY <1>1, <1>2 DEF Dialling, Quiet, Listed
<1>6. Sockets'
  BY <1>1, <1>2 DEF Sockets, Settled, Quiet
<1>7. Lists'
  BY <1>1, <1>2 DEF Lists, Serving, Looked, Served, Fresh, Quiet
<1>8. Flow'
  BY <1>1, <1>2 DEF Flow, Kept, SentOn
<1>9. Counted'
  <2>1. Agents' = Agents /\ Listed' = Listed
    BY <1>1 DEF Agents, Listed
  <2>2. QED
    BY <1>1, <1>2, <2>1 DEF Counted
<1>10. QED
  BY <1>3, <1>4, <1>5, <1>6, <1>7, <1>8, <1>9 DEF Inv

-----------------------------------------------------------------------------
(* The invariant holds.                                                    *)

LEMMA InitInv == Init => Inv
<1> SUFFICES ASSUME Init PROVE Inv
  OBVIOUS
<1>1. /\ pc = "process" /\ at = 1 /\ temp = <<>> /\ active = <<>> /\ count = 0
      /\ agent = [s \in Sess |-> IF s = Dialer THEN 1 ELSE None]
      /\ accepted = <<>> /\ dial = "connecting"
      /\ kill = [s \in Sess |-> None] /\ rbuf = [s \in Sess |-> <<>>]
      /\ sock \in [Sess -> {"closed", "listening", "lost"}]
      /\ \A s \in Sess : sock[s] = "closed" <=> s = Dialer
      /\ conn = [s \in Sess |-> IF s = Dialer THEN 1 ELSE None]
      /\ port = {} /\ posted = {} /\ cq = <<>> /\ acq = <<>>
      /\ sent = [c \in Conns |-> 0] /\ gone = {} /\ made = 1
      /\ heard = [c \in Conns |-> <<>>] /\ passed = {}
  BY DEF Init
<1>2. /\ 1 \in Conns /\ Dialer \in Sess /\ Dialer \notin AcceptSess /\ None \notin Conns
      /\ AcceptSess \subseteq Sess /\ None \notin Sess /\ MaxAccept \in Nat
      /\ Conns \subseteq Nat /\ 0 \in 0 .. MaxSent /\ 1 # None
  BY Constants
<1>3. \A S : <<>> \in Seq(S)
  BY EmptySeq
<1>4. Typed
  <2>1. /\ temp \in Seq(Sess) /\ active \in Seq(Sess) /\ accepted \in Seq(AcceptSess)
        /\ acq \in Seq(AcceptSess) /\ cq \in Seq(Completion)
    BY <1>1, <1>3
  <2>2. /\ rbuf \in [Sess -> Seq(Packet)] /\ heard \in [Conns -> Seq(Packet)]
    BY <1>1, <1>3
  <2>3. /\ agent \in [Sess -> Conns \cup {None}] /\ conn \in [Sess -> Conns \cup {None}]
        /\ kill \in [Sess -> Conns \cup {None}]
        /\ sock \in [Sess -> {"listening", "open", "closing", "closed", "lost"}]
        /\ sent \in [Conns -> 0 .. MaxSent]
    BY <1>1, <1>2
  <2>4. at \in Nat \ {0} /\ count \in Nat /\ made \in Conns
    BY <1>1, <1>2
  <2>5. QED
    BY <1>1, <2>1, <2>2, <2>3, <2>4 DEF Typed
<1>5. Phased
  BY <1>1 DEF Phased
<1>6. \A s : Occ(acq, s) = 0 /\ Occ(accepted, s) = 0 /\ Occ(temp, s) = 0 /\ Occ(active, s) = 0
  BY <1>1, OccEmpty
<1>7. \A s : Returns(cq, s) = 0
  <2>1. PICK q : q = cq
    OBVIOUS
  <2>2. q \in Seq(Completion) /\ Len(q) = 0
    BY <1>1, <1>4, <2>1 DEF Typed
  <2>3. Ret(q) = <<>>
    BY <2>2, RetIs, EmptySeq
  <2>4. QED
    BY <2>1, <2>3, OccEmpty DEF Returns
<1>8. Range(cq) = {} /\ Range(acq) = {} /\ Range(accepted) = {} /\ Range(active) = {}
  BY <1>1, RangeEmpty
<1>9. \A s : Quiet(s)
  BY <1>1, <1>8 DEF Quiet
<1>10. \A s \in AcceptSess : /\ sock[s] \in {"listening", "lost"} /\ agent[s] = None
                              /\ conn[s] = None /\ rbuf[s] = <<>>
  BY <1>1, <1>2
<1>11. sock[Dialer] = "closed" /\ agent[Dialer] = 1 /\ conn[Dialer] = 1
  BY <1>1, <1>2
<1>12. Once
  BY <1>6, <1>7, <1>10 DEF Once, Places
<1>13. Listed = 0
  BY <1>6 DEF Listed
<1>14. Dialling
  BY <1>9, <1>11, <1>13 DEF Dialling
<1>15. Connected
  <2>1. \A s \in Sess : s # Dialer => conn[s] = None
    BY <1>1
  <2>2. \A s, t \in Sess : conn[s] = conn[t] /\ conn[s] # None => s = t
    BY <2>1
  <2>3. \A s \in Sess : conn[s] # None => conn[s] <= made
    <3>1. 1 <= 1
      OBVIOUS
    <3>2. QED
      BY <1>1, <1>11, <2>1, <3>1
  <2>4. \A s \in Sess : agent[s] \in {None, conn[s]} /\ kill[s] \in {None, conn[s]}
    BY <1>1
  <2>5. \A c \in Conns : sent[c] = 0 /\ heard[c] = <<>>
    BY <1>1
  <2>6. QED
    BY <2>2, <2>3, <2>4, <2>5 DEF Connected
<1>16. Sockets
  BY <1>9, <1>10 DEF Sockets, Settled
<1>17. Lists
  BY <1>1, <1>8 DEF Lists
<1>18. Completed
  <2>1. DOMAIN cq = {}
    BY <1>1
  <2>2. QED
    BY <1>8, <2>1 DEF Completed, Apart
<1>19. Flow
  <2>1. ASSUME NEW c \in Conns PROVE IsPrefix(heard[c], SentOn(c))
    <3>1. SentOn(c) = <<>> /\ heard[c] = <<>>
      BY <1>1, FirstIs, SentIs
    <3>2. IsPrefix(<<>>, <<>>)
      <4>1. PICK q : q = <<>>
        OBVIOUS
      <4>2. q \in Seq(Conns) /\ Len(q) = 0
        BY <4>1, EmptySeq
      <4>3. IsPrefix(q, q)
        <5>1. Len(q) <= Len(q) /\ \A i \in 1 .. Len(q) : q[i] = q[i]
          BY <4>2
        <5>2. IsPrefix(q, q) <=> Len(q) <= Len(q) /\ \A i \in 1 .. Len(q) : q[i] = q[i]
          BY <4>2, PrefixIs
        <5>3. QED
          BY <5>1, <5>2
      <4>4. QED
        BY <4>1, <4>3
    <3>3. QED
      BY <3>1, <3>2
  <2>2. QED
    BY <1>10, <2>1 DEF Flow
<1>20. Counted
  <2>1. Agents = {}
    BY <1>10 DEF Agents
  <2>2. Cardinality(Agents) = 0
    BY <2>1, FS_EmptySet
  <2>3. count = 0 /\ 0 <= MaxAccept + 1 /\ 0 <= MaxAccept
    BY <1>1, <1>2
  <2>4. QED
    BY <1>1, <1>13, <2>2, <2>3 DEF Counted
<1>21. QED
  BY <1>4, <1>5, <1>12, <1>14, <1>15, <1>16, <1>17, <1>18, <1>19, <1>20 DEF Inv

LEMMA StutterInv ==
  ASSUME Inv, UNCHANGED vars
  PROVE  Inv'
<1>1. /\ pc' = pc /\ at' = at /\ temp' = temp /\ active' = active /\ count' = count
      /\ agent' = agent /\ accepted' = accepted /\ dial' = dial /\ kill' = kill
      /\ rbuf' = rbuf /\ sock' = sock /\ conn' = conn /\ port' = port /\ posted' = posted
      /\ cq' = cq /\ acq' = acq /\ sent' = sent /\ gone' = gone /\ made' = made
      /\ heard' = heard /\ passed' = passed
  BY DEF vars, main, shared, net
<1>2. Typed /\ Phased /\ Once /\ Dialling /\ Connected /\ Sockets /\ Lists /\ Completed
      /\ Flow /\ Counted
  BY DEF Inv
<1>3. Typed' /\ Phased' /\ Connected' /\ Completed'
  BY <1>1, <1>2 DEF Typed, Phased, Connected, Completed, Entry
<1>4. Once'
  BY <1>1, <1>2 DEF Once, Places
<1>5. Dialling'
  BY <1>1, <1>2 DEF Dialling, Quiet, Listed
<1>6. Sockets'
  BY <1>1, <1>2 DEF Sockets, Settled, Quiet
<1>7. Lists'
  <2>1. \A t : (Fresh(t) => Fresh(t)') /\ (Looked(t) => Looked(t)')
               /\ (Serving(t) => Serving(t)')
    BY <1>1 DEF Serving, Looked, Served, Fresh, Quiet
  <2>2. Accepting => Accepting'
    BY <1>1 DEF Accepting, Starting, Looked, Served, Fresh, Quiet
  <2>3. QED
    BY <1>1, <1>2, <2>1, <2>2 DEF Lists
<1>8. Flow'
  BY <1>1, <1>2 DEF Flow, Kept, SentOn
<1>9. Counted'
  <2>1. Agents' = Agents /\ Listed' = Listed
    BY <1>1 DEF Agents, Listed
  <2>2. QED
    BY <1>1, <1>2, <2>1 DEF Counted
<1>10. QED
  BY <1>3, <1>4, <1>5, <1>6, <1>7, <1>8, <1>9 DEF Inv

\* A step of the main thread keeps the invariant.
LEMMA UpdateInv ==
  ASSUME Inv, Update
  PROVE  Inv'
<1>1. CASE \E idle \in SUBSET AcceptSess, bad \in SUBSET Sess : ProcessActive(idle, bad)
  BY <1>1, ProcessActiveInv
<1>2. CASE Refuse
  BY <1>2, RefuseInv
<1>3. CASE Accept
  BY <1>3, AcceptInv
<1>4. CASE OnAccept
  BY <1>4, OnAcceptInv
<1>5. CASE AcceptDone
  BY <1>5, AcceptDoneInv
<1>6. CASE ConnectSucceeds
  BY <1>6, ConnectSucceedsInv
<1>7. CASE OnConnect
  BY <1>7, OnConnectInv
<1>8. CASE ConnectFails
  BY <1>8, ConnectFailsInv
<1>9. CASE KickDeadSessions
  BY <1>9, KickDeadSessionsInv
<1>10. CASE Bury
  BY <1>10, BuryInv
<1>11. CASE Fault
  BY <1>11, FaultInv
<1>12. QED
  BY <1>1, <1>2, <1>3, <1>4, <1>5, <1>6, <1>7, <1>8, <1>9, <1>10, <1>11 DEF Update

LEMMA NextInv == Inv /\ [Next]_vars => Inv'
<1> SUFFICES ASSUME Inv, [Next]_vars PROVE Inv'
  OBVIOUS
<1>1. CASE Update
  BY <1>1, UpdateInv
<1>2. CASE IoThread
  BY <1>2, IoThreadInv
<1>3. CASE AcceptThread
  BY <1>3, AcceptThreadInv
<1>4. CASE ConnectThread
  BY <1>4, ConnectThreadInv
<1>5. ASSUME NEW s \in Sess, PeerSends(s) PROVE Inv'
  BY <1>5, PeerSendsInv
<1>6. ASSUME NEW s \in Sess, PeerCloses(s) PROVE Inv'
  BY <1>6, PeerClosesInv
<1>7. ASSUME NEW s \in Sess, SendThread(s) PROVE Inv'
  BY <1>7, SendThreadInv
<1>8. ASSUME NEW s \in AcceptSess, PeerConnects(s) PROVE Inv'
  BY <1>8, PeerConnectsInv
<1>9. CASE UNCHANGED vars
  BY <1>9, StutterInv
<1>10. QED
  BY <1>1, <1>2, <1>3, <1>4, <1>5, <1>6, <1>7, <1>8, <1>9 DEF Next

LEMMA InvHolds == Spec => []Inv
BY InitInv, NextInv, PTL DEF Spec

-----------------------------------------------------------------------------
(* What follows from it.                                                   *)

LEMMA ShortIs ==
  ASSUME NEW q \in Seq(Sess), \A s \in Sess : Occ(q, s) <= 1
  PROVE  Len(q) \in Nat /\ Len(q) <= Cardinality(Sess)
<1>1. Len(q) \in Nat /\ DOMAIN q = 1 .. Len(q) /\ q \in [1 .. Len(q) -> Sess]
  BY LenProperties
<1>2. IsFiniteSet(Sess)
  BY Constants, FS_AddElement
<1>3. \A i, j \in 1 .. Len(q) : q[i] = q[j] => i = j
  <2>1. \A i \in 1 .. Len(q) : Occ(q, q[i]) <= 1
    BY <1>1
  <2>2. QED
    BY <1>1, <2>1, OccOnce
<1>4. q \in Injection(1 .. Len(q), Sess)
  BY <1>1, <1>3 DEF Injection, IsInjective
<1>5. Cardinality(1 .. Len(q)) <= Cardinality(Sess)
  BY <1>2, <1>4, FS_Injection
<1>6. Cardinality(1 .. Len(q)) = Len(q)
  <2>1. 1 \in Int /\ Len(q) \in Int
    BY <1>1
  <2>2. Cardinality(1 .. Len(q)) = IF 1 > Len(q) THEN 0 ELSE Len(q) - 1 + 1
    BY <2>1, FS_Interval
  <2>3. QED
    BY <1>1, <2>2
<1>7. QED
  BY <1>1, <1>5, <1>6

LEMMA SessAre == /\ IsFiniteSet(Sess)
                 /\ Cardinality(Sess) = Cardinality(AcceptSess) + 1 /\ Cardinality(Sess) \in Nat
                 /\ Cardinality(AcceptSess) \in Nat
BY Constants, FS_AddElement, FS_CardinalityType

LEMMA InvTypes == Inv => TypeOK
<1> SUFFICES ASSUME Inv PROVE TypeOK
  OBVIOUS
<1>1. Typed /\ Phased /\ Dialling /\ Counted /\ Once
  BY DEF Inv
<1>2. at \in 1 .. Cardinality(Sess) + 1
  <2>1. PICK n, m : n = Len(temp) /\ m = Cardinality(Sess)
    OBVIOUS
  <2>2. \A s \in Sess : Occ(temp, s) <= 1
    <3>1. \A s \in AcceptSess : Occ(temp, s) <= 1
      BY <1>1, AloneIs DEF Alone
    <3>2. Occ(temp, Dialer) <= 1
      <4>1. PICK a, b : a = Occ(temp, Dialer) /\ b = Occ(active, Dialer)
        OBVIOUS
      <4>2. a \in Nat /\ b \in Nat /\ a + b <= 1
        BY <1>1, <4>1, OccsAre DEF Dialling, Listed
      <4>3. a <= 1
        BY <4>2
      <4>4. QED
        BY <4>1, <4>3
    <3>3. QED
      BY <3>1, <3>2, Constants
  <2>3. n \in Nat /\ n <= m /\ m \in Nat
    BY <1>1, <2>1, <2>2, ShortIs, SessAre DEF Typed
  <2>4. at \in Nat \ {0} /\ at <= n + 1
    <3>1. CASE pc \in {"accepted", "onaccept"}
      BY <1>1, <2>1, <2>3, <3>1 DEF Phased, Typed
    <3>2. CASE pc \notin {"accepted", "onaccept"}
      <4>1. at = 1
        BY <1>1, <3>2 DEF Phased
      <4>2. QED
        BY <2>3, <4>1
    <3>3. QED
      BY <3>1, <3>2
  <2>5. at \in 1 .. m + 1
    BY <2>3, <2>4
  <2>6. QED
    BY <2>1, <2>5
<1>3. count \in 0 .. Cardinality(Sess)
  <2>1. PICK k, n, l, a : /\ k = count /\ n = Cardinality(Agents) /\ l = Listed
                          /\ a = Cardinality(AcceptSess)
    OBVIOUS
  <2>2. k \in Nat /\ n \in Nat /\ l \in Nat /\ a \in Nat /\ k = n + l /\ n <= a /\ l <= 1
    BY <1>1, <2>1, AgentsAre, ListedIs DEF Counted, Dialling, Typed
  <2>3. k \in 0 .. a + 1
    BY <2>2
  <2>4. QED
    BY <2>1, <2>3, SessAre
<1>4. passed \subseteq Sess
  BY <1>1, Constants DEF Typed
<1>5. QED
  BY <1>1, <1>2, <1>3, <1>4 DEF Typed, TypeOK

LEMMA InvHears == Inv => HeardInOrder
<1> SUFFICES ASSUME Inv PROVE HeardInOrder
  OBVIOUS
<1>1. Flow /\ Dialling
  BY DEF Inv
<1>2. QED
  BY <1>1 DEF Flow, Dialling, HeardInOrder

LEMMA InvKeeps == Inv => NothingDropped
<1> SUFFICES ASSUME Inv PROVE NothingDropped
  OBVIOUS
<1>1. \A s \in AcceptSess : sock[s] = "open" => Kept(s)
  BY DEF Inv, Flow
<1>2. \A s : Coming(s) = Data(cq, s)
  BY DEF Coming, Data
<1>3. QED
  BY <1>1, <1>2 DEF Kept, NothingDropped

LEMMA InvKills == Inv => NoStaleKill
<1> SUFFICES ASSUME Inv PROVE NoStaleKill
  OBVIOUS
<1>1. Range(active) \subseteq Sess
  BY RangeIs DEF Inv, Typed
<1>2. QED
  BY <1>1 DEF Inv, Connected, NoStaleKill

\* An active session and its agent.
LEMMA ActiveAgent ==
  ASSUME Inv, NEW s \in Range(active)
  PROVE  /\ s \in Sess
         /\ s \notin passed => agent[s] = conn[s] /\ agent[s] # None
         /\ s = Dialer => agent[s] # None
<1>1. Typed /\ Connected /\ Lists /\ Dialling /\ active \in Seq(Sess)
  BY DEF Inv, Typed
<1>2. s \in Sess /\ Serving(s)
  BY <1>1, RangeIs DEF Lists
<1>3. CASE s = Dialer
  <2>1. PICK a, b : a = Occ(temp, Dialer) /\ b = Occ(active, Dialer)
    OBVIOUS
  <2>2. a \in Nat /\ b \in Nat /\ a + b <= 1 /\ b # 0
    BY <1>1, <1>3, <2>1, OccsAre DEF Dialling, Listed
  <2>3. a + b = 1
    BY <2>2
  <2>4. agent[s] = 1 /\ conn[s] = 1
    BY <1>1, <1>3, <2>1, <2>3 DEF Dialling, Listed
  <2>5. 1 # None
    BY Constants
  <2>6. QED
    BY <1>2, <2>4, <2>5
<1>4. CASE s # Dialer
  <2>1. s \notin passed => agent[s] # None
    BY <1>2, <1>4 DEF Serving, Looked, Served
  <2>2. agent[s] \in {None, conn[s]}
    BY <1>1, <1>2 DEF Connected
  <2>3. QED
    BY <1>2, <1>4, <2>1, <2>2
<1>5. QED
  BY <1>3, <1>4

LEMMA InvServes == Inv => AgentOfItsConnection
<1> SUFFICES ASSUME Inv PROVE AgentOfItsConnection
  OBVIOUS
<1>1. \A s \in Range(active) \ passed : agent[s] = conn[s] /\ agent[s] # None
  BY ActiveAgent
<1>2. \A s \in AcceptSess : sock[s] \in {"listening", "closing", "lost"} => agent[s] = None
  <2>1. ASSUME NEW s \in AcceptSess, sock[s] = "listening" PROVE agent[s] = None
    <3>1. conn[s] = None
      BY <2>1 DEF Inv, Sockets, Settled
    <3>2. agent[s] \in {None, conn[s]}
      BY Constants DEF Inv, Connected
    <3>3. QED
      BY <3>1, <3>2
  <2>2. QED
    BY <2>1 DEF Inv, Sockets, Settled
<1>3. QED
  BY <1>1, <1>2 DEF AgentOfItsConnection

\* Between two turns of the loop in Update, the sessions with an agent are active.
LEMMA AgentsAreActive ==
  ASSUME Inv, pc = "process", NEW s \in Agents
  PROVE  s \in Range(active)
<1>1. Typed /\ Phased /\ Once /\ Connected /\ Sockets /\ Lists
  BY DEF Inv
<1>2. s \in AcceptSess /\ s \in Sess /\ agent[s] # None
  BY Constants DEF Agents
<1>3. sock[s] \notin {"listening", "lost", "closing"}
  <2>1. conn[s] # None
    BY <1>1, <1>2 DEF Connected
  <2>2. QED
    BY <1>1, <1>2, <2>1 DEF Sockets, Settled
<1>4. s \notin Range(acq) /\ s \notin Range(accepted)
  BY <1>1, <1>2 DEF Lists, Fresh
<1>5. Occ(acq, s) = 0 /\ Occ(accepted, s) = 0 /\ Occ(temp, s) = 0
  <2>1. temp = <<>>
    BY <1>1 DEF Phased
  <2>2. QED
    BY <1>1, <1>4, <2>1, OccsAre, OccEmpty
<1>6. Places(s) = 1 /\ Returns(cq, s) = 0
  BY <1>1, <1>2, <1>3 DEF Once
<1>7. PICK a : a = Occ(active, s)
  OBVIOUS
<1>8. a \in Nat /\ 0 + 0 + 0 + a + 0 = 1
  BY <1>1, <1>5, <1>6, <1>7, OccsAre DEF Places
<1>9. a # 0
  BY <1>8
<1>10. QED
  BY <1>1, <1>7, <1>9, OccsAre

LEMMA InvCounts == Inv => CountIsExact
<1> SUFFICES ASSUME Inv PROVE CountIsExact
  OBVIOUS
<1>1. Typed /\ Phased /\ Dialling /\ Counted
  BY DEF Inv
<1>2. ASSUME pc = "process"
      PROVE  count = Cardinality({s \in Range(active) : agent[s] # None})
  <2>1. PICK A, B, D : /\ A = Agents /\ B = {s \in Range(active) : agent[s] # None}
                       /\ D = {s \in {Dialer} : s \in Range(active)}
    OBVIOUS
  <2>2. B = A \cup D
    <3>1. \A s \in Agents : s \in Range(active) /\ agent[s] # None
      BY <1>2, AgentsAreActive DEF Agents
    <3>2. \A s \in Range(active) : s \in AcceptSess \/ s = Dialer
      BY <1>1, RangeIs, Constants DEF Typed
    <3>3. Dialer \in Range(active) => agent[Dialer] # None
      BY ActiveAgent
    <3>4. QED
      BY <2>1, <3>1, <3>2, <3>3 DEF Agents
  <2>3. IsFiniteSet(A) /\ Cardinality(A) \in Nat /\ Dialer \notin A
    BY <2>1, AgentsAre, Constants DEF Agents
  <2>4. PICK a : a = Occ(active, Dialer)
    OBVIOUS
  <2>5. a \in Nat /\ a <= 1 /\ Listed = a
    <3>1. Occ(temp, Dialer) = 0
      BY <1>1, <1>2, OccEmpty DEF Phased
    <3>2. a \in Nat /\ Listed = 0 + a /\ Listed <= 1
      BY <1>1, <2>4, <3>1, OccsAre DEF Listed, Dialling
    <3>3. QED
      BY <3>2
  <2>6. a # 0 <=> Dialer \in Range(active)
    BY <1>1, <2>4, OccsAre
  <2>7. Cardinality(B) = Cardinality(A) + a
    <3>1. CASE Dialer \in Range(active)
      <4>1. D = {Dialer} /\ a = 1
        BY <2>1, <2>5, <2>6, <3>1
      <4>2. Cardinality(A \cup {Dialer}) = Cardinality(A) + 1
        BY <2>3, FS_AddElement
      <4>3. QED
        BY <2>2, <4>1, <4>2
    <3>2. CASE Dialer \notin Range(active)
      <4>1. D = {} /\ a = 0
        BY <2>1, <2>5, <2>6, <3>2
      <4>2. B = A
        BY <2>2, <4>1
      <4>3. QED
        BY <2>3, <4>1, <4>2
    <3>3. QED
      BY <3>1, <3>2
  <2>8. count = Cardinality(A) + a
    BY <1>1, <2>1, <2>5 DEF Counted
  <2>9. QED
    BY <2>1, <2>7, <2>8
<1>3. QED
  BY <1>1, <1>2 DEF Counted, CountIsExact

LEMMA InvPlaces == Inv => NoSessionLeaks
<1> SUFFICES ASSUME Inv PROVE NoSessionLeaks
  OBVIOUS
<1>1. Typed /\ Once
  BY DEF Inv
<1>2. PICK S, a, b, t, v, r : /\ S = Sess \cup {None} /\ a = acq /\ b = accepted /\ t = temp
                              /\ v = active /\ r = Ret(cq)
  OBVIOUS
<1>3. a \in Seq(S) /\ b \in Seq(S) /\ t \in Seq(S) /\ v \in Seq(S) /\ r \in Seq(S)
  <2>1. AcceptSess \subseteq S /\ Sess \subseteq S
    BY <1>2, Constants
  <2>2. Seq(AcceptSess) \subseteq Seq(S) /\ Seq(Sess) \subseteq Seq(S)
    BY <2>1
  <2>3. cq \in Seq(Completion)
    BY <1>1 DEF Typed
  <2>4. r \in Seq(S)
    BY <1>2, <2>3, RetIs
  <2>5. QED
    BY <1>1, <1>2, <2>2, <2>4 DEF Typed
<1>4. PICK ab, abt, abtv, all : /\ ab = a \o b /\ abt = ab \o t /\ abtv = abt \o v
                                /\ all = abtv \o r
  OBVIOUS
<1>5. ab \in Seq(S) /\ abt \in Seq(S) /\ abtv \in Seq(S)
  <2>1. ab \in Seq(S)
    BY <1>3, <1>4, ConcatProperties
  <2>2. abt \in Seq(S)
    BY <1>3, <1>4, <2>1, ConcatProperties
  <2>3. QED
    BY <1>3, <1>4, <2>1, <2>2, ConcatProperties
<1>6. ASSUME NEW s \in AcceptSess
      PROVE  Occ(all, s) = IF sock[s] \in {"listening", "lost"} THEN 0 ELSE 1
  <2>0. ASSUME NEW x \in Seq(S), NEW y \in Seq(S), NEW z, z = x \o y
        PROVE  Occ(z, s) = Occ(x, s) + Occ(y, s)
    BY ONLY <2>0, OccConcat
  <2>1. Occ(ab, s) = Occ(a, s) + Occ(b, s)
    BY <1>3, <1>4, <2>0
  <2>2. Occ(abt, s) = Occ(ab, s) + Occ(t, s)
    BY <1>3, <1>4, <1>5, <2>0
  <2>3. Occ(abtv, s) = Occ(abt, s) + Occ(v, s)
    <3>1. abt \in Seq(S) /\ v \in Seq(S) /\ abtv = abt \o v
      BY <1>3, <1>4, <1>5
    <3>2. QED
      BY ONLY <3>1, <2>0
  <2>4. Occ(all, s) = Occ(abtv, s) + Occ(r, s)
    <3>1. abtv \in Seq(S) /\ r \in Seq(S) /\ all = abtv \o r
      BY <1>3, <1>4, <1>5
    <3>2. QED
      BY ONLY <3>1, <2>0
  <2>5. Occ(all, s) = Places(s)
    BY <1>2, <2>1, <2>2, <2>3, <2>4 DEF Places, Returns
  <2>6. QED
    BY <1>1, <2>5 DEF Once
<1>7. all = acq \o accepted \o temp \o active
              \o [i \in 1 .. Len(cq) |-> IF cq[i].type = "disconnect" THEN cq[i].sess ELSE None]
  BY <1>2, <1>4 DEF Ret
<1>8. \A s \in AcceptSess :
        Cardinality({i \in DOMAIN all : all[i] = s})
          = IF sock[s] \in {"listening", "lost"} THEN 0 ELSE 1
  BY <1>6 DEF Occ
<1>9. QED
  BY <1>7, <1>8 DEF NoSessionLeaks

\* The state of Sessions keeps its shape: every session and every packet that a list, a
\* flag or a completion holds is one of the program's, the loop over m_pTempList stays on
\* it, and m_numActiveSessions is between zero and the size of the pools.
THEOREM TypeCorrect == Spec => []TypeOK
BY InvHolds, InvTypes, PTL

\* What OnRecv is called with for an agent is what its own client has sent, from the
\* first packet on and in order, although the session and its buffers go from one
\* connection to the next.
THEOREM HearsInOrder == Spec => []HeardInOrder
BY InvHolds, InvHears, PTL

\* Whatever the threads do in between, nothing that a client has sent is missing
\* while its session is open: OnRecv was called with it, it is in the receive buffer,
\* or its completion is on the port.
THEOREM DropsNothing == Spec => []NothingDropped
BY InvHolds, InvKeeps, PTL

\* A session that is to be removed is so for the connection it serves: the flag
\* that Remove sets never outlives the connection, because PreAccept resets it
\* after the last completion of the old one.
THEOREM KillsItsOwn == Spec => []NoStaleKill
BY InvHolds, InvKills, PTL

\* An active session has the agent of the connection it serves, unless a loop has
\* passed over it, and a session that is given back has none.
THEOREM ServesItsOwn == Spec => []AgentOfItsConnection
BY InvHolds, InvServes, PTL

\* m_numActiveSessions is the number of active sessions with an agent whenever Update
\* begins, and exceeds the limit at most by the connection to the master.
THEOREM CountsExactly == Spec => []CountIsExact
BY InvHolds, InvCounts, PTL

\* A session of the pool is in one place and only once: on one of the lists or among
\* the completions that give it back; it is in none only while it listens, when it was
\* refused before its socket reported to the port, or once an accept, AcceptEx or a
\* disconnect has failed for it.
THEOREM LeaksNothing == Spec => []NoSessionLeaks
BY InvHolds, InvPlaces, PTL
=====
