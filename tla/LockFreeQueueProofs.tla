------------------------ MODULE LockFreeQueueProofs ------------------------
(***************************************************************************)
(* Theorems about LockFreeQueue: the types for any number of threads, and, *)
(* for one thread that enqueues and one that dequeues, in a queue of any   *)
(* size, that until the two meet on a node nothing is lost, doubled or     *)
(* swapped, the list is sound and the queue is a channel.                  *)
(*                                                                         *)
(* The inductive invariant, QueueInv, describes the list by a witness: a   *)
(* number n and a function w that leads through its nodes.  No recursive   *)
(* definition occurs in it; WalkIsPath then shows that the walk of the     *)
(* properties, which is recursive, meets the nodes of w.                   *)
(***************************************************************************)
EXTENDS LockFreeQueue, SequenceTheorems, FiniteSetTheorems, WellFoundedInduction, TLAPS

-----------------------------------------------------------------------------
(* Types.                                                                  *)

ProducerTyped(p) ==
  /\ pc[p] \in {"idle", "tail"} \cup Linking
  /\ pc[p] # "idle" => node[p] \in Nodes
  /\ pc[p] \in Linking => target[p] \in Nodes

ConsumerTyped(c) ==
  /\ pc[c] \in {"idle", "again", "second", "delete"} \cup Unlinking
  /\ pc[c] \in Unlinking \cup {"delete"} => node[c] \in Nodes

\* Only producers link and only consumers unlink, and a thread that does has a
\* node to work on.
TypeInv ==
  /\ TypeOK
  /\ \A p \in Producers : ProducerTyped(p)
  /\ \A c \in Consumers : ConsumerTyped(c)

LEMMA EnqueueTyped ==
  ASSUME TypeInv, NEW p \in Producers, Enqueue(p)
  PROVE  TypeInv'
<1>1. /\ p \in Threads /\ p \notin Consumers /\ TypeOK /\ ProducerTyped(p)
      /\ Null \notin Nodes /\ MaxCalls \in Nat
  BY QueueAssumption DEF Threads, TypeInv
<1>2. \A t \in Threads : t # p =>
        pc'[t] = pc[t] /\ node'[t] = node[t] /\ target'[t] = target[t] /\ seen'[t] = seen[t]
  BY <1>1 DEF Enqueue, EnqueueStart, ReadTail, PeekNext, LinkNode, TestNext, RaiseTail, TypeOK
<1>3. ASSUME TypeOK', ProducerTyped(p)' PROVE TypeInv'
  BY <1>1, <1>2, <1>3 DEF TypeInv, ProducerTyped, ConsumerTyped, Threads
<1>4. raced' \in BOOLEAN /\ order' = order
  BY <1>1 DEF Enqueue, EnqueueStart, ReadTail, PeekNext, LinkNode, TestNext, RaiseTail, TypeOK,
              NoteClash
<1>5. CASE EnqueueStart(p)
  <2>1. calls < MaxCalls /\ calls \in 0 .. MaxCalls /\ MaxCalls \in Nat
    BY <1>1, <1>5 DEF TypeOK, EnqueueStart
  <2>2. calls + 1 \in 0 .. MaxCalls
    BY <2>1
  <2>3. PICK n \in Nodes \ live :
          /\ live' = live \cup {n}
          /\ node' = [node EXCEPT ![p] = n]
          /\ next' = [next EXCEPT ![n] = Null]
          /\ value' = [value EXCEPT ![n] = calls + 1]
    BY <1>5 DEF EnqueueStart
  <2>4. /\ calls' = calls + 1
        /\ target' = [target EXCEPT ![p] = Null]
        /\ pc' = [pc EXCEPT ![p] = "tail"]
        /\ UNCHANGED <<order, tail, seen, got>>
    BY <1>5 DEF EnqueueStart
  <2>5. TypeOK'
    BY <1>1, <1>4, <2>2, <2>3, <2>4 DEF TypeOK, Linking, Unlinking
  <2>6. ProducerTyped(p)'
    BY <1>1, <2>3, <2>4 DEF TypeOK, ProducerTyped, Linking
  <2>7. QED
    BY <1>3, <2>5, <2>6
<1>6. CASE ReadTail(p)
  <2>1. TypeOK' /\ ProducerTyped(p)'
    BY <1>1, <1>2, <1>4, <1>6 DEF TypeOK, ReadTail, ProducerTyped, Linking, Unlinking
  <2>2. QED
    BY <1>3, <2>1
<1>7. CASE PeekNext(p)
  <2>1. TypeOK' /\ ProducerTyped(p)'
    BY <1>1, <1>2, <1>4, <1>7 DEF TypeOK, PeekNext, ProducerTyped, Linking, Unlinking
  <2>2. QED
    BY <1>3, <2>1
<1>8. CASE LinkNode(p)
  <2>1. next' \in [Nodes -> Nodes \cup {Null, Junk}]
    BY <1>1, <1>8 DEF TypeOK, LinkNode, ProducerTyped, Linking
  <2>2. /\ \/ pc' = [pc EXCEPT ![p] = "tail"]
           \/ pc' = [pc EXCEPT ![p] = "swing"]
           \/ pc' = [pc EXCEPT ![p] = "test"]
        /\ seen' \in [Threads -> Nodes \cup {Null, Junk}]
        /\ UNCHANGED <<order, tail, value, live, node, target, calls, got>>
    <3>1. target[p] \in Nodes
      BY <1>1, <1>8 DEF LinkNode, ProducerTyped, Linking
    <3>2. next[target[p]] \in Nodes \cup {Null, Junk}
      BY <1>1, <3>1 DEF TypeOK
    <3>3. QED
      BY <1>1, <1>8, <3>2 DEF TypeOK, LinkNode
  <2>3. node[p] \in Nodes /\ target[p] \in Nodes
    BY <1>1, <1>8 DEF LinkNode, ProducerTyped, Linking
  <2>4. TypeOK' /\ ProducerTyped(p)'
    BY <1>1, <1>4, <2>1, <2>2, <2>3 DEF TypeOK, ProducerTyped, Linking, Unlinking
  <2>5. QED
    BY <1>3, <2>4
<1>9. CASE TestNext(p)
  <2>1. TypeOK' /\ ProducerTyped(p)'
    BY <1>1, <1>2, <1>4, <1>9 DEF TypeOK, TestNext, ProducerTyped, Linking, Unlinking
  <2>2. QED
    BY <1>3, <2>1
<1>10. CASE RaiseTail(p)
  <2>1. TypeOK' /\ ProducerTyped(p)'
    BY <1>1, <1>2, <1>4, <1>10 DEF TypeOK, RaiseTail, ProducerTyped, Linking, Unlinking
  <2>2. QED
    BY <1>3, <2>1
<1>11. QED
  BY <1>5, <1>6, <1>7, <1>8, <1>9, <1>10 DEF Enqueue

LEMMA DequeueTyped ==
  ASSUME TypeInv, NEW c \in Consumers, Dequeue(c)
  PROVE  TypeInv'
<1>1. /\ c \in Threads /\ c \notin Producers /\ TypeOK /\ ConsumerTyped(c)
      /\ Null \notin Nodes /\ Sentinel \in Nodes
  BY QueueAssumption DEF Threads, TypeInv
<1>2. \A t \in Threads : t # c =>
        pc'[t] = pc[t] /\ node'[t] = node[t] /\ target'[t] = target[t] /\ seen'[t] = seen[t]
  BY <1>1 DEF Dequeue, ReadFirst, ReadSecond, UnlinkNode, LowerTail, DeleteNode, TypeOK
<1>3. ASSUME TypeOK', ConsumerTyped(c)' PROVE TypeInv'
  BY <1>1, <1>2, <1>3 DEF TypeInv, ProducerTyped, ConsumerTyped, Threads
<1>4. raced' \in BOOLEAN /\ order' = order
  BY <1>1 DEF Dequeue, ReadFirst, ReadSecond, UnlinkNode, LowerTail, DeleteNode, TypeOK, NoteClash
<1>5. CASE ReadFirst(c)
  <2>1. TypeOK' /\ ConsumerTyped(c)'
    BY <1>1, <1>2, <1>4, <1>5 DEF TypeOK, ReadFirst, ConsumerTyped, Linking, Unlinking
  <2>2. QED
    BY <1>3, <2>1
<1>6. CASE ReadSecond(c)
  <2>1. TypeOK' /\ ConsumerTyped(c)'
    BY <1>1, <1>2, <1>4, <1>6 DEF TypeOK, ReadSecond, ConsumerTyped, Linking, Unlinking
  <2>2. QED
    BY <1>3, <2>1
<1>7. CASE UnlinkNode(c)
  <2>1. node[c] \in Nodes
    BY <1>1, <1>7 DEF UnlinkNode, ConsumerTyped, Unlinking
  <2>2. /\ next' \in [Nodes -> Nodes \cup {Null, Junk}]
        /\ pc' = [pc EXCEPT ![c] = "lower tail"] \/ pc' = [pc EXCEPT ![c] = "again"]
        /\ UNCHANGED <<order, tail, value, live, node, target, seen, calls, got>>
    BY <1>1, <1>7 DEF TypeOK, UnlinkNode
  <2>3. TypeOK' /\ ConsumerTyped(c)'
    BY <1>1, <1>4, <2>1, <2>2 DEF TypeOK, ConsumerTyped, Linking, Unlinking
  <2>4. QED
    BY <1>3, <2>3
<1>8. CASE LowerTail(c)
  <2>1. TypeOK' /\ ConsumerTyped(c)'
    BY <1>1, <1>2, <1>4, <1>8 DEF TypeOK, LowerTail, ConsumerTyped, Linking, Unlinking
  <2>2. QED
    BY <1>3, <2>1
<1>9. CASE DeleteNode(c)
  <2>1. node[c] \in Nodes /\ value[node[c]] \in 0 .. MaxCalls
    BY <1>1, <1>9 DEF TypeOK, DeleteNode, ConsumerTyped
  <2>2. got' \in Seq(0 .. MaxCalls)
    BY <1>1, <1>9, <2>1, AppendProperties DEF TypeOK, DeleteNode
  <2>3. /\ live' \subseteq Nodes
        /\ next' \in [Nodes -> Nodes \cup {Null, Junk}]
        /\ pc' = [pc EXCEPT ![c] = "idle"]
        /\ UNCHANGED <<order, tail, value, node, target, seen, calls>>
    <3>1. next[node[c]] \in Nodes \cup {Null, Junk}
      BY <1>1, <2>1 DEF TypeOK
    <3>2. PICK left \in {next[node[c]], Junk} : next' = [next EXCEPT ![node[c]] = left]
      BY <1>9 DEF DeleteNode
    <3>3. next' \in [Nodes -> Nodes \cup {Null, Junk}]
      BY <1>1, <2>1, <3>1, <3>2 DEF TypeOK
    <3>4. QED
      BY <1>1, <1>9, <3>3 DEF TypeOK, DeleteNode
  <2>4. TypeOK' /\ ConsumerTyped(c)'
    BY <1>1, <1>4, <2>2, <2>3 DEF TypeOK, ConsumerTyped, Linking, Unlinking
  <2>5. QED
    BY <1>3, <2>4
<1>10. QED
  BY <1>5, <1>6, <1>7, <1>8, <1>9 DEF Dequeue

LEMMA TypeInvStep == TypeInv /\ [Next]_vars => TypeInv'
<1> SUFFICES ASSUME TypeInv, [Next]_vars PROVE TypeInv'
  OBVIOUS
<1>1. CASE UNCHANGED vars
  BY <1>1 DEF vars, TypeInv, TypeOK, ProducerTyped, ConsumerTyped
<1>2. CASE Next
  BY <1>2, EnqueueTyped, DequeueTyped DEF Next
<1>3. QED
  BY <1>1, <1>2

LEMMA InitTyped == Init => TypeInv
<1> SUFFICES ASSUME Init PROVE TypeInv
  OBVIOUS
<1>1. got \in Seq(0 .. MaxCalls)
  BY EmptySeq DEF Init
<1>2. TypeOK
  <2>1. MaxCalls \in Nat /\ Sentinel \in Nodes
    BY QueueAssumption
  <2>2. 0 \in 0 .. MaxCalls
    BY <2>1
  <2>3. QED
    BY <1>1, <2>1, <2>2 DEF Init, TypeOK, Linking, Unlinking
<1>3. QED
  BY <1>2 DEF Init, TypeInv, ProducerTyped, ConsumerTyped, Threads, Linking, Unlinking

LEMMA TypeInvAlways == Spec => []TypeInv
BY InitTyped, TypeInvStep, PTL DEF Spec


\* The variables keep their types, whatever the threads do to each other: no thread
\* links to or unlinks a NULL, and no field holds anything but a node, NULL or Junk.
THEOREM QueueTypes == Spec => []TypeOK
<1>1. TypeInv => TypeOK
  BY DEF TypeInv
<1>2. QED
  BY <1>1, TypeInvAlways, PTL

-----------------------------------------------------------------------------
(* The list, as long as one producer p and one consumer c have not clashed. *)

\* w leads through the n nodes behind the sentinel to the end of the list.
Path(n, w) ==
  /\ w \in [0 .. n -> Nodes]
  /\ w[0] = Sentinel
  /\ \A i, j \in 0 .. n : w[i] = w[j] => i = j
  /\ \A i \in 0 .. n : w[i] \in live
  /\ \A i \in 0 .. n - 1 : next[w[i]] = w[i + 1]
  /\ next[w[n]] = Null

\* A node that is allocated and not in the list.
Outside(x, n, w) == x \in live /\ \A i \in 0 .. n : w[i] # x

\* Enqueue has made its node and not linked it.
Unlinked(p, n, w) ==
  /\ pc[p] \in {"tail", "peek", "link"}
  /\ Outside(node[p], n, w) /\ next[node[p]] = Null /\ value[node[p]] = calls
  /\ IF pc[p] = "tail" THEN target[p] = Null ELSE target[p] = w[n] /\ tail = w[n]
  /\ pc[p] = "link" /\ order = "load first" => seen[p] = Null

\* Enqueue has linked its node; m_tailNode does not point to it yet.
Behind(p, n, w) ==
  /\ pc[p] \in {"tail", "link", "test", "swing"}
  /\ order = "load first" => pc[p] = "swing"
  /\ n > 0 /\ node[p] = w[n] /\ target[p] = w[n - 1] /\ tail = w[n - 1]

\* Dequeue has unlinked a node and not deleted it.
Holds(c) == pc[c] \in {"lower tail", "delete"}

\* m_tailNode points to the last node, or to the one just unlinked.
TailRight(c, n, w) ==
  \/ tail = w[n]
  \/ pc[c] = "lower tail" /\ n = 0 /\ tail = node[c]

\* The values that were dequeued or are about to be.
Before(c) == Len(got) + (IF Holds(c) THEN 1 ELSE 0)

Dequeuing(p, c, n, w) ==
  /\ pc[c] \in {"idle", "second", "unlink", "lower tail", "delete"}
  /\ pc[c] \in {"second", "unlink"} => n > 0 /\ node[c] = w[1]
  /\ pc[c] = "unlink" => seen[c] = IF n > 1 THEN w[2] ELSE Null
  /\ Holds(c) => /\ Outside(node[c], n, w)
                 /\ pc[p] # "idle" => node[p] # node[c]
                 /\ value[node[c]] = Len(got) + 1
  /\ pc[c] = "delete" => tail # node[c]

Enqueuing(p, c, n, w) ==
  \/ pc[p] = "idle" /\ TailRight(c, n, w) /\ calls = Before(c) + n
  \/ Unlinked(p, n, w) /\ TailRight(c, n, w) /\ calls = Before(c) + n + 1
  \/ Behind(p, n, w) /\ calls = Before(c) + n

\* The values in the list follow those that came out.
Numbered(c, n, w) ==
  /\ \A i \in 1 .. n : value[w[i]] = Before(c) + i
  /\ \A i \in 1 .. Len(got) : got[i] = i

Sound(p, c, n, w) ==
  /\ n \in Nat
  /\ Path(n, w)
  /\ Numbered(c, n, w)
  /\ Dequeuing(p, c, n, w)
  /\ Enqueuing(p, c, n, w)
  /\ ~Clash(p, c)

\* One thread enqueues and one dequeues, as the main thread and the append thread.
OneOfEach(p, c) == Producers = {p} /\ Consumers = {c}

QueueInv(p, c) == TypeInv /\ (~raced => \E n, w : Sound(p, c, n, w))

\* What there is to work with.
Threaded(p, c) ==
  /\ p # c /\ p \in Threads /\ c \in Threads /\ DOMAIN pc = Threads
  /\ DOMAIN node = Threads /\ DOMAIN target = Threads /\ DOMAIN seen = Threads

Stored ==
  /\ Null \notin Nodes /\ Sentinel \in Nodes /\ live \subseteq Nodes
  /\ DOMAIN next = Nodes /\ DOMAIN value = Nodes

Counted == got \in Seq(Nat) /\ Len(got) \in Nat /\ calls \in Nat

LEMMA Facts ==
  ASSUME NEW p, NEW c, OneOfEach(p, c), TypeInv
  PROVE  Threaded(p, c) /\ Stored /\ Counted
<1>1. Producers \cap Consumers = {} /\ Null \notin Nodes /\ Sentinel \in Nodes
  BY QueueAssumption
<1>2. MaxCalls \in Nat
  BY QueueAssumption
<1>3. TypeOK
  BY DEF TypeInv
<1>4. p # c /\ p \in Threads /\ c \in Threads
  BY <1>1 DEF OneOfEach, Threads
<1>5. Threaded(p, c) /\ Stored
  BY <1>1, <1>3, <1>4 DEF TypeOK, Threaded, Stored
<1>6. 0 .. MaxCalls \subseteq Nat
  BY <1>2
<1>7. got \in Seq(0 .. MaxCalls) /\ calls \in 0 .. MaxCalls
  BY <1>3 DEF TypeOK
<1>8. got \in Seq(Nat) /\ calls \in Nat
  BY <1>6, <1>7, SeqMonotonic
<1>9. Len(got) \in Nat
  BY <1>8, LenProperties
<1>10. QED
  BY <1>5, <1>8, <1>9 DEF Counted

\* A step notes when it makes the threads clash.
LEMMA NoClash ==
  ASSUME NEW p, NEW c, OneOfEach(p, c), NoteClash, ~raced'
  PROVE  ~raced /\ ~Clash(p, c)'
<1>1. p \in Producers /\ c \in Consumers
  BY DEF OneOfEach
<1>2. ~raced /\ ~Clashes'
  BY DEF NoteClash
<1>3. QED
  BY <1>1, <1>2 DEF Clashes

\* The ends of a path.
LEMMA PathFacts ==
  ASSUME NEW n \in Nat, NEW w, Path(n, w)
  PROVE  /\ 0 \in 0 .. n /\ n \in 0 .. n /\ w[0] = Sentinel /\ w[n] \in Nodes
         /\ \A i \in 0 .. n : w[i] \in Nodes /\ w[i] \in live
         /\ n > 0 => n - 1 \in 0 .. n /\ 1 \in 0 .. n /\ w[n - 1] # w[n] /\ w[1] # Sentinel
         /\ next[Sentinel] = IF n > 0 THEN w[1] ELSE Null
         /\ n > 0 => next[w[1]] = IF n > 1 THEN w[2] ELSE Null
<1>1. 0 \in 0 .. n /\ n \in 0 .. n
  OBVIOUS
<1>2. /\ w[0] = Sentinel /\ \A i \in 0 .. n : w[i] \in Nodes /\ w[i] \in live
      /\ next[w[n]] = Null
  BY DEF Path
<1>3. ASSUME n > 0
      PROVE  /\ n - 1 \in 0 .. n /\ 1 \in 0 .. n /\ w[n - 1] # w[n] /\ w[1] # Sentinel
             /\ next[w[0]] = w[1]
  <2>1. n - 1 \in 0 .. n /\ 1 \in 0 .. n /\ n - 1 # n /\ 0 \in 0 .. n - 1 /\ 0 + 1 = 1
    BY <1>3
  <2>2. w[n - 1] # w[n] /\ w[1] # w[0]
    BY <1>1, <2>1 DEF Path
  <2>3. next[w[0]] = w[0 + 1]
    BY <2>1 DEF Path
  <2>4. QED
    BY <1>2, <2>1, <2>2, <2>3
<1>4. ASSUME n > 1 PROVE next[w[1]] = w[2]
  <2>1. 1 \in 0 .. n - 1 /\ 1 + 1 = 2
    BY <1>4
  <2>2. next[w[1]] = w[1 + 1]
    BY <2>1 DEF Path
  <2>3. QED
    BY <2>1, <2>2
<1>5. n > 0 /\ ~(n > 1) => n = 1
  OBVIOUS
<1>6. QED
  BY <1>1, <1>2, <1>3, <1>4, <1>5

\* A step that touches no node leaves the path as it is.
LEMMA SamePath ==
  ASSUME NEW n, NEW w, Path(n, w), UNCHANGED <<next, live>>
  PROVE  Path(n, w)'
BY DEF Path

-----------------------------------------------------------------------------
(* The steps of Enqueue                                                     *)

LEMMA EnqueueStartSound ==
  ASSUME NEW p, NEW c, OneOfEach(p, c), TypeInv, NEW n, NEW w, Sound(p, c, n, w),
         EnqueueStart(p), ~raced'
  PROVE  Sound(p, c, n, w)'
<1>0. Threaded(p, c) /\ Stored /\ Counted
  BY Facts
<1>1. PICK x \in Nodes \ live :
        /\ live' = live \cup {x}
        /\ node' = [node EXCEPT ![p] = x]
        /\ next' = [next EXCEPT ![x] = Null]
        /\ value' = [value EXCEPT ![x] = calls + 1]
  BY DEF EnqueueStart
<1>2. /\ pc[p] = "idle" /\ calls' = calls + 1
      /\ target' = [target EXCEPT ![p] = Null] /\ pc' = [pc EXCEPT ![p] = "tail"]
      /\ UNCHANGED <<order, tail, seen, got>> /\ ~Clash(p, c)'
  BY NoClash DEF EnqueueStart
<1>3. /\ pc'[p] = "tail" /\ pc'[c] = pc[c] /\ node'[p] = x /\ node'[c] = node[c]
      /\ target'[p] = Null /\ seen'[c] = seen[c]
  BY <1>0, <1>1, <1>2 DEF Threaded
<1>4. n \in Nat /\ Path(n, w) /\ Numbered(c, n, w) /\ Dequeuing(p, c, n, w)
      /\ TailRight(c, n, w) /\ calls = Before(c) + n
  BY <1>2 DEF Sound, Enqueuing, Unlinked, Behind
<1>5. /\ next'[x] = Null /\ value'[x] = calls + 1
      /\ \A y \in Nodes : y # x => next'[y] = next[y] /\ value'[y] = value[y]
  BY <1>0, <1>1 DEF Stored
<1>13. \A i \in 0 .. n : w[i] \in Nodes /\ w[i] \in live /\ w[i] # x
  BY <1>1, <1>4, PathFacts
<1>14. n \in Nat
  BY <1>4
<1>6. Path(n, w)'
  <2>1. \A i \in 0 .. n - 1 : i \in 0 .. n
    BY <1>14
  <2>2. \A i \in 0 .. n : w[i] \in live'
    BY <1>1, <1>13
  <2>3. n \in 0 .. n
    BY <1>14
  <2>4. QED
    BY <1>4, <1>5, <1>13, <2>1, <2>2, <2>3 DEF Path
<1>7. Before(c)' = Before(c)
  BY <1>2, <1>3 DEF Before, Holds
<1>8. Numbered(c, n, w)'
  <2>1. \A i \in 1 .. n : i \in 0 .. n
    BY <1>14
  <2>2. QED
    BY <1>2, <1>4, <1>5, <1>7, <1>13, <2>1 DEF Numbered
<1>9. Holds(c) => node[c] \in live /\ node[c] \in Nodes /\ node[c] # x
  BY <1>0, <1>1, <1>4 DEF Dequeuing, Outside, Stored
<1>10. Dequeuing(p, c, n, w)'
  <2>1. Holds(c)' <=> Holds(c)
    BY <1>3 DEF Holds
  <2>2. ASSUME Holds(c)
        PROVE  Outside(node[c], n, w)' /\ node'[p] # node'[c] /\ value'[node'[c]] = Len(got) + 1
    <3>1. Outside(node[c], n, w) /\ value[node[c]] = Len(got) + 1
      BY <1>4, <2>2 DEF Dequeuing
    <3>2. node'[c] \in live' /\ \A i \in 0 .. n : w[i] # node'[c]
      BY <1>1, <1>3, <3>1 DEF Outside
    <3>3. Outside(node[c], n, w)'
      BY <3>2 DEF Outside
    <3>4. QED
      BY <1>3, <1>5, <1>9, <2>2, <3>1, <3>3
  <2>3. /\ pc'[c] \in {"idle", "second", "unlink", "lower tail", "delete"}
        /\ pc'[c] \in {"second", "unlink"} => n > 0 /\ node'[c] = w[1]
        /\ pc'[c] = "unlink" => seen'[c] = IF n > 1 THEN w[2] ELSE Null
        /\ pc'[c] = "delete" => tail' # node'[c]
    BY <1>2, <1>3, <1>4 DEF Dequeuing
  <2>4. Len(got') = Len(got)
    BY <1>2
  <2>5. QED
    BY <2>1, <2>2, <2>3, <2>4 DEF Dequeuing
<1>11. Unlinked(p, n, w)' /\ TailRight(c, n, w)' /\ calls' = Before(c)' + n + 1
  <2>1. Outside(x, n, w)'
    BY <1>1, <1>13 DEF Outside
  <2>2. Unlinked(p, n, w)'
    BY <1>2, <1>3, <1>5, <2>1 DEF Unlinked, Outside
  <2>3. calls' = Before(c)' + n + 1
    BY <1>2, <1>4, <1>7
  <2>4. QED
    BY <1>2, <1>3, <1>4, <2>2, <2>3 DEF TailRight
<1>12. QED
  BY <1>2, <1>4, <1>6, <1>8, <1>10, <1>11 DEF Sound, Enqueuing

\* What a step of Enqueue that touches no node leaves alone.
LEMMA QuietEnqueue ==
  ASSUME NEW p, NEW c, OneOfEach(p, c), TypeInv, NEW n, NEW w, Sound(p, c, n, w),
         UNCHANGED <<next, value, live, node, calls, got, order>>,
         pc'[c] = pc[c], seen'[c] = seen[c], pc[p] # "idle",
         pc[c] = "delete" => tail' # node[c],
         Enqueuing(p, c, n, w)', ~Clash(p, c)'
  PROVE  Sound(p, c, n, w)'
<1>1. n \in Nat /\ Path(n, w) /\ Numbered(c, n, w) /\ Dequeuing(p, c, n, w)
  BY DEF Sound
<1>2. Path(n, w)'
  BY <1>1, SamePath
<1>3. Numbered(c, n, w)'
  BY <1>1 DEF Numbered, Before, Holds
<1>4. Dequeuing(p, c, n, w)'
  BY <1>1 DEF Dequeuing, Holds, Outside
<1>5. QED
  BY <1>1, <1>2, <1>3, <1>4 DEF Sound

LEMMA ReadTailSound ==
  ASSUME NEW p, NEW c, OneOfEach(p, c), TypeInv, NEW n, NEW w, Sound(p, c, n, w),
         ReadTail(p), ~raced'
  PROVE  Sound(p, c, n, w)'
<1>0. Threaded(p, c) /\ Stored /\ Counted
  BY Facts
<1>1. /\ pc[p] = "tail" /\ target' = [target EXCEPT ![p] = tail]
      /\ pc' = [pc EXCEPT ![p] = IF order = "load first" THEN "peek" ELSE "link"]
      /\ UNCHANGED <<order, tail, next, value, live, node, seen, calls, got>>
      /\ ~Clash(p, c)'
  BY NoClash DEF ReadTail
<1>2. /\ pc'[p] = IF order = "load first" THEN "peek" ELSE "link"
      /\ pc'[c] = pc[c] /\ target'[p] = tail
  BY <1>0, <1>1 DEF Threaded
<1>3. n \in Nat /\ Dequeuing(p, c, n, w) /\ Enqueuing(p, c, n, w)
  BY DEF Sound
<1>4. Before(c)' = Before(c)
  BY <1>1, <1>2 DEF Before, Holds
<1>5. CASE Unlinked(p, n, w)
  <2>1. TailRight(c, n, w) /\ calls = Before(c) + n + 1
    <3>1. n \in 0 .. n
      BY <1>3
    <3>4. ~Behind(p, n, w)
      BY <1>5, <3>1 DEF Behind, Unlinked, Outside
    <3>2. QED
      BY <1>1, <1>3, <1>5, <3>4 DEF Enqueuing
  <2>2. tail = w[n]
    <3>1. pc'[p] \in Linking /\ target'[p] = tail /\ node'[c] = node[c]
      BY <1>1, <1>2 DEF Linking
    <3>2. ~(pc[c] \in Unlinking /\ tail = node[c])
      BY <1>1, <1>2, <3>1 DEF Clash
    <3>3. QED
      BY <2>1, <3>2 DEF TailRight, Unlinking
  <2>3. Unlinked(p, n, w)' /\ TailRight(c, n, w)'
    <3>1. pc'[p] = "link" => order' # "load first"
      <4>1. CASE order = "load first"
        BY <1>2, <4>1
      <4>2. CASE order # "load first"
        BY <1>1, <4>2
      <4>3. QED
        BY <4>1, <4>2
    <3>2. pc'[p] \in {"peek", "link"} /\ target'[p] = w[n] /\ tail' = w[n]
      BY <1>1, <1>2, <2>2
    <3>3. QED
      BY <1>1, <1>5, <3>1, <3>2 DEF Unlinked, Outside, TailRight
  <2>4. QED
    BY <1>1, <1>2, <1>3, <1>4, <2>1, <2>3, QuietEnqueue DEF Enqueuing, Dequeuing
<1>6. CASE ~Unlinked(p, n, w)
  <2>1. Behind(p, n, w) /\ calls = Before(c) + n
    BY <1>1, <1>3, <1>6 DEF Enqueuing
  <2>2. Behind(p, n, w)'
    BY <1>1, <1>2, <2>1 DEF Behind
  <2>3. QED
    BY <1>1, <1>2, <1>3, <1>4, <2>1, <2>2, QuietEnqueue DEF Enqueuing, Dequeuing
<1>7. QED
  BY <1>5, <1>6

LEMMA PeekNextSound ==
  ASSUME NEW p, NEW c, OneOfEach(p, c), TypeInv, NEW n, NEW w, Sound(p, c, n, w),
         PeekNext(p), ~raced'
  PROVE  Sound(p, c, n, w)'
<1>0. Threaded(p, c)
  BY Facts
<1>1. /\ pc[p] = "peek" /\ seen' = [seen EXCEPT ![p] = next[target[p]]]
      /\ pc' = [pc EXCEPT ![p] = "link"]
      /\ UNCHANGED <<order, tail, next, value, live, node, target, calls, got>>
      /\ ~Clash(p, c)'
  BY NoClash DEF PeekNext
<1>2. pc'[p] = "link" /\ seen'[p] = next[target[p]] /\ pc'[c] = pc[c] /\ seen'[c] = seen[c]
  BY <1>0, <1>1 DEF Threaded
<1>3. n \in Nat /\ Path(n, w) /\ Dequeuing(p, c, n, w) /\ Enqueuing(p, c, n, w)
  BY DEF Sound
<1>4. Before(c)' = Before(c)
  BY <1>1, <1>2 DEF Before, Holds
<1>5. Unlinked(p, n, w) /\ TailRight(c, n, w) /\ calls = Before(c) + n + 1
  BY <1>1, <1>3 DEF Enqueuing, Behind
<1>6. target[p] = w[n] /\ next[w[n]] = Null
  BY <1>1, <1>3, <1>5 DEF Unlinked, Path
<1>7. Unlinked(p, n, w)' /\ TailRight(c, n, w)'
  BY <1>1, <1>2, <1>5, <1>6 DEF Unlinked, Outside, TailRight
<1>8. QED
  BY <1>1, <1>2, <1>3, <1>4, <1>5, <1>7, QuietEnqueue DEF Enqueuing, Dequeuing

LEMMA TestNextSound ==
  ASSUME NEW p, NEW c, OneOfEach(p, c), TypeInv, NEW n, NEW w, Sound(p, c, n, w),
         TestNext(p), ~raced'
  PROVE  Sound(p, c, n, w)'
<1>0. Threaded(p, c)
  BY Facts
<1>1. /\ pc[p] = "test"
      /\ pc' = [pc EXCEPT ![p] = IF seen[p] # next[target[p]] THEN "tail" ELSE "swing"]
      /\ UNCHANGED <<order, tail, next, value, live, node, target, seen, calls, got>>
      /\ ~Clash(p, c)'
  BY NoClash DEF TestNext
<1>2. pc'[p] \in {"tail", "swing"} /\ pc'[c] = pc[c] /\ seen'[c] = seen[c]
  BY <1>0, <1>1 DEF Threaded
<1>3. n \in Nat /\ Dequeuing(p, c, n, w) /\ Enqueuing(p, c, n, w)
  BY DEF Sound
<1>4. Before(c)' = Before(c)
  BY <1>1, <1>2 DEF Before, Holds
<1>5. Behind(p, n, w) /\ calls = Before(c) + n
  BY <1>1, <1>3 DEF Enqueuing, Unlinked
<1>6. Behind(p, n, w)'
  BY <1>1, <1>2, <1>5 DEF Behind
<1>7. QED
  BY <1>1, <1>2, <1>3, <1>4, <1>5, <1>6, QuietEnqueue DEF Enqueuing, Dequeuing

LEMMA RaiseTailSound ==
  ASSUME NEW p, NEW c, OneOfEach(p, c), TypeInv, NEW n, NEW w, Sound(p, c, n, w),
         RaiseTail(p), ~raced'
  PROVE  Sound(p, c, n, w)'
<1>0. Threaded(p, c)
  BY Facts
<1>1. /\ pc[p] = "swing" /\ tail' = IF tail = target[p] THEN node[p] ELSE tail
      /\ pc' = [pc EXCEPT ![p] = "idle"]
      /\ UNCHANGED <<order, next, value, live, node, target, seen, calls, got>>
      /\ ~Clash(p, c)'
  BY NoClash DEF RaiseTail
<1>2. pc'[p] = "idle" /\ pc'[c] = pc[c] /\ seen'[c] = seen[c]
  BY <1>0, <1>1 DEF Threaded
<1>3. n \in Nat /\ Dequeuing(p, c, n, w) /\ Enqueuing(p, c, n, w)
  BY DEF Sound
<1>4. Before(c)' = Before(c)
  BY <1>1, <1>2 DEF Before, Holds
<1>5. Behind(p, n, w) /\ calls = Before(c) + n
  BY <1>1, <1>3 DEF Enqueuing, Unlinked
<1>6. tail' = w[n]
  BY <1>1, <1>5 DEF Behind
<1>7. pc[c] = "delete" => tail' # node[c]
  <2>1. n \in 0 .. n
    BY <1>3
  <2>2. QED
    BY <1>3, <1>6, <2>1 DEF Dequeuing, Holds, Outside
<1>8. QED
  BY <1>1, <1>2, <1>3, <1>4, <1>5, <1>6, <1>7, QuietEnqueue DEF Enqueuing, TailRight

\* The path with the node x behind its end.
Extended(n, w, x) == [i \in 0 .. n + 1 |-> IF i <= n THEN w[i] ELSE x]

\* Linking a node outside the list extends the path by it.
LEMMA ExtendedPath ==
  ASSUME Stored, NEW n \in Nat, NEW w, Path(n, w), NEW x \in Nodes, Outside(x, n, w),
         next[x] = Null, next' = [next EXCEPT ![w[n]] = x], live' = live
  PROVE  Path(n + 1, Extended(n, w, x))'
<1> DEFINE v == Extended(n, w, x)
<1>1. n \in 0 .. n /\ n + 1 \in Nat /\ 0 \in 0 .. n /\ w[n] \in Nodes /\ w[n] # x
  BY PathFacts DEF Outside
<1>2. v[n + 1] = x /\ \A i \in 0 .. n : v[i] = w[i]
  BY DEF Extended
<1>3. \A i \in 0 .. n + 1 : i \in 0 .. n \/ i = n + 1
  OBVIOUS
<1>4. \A i \in 0 .. n : w[i] \in Nodes /\ w[i] \in live /\ w[i] # x
  BY PathFacts DEF Outside
<1>5. v \in [0 .. n + 1 -> Nodes] /\ v[0] = Sentinel
  <2>1. \A i \in 0 .. n + 1 : (IF i <= n THEN w[i] ELSE x) \in Nodes
    BY <1>3, <1>4
  <2>2. v \in [0 .. n + 1 -> Nodes]
    BY <2>1 DEF Extended
  <2>3. QED
    BY <1>1, <1>2, <2>2, PathFacts
<1>6. \A i, j \in 0 .. n + 1 : v[i] = v[j] => i = j
  <2> SUFFICES ASSUME NEW i \in 0 .. n + 1, NEW j \in 0 .. n + 1, v[i] = v[j] PROVE i = j
    OBVIOUS
  <2>1. \A a, b \in 0 .. n : w[a] = w[b] => a = b
    BY DEF Path
  <2>2. QED
    BY <1>2, <1>3, <1>4, <2>1
<1>7. \A i \in 0 .. n + 1 : v[i] \in live'
  BY <1>2, <1>3, <1>4 DEF Outside
<1>8. \A i \in 0 .. (n + 1) - 1 : next'[v[i]] = v[i + 1]
  <2> SUFFICES ASSUME NEW i \in 0 .. n PROVE next'[v[i]] = v[i + 1]
    OBVIOUS
  <2>1. CASE i = n
    BY <1>1, <1>2, <2>1 DEF Stored
  <2>2. CASE i # n
    <3>1. i \in 0 .. n - 1 /\ i + 1 \in 0 .. n
      BY <2>2
    <3>2. next[w[i]] = w[i + 1] /\ w[i] # w[n] /\ w[i] \in Nodes
      BY <1>1, <1>4, <2>2, <3>1 DEF Path
    <3>3. QED
      BY <1>2, <3>1, <3>2 DEF Stored
  <2>3. QED
    BY <2>1, <2>2
<1>9. next'[v[n + 1]] = Null
  BY <1>1, <1>2 DEF Stored
<1>10. QED
  BY <1>5, <1>6, <1>7, <1>8, <1>9 DEF Path

\* The CAS finds the end of the list and links its node there.
LEMMA LinkedSound ==
  ASSUME NEW p, NEW c, OneOfEach(p, c), TypeInv, NEW n, NEW w, Sound(p, c, n, w),
         LinkNode(p), ~raced', Unlinked(p, n, w)
  PROVE  \E v : Sound(p, c, n + 1, v)'
<1>16. PICK x : x = node[p]
  OBVIOUS
<1> DEFINE v == Extended(n, w, x)
<1>0. Threaded(p, c) /\ Stored /\ Counted
  BY Facts
<1>1. n \in Nat /\ Path(n, w) /\ Numbered(c, n, w) /\ Dequeuing(p, c, n, w) /\ ~Clash(p, c)
  BY DEF Sound
<1>2. /\ pc[p] = "link"
      /\ UNCHANGED <<order, tail, value, live, node, target, calls, got>> /\ ~Clash(p, c)'
  BY NoClash DEF LinkNode
<1>3. /\ target[p] = w[n] /\ tail = w[n] /\ node[p] \in Nodes /\ Outside(node[p], n, w)
      /\ next[node[p]] = Null /\ value[node[p]] = calls
      /\ order = "load first" => seen[p] = Null
  BY <1>0, <1>2 DEF Unlinked, Outside, Stored
<1>4. next[w[n]] = Null
  BY <1>1 DEF Path
<1>5. next' = [next EXCEPT ![w[n]] = node[p]]
  BY <1>3, <1>4 DEF LinkNode
<1>6. /\ pc'[p] \in {"swing", "test"} /\ (order = "load first" => pc'[p] = "swing")
      /\ pc'[c] = pc[c] /\ seen'[c] = seen[c]
  <2>1. CASE order = "load first"
    BY <1>0, <1>2, <1>3, <1>4, <2>1 DEF LinkNode, Threaded
  <2>2. CASE order # "load first"
    BY <1>0, <1>2, <1>3, <1>4, <2>2 DEF LinkNode, Threaded
  <2>3. QED
    BY <2>1, <2>2
<1>7. calls = Before(c) + n + 1
  <2>1. n \in 0 .. n
    BY <1>1
  <2>2. ~Behind(p, n, w)
    BY <1>3, <2>1 DEF Behind, Outside
  <2>3. QED
    BY <1>2, <2>2 DEF Sound, Enqueuing
<1>8. Before(c)' = Before(c) /\ (Holds(c)' <=> Holds(c))
  BY <1>2, <1>6 DEF Before, Holds
<1>17. Before(c) \in Nat
  BY <1>0 DEF Before, Counted
<1>9. Path(n + 1, v)'
  BY <1>0, <1>1, <1>2, <1>3, <1>5, <1>16, ExtendedPath DEF Stored
<1>10. v[n + 1] = node[p] /\ \A i \in 0 .. n : v[i] = w[i]
  <2>1. n \in Nat
    BY <1>1
  <2>2. QED
    BY <1>16, <2>1 DEF Extended
<1>11. Numbered(c, n + 1, v)'
  <2>1. \A i \in 1 .. n + 1 : (i \in 1 .. n /\ i \in 0 .. n) \/ i = n + 1
    <3>1. n \in Nat
      BY <1>1
    <3>2. QED
      BY <3>1
  <2>2. value[node[p]] = Before(c) + (n + 1)
    <3>1. n \in Nat /\ value[node[p]] = calls
      BY <1>1, <1>3
    <3>2. QED
      BY <1>7, <1>17, <3>1
  <2>3. QED
    BY <1>1, <1>2, <1>8, <1>10, <2>1, <2>2 DEF Numbered
<1>12. Dequeuing(p, c, n + 1, v)'
  <2>1. ASSUME n > 0 PROVE v[1] = w[1] /\ n + 1 > 0
    BY <1>1, <1>10, <2>1
  <2>2. pc[c] = "unlink" => n > 1
    <3>1. SUFFICES ASSUME pc[c] = "unlink", ~(n > 1) PROVE FALSE
      OBVIOUS
    <3>2. n > 0 /\ node[c] = w[1]
      BY <1>1, <3>1 DEF Dequeuing
    <3>3. n = 1
      BY <1>1, <3>1, <3>2
    <3>4. QED
      BY <1>1, <1>2, <1>3, <3>1, <3>2, <3>3 DEF Clash, Linking, Unlinking
  <2>3. ASSUME n > 1 PROVE v[2] = w[2] /\ n + 1 > 1
    BY <1>1, <1>10, <2>3
  <2>4. ASSUME Holds(c)
        PROVE  /\ Outside(node[c], n + 1, v)' /\ node'[p] # node'[c]
               /\ value'[node'[c]] = Len(got') + 1
    <3>1. /\ Outside(node[c], n, w) /\ node[p] # node[c]
          /\ value[node[c]] = Len(got) + 1
      BY <1>1, <1>2, <2>4 DEF Dequeuing
    <3>2. \A i \in 0 .. n + 1 : i \in 0 .. n \/ i = n + 1
      <4>1. n \in Nat
        BY <1>1
      <4>2. QED
        BY <4>1
    <3>3. node[c] \in live /\ \A i \in 0 .. n + 1 : v[i] # node[c]
      BY <1>10, <3>1, <3>2 DEF Outside
    <3>4. QED
      BY <1>2, <3>1, <3>3 DEF Outside
  <2>5. /\ pc'[c] \in {"idle", "second", "unlink", "lower tail", "delete"}
        /\ pc'[c] \in {"second", "unlink"} => n + 1 > 0 /\ node'[c] = v[1]
        /\ pc'[c] = "unlink" => seen'[c] = IF n + 1 > 1 THEN v[2] ELSE Null
        /\ pc'[c] = "delete" => tail' # node'[c]
    BY <1>1, <1>2, <1>6, <2>1, <2>2, <2>3 DEF Dequeuing
  <2>6. QED
    BY <1>8, <2>4, <2>5, <1>6 DEF Dequeuing
<1>13. Enqueuing(p, c, n + 1, v)'
  <2>1. n + 1 > 0 /\ (n + 1) - 1 = n /\ n \in 0 .. n
    <3>1. n \in Nat
      BY <1>1
    <3>2. QED
      BY <3>1
  <2>2. Behind(p, n + 1, v)'
    BY <1>2, <1>3, <1>6, <1>10, <2>1 DEF Behind
  <2>3. calls' = Before(c)' + (n + 1)
    <3>1. n \in Nat
      BY <1>1
    <3>2. QED
      BY <1>2, <1>7, <1>8, <1>17, <3>1
  <2>4. QED
    BY <2>2, <2>3 DEF Enqueuing
<1>14. n + 1 \in Nat
  BY <1>1
<1>15. QED
  BY <1>2, <1>9, <1>11, <1>12, <1>13, <1>14 DEF Sound

\* The CAS finds its own node linked, and a node behind the target.
LEMMA RelinkSound ==
  ASSUME NEW p, NEW c, OneOfEach(p, c), TypeInv, NEW n, NEW w, Sound(p, c, n, w),
         LinkNode(p), ~raced', ~Unlinked(p, n, w)
  PROVE  Sound(p, c, n, w)' /\ next' = next
<1>0. Threaded(p, c) /\ Stored /\ Counted
  BY Facts
<1>1. n \in Nat /\ Path(n, w) /\ Dequeuing(p, c, n, w) /\ Enqueuing(p, c, n, w)
  BY DEF Sound
<1>2. /\ pc[p] = "link"
      /\ UNCHANGED <<order, tail, value, live, node, target, calls, got>> /\ ~Clash(p, c)'
  BY NoClash DEF LinkNode
<1>3. Behind(p, n, w) /\ calls = Before(c) + n
  BY <1>1, <1>2 DEF Enqueuing
<1>4. order # "load first" /\ target[p] = w[n - 1] /\ n > 0
  BY <1>2, <1>3 DEF Behind
<1>5. next[target[p]] # Null
  <2>1. n - 1 \in 0 .. n - 1 /\ (n - 1) + 1 = n /\ n \in 0 .. n
    <3>1. n \in Nat /\ n > 0
      BY <1>1, <1>4
    <3>2. QED
      BY <3>1
  <2>2. next[w[n - 1]] = w[(n - 1) + 1]
    BY <1>1, <2>1 DEF Path
  <2>3. w[n] \in Nodes
    BY <1>1, <2>1 DEF Path
  <2>4. QED
    BY <1>0, <1>4, <2>1, <2>2, <2>3 DEF Stored
<1>6. next' = next /\ pc'[p] = "test" /\ pc'[c] = pc[c] /\ seen'[c] = seen[c]
  BY <1>0, <1>4, <1>5 DEF LinkNode, Threaded
<1>7. Before(c)' = Before(c)
  BY <1>2, <1>6 DEF Before, Holds
<1>8. Behind(p, n, w)'
  BY <1>2, <1>3, <1>4, <1>6 DEF Behind
<1>9. QED
  BY <1>1, <1>2, <1>3, <1>6, <1>7, <1>8, QuietEnqueue DEF Enqueuing, Dequeuing

-----------------------------------------------------------------------------
(* The steps of Dequeue                                                     *)

LEMMA BeforeIsNat ==
  ASSUME Counted, NEW c
  PROVE  Before(c) \in Nat
BY DEF Before, Counted

\* What a step of Dequeue that takes no node leaves alone.
LEMMA QuietDequeue ==
  ASSUME NEW p, NEW c, OneOfEach(p, c), TypeInv, NEW n, NEW w, Sound(p, c, n, w),
         UNCHANGED <<next, value, live, calls, got, order, tail, target>>,
         pc'[p] = pc[p], node'[p] = node[p], seen'[p] = seen[p],
         ~Holds(c), ~Holds(c)', Dequeuing(p, c, n, w)', ~Clash(p, c)'
  PROVE  Sound(p, c, n, w)'
<1>1. n \in Nat /\ Path(n, w) /\ Numbered(c, n, w) /\ Enqueuing(p, c, n, w)
  BY DEF Sound
<1>2. Path(n, w)'
  BY <1>1, SamePath
<1>3. Before(c)' = Before(c)
  BY DEF Before
<1>4. Numbered(c, n, w)'
  BY <1>1, <1>3 DEF Numbered
<1>5. TailRight(c, n, w) => TailRight(c, n, w)'
  BY DEF TailRight, Holds
<1>6. Unlinked(p, n, w) => Unlinked(p, n, w)'
  BY DEF Unlinked, Outside
<1>7. Behind(p, n, w) => Behind(p, n, w)'
  BY DEF Behind
<1>8. Enqueuing(p, c, n, w)'
  BY <1>1, <1>3, <1>5, <1>6, <1>7 DEF Enqueuing
<1>9. QED
  BY <1>1, <1>2, <1>4, <1>8 DEF Sound

LEMMA ReadFirstSound ==
  ASSUME NEW p, NEW c, OneOfEach(p, c), TypeInv, NEW n, NEW w, Sound(p, c, n, w),
         ReadFirst(c), ~raced'
  PROVE  Sound(p, c, n, w)' /\ Before(c)' = Before(c)
<1>0. Threaded(p, c) /\ Stored
  BY Facts
<1>1. /\ pc[c] \in {"idle", "again"} /\ node' = [node EXCEPT ![c] = next[Sentinel]]
      /\ pc' = [pc EXCEPT ![c] = IF next[Sentinel] = Null THEN "idle" ELSE "second"]
      /\ UNCHANGED <<order, tail, next, value, live, target, seen, calls, got>>
      /\ ~Clash(p, c)'
  BY NoClash DEF ReadFirst
<1>2. /\ pc'[c] = IF next[Sentinel] = Null THEN "idle" ELSE "second"
      /\ node'[c] = next[Sentinel] /\ pc'[p] = pc[p] /\ node'[p] = node[p]
  BY <1>0, <1>1 DEF Threaded
<1>3. n \in Nat /\ Path(n, w)
  BY DEF Sound
<1>4. next[Sentinel] = IF n > 0 THEN w[1] ELSE Null
  BY <1>3, PathFacts
<1>5. ~Holds(c) /\ ~Holds(c)'
  <2>1. pc'[c] \in {"idle", "second"}
    BY <1>2
  <2>2. QED
    BY <1>1, <2>1 DEF Holds
<1>6. Dequeuing(p, c, n, w)'
  <2>1. CASE next[Sentinel] = Null
    BY <1>2, <1>5, <2>1 DEF Dequeuing
  <2>2. CASE next[Sentinel] # Null
    BY <1>2, <1>4, <1>5, <2>2 DEF Dequeuing
  <2>3. QED
    BY <2>1, <2>2
<1>7. QED
  BY <1>1, <1>2, <1>5, <1>6, QuietDequeue DEF Before

LEMMA ReadSecondSound ==
  ASSUME NEW p, NEW c, OneOfEach(p, c), TypeInv, NEW n, NEW w, Sound(p, c, n, w),
         ReadSecond(c), ~raced'
  PROVE  Sound(p, c, n, w)' /\ Before(c)' = Before(c)
<1>0. Threaded(p, c) /\ Stored
  BY Facts
<1>1. /\ pc[c] = "second" /\ seen' = [seen EXCEPT ![c] = next[node[c]]]
      /\ pc' = [pc EXCEPT ![c] = "unlink"]
      /\ UNCHANGED <<order, tail, next, value, live, node, target, calls, got>>
      /\ ~Clash(p, c)'
  BY NoClash DEF ReadSecond
<1>2. /\ pc'[c] = "unlink" /\ seen'[c] = next[node[c]] /\ pc'[p] = pc[p] /\ seen'[p] = seen[p]
  BY <1>0, <1>1 DEF Threaded
<1>3. n \in Nat /\ Path(n, w) /\ Dequeuing(p, c, n, w)
  BY DEF Sound
<1>4. n > 0 /\ node[c] = w[1]
  BY <1>1, <1>3 DEF Dequeuing
<1>5. next[w[1]] = IF n > 1 THEN w[2] ELSE Null
  BY <1>3, <1>4, PathFacts
<1>6. ~Holds(c) /\ ~Holds(c)'
  BY <1>1, <1>2 DEF Holds
<1>7. Dequeuing(p, c, n, w)'
  BY <1>1, <1>2, <1>4, <1>5, <1>6 DEF Dequeuing
<1>8. QED
  BY <1>1, <1>2, <1>6, <1>7, QuietDequeue DEF Before

\* The path without its first node.
Shortened(n, w) == [i \in 0 .. n - 1 |-> IF i = 0 THEN Sentinel ELSE w[i + 1]]

\* What is where on the shortened path.
LEMMA ShortenedFacts ==
  ASSUME NEW n \in Nat, n > 0, NEW w, Path(n, w)
  PROVE  /\ n - 1 \in Nat /\ 0 \in 0 .. n - 1 /\ n - 1 \in 0 .. n - 1
         /\ Shortened(n, w)[0] = w[0]
         /\ \A i \in 1 .. n - 1 : i + 1 \in 2 .. n /\ i + 1 \in 0 .. n /\ i + 1 \in 1 .. n
                                  /\ Shortened(n, w)[i] = w[i + 1]
         /\ \A i \in 0 .. n - 1 : i = 0 \/ i \in 1 .. n - 1
         /\ 1 \in 0 .. n /\ 0 \in 0 .. n /\ w[0] = Sentinel
<1>1. /\ n - 1 \in Nat /\ 0 \in 0 .. n - 1 /\ n - 1 \in 0 .. n - 1 /\ 1 \in 0 .. n /\ 0 \in 0 .. n
      /\ \A i \in 0 .. n - 1 : i = 0 \/ i \in 1 .. n - 1
      /\ \A i \in 1 .. n - 1 : i + 1 \in 2 .. n /\ i + 1 \in 0 .. n /\ i + 1 \in 1 .. n
                               /\ i \in 0 .. n - 1 /\ i # 0
  OBVIOUS
<1>2. w[0] = Sentinel
  BY DEF Path
<1>3. QED
  BY <1>1, <1>2 DEF Shortened

LEMMA ShortenedPath ==
  ASSUME Stored, NEW n \in Nat, n > 0, NEW w, Path(n, w), live' = live,
         next' = [next EXCEPT ![Sentinel] = IF n > 1 THEN w[2] ELSE Null]
  PROVE  Path(n - 1, Shortened(n, w))'
<1> DEFINE v == Shortened(n, w)
<1>1. /\ n - 1 \in Nat /\ 0 \in 0 .. n - 1 /\ n - 1 \in 0 .. n - 1 /\ v[0] = w[0]
      /\ \A i \in 1 .. n - 1 : i + 1 \in 2 .. n /\ i + 1 \in 0 .. n /\ v[i] = w[i + 1]
      /\ \A i \in 0 .. n - 1 : i = 0 \/ i \in 1 .. n - 1
      /\ 0 \in 0 .. n /\ w[0] = Sentinel
  BY ShortenedFacts
<1>2. \A i \in 0 .. n : w[i] \in Nodes /\ w[i] \in live
  BY PathFacts
<1>3. \A i, j \in 0 .. n : w[i] = w[j] => i = j
  BY DEF Path
<1>4. v \in [0 .. n - 1 -> Nodes] /\ v[0] = Sentinel
  <2>1. \A i \in 0 .. n - 1 : (IF i = 0 THEN Sentinel ELSE w[i + 1]) \in Nodes
    BY <1>1, <1>2 DEF Stored
  <2>2. QED
    BY <1>1, <2>1 DEF Shortened
<1>5. \A i, j \in 0 .. n - 1 : v[i] = v[j] => i = j
  <2> SUFFICES ASSUME NEW i \in 0 .. n - 1, NEW j \in 0 .. n - 1, v[i] = v[j] PROVE i = j
    OBVIOUS
  <2>1. CASE i = 0 /\ j = 0
    BY <2>1
  <2>2. CASE i \in 1 .. n - 1 /\ j \in 1 .. n - 1
    <3>1. i + 1 = j + 1
      BY <1>1, <1>3, <2>2
    <3>2. QED
      BY <3>1
  <2>3. CASE i = 0 /\ j \in 1 .. n - 1
    <3>1. 0 = j + 1
      BY <1>1, <1>3, <2>3
    <3>2. QED
      BY <2>3, <3>1
  <2>4. CASE j = 0 /\ i \in 1 .. n - 1
    <3>1. 0 = i + 1
      BY <1>1, <1>3, <2>4
    <3>2. QED
      BY <2>4, <3>1
  <2>5. QED
    BY <1>1, <2>1, <2>2, <2>3, <2>4
<1>6. \A i \in 0 .. n - 1 : v[i] \in live'
  BY <1>1, <1>2
<1>7. /\ next'[Sentinel] = IF n > 1 THEN w[2] ELSE Null
      /\ \A x \in Nodes : x # Sentinel => next'[x] = next[x]
  BY DEF Stored
<1>8. \A i \in 0 .. (n - 1) - 1 : next'[v[i]] = v[i + 1]
  <2> SUFFICES ASSUME NEW i \in 0 .. (n - 1) - 1 PROVE next'[v[i]] = v[i + 1]
    OBVIOUS
  <2>1. CASE i = 0
    <3>1. 1 \in 1 .. n - 1 /\ n > 1 /\ 1 + 1 = 2 /\ 0 + 1 = 1
      BY <2>1
    <3>2. QED
      BY <1>1, <1>7, <2>1, <3>1
  <2>2. CASE i # 0
    <3>1. i \in 1 .. n - 1 /\ i + 1 \in 1 .. n - 1 /\ i + 1 \in 0 .. n - 1 /\ i + 1 \in 0 .. n
          /\ i + 1 # 0
      BY <2>2
    <3>2. next[w[i + 1]] = w[(i + 1) + 1] /\ w[i + 1] # w[0] /\ w[i + 1] \in Nodes
      BY <1>1, <1>2, <1>3, <3>1 DEF Path
    <3>3. QED
      BY <1>1, <1>7, <3>1, <3>2
  <2>3. QED
    BY <2>1, <2>2
<1>9. next'[v[n - 1]] = Null
  <2>1. CASE n = 1
    BY <1>1, <1>7, <2>1
  <2>2. CASE n # 1
    <3>1. n - 1 \in 1 .. n - 1 /\ (n - 1) + 1 = n /\ n \in 0 .. n /\ n # 0
      BY <2>2
    <3>2. v[n - 1] = w[n]
      BY <1>1, <3>1
    <3>3. w[n] # w[0] /\ next[w[n]] = Null /\ w[n] \in Nodes
      BY <1>1, <1>2, <1>3, <3>1 DEF Path
    <3>4. QED
      BY <1>1, <1>7, <3>2, <3>3
  <2>3. QED
    BY <2>1, <2>2
<1>10. QED
  BY <1>4, <1>5, <1>6, <1>8, <1>9 DEF Path

\* The CAS finds the first node, which no one but this thread takes away, and the
\* list begins at the second.
LEMMA UnlinkNodeSound ==
  ASSUME NEW p, NEW c, OneOfEach(p, c), TypeInv, NEW n, NEW w, Sound(p, c, n, w),
         UnlinkNode(c), ~raced'
  PROVE  Sound(p, c, n - 1, Shortened(n, w))' /\ Before(c)' + (n - 1) = Before(c) + n
<1> DEFINE v == Shortened(n, w)
<1>0. Threaded(p, c) /\ Stored /\ Counted
  BY Facts
<1>1. /\ n \in Nat /\ Path(n, w) /\ Numbered(c, n, w) /\ Dequeuing(p, c, n, w)
      /\ Enqueuing(p, c, n, w)
  BY DEF Sound
<1>2. /\ pc[c] = "unlink"
      /\ UNCHANGED <<order, tail, value, live, node, target, seen, calls, got>>
      /\ ~Clash(p, c)'
  BY NoClash DEF UnlinkNode
<1>3. n > 0 /\ node[c] = w[1] /\ seen[c] = IF n > 1 THEN w[2] ELSE Null
  BY <1>1, <1>2 DEF Dequeuing
<1>4. next[Sentinel] = node[c] /\ w[1] # Sentinel /\ w[1] \in live
  BY <1>1, <1>3, PathFacts
<1>5. /\ next' = [next EXCEPT ![Sentinel] = seen[c]]
      /\ pc' = [pc EXCEPT ![c] = "lower tail"]
  BY <1>4 DEF UnlinkNode
<1>6. pc'[c] = "lower tail" /\ pc'[p] = pc[p]
  BY <1>0, <1>5 DEF Threaded
<1>7. Path(n - 1, v)'
  <2>1. next' = [next EXCEPT ![Sentinel] = IF n > 1 THEN w[2] ELSE Null]
    BY <1>3, <1>5
  <2>2. n \in Nat /\ n > 0 /\ live' = live /\ Path(n, w) /\ Stored
    BY <1>0, <1>1, <1>2, <1>3
  <2>3. QED
    BY <2>1, <2>2, ShortenedPath
<1>8. /\ n - 1 \in Nat /\ 0 \in 0 .. n - 1 /\ v[0] = w[0] /\ w[0] = Sentinel
      /\ \A i \in 1 .. n - 1 : i + 1 \in 2 .. n /\ i + 1 \in 0 .. n /\ i + 1 \in 1 .. n
                               /\ v[i] = w[i + 1]
      /\ \A i \in 0 .. n - 1 : i = 0 \/ i \in 1 .. n - 1
  BY <1>1, <1>3, ShortenedFacts
<1>9. \A i, j \in 0 .. n : w[i] = w[j] => i = j
  BY <1>1 DEF Path
<1>10. Len(got) \in Nat /\ Before(c) = Len(got) /\ Before(c)' = Len(got) + 1
       /\ ~Holds(c) /\ Holds(c)'
  <2>1. ~Holds(c) /\ Holds(c)' /\ Len(got') = Len(got)
    BY <1>2, <1>6 DEF Holds
  <2>2. Len(got) \in Nat
    BY <1>0 DEF Counted
  <2>3. QED
    BY <2>1, <2>2 DEF Before
<1>11. Numbered(c, n - 1, v)'
  <2>1. ASSUME NEW i \in 1 .. n - 1 PROVE value'[v[i]] = Before(c)' + i
    <3>1. value[v[i]] = Before(c) + (i + 1)
      BY <1>1, <1>8 DEF Numbered
    <3>2. i \in Nat
      BY <1>8
    <3>3. Before(c) + (i + 1) = Before(c)' + i
      BY <1>10, <3>2
    <3>4. QED
      BY <1>2, <3>1, <3>3
  <2>2. \A i \in 1 .. Len(got') : got'[i] = i
    BY <1>1, <1>2 DEF Numbered
  <2>3. QED
    BY <2>1, <2>2 DEF Numbered
<1>12. w[1] # w[0] /\ \A i \in 0 .. n - 1 : v[i] # w[1]
  <2>1. 1 \in 0 .. n /\ 0 \in 0 .. n
    BY <1>1, <1>3, PathFacts
  <2>2. w[1] # w[0]
    BY <1>9, <2>1
  <2>3. ASSUME NEW i \in 1 .. n - 1 PROVE w[i + 1] # w[1]
    <3>1. i + 1 # 1
      OBVIOUS
    <3>2. QED
      BY <1>8, <1>9, <2>1, <3>1
  <2>4. QED
    BY <1>8, <2>2, <2>3
<1>13. n > 1 => v[n - 1] = w[n]
  <2>1. n > 1 => n - 1 \in 1 .. n - 1 /\ (n - 1) + 1 = n
    <3>1. n \in Nat
      BY <1>1
    <3>2. QED
      BY <3>1
  <2>2. QED
    BY <1>8, <2>1
<1>14. ~(n > 1) => n = 1 /\ n - 1 = 0
  BY <1>1, <1>3
<1>15. TailRight(c, n, w) => tail = w[n] /\ TailRight(c, n - 1, v)'
  <2>1. ASSUME TailRight(c, n, w) PROVE tail = w[n]
    BY <1>2, <2>1 DEF TailRight
  <2>2. CASE n > 1
    BY <1>2, <1>13, <2>1, <2>2 DEF TailRight
  <2>3. CASE ~(n > 1)
    BY <1>2, <1>3, <1>6, <1>14, <2>1, <2>3 DEF TailRight
  <2>4. QED
    BY <2>1, <2>2, <2>3
<1>16. pc[p] \in Linking \/ (pc[p] = "tail" /\ target[p] # Null)
          => node[c] # target[p] /\ node[c] # node[p]
  BY <1>2, <1>6 DEF Clash, Unlinking
<1>17. ASSUME Unlinked(p, n, w), TailRight(c, n, w)
       PROVE  Unlinked(p, n - 1, v)' /\ node[p] # node[c]
  <2>1. node[p] \in live /\ \A i \in 0 .. n : w[i] # node[p]
    BY <1>17 DEF Unlinked, Outside
  <2>2. 0 \in 0 .. n /\ 1 \in 0 .. n
    BY <1>1, <1>3, PathFacts
  <2>3. node[p] # node[c] /\ node[p] # Sentinel /\ \A i \in 0 .. n - 1 : v[i] # node[p]
    BY <1>3, <1>8, <2>1, <2>2
  <2>4. Outside(node[p], n - 1, v)'
    BY <1>2, <2>1, <2>3 DEF Outside
  <2>5. next'[node[p]] = next[node[p]]
    BY <1>0, <1>5, <2>1, <2>3 DEF Stored
  <2>6. pc[p] # "tail" => target[p] = v[n - 1] /\ tail = v[n - 1]
    <3>1. SUFFICES ASSUME pc[p] # "tail" PROVE target[p] = v[n - 1] /\ tail = v[n - 1]
      OBVIOUS
    <3>2. pc[p] \in Linking /\ target[p] = w[n] /\ tail = w[n]
      BY <1>17, <3>1 DEF Unlinked, Linking
    <3>3. node[c] # target[p]
      BY <1>16, <3>2 DEF Linking
    <3>4. n > 1
      BY <1>3, <1>14, <3>2, <3>3
    <3>5. QED
      BY <1>13, <3>2, <3>4
  <2>7. QED
    BY <1>2, <1>6, <1>17, <2>3, <2>4, <2>5, <2>6 DEF Unlinked
<1>18. ASSUME Behind(p, n, w) PROVE Behind(p, n - 1, v)' /\ node[p] # node[c]
  <2>1. /\ pc[p] \in {"tail", "link", "test", "swing"}
        /\ node[p] = w[n] /\ target[p] = w[n - 1] /\ tail = w[n - 1]
    BY <1>18 DEF Behind
  <2>2. target[p] # Null
    BY <1>0, <1>1, <1>3, <2>1, PathFacts DEF Stored
  <2>3. node[c] # target[p] /\ node[c] # node[p]
    BY <1>16, <2>1, <2>2 DEF Linking
  <2>4. n > 1
    BY <1>3, <1>14, <2>1, <2>3
  <2>5. n # 2
    <3>1. n = 2 => n - 1 = 1
      OBVIOUS
    <3>2. QED
      BY <1>3, <2>1, <2>3, <3>1
  <2>6. (n - 1) - 1 \in 1 .. n - 1 /\ ((n - 1) - 1) + 1 = n - 1 /\ n - 1 > 0
    <3>1. n \in Nat
      BY <1>1
    <3>2. QED
      BY <2>4, <2>5, <3>1
  <2>7. v[(n - 1) - 1] = w[n - 1]
    BY <1>8, <2>6
  <2>8. QED
    BY <1>2, <1>6, <1>13, <1>18, <2>1, <2>3, <2>4, <2>6, <2>7 DEF Behind
<1>19. Enqueuing(p, c, n - 1, v)'
  <2>1. calls = Before(c) + n => calls' = Before(c)' + (n - 1)
    <3>1. n \in Nat
      BY <1>1
    <3>2. QED
      BY <1>2, <1>10, <3>1
  <2>2. calls = Before(c) + n + 1 => calls' = Before(c)' + (n - 1) + 1
    <3>1. n \in Nat
      BY <1>1
    <3>2. QED
      BY <1>2, <1>10, <3>1
  <2>3. QED
    BY <1>1, <1>6, <1>15, <1>17, <1>18, <2>1, <2>2 DEF Enqueuing
<1>20. Dequeuing(p, c, n - 1, v)'
  <2>1. Outside(node[c], n - 1, v)'
    BY <1>2, <1>3, <1>4, <1>12 DEF Outside
  <2>2. pc'[p] # "idle" => node'[p] # node'[c]
    BY <1>1, <1>2, <1>6, <1>17, <1>18 DEF Enqueuing
  <2>3. value'[node'[c]] = Len(got') + 1
    <3>1. value[w[1]] = Before(c) + 1
      <4>1. 1 \in 1 .. n
        BY <1>1, <1>3
      <4>2. QED
        BY <1>1, <4>1 DEF Numbered
    <3>2. QED
      BY <1>2, <1>3, <1>10, <3>1
  <2>4. QED
    BY <1>2, <1>6, <2>1, <2>2, <2>3 DEF Dequeuing
<1>21. Before(c)' + (n - 1) = Before(c) + n
  <2>1. n \in Nat
    BY <1>1
  <2>2. QED
    BY <1>10, <2>1
<1>22. QED
  BY <1>2, <1>7, <1>8, <1>11, <1>19, <1>20, <1>21 DEF Sound

LEMMA LowerTailSound ==
  ASSUME NEW p, NEW c, OneOfEach(p, c), TypeInv, NEW n, NEW w, Sound(p, c, n, w),
         LowerTail(c), ~raced'
  PROVE  Sound(p, c, n, w)' /\ Before(c)' = Before(c)
<1>0. Threaded(p, c) /\ Stored
  BY Facts
<1>1. /\ n \in Nat /\ Path(n, w) /\ Numbered(c, n, w) /\ Dequeuing(p, c, n, w)
      /\ Enqueuing(p, c, n, w)
  BY DEF Sound
<1>2. /\ pc[c] = "lower tail" /\ tail' = IF tail = node[c] THEN Sentinel ELSE tail
      /\ pc' = [pc EXCEPT ![c] = "delete"]
      /\ UNCHANGED <<order, next, value, live, node, target, seen, calls, got>>
      /\ ~Clash(p, c)'
  BY NoClash DEF LowerTail
<1>3. pc'[c] = "delete" /\ pc'[p] = pc[p]
  BY <1>0, <1>2 DEF Threaded
<1>4. Holds(c) /\ Holds(c)'
  BY <1>2, <1>3 DEF Holds
<1>5. node[c] \in live /\ \A i \in 0 .. n : w[i] # node[c]
  BY <1>1, <1>4 DEF Dequeuing, Outside
<1>6. Before(c)' = Before(c)
  BY <1>2, <1>4 DEF Before
<1>7. n \in 0 .. n /\ w[0] = Sentinel /\ 0 \in 0 .. n /\ (n > 0 => n - 1 \in 0 .. n)
  BY <1>1, PathFacts
<1>8. \A i \in 0 .. n : tail = w[i] => tail' = tail
  BY <1>2, <1>5
<1>9. TailRight(c, n, w) => tail' = w[n]
  BY <1>2, <1>7, <1>8 DEF TailRight
<1>10. Unlinked(p, n, w) => Unlinked(p, n, w)'
  BY <1>2, <1>3, <1>7, <1>8 DEF Unlinked, Outside
<1>11. Behind(p, n, w) => Behind(p, n, w)'
  BY <1>2, <1>3, <1>7, <1>8 DEF Behind
<1>12. Enqueuing(p, c, n, w)'
  BY <1>1, <1>2, <1>3, <1>6, <1>9, <1>10, <1>11 DEF Enqueuing, TailRight
<1>13. tail' # node[c]
  BY <1>2, <1>5, <1>7
<1>14. Dequeuing(p, c, n, w)'
  <2>1. /\ Outside(node[c], n, w) /\ value[node[c]] = Len(got) + 1
        /\ pc[p] # "idle" => node[p] # node[c]
    BY <1>1, <1>4 DEF Dequeuing
  <2>2. Outside(node[c], n, w)'
    BY <1>2, <2>1 DEF Outside
  <2>3. QED
    BY <1>2, <1>3, <1>13, <2>1, <2>2 DEF Dequeuing
<1>15. Path(n, w)' /\ Numbered(c, n, w)'
  BY <1>1, <1>2, <1>6, SamePath DEF Numbered
<1>16. QED
  BY <1>1, <1>2, <1>6, <1>12, <1>14, <1>15 DEF Sound

LEMMA DeleteNodeSound ==
  ASSUME NEW p, NEW c, OneOfEach(p, c), TypeInv, NEW n, NEW w, Sound(p, c, n, w),
         DeleteNode(c), ~raced'
  PROVE  /\ Sound(p, c, n, w)' /\ Before(c)' = Before(c)
         /\ Holds(c) /\ got' = Append(got, Len(got) + 1)
<1>0. Threaded(p, c) /\ Stored /\ Counted
  BY Facts
<1>1. /\ n \in Nat /\ Path(n, w) /\ Numbered(c, n, w) /\ Dequeuing(p, c, n, w)
      /\ Enqueuing(p, c, n, w)
  BY DEF Sound
<1>2. /\ pc[c] = "delete" /\ got' = Append(got, value[node[c]]) /\ live' = live \ {node[c]}
      /\ pc' = [pc EXCEPT ![c] = "idle"]
      /\ UNCHANGED <<order, tail, value, node, target, seen, calls>>
      /\ ~Clash(p, c)'
  BY NoClash DEF DeleteNode
<1>3. PICK left : next' = [next EXCEPT ![node[c]] = left]
  BY DEF DeleteNode
<1>4. pc'[c] = "idle" /\ pc'[p] = pc[p]
  BY <1>0, <1>2 DEF Threaded
<1>5. Holds(c) /\ ~Holds(c)'
  BY <1>2, <1>4 DEF Holds
<1>6. /\ node[c] \in live /\ (\A i \in 0 .. n : w[i] # node[c])
      /\ value[node[c]] = Len(got) + 1 /\ (pc[p] # "idle" => node[p] # node[c])
  BY <1>1, <1>5 DEF Dequeuing, Outside
<1>7. \A x \in Nodes : x # node[c] => next'[x] = next[x]
  BY <1>0, <1>3 DEF Stored
<1>8. n \in Nat
  BY <1>1
<1>9. n \in 0 .. n /\ \A i \in 0 .. n - 1 : i \in 0 .. n
  BY <1>8
<1>10. Path(n, w)'
  <2>1. \A i \in 0 .. n : w[i] \in Nodes /\ w[i] \in live /\ next'[w[i]] = next[w[i]]
    BY <1>1, <1>6, <1>7, PathFacts
  <2>2. QED
    BY <1>1, <1>2, <1>6, <1>9, <2>1 DEF Path
<1>11. /\ Len(got') = Len(got) + 1 /\ Len(got) \in Nat
       /\ got'[Len(got) + 1] = Len(got) + 1
       /\ \A i \in 1 .. Len(got) : got'[i] = got[i]
  <2>1. got \in Seq(Nat) /\ value[node[c]] \in Nat /\ Len(got) \in Nat
    BY <1>0, <1>6 DEF Counted
  <2>2. QED
    BY <1>2, <1>6, <2>1, AppendProperties
<1>12. Before(c)' = Before(c)
  BY <1>5, <1>11 DEF Before
<1>13. Numbered(c, n, w)'
  <2>1. \A i \in 1 .. Len(got') : i \in 1 .. Len(got) \/ i = Len(got) + 1
    BY <1>11
  <2>2. \A i \in 1 .. Len(got') : got'[i] = i
    BY <1>1, <1>11, <2>1 DEF Numbered
  <2>3. QED
    BY <1>1, <1>2, <1>12, <2>2 DEF Numbered
<1>14. Dequeuing(p, c, n, w)'
  BY <1>4, <1>5 DEF Dequeuing
<1>15. TailRight(c, n, w) => TailRight(c, n, w)'
  BY <1>2 DEF TailRight
<1>16. Unlinked(p, n, w) => Unlinked(p, n, w)'
  <2> SUFFICES ASSUME Unlinked(p, n, w) PROVE Unlinked(p, n, w)'
    OBVIOUS
  <2>1. pc[p] # "idle" /\ node[p] \in live
    BY DEF Unlinked, Outside
  <2>2. next'[node[p]] = next[node[p]] /\ node[p] \in live'
    BY <1>0, <1>2, <1>6, <1>7, <2>1 DEF Stored
  <2>3. Outside(node[p], n, w)'
    BY <1>2, <2>2 DEF Unlinked, Outside
  <2>4. QED
    BY <1>2, <1>4, <2>2, <2>3 DEF Unlinked
<1>17. Behind(p, n, w) => Behind(p, n, w)'
  BY <1>2, <1>4 DEF Behind
<1>18. Enqueuing(p, c, n, w)'
  BY <1>1, <1>2, <1>4, <1>12, <1>15, <1>16, <1>17 DEF Enqueuing
<1>19. QED
  BY <1>1, <1>2, <1>5, <1>6, <1>10, <1>12, <1>13, <1>14, <1>18 DEF Sound

-----------------------------------------------------------------------------
(* The invariant.                                                          *)

LEMMA InitSound ==
  ASSUME NEW p, NEW c, OneOfEach(p, c), Init
  PROVE  QueueInv(p, c)
<1>1. TypeInv
  BY InitTyped
<1>2. Threaded(p, c) /\ Stored /\ Counted
  BY <1>1, Facts
<1> DEFINE w == [i \in 0 .. 0 |-> Sentinel]
<1>3. w[0] = Sentinel /\ \A i \in 0 .. 0 : i = 0
  OBVIOUS
<1>4. /\ live = {Sentinel} /\ tail = Sentinel /\ pc[p] = "idle" /\ pc[c] = "idle"
      /\ calls = 0 /\ got = <<>> /\ next[Sentinel] = Null /\ Sentinel \in Nodes
  BY <1>2 DEF Init, Threaded, Stored
<1>5. Len(got) = 0 /\ Before(c) = 0
  BY <1>4, EmptySeq DEF Before, Holds
<1>6. w \in [0 .. 0 -> Nodes]
  BY <1>4
<1>7. \A i \in 0 .. 0 - 1 : FALSE
  OBVIOUS
<1>8. Path(0, w)
  <2> HIDE DEF w
  <2>1. QED
    BY <1>3, <1>4, <1>6, <1>7 DEF Path
<1>9. Numbered(c, 0, w)
  <2>1. \A i \in 1 .. 0 : FALSE
    OBVIOUS
  <2>2. QED
    BY <1>5, <2>1 DEF Numbered
<1>10. Dequeuing(p, c, 0, w) /\ ~Clash(p, c)
  BY <1>4 DEF Dequeuing, Holds, Clash, Unlinking
<1>11. Enqueuing(p, c, 0, w)
  BY <1>3, <1>4, <1>5 DEF Enqueuing, TailRight
<1>12. Sound(p, c, 0, w)
  BY <1>8, <1>9, <1>10, <1>11 DEF Sound
<1>13. QED
  BY <1>1, <1>12 DEF QueueInv

\* A step of Enqueue links one node or none.
LEMMA EnqueueSound ==
  ASSUME NEW p, NEW c, OneOfEach(p, c), TypeInv, NEW n, NEW w, Sound(p, c, n, w),
         Enqueue(p), ~raced'
  PROVE  /\ \E m \in {n, n + 1} : \E v : Sound(p, c, m, v)'
         /\ Before(c)' = Before(c) /\ got' = got
<1>1. \E m \in {n, n + 1} : \E v : Sound(p, c, m, v)'
  BY EnqueueStartSound, ReadTailSound, PeekNextSound, LinkedSound, RelinkSound, TestNextSound,
     RaiseTailSound DEF Enqueue
<1>2. Threaded(p, c)
  BY Facts
<1>3. pc'[c] = pc[c] /\ got' = got
  BY <1>2 DEF Enqueue, EnqueueStart, ReadTail, PeekNext, LinkNode, TestNext, RaiseTail, Threaded
<1>4. Before(c)' = Before(c)
  BY <1>3 DEF Before, Holds
<1>5. QED
  BY <1>1, <1>3, <1>4

\* A step of Dequeue loses no value, and the one it returns is the next.
LEMMA DequeueSound ==
  ASSUME NEW p, NEW c, OneOfEach(p, c), TypeInv, NEW n, NEW w, Sound(p, c, n, w),
         Dequeue(c), ~raced'
  PROVE  /\ \E m, v : Sound(p, c, m, v)' /\ Before(c)' + m = Before(c) + n
         /\ got' = got \/ (Holds(c) /\ got' = Append(got, Len(got) + 1))
<1>1. CASE UnlinkNode(c)
  <2>1. got' = got
    BY <1>1 DEF UnlinkNode
  <2>2. QED
    BY <1>1, <2>1, UnlinkNodeSound
<1>2. CASE DeleteNode(c)
  BY <1>2, DeleteNodeSound
<1>3. CASE ReadFirst(c) \/ ReadSecond(c) \/ LowerTail(c)
  <2>1. got' = got
    BY <1>3 DEF ReadFirst, ReadSecond, LowerTail
  <2>2. QED
    BY <1>3, <2>1, ReadFirstSound, ReadSecondSound, LowerTailSound
<1>4. QED
  BY <1>1, <1>2, <1>3 DEF Dequeue

LEMMA QueueInvStep ==
  ASSUME NEW p, NEW c, OneOfEach(p, c), QueueInv(p, c), [Next]_vars
  PROVE  QueueInv(p, c)'
<1>1. TypeInv /\ TypeInv'
  BY TypeInvStep DEF QueueInv
<1>2. CASE UNCHANGED vars
  <2>1. raced' = raced
    BY <1>2 DEF vars
  <2>2. ASSUME NEW n, NEW w, Sound(p, c, n, w) PROVE Sound(p, c, n, w)'
    BY <1>2, <2>2 DEF vars, Sound, Path, Numbered, Dequeuing, Enqueuing, Unlinked, Behind, Outside,
                      TailRight, Before, Holds, Clash
  <2>3. QED
    BY <1>1, <2>1, <2>2 DEF QueueInv
<1>3. ASSUME Next, ~raced' PROVE \E n, w : Sound(p, c, n, w)'
  <2>1. ~raced
    BY <1>3 DEF Next, Enqueue, Dequeue, EnqueueStart, ReadTail, PeekNext, LinkNode, TestNext,
       RaiseTail, ReadFirst, ReadSecond, UnlinkNode, LowerTail, DeleteNode, NoteClash
  <2>2. PICK n, w : Sound(p, c, n, w)
    BY <2>1 DEF QueueInv
  <2>3. Enqueue(p) \/ Dequeue(c)
    BY <1>3 DEF Next, OneOfEach
  <2>4. QED
    BY <1>1, <1>3, <2>2, <2>3, EnqueueSound, DequeueSound
<1>4. QED
  BY <1>1, <1>2, <1>3 DEF QueueInv

LEMMA QueueInvAlways ==
  ASSUME NEW CONSTANT p, NEW CONSTANT c, OneOfEach(p, c)
  PROVE  Spec => []QueueInv(p, c)
<1>1. Init => QueueInv(p, c)
  BY InitSound
<1>2. QueueInv(p, c) /\ [Next]_vars => QueueInv(p, c)'
  BY QueueInvStep
<1>3. QED
  BY <1>1, <1>2, PTL DEF Spec

-----------------------------------------------------------------------------
(* What the properties see of the list.                                    *)

\* Induction, as a fact about sets of numbers.
LEMMA NaturalsByInduction ==
  ASSUME NEW S, 0 \in S, \A n \in Nat : n \in S => n + 1 \in S
  PROVE  Nat \subseteq S
<1> DEFINE T == Nat \ S
<1>1. ASSUME T # {} PROVE FALSE
  <2>1. PICK x \in T : \A y \in T : ~ (<<y, x>> \in OpToRel(<, Nat))
    BY <1>1, NatLessThanWellFounded, WFMin
  <2>2. x \in Nat /\ x \notin S /\ x # 0
    BY <2>1
  <2>3. x - 1 \in Nat /\ x - 1 \notin S /\ x - 1 < x
    BY <2>2
  <2>4. <<x - 1, x>> \in OpToRel(<, Nat)
    BY <2>2, <2>3 DEF OpToRel
  <2>5. QED
    BY <2>1, <2>3, <2>4
<1>2. QED
  BY <1>1

\* The nodes of a path are nodes, each only once: there is room for the walk.
LEMMA PathFits ==
  ASSUME NEW n \in Nat, NEW w, Path(n, w)
  PROVE  Cardinality(Nodes) \in Nat /\ n + 1 <= Cardinality(Nodes)
<1>1. IsFiniteSet(Nodes)
  BY QueueAssumption
<1>2. w \in Injection(0 .. n, Nodes)
  BY DEF Path, Injection, IsInjective
<1>3. Cardinality(0 .. n) <= Cardinality(Nodes)
  BY <1>1, <1>2, FS_Injection
<1>4. Cardinality(0 .. n) = n + 1
  <2>1. 0 \in Int /\ n \in Int /\ ~(0 > n) /\ n - 0 + 1 = n + 1
    OBVIOUS
  <2>2. QED
    BY <2>1, FS_Interval
<1>5. Cardinality(Nodes) \in Nat
  BY <1>1, FS_CardinalityType
<1>6. QED
  BY <1>3, <1>4, <1>5

\* The walk meets the nodes of the path and then nothing.
LEMMA WalkIsPath ==
  ASSUME Stored, NEW n \in Nat, NEW w, Path(n, w)
  PROVE  /\ DOMAIN Walk = 0 .. Cardinality(Nodes)
         /\ \A i \in 0 .. Cardinality(Nodes) : Walk[i] = IF i <= n THEN w[i] ELSE Null
<1>1. PICK size : size = Cardinality(Nodes) /\ size \in Nat /\ n + 1 <= size
  BY PathFits
<1> DEFINE Step(f, i) == IF f[i - 1] \in Nodes THEN next[f[i - 1]] ELSE Null
           Is(f) == f = [i \in 0 .. size |-> IF i = 0 THEN Sentinel ELSE Step(f, i)]
           On(i) == IF i <= n THEN w[i] ELSE Null
<1>2. On(0) = Sentinel
  BY PathFacts
<1>3. ASSUME NEW i \in Nat
      PROVE  On(i + 1) = IF On(i) \in Nodes THEN next[On(i)] ELSE Null
  <2>1. CASE i < n
    <3>1. i \in 0 .. n - 1 /\ i \in 0 .. n /\ i <= n /\ i + 1 <= n
      BY <2>1
    <3>2. next[w[i]] = w[i + 1] /\ w[i] \in Nodes
      BY <3>1, PathFacts DEF Path
    <3>3. QED
      BY <3>1, <3>2
  <2>2. CASE i = n
    <3>1. i <= n /\ ~(i + 1 <= n)
      BY <2>2
    <3>2. next[w[n]] = Null /\ w[n] \in Nodes
      BY PathFacts DEF Path
    <3>3. QED
      BY <2>2, <3>1, <3>2
  <2>3. CASE i > n
    <3>1. ~(i <= n) /\ ~(i + 1 <= n)
      BY <2>3
    <3>2. QED
      BY <3>1 DEF Stored
  <2>4. QED
    BY <2>1, <2>2, <2>3
<1>4. \E f : Is(f)
  <2>1. PICK f : f = [i \in 0 .. size |-> On(i)]
    OBVIOUS
  <2>2. \A i \in 0 .. size : f[i] = On(i)
    BY <2>1
  <2> HIDE DEF On
  <2>3. ASSUME NEW i \in 0 .. size, i # 0 PROVE f[i] = Step(f, i)
    <3>1. i - 1 \in Nat /\ i - 1 \in 0 .. size /\ (i - 1) + 1 = i
      BY <1>1, <2>3
    <3>2. f[i - 1] = On(i - 1) /\ f[i] = On((i - 1) + 1)
      BY <2>2, <3>1
    <3>3. QED
      BY <1>3, <3>1, <3>2
  <2>4. 0 \in 0 .. size
    BY <1>1
  <2> HIDE DEF Step
  <2>5. f = [i \in 0 .. size |-> IF i = 0 THEN Sentinel ELSE Step(f, i)]
    BY <1>2, <2>1, <2>2, <2>3, <2>4
  <2>6. QED
    BY <2>5
<1>5. Is(Walk)
  <2>1. Walk = CHOOSE f : Is(f)
    BY <1>1 DEF Walk
  <2>2. QED
    BY <1>4, <2>1
<1>6. Walk[0] = Sentinel /\ DOMAIN Walk = 0 .. size
  BY <1>1, <1>5
<1> DEFINE S == {i \in Nat : i <= size => Walk[i] = On(i)}
<1>7. 0 \in S
  BY <1>2, <1>6
<1>8. ASSUME NEW i \in Nat, i \in S PROVE i + 1 \in S
  <2> SUFFICES ASSUME i + 1 <= size PROVE Walk[i + 1] = On(i + 1)
    OBVIOUS
  <2>1. i + 1 \in 0 .. size /\ (i + 1) - 1 = i /\ i <= size /\ i + 1 # 0
    BY <1>1
  <2>2. Walk[i] = On(i)
    BY <1>8, <2>1
  <2>3. Walk[i + 1] = Step(Walk, i + 1)
    BY <1>5, <2>1
  <2> HIDE DEF On
  <2>4. QED
    BY <1>3, <2>1, <2>2, <2>3
<1>9. Nat \subseteq S
  <2> HIDE DEF S
  <2>1. QED
    BY <1>7, <1>8, NaturalsByInduction
<1>10. ASSUME NEW i \in 0 .. size PROVE Walk[i] = On(i)
  <2>1. i \in Nat /\ i <= size
    BY <1>1
  <2>2. QED
    BY <1>9, <2>1
<1>11. QED
  BY <1>1, <1>6, <1>10

\* The values up to n, as a sequence.
LEMMA UptoIs ==
  ASSUME NEW n \in Nat
  PROVE  Upto(n) \in Seq(Nat) /\ Len(Upto(n)) = n /\ \A i \in 1 .. n : Upto(n)[i] = i
<1>1. Upto(n) \in [1 .. n -> Nat]
  BY DEF Upto
<1>2. QED
  BY <1>1, SeqDef DEF Upto

\* What came out, what a Dequeue holds and what the list holds are all the values in order.
LEMMA AllInOrder ==
  ASSUME NEW p, NEW c, OneOfEach(p, c), TypeInv, NEW n, NEW w, Sound(p, c, n, w)
  PROVE  /\ got \o InFlight \o Linked = Upto(Before(c) + n)
         /\ Steps = 1 .. n /\ Cardinality(Steps) = n
         /\ \A i \in 0 .. n : Walk[i] = w[i]
         /\ Before(c) + n \in Nat /\ got = Upto(Len(got))
<1>1. Threaded(p, c) /\ Stored /\ Counted
  BY Facts
<1>2. n \in Nat /\ Path(n, w) /\ Numbered(c, n, w) /\ Dequeuing(p, c, n, w)
  BY DEF Sound
<1>3. PICK size : size = Cardinality(Nodes) /\ size \in Nat /\ n + 1 <= size
  BY <1>2, PathFits
<1>4. /\ DOMAIN Walk = 0 .. size
      /\ \A i \in 0 .. size : Walk[i] = IF i <= n THEN w[i] ELSE Null
  BY <1>1, <1>2, <1>3, WalkIsPath
<1>5. \A i \in 0 .. n : w[i] \in Nodes
  BY <1>2, PathFacts
<1>6. n \in Nat
  BY <1>2
<1>7. \A i \in 0 .. n : Walk[i] = w[i]
  <2>1. \A i \in 0 .. n : i \in 0 .. size /\ i <= n
    BY <1>3, <1>6
  <2>2. QED
    BY <1>4, <2>1
<1>8. Steps = 1 .. n
  <2>1. ASSUME NEW i \in 1 .. n PROVE i \in Steps
    <3>1. i \in 0 .. n /\ i \in 0 .. size /\ i # 0
      BY <1>3, <1>6
    <3>2. QED
      BY <1>4, <1>5, <1>7, <3>1 DEF Steps
  <2>2. ASSUME NEW i \in Steps PROVE i \in 1 .. n
    <3>1. i \in 0 .. size /\ i # 0 /\ Walk[i] \in Nodes
      BY <1>4 DEF Steps
    <3>2. i <= n
      BY <1>1, <1>4, <3>1 DEF Stored
    <3>3. QED
      BY <1>3, <1>6, <3>1, <3>2
  <2>3. QED
    BY <2>1, <2>2
<1>9. Cardinality(Steps) = n
  <2>1. CASE n = 0
    <3>1. Steps = {}
      BY <1>8, <2>1
    <3>2. QED
      BY <2>1, <3>1, FS_EmptySet
  <2>2. CASE n # 0
    <3>1. 1 \in Int /\ n \in Int /\ ~(1 > n) /\ n - 1 + 1 = n
      BY <1>6, <2>2
    <3>2. Cardinality(1 .. n) = n
      BY <3>1, FS_Interval
    <3>3. QED
      BY <1>8, <3>2
  <2>3. QED
    BY <2>1, <2>2
<1>10. PICK before : before = Before(c) /\ before \in Nat
  BY <1>1, BeforeIsNat
<1>11. Linked \in Seq(Nat) /\ Len(Linked) = n /\ \A i \in 1 .. n : Linked[i] = before + i
  <2>1. \A i \in 1 .. n : i \in 0 .. n
    BY <1>6
  <2>2. Linked = [i \in 1 .. n |-> value[Walk[i]]]
    BY <1>9 DEF Linked
  <2>3. \A i \in 1 .. n : value[Walk[i]] = before + i
    BY <1>2, <1>7, <1>10, <2>1 DEF Numbered
  <2>4. \A i \in 1 .. n : before + i \in Nat
    BY <1>6, <1>10
  <2>5. Linked \in [1 .. n -> Nat]
    BY <2>2, <2>3, <2>4
  <2>6. Linked \in Seq(Nat) /\ Len(Linked) = n
    BY <1>6, <2>5, SeqDef
  <2>7. QED
    BY <2>2, <2>3, <2>6
<1>12. PICK taken : taken = Len(got) /\ taken \in Nat /\ got \in Seq(Nat)
  BY <1>1 DEF Counted
<1>13. \A i \in 1 .. taken : got[i] = i
  BY <1>2, <1>12 DEF Numbered
<1>14. /\ InFlight \in Seq(Nat) /\ Len(InFlight) = before - taken
       /\ \A i \in 1 .. before - taken : InFlight[i] = taken + i
       /\ before - taken \in Nat
  <2>1. CASE Holds(c)
    <3>1. Taken = {c}
      BY <2>1 DEF Taken, OneOfEach, Holds
    <3>2. (CHOOSE x \in Taken : TRUE) = c
      BY <3>1
    <3>3. value[node[c]] = taken + 1
      BY <1>2, <1>12, <2>1 DEF Dequeuing
    <3>4. InFlight = << taken + 1 >>
      BY <3>1, <3>2, <3>3 DEF InFlight
    <3>5. taken + 1 \in Nat /\ before - taken = 1 /\ \A i \in 1 .. 1 : i = 1
      BY <1>10, <1>12, <2>1 DEF Before
    <3>6. << taken + 1 >> \in Seq(Nat) /\ Len(<< taken + 1 >>) = 1 /\ << taken + 1 >>[1] = taken + 1
      BY <3>5
    <3>7. QED
      BY <3>4, <3>5, <3>6
  <2>2. CASE ~Holds(c)
    <3>1. InFlight = <<>>
      BY <2>2 DEF Taken, OneOfEach, Holds, InFlight
    <3>2. before - taken = 0
      BY <1>10, <1>12, <2>2 DEF Before
    <3>3. QED
      BY <3>1, <3>2, EmptySeq
  <2>3. QED
    BY <2>1, <2>2
<1>15. PICK out : out = got \o InFlight
  OBVIOUS
<1>16. out \in Seq(Nat) /\ Len(out) = before /\ \A i \in 1 .. before : out[i] = i
  <2>1. out \in Seq(Nat) /\ Len(out) = taken + (before - taken)
    BY <1>12, <1>14, <1>15, ConcatProperties
  <2>2. taken + (before - taken) = before /\ taken <= before
    BY <1>10, <1>12, <1>14
  <2>3. ASSUME NEW i \in 1 .. before PROVE out[i] = i
    <3>1. out[i] = IF i <= taken THEN got[i] ELSE InFlight[i - taken]
      BY <1>12, <1>14, <1>15, <2>2, ConcatProperties
    <3>2. CASE i <= taken
      <4>1. i \in 1 .. taken
        BY <1>10, <1>12, <3>2
      <4>2. QED
        BY <1>13, <3>1, <3>2, <4>1
    <3>3. CASE ~(i <= taken)
      <4>1. i - taken \in 1 .. before - taken /\ taken + (i - taken) = i
        BY <1>10, <1>12, <3>3
      <4>2. QED
        BY <1>14, <3>1, <3>3, <4>1
    <3>4. QED
      BY <3>2, <3>3
  <2>4. QED
    BY <2>1, <2>2, <2>3
<1>17. PICK all : all = out \o Linked
  OBVIOUS
<1>18. all \in Seq(Nat) /\ Len(all) = before + n /\ \A i \in 1 .. before + n : all[i] = i
  <2>1. all \in Seq(Nat) /\ Len(all) = before + n
    BY <1>11, <1>16, <1>17, ConcatProperties
  <2>2. ASSUME NEW i \in 1 .. before + n PROVE all[i] = i
    <3>1. all[i] = IF i <= before THEN out[i] ELSE Linked[i - before]
      BY <1>11, <1>16, <1>17, ConcatProperties
    <3>2. CASE i <= before
      <4>1. i \in 1 .. before
        BY <1>6, <1>10, <3>2
      <4>2. QED
        BY <1>16, <3>1, <3>2, <4>1
    <3>3. CASE ~(i <= before)
      <4>1. i - before \in 1 .. n /\ before + (i - before) = i
        BY <1>6, <1>10, <3>3
      <4>2. QED
        BY <1>11, <3>1, <3>3, <4>1
    <3>4. QED
      BY <3>2, <3>3
  <2>3. QED
    BY <2>1, <2>2
<1>19. before + n \in Nat
  BY <1>6, <1>10
<1>20. all = Upto(before + n)
  BY <1>18, <1>19, UptoIs, SeqEqual
<1>21. got = Upto(taken)
  BY <1>12, <1>13, UptoIs, SeqEqual
<1>22. QED
  BY <1>7, <1>8, <1>9, <1>10, <1>12, <1>15, <1>17, <1>19, <1>20, <1>21

-----------------------------------------------------------------------------
(* The properties.                                                         *)

\* One thread enqueues and one dequeues, as the main thread and the append thread do
\* with AppendCmdQueue, in a queue of any size: as long as no Dequeue works on a node
\* an Enqueue works on, nothing is lost, doubled or swapped.
THEOREM QueueIsIntact ==
  ASSUME NEW CONSTANT p, NEW CONSTANT c, OneOfEach(p, c)
  PROVE  Spec => []IntactUnlessRaced
<1>1. QueueInv(p, c) => IntactUnlessRaced
  <2> SUFFICES ASSUME QueueInv(p, c), ~raced
               PROVE  LET all == got \o InFlight \o Linked
                      IN  /\ all = Upto(Len(all))
                          /\ \/ Len(all) = calls
                             \/ Len(all) = calls - 1 /\ \E q \in Producers : pc[q] # "idle"
    BY DEF IntactUnlessRaced
  <2>1. TypeInv
    BY DEF QueueInv
  <2>2. PICK n, w : Sound(p, c, n, w)
    BY DEF QueueInv
  <2>3. PICK all : all = got \o InFlight \o Linked
    OBVIOUS
  <2>4. all = Upto(Before(c) + n) /\ Before(c) + n \in Nat
    BY <2>1, <2>2, <2>3, AllInOrder
  <2>5. Len(all) = Before(c) + n
    BY <2>4, UptoIs
  <2>6. \/ Before(c) + n = calls
        \/ Before(c) + n = calls - 1 /\ pc[p] # "idle"
    <3>1. \/ calls = Before(c) + n
          \/ calls = Before(c) + n + 1 /\ pc[p] # "idle"
      BY <2>2 DEF Sound, Enqueuing, Unlinked
    <3>2. QED
      BY <2>4, <3>1
  <2>7. p \in Producers
    BY DEF OneOfEach
  <2>8. QED
    BY <2>3, <2>4, <2>5, <2>6, <2>7
<1>2. Spec => []QueueInv(p, c)
  BY QueueInvAlways
<1>3. QED
  BY <1>1, <1>2, PTL

\* With the same two threads and as long as they do not clash, no deleted node is in
\* the list or behind m_tailNode, and whenever both are idle m_tailNode is the last node.
THEOREM QueueListIsSound ==
  ASSUME NEW CONSTANT p, NEW CONSTANT c, OneOfEach(p, c)
  PROVE  Spec => []ListIsSoundUnlessRaced
<1>1. QueueInv(p, c) => ListIsSoundUnlessRaced
  <2> SUFFICES ASSUME QueueInv(p, c), ~raced
               PROVE  /\ {tail} \cup {Walk[i] : i \in Steps} \subseteq live
                      /\ Idle => tail = Walk[Cardinality(Steps)]
    BY DEF ListIsSoundUnlessRaced
  <2>1. TypeInv
    BY DEF QueueInv
  <2>2. PICK n, w : Sound(p, c, n, w)
    BY DEF QueueInv
  <2>3. n \in Nat /\ Path(n, w) /\ Dequeuing(p, c, n, w) /\ Enqueuing(p, c, n, w)
    BY <2>2 DEF Sound
  <2>4. Steps = 1 .. n /\ Cardinality(Steps) = n /\ \A i \in 0 .. n : Walk[i] = w[i]
    BY <2>1, <2>2, AllInOrder
  <2>5. n \in 0 .. n /\ (n > 0 => n - 1 \in 0 .. n) /\ \A i \in 0 .. n : w[i] \in live
    BY <2>3, PathFacts
  <2>6. tail \in live
    <3>1. CASE TailRight(c, n, w)
      BY <2>3, <2>5, <3>1 DEF TailRight, Dequeuing, Holds, Outside
    <3>2. CASE Behind(p, n, w)
      BY <2>5, <3>2 DEF Behind
    <3>3. QED
      BY <2>3, <3>1, <3>2 DEF Enqueuing
  <2>7. \A i \in Steps : Walk[i] \in live
    <3>1. n \in Nat
      BY <2>3
    <3>2. \A i \in 1 .. n : i \in 0 .. n
      BY <3>1
    <3>3. QED
      BY <2>4, <2>5, <3>2
  <2>8. ASSUME Idle PROVE tail = w[n]
    <3>1. pc[p] = "idle" /\ pc[c] = "idle"
      BY <2>8 DEF Idle, Threads, OneOfEach
    <3>2. QED
      BY <2>3, <3>1 DEF Enqueuing, Unlinked, Behind, TailRight
  <2>9. QED
    BY <2>4, <2>5, <2>6, <2>7, <2>8
<1>2. Spec => []QueueInv(p, c)
  BY QueueInvAlways
<1>3. QED
  BY <1>1, <1>2, PTL

\* Longer by one is one more value.
LEMMA UptoNext ==
  ASSUME NEW n \in Nat
  PROVE  Upto(n + 1) = Append(Upto(n), n + 1)
<1>1. Upto(n) \in Seq(Nat) /\ Len(Upto(n)) = n /\ \A i \in 1 .. n : Upto(n)[i] = i
  BY UptoIs
<1>2. PICK s : s = Append(Upto(n), n + 1)
  OBVIOUS
<1>3. /\ s \in Seq(Nat) /\ Len(s) = n + 1 /\ s[n + 1] = n + 1
      /\ \A i \in 1 .. n : s[i] = Upto(n)[i]
  BY <1>1, <1>2, AppendProperties
<1>4. \A i \in 1 .. n + 1 : i \in 1 .. n \/ i = n + 1
  OBVIOUS
<1>5. \A i \in 1 .. n + 1 : s[i] = i
  BY <1>1, <1>3, <1>4
<1>6. n + 1 \in Nat
  OBVIOUS
<1>7. /\ Upto(n + 1) \in Seq(Nat) /\ Len(Upto(n + 1)) = n + 1
      /\ \A i \in 1 .. n + 1 : Upto(n + 1)[i] = i
  BY <1>6, UptoIs
<1>8. s = Upto(n + 1)
  BY <1>3, <1>5, <1>7, SeqEqual
<1>9. QED
  BY <1>2, <1>8

\* What the channel of QueueSpec holds.
Put == got \o InFlight \o Linked

LEMMA InitIsChannel ==
  ASSUME NEW p, NEW c, OneOfEach(p, c), Init
  PROVE  Chan!Init
<1>1. QueueInv(p, c) /\ ~raced /\ got = <<>> /\ calls = 0
  BY InitSound DEF Init
<1>2. TypeInv /\ Threaded(p, c)
  BY <1>1, Facts DEF QueueInv
<1>3. PICK n, w : Sound(p, c, n, w)
  BY <1>1 DEF QueueInv
<1>4. pc[p] = "idle"
  BY <1>2 DEF Init, Threaded
<1>5. Before(c) + n = 0
  BY <1>1, <1>3, <1>4 DEF Sound, Enqueuing, Unlinked, Behind
<1>6. Put = Upto(0)
  BY <1>2, <1>3, <1>5, AllInOrder DEF Put
<1>7. Upto(0) = <<>>
  <2>1. 0 \in Nat
    OBVIOUS
  <2>2. Upto(0) \in Seq(Nat) /\ Len(Upto(0)) = 0
    BY <2>1, UptoIs
  <2>3. QED
    BY <2>2, EmptySeq
<1>8. raced = FALSE
  BY DEF Init
<1>9. QED
  BY <1>1, <1>6, <1>7, <1>8 DEF Put, Chan!Init

\* How much the channel holds, as far as the path shows it.
Shown(p, c) ==
  \A n, w : Sound(p, c, n, w) => /\ Put = Upto(Before(c) + n)
                                 /\ got = Upto(Len(got))
                                 /\ n \in Nat /\ Before(c) \in Nat /\ Len(got) \in Nat
                                 /\ Before(c) = Len(got) + (IF Holds(c) THEN 1 ELSE 0)

LEMMA AllShown ==
  ASSUME NEW p, NEW c, OneOfEach(p, c)
  PROVE  TypeInv => Shown(p, c)
<1> SUFFICES ASSUME TypeInv, NEW n, NEW w, Sound(p, c, n, w)
             PROVE  /\ Put = Upto(Before(c) + n)
                    /\ got = Upto(Len(got))
                    /\ n \in Nat /\ Before(c) \in Nat /\ Len(got) \in Nat
                    /\ Before(c) = Len(got) + (IF Holds(c) THEN 1 ELSE 0)
  BY DEF Shown
<1>1. Counted
  BY Facts
<1>2. Before(c) \in Nat /\ Len(got) \in Nat
  BY <1>1, BeforeIsNat DEF Counted
<1>3. QED
  BY <1>2, AllInOrder DEF Put, Before, Sound

\* A step that links a node puts its value, one that deletes a node takes the next
\* value, and no other step shows.
LEMMA StepIsChannel ==
  ASSUME NEW p, NEW c, OneOfEach(p, c), QueueInv(p, c), Shown(p, c), Shown(p, c)', [Next]_vars
  PROVE  [Chan!Next]_<<Put, got, raced>>
<1>1. TypeInv
  BY DEF QueueInv
<1>2. CASE raced'
  BY <1>2 DEF Chan!Next, Chan!Break
<1>3. CASE ~raced' /\ ~Next
  <2>1. UNCHANGED vars
    BY <1>3
  <2>2. ~raced
    BY <1>3, <2>1 DEF vars
  <2>3. PICK n, w : Sound(p, c, n, w)
    BY <2>2 DEF QueueInv
  <2>4. Sound(p, c, n, w)' /\ Before(c)' = Before(c)
    BY <2>1, <2>3 DEF vars, Sound, Path, Numbered, Dequeuing, Enqueuing, Unlinked, Behind,
                      Outside, TailRight, Before, Holds, Clash
  <2>5. Put' = Put
    BY <2>3, <2>4 DEF Shown
  <2>6. QED
    BY <2>1, <2>5 DEF vars
<1>4. CASE ~raced' /\ Next
  <2>1. ~raced /\ raced' = raced
    BY <1>1, <1>4 DEF TypeInv, TypeOK, Next, Enqueue, Dequeue, EnqueueStart, ReadTail, PeekNext,
       LinkNode, TestNext, RaiseTail, ReadFirst, ReadSecond, UnlinkNode, LowerTail, DeleteNode,
       NoteClash
  <2>2. PICK n, w : Sound(p, c, n, w)
    BY <2>1 DEF QueueInv
  <2>3. PICK k : k = Before(c) + n
    OBVIOUS
  <2>4. Put = Upto(k) /\ k \in Nat /\ got = Upto(Len(got)) /\ Len(got) \in Nat
    BY <2>2, <2>3 DEF Shown
  <2>5. CASE Enqueue(p)
    <3>1. PICK m, v : m \in {n, n + 1} /\ Sound(p, c, m, v)'
      BY <1>1, <1>4, <2>2, <2>5, EnqueueSound
    <3>2. Before(c)' = Before(c) /\ got' = got
      BY <1>1, <1>4, <2>2, <2>5, EnqueueSound
    <3>3. Put' = Upto(Before(c) + m)
      BY <3>1, <3>2 DEF Shown
    <3>4. CASE m = n
      BY <2>1, <2>3, <2>4, <3>2, <3>3, <3>4
    <3>5. CASE m = n + 1
      <4>1. Before(c) + m = k + 1
        <5>1. Before(c) \in Nat /\ n \in Nat
          BY <2>2 DEF Shown
        <5>2. QED
          BY <2>3, <3>5, <5>1
      <4>2. Put' = Append(Put, k + 1)
        BY <2>4, <3>3, <4>1, UptoNext
      <4>3. Put' # <<>> /\ Put'[Len(Put')] = k + 1
        <5>1. k + 1 \in Nat /\ k + 1 \in 1 .. k + 1 /\ k + 1 # 0
          BY <2>4
        <5>2. Put' \in Seq(Nat) /\ Len(Put') = k + 1 /\ Put'[k + 1] = k + 1
          BY <3>3, <4>1, <5>1, UptoIs
        <5>3. QED
          BY <5>1, <5>2, EmptySeq
      <4>4. Chan!Put
        BY <2>1, <3>2, <4>2, <4>3 DEF Chan!Put, Put
      <4>5. QED
        BY <4>4 DEF Chan!Next
    <3>6. QED
      BY <3>1, <3>4, <3>5
  <2>6. CASE Dequeue(c)
    <3>1. PICK m, v : Sound(p, c, m, v)' /\ Before(c)' + m = Before(c) + n
      BY <1>1, <1>4, <2>2, <2>6, DequeueSound
    <3>2. got' = got \/ (Holds(c) /\ got' = Append(got, Len(got) + 1))
      BY <1>1, <1>4, <2>2, <2>6, DequeueSound
    <3>3. Put' = Put
      BY <2>3, <2>4, <3>1 DEF Shown
    <3>4. CASE got' = got
      BY <2>1, <3>3, <3>4
    <3>5. CASE Holds(c) /\ got' = Append(got, Len(got) + 1)
      <4>1. Len(got) + 1 \in 1 .. k
        <5>1. Before(c) = Len(got) + 1 /\ n \in Nat
          BY <2>2, <3>5 DEF Shown
        <5>2. QED
          BY <2>3, <2>4, <5>1
      <4>2. Len(got) < Len(Put) /\ Put[Len(got) + 1] = Len(got) + 1
        <5>1. Len(Put) = k /\ \A i \in 1 .. k : Put[i] = i
          BY <2>4, UptoIs
        <5>2. Len(got) < k
          BY <2>4, <4>1
        <5>3. QED
          BY <4>1, <5>1, <5>2
      <4>3. Chan!Take
        BY <2>1, <3>3, <3>5, <4>2 DEF Chan!Take, Put
      <4>4. QED
        BY <4>3 DEF Chan!Next
    <3>6. QED
      BY <3>2, <3>4, <3>5
  <2>7. QED
    BY <1>4, <2>5, <2>6 DEF Next, OneOfEach
<1>5. QED
  BY <1>2, <1>3, <1>4

\* With one thread on each side the list and its CASes implement the channel: a call of
\* Enqueue takes effect with the CAS that links its node, one of Dequeue with the deletion
\* of one, and no other step of either shows.
THEOREM QueueIsChannel ==
  ASSUME NEW CONSTANT p, NEW CONSTANT c, OneOfEach(p, c)
  PROVE  Spec => QueueSpec
<1>1. Init => Chan!Init
  BY InitIsChannel
<1>2. QueueInv(p, c) /\ Shown(p, c) /\ Shown(p, c)' /\ [Next]_vars
        => [Chan!Next]_<<got \o InFlight \o Linked, got, raced>>
  BY StepIsChannel DEF Put
<1>3. QueueInv(p, c) => Shown(p, c)
  BY AllShown DEF QueueInv
<1>4. Spec => []QueueInv(p, c)
  BY QueueInvAlways
<1>5. QED
  BY <1>1, <1>2, <1>3, <1>4, PTL DEF Spec, QueueSpec, Chan!Spec
=============================================================================
