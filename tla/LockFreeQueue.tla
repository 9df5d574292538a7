--------------------------- MODULE LockFreeQueue ---------------------------
(***************************************************************************)
(* JK_LockFreeQueue as the Windows build compiles it: a list that starts   *)
(* at a sentinel which never changes, and m_tailNode, both changed by      *)
(* compare-and-swap only.  Every read and every CAS of shared memory is a  *)
(* step.  AppendCmdQueue is such a queue: the main thread enqueues the     *)
(* lines of the append file, the append thread dequeues them.              *)
(*                                                                         *)
(* The n-th call of Enqueue carries the value n.  A deleted node may be    *)
(* handed out again by the allocator, and until then its memory holds what *)
(* it held or what the heap wrote there (Junk).                            *)
(***************************************************************************)
EXTENDS Integers, Sequences, FiniteSets

CONSTANTS
  Producers,  \* threads that call Enqueue
  Consumers,  \* threads that call Dequeue
  Nodes,      \* the memory for nodes, the sentinel included
  Sentinel,       \* the sentinel, m_headNode
  Null, Junk,
  LoadOrders, \* orders a compiler may give the operands of the != in Enqueue
  MaxCalls    \* bound: calls of Enqueue; Dequeue returns one value more at most

Threads == Producers \cup Consumers

ASSUME QueueAssumption ==
  /\ Sentinel \in Nodes
  /\ Null \notin Nodes /\ Junk \notin Nodes /\ Null # Junk
  /\ Producers \cap Consumers = {}
  /\ LoadOrders \subseteq {"load first", "swap first"}
  /\ IsFiniteSet(Nodes) /\ MaxCalls \in Nat

VARIABLES
  order,   \* the order of the build: is targetNode->next loaded before the CAS?
  tail,    \* m_tailNode
  next,    \* the next field of every node
  value,   \* the value field of every node
  live,    \* nodes allocated and not deleted
  pc,      \* where each thread stands
  node,    \* pNode of an Enqueue, tempNode of a Dequeue
  target,  \* targetNode of an Enqueue
  seen,    \* the field a thread has read and not used yet
  calls,   \* calls of Enqueue so far
  got,     \* the values Dequeue has returned
  raced    \* history: a Dequeue has worked on a node an Enqueue works on

vars == <<order, tail, next, value, live, pc, node, target, seen, calls, got, raced>>

-----------------------------------------------------------------------------
(* Threads that work on one node at the same time.                         *)

Linking    == {"peek", "link", "test", "swing"}
Unlinking  == {"unlink", "lower tail"}

\* A Dequeue holds the node an Enqueue links to, or the one it links.
Clash(p, c) ==
  /\ pc[p] \in Linking \/ (pc[p] = "tail" /\ target[p] # Null)
  /\ pc[c] \in Unlinking
  /\ node[c] \in {target[p], node[p]}

Clashes == \E p \in Producers, c \in Consumers : Clash(p, c)

NoteClash == raced' = (raced \/ Clashes')

-----------------------------------------------------------------------------
(* Enqueue *)

\* JK_NEW and the two assignments; the value of the call is its number.
EnqueueStart(p) ==
  /\ pc[p] = "idle" /\ calls < MaxCalls
  /\ \E n \in Nodes \ live :
       /\ live' = live \cup {n}
       /\ node' = [node EXCEPT ![p] = n]
       /\ next' = [next EXCEPT ![n] = Null]
       /\ value' = [value EXCEPT ![n] = calls + 1]
  /\ calls' = calls + 1
  /\ target' = [target EXCEPT ![p] = Null]
  /\ pc' = [pc EXCEPT ![p] = "tail"]
  /\ UNCHANGED <<order, tail, seen, got>>
  /\ NoteClash

\* targetNode = m_tailNode
ReadTail(p) ==
  /\ pc[p] = "tail"
  /\ target' = [target EXCEPT ![p] = tail]
  /\ pc' = [pc EXCEPT ![p] = IF order = "load first" THEN "peek" ELSE "link"]
  /\ UNCHANGED <<order, tail, next, value, live, node, seen, calls, got>>
  /\ NoteClash

\* The right operand of != when it is loaded before the CAS.
PeekNext(p) ==
  /\ pc[p] = "peek"
  /\ seen' = [seen EXCEPT ![p] = next[target[p]]]
  /\ pc' = [pc EXCEPT ![p] = "link"]
  /\ UNCHANGED <<order, tail, next, value, live, node, target, calls, got>>
  /\ NoteClash

\* The CAS on targetNode->next, which returns what it found there.
LinkNode(p) ==
  /\ pc[p] = "link"
  /\ LET found == next[target[p]]
     IN  /\ next' = IF found = Null THEN [next EXCEPT ![target[p]] = node[p]] ELSE next
         /\ IF order = "load first"
            THEN /\ pc' = [pc EXCEPT ![p] = IF found # seen[p] THEN "tail" ELSE "swing"]
                 /\ UNCHANGED seen
            ELSE /\ pc' = [pc EXCEPT ![p] = "test"]
                 /\ seen' = [seen EXCEPT ![p] = found]
  /\ UNCHANGED <<order, tail, value, live, node, target, calls, got>>
  /\ NoteClash

\* The right operand of != when it is loaded after the CAS.
TestNext(p) ==
  /\ pc[p] = "test"
  /\ pc' = [pc EXCEPT ![p] = IF seen[p] # next[target[p]] THEN "tail" ELSE "swing"]
  /\ UNCHANGED <<order, tail, next, value, live, node, target, seen, calls, got>>
  /\ NoteClash

\* The CAS on m_tailNode, whose result Enqueue ignores.
RaiseTail(p) ==
  /\ pc[p] = "swing"
  /\ tail' = IF tail = target[p] THEN node[p] ELSE tail
  /\ pc' = [pc EXCEPT ![p] = "idle"]
  /\ UNCHANGED <<order, next, value, live, node, target, seen, calls, got>>
  /\ NoteClash

-----------------------------------------------------------------------------
(* Dequeue *)

MutReadFirstUnchecked(c) ==
  /\ pc[c] \in {"idle", "again"} /\ Len(got) <= MaxCalls
  /\ node' = [node EXCEPT ![c] = next[Sentinel]]
  /\ pc' = [pc EXCEPT ![c] = "second"]
  /\ UNCHANGED <<order, tail, next, value, live, target, seen, calls, got>>
  /\ NoteClash

\* tempNode = m_headNode->next; an empty queue answers NULL.
ReadFirst(c) ==
  /\ pc[c] \in {"idle", "again"} /\ Len(got) <= MaxCalls
  /\ node' = [node EXCEPT ![c] = next[Sentinel]]
  /\ pc' = [pc EXCEPT ![c] = IF next[Sentinel] = Null THEN "idle" ELSE "second"]
  /\ UNCHANGED <<order, tail, next, value, live, target, seen, calls, got>>
  /\ NoteClash

\* tempNode->next, the argument of the CAS.  Junk is no node: the thread faults.
ReadSecond(c) ==
  /\ pc[c] = "second" /\ node[c] # Junk
  /\ seen' = [seen EXCEPT ![c] = next[node[c]]]
  /\ pc' = [pc EXCEPT ![c] = "unlink"]
  /\ UNCHANGED <<order, tail, next, value, live, node, target, calls, got>>
  /\ NoteClash

\* The CAS on m_headNode->next.
UnlinkNode(c) ==
  /\ pc[c] = "unlink"
  /\ IF next[Sentinel] = node[c]
     THEN /\ next' = [next EXCEPT ![Sentinel] = seen[c]]
          /\ pc' = [pc EXCEPT ![c] = "lower tail"]
     ELSE pc' = [pc EXCEPT ![c] = "again"] /\ UNCHANGED next
  /\ UNCHANGED <<order, tail, value, live, node, target, seen, calls, got>>
  /\ NoteClash

MutLowerAlways(c) ==
  /\ pc[c] = "lower tail"
  /\ tail' = Sentinel
  /\ pc' = [pc EXCEPT ![c] = "delete"]
  /\ UNCHANGED <<order, next, value, live, node, target, seen, calls, got>>
  /\ NoteClash

MutKeepTail(c) ==
  /\ pc[c] = "lower tail"
  /\ tail' = tail
  /\ pc' = [pc EXCEPT ![c] = "delete"]
  /\ UNCHANGED <<order, next, value, live, node, target, seen, calls, got>>
  /\ NoteClash

\* The CAS on m_tailNode: the queue is empty when its last node was taken.
LowerTail(c) ==
  /\ pc[c] = "lower tail"
  /\ tail' = IF tail = node[c] THEN Sentinel ELSE tail
  /\ pc' = [pc EXCEPT ![c] = "delete"]
  /\ UNCHANGED <<order, next, value, live, node, target, seen, calls, got>>
  /\ NoteClash

MutDeleteNode(c) ==
  /\ pc[c] = "delete"
  /\ \E left \in {value[node[c]], 0} : got' = Append(got, left)
  /\ live' = live \ {node[c]}
  /\ \E left \in {next[node[c]], Junk} : next' = [next EXCEPT ![node[c]] = left]
  /\ pc' = [pc EXCEPT ![c] = "idle"]
  /\ UNCHANGED <<order, tail, value, node, target, seen, calls>>
  /\ NoteClash

\* The value is taken and the node deleted.
DeleteNode(c) ==
  /\ pc[c] = "delete"
  /\ got' = Append(got, value[node[c]])
  /\ live' = live \ {node[c]}
  /\ \E left \in {next[node[c]], Junk} : next' = [next EXCEPT ![node[c]] = left]
  /\ pc' = [pc EXCEPT ![c] = "idle"]
  /\ UNCHANGED <<order, tail, value, node, target, seen, calls>>
  /\ NoteClash

-----------------------------------------------------------------------------

Init ==
  /\ order \in LoadOrders
  /\ tail = Sentinel
  /\ next = [n \in Nodes |-> IF n = Sentinel THEN Null ELSE Junk]
  /\ value = [n \in Nodes |-> 0]
  /\ live = {Sentinel}
  /\ pc = [t \in Threads |-> "idle"]
  /\ node = [t \in Threads |-> Null]
  /\ target = [t \in Threads |-> Null]
  /\ seen = [t \in Threads |-> Null]
  /\ calls = 0
  /\ got = <<>>
  /\ raced = FALSE

Enqueue(p) ==
  \/ EnqueueStart(p) \/ ReadTail(p) \/ PeekNext(p)
  \/ LinkNode(p) \/ TestNext(p) \/ RaiseTail(p)

Dequeue(c) ==
  \/ ReadFirst(c) \/ ReadSecond(c) \/ UnlinkNode(c)
  \/ LowerTail(c) \/ DeleteNode(c)

Next ==
  \/ \E p \in Producers : Enqueue(p)
  \/ \E c \in Consumers : Dequeue(c)

Spec == Init /\ [][Next]_vars

-----------------------------------------------------------------------------
(* Properties *)

\* The nodes a walk from the sentinel meets.
Walk[i \in 0 .. Cardinality(Nodes)] ==
  IF i = 0 THEN Sentinel
  ELSE IF Walk[i - 1] \in Nodes THEN next[Walk[i - 1]] ELSE Null

Steps == {i \in DOMAIN Walk \ {0} : Walk[i] \in Nodes}

\* The values in the list, and the one a Dequeue has unlinked.
Linked == [i \in 1 .. Cardinality(Steps) |-> value[Walk[i]]]

Taken == {c \in Consumers : pc[c] \in {"lower tail", "delete"}}

InFlight == IF Taken = {} THEN <<>> ELSE <<value[node[CHOOSE c \in Taken : TRUE]]>>

Upto(n) == [i \in 1 .. n |-> i]

TypeOK ==
  /\ order \in LoadOrders
  /\ tail \in Nodes
  /\ next \in [Nodes -> Nodes \cup {Null, Junk}]
  /\ value \in [Nodes -> 0 .. MaxCalls]
  /\ live \subseteq Nodes
  /\ pc \in [Threads -> {"idle", "again", "tail", "second", "delete"}
                          \cup Linking \cup Unlinking]
  /\ node \in [Threads -> Nodes \cup {Null, Junk}]
  /\ target \in [Threads -> Nodes \cup {Null}]
  /\ seen \in [Threads -> Nodes \cup {Null, Junk}]
  /\ calls \in 0 .. MaxCalls
  /\ got \in Seq(0 .. MaxCalls)
  /\ raced \in BOOLEAN
  /\ \A t \in Threads : pc[t] \notin {"idle", "again"} => node[t] # Null

\* As long as no Dequeue works on a node an Enqueue works on, the queue is a
\* FIFO: what was dequeued, what a Dequeue holds and what the list holds are
\* the values of all the calls in order, but for a call still under way.
IntactUnlessRaced ==
  ~raced =>
    LET all == got \o InFlight \o Linked
    IN  /\ all = Upto(Len(all))
        /\ \/ Len(all) = calls
           \/ Len(all) = calls - 1 /\ \E p \in Producers : pc[p] # "idle"

Chan == INSTANCE Channel WITH put <- got \o InFlight \o Linked, taken <- got, broken <- raced

\* The same as a refinement: until then the list and its CASes implement a channel, in
\* which a call of Enqueue takes effect with the CAS that links its node and a call of
\* Dequeue with the deletion of one; no other step shows.
QueueSpec == Chan!Spec

Idle == \A t \in Threads : pc[t] = "idle"

\* Until then no deleted node is in the list or at its tail, where the next
\* Enqueue would write to it; and whenever no call is under way m_tailNode is the
\* last node, so that the next Enqueue links behind everything that is there.
ListIsSoundUnlessRaced ==
  ~raced => /\ {tail} \cup {Walk[i] : i \in Steps} \subseteq live
            /\ Idle => tail = Walk[Cardinality(Steps)]

\* With no call under way, every value enqueued was dequeued or is in the list.
NothingLost == Idle => got \o Linked = Upto(calls)
=============================================================================
