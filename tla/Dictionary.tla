----------------------------- MODULE Dictionary -----------------------------
(***************************************************************************)
(* The key space of the server: JK_Dictionary (two JK_Hashmap tables and   *)
(* the cursor of an incremental rehash) as DataSpace uses it.  Everything  *)
(* here runs on the main thread: the command handlers one at a time, and   *)
(* UpdateDict once per turn of the main loop.                              *)
(*                                                                         *)
(* An entity is a record of its key, its value type and its value.  A      *)
(* bucket is the sequence of entities on its chain, head first.  The body  *)
(* of UpdateDict is cut into the steps of its loops so that the cursor can *)
(* be watched while it moves; no command runs until it returns (pc).       *)
(***************************************************************************)
EXTENDS Integers, Sequences, FiniteSets

CONSTANTS
  Keys,          \* the keys clients use
  Vals,          \* the strings they store
  Uses,          \* the pairs <<key, type>> of the commands clients send
  Obj,           \* the value of an entity that holds a list, hash or zset
  Hash,          \* the djb hash of a key
  InitialSize,   \* DICT_INITIAL_SIZE
  MaxRefer,      \* REHASH_MAX_REFER
  MinRefer,      \* REHASH_MIN_REFER
  MaxDoublings,  \* the largest table has InitialSize * 2^MaxDoublings buckets
  MaxUsed        \* bound: entities in both tables together

Types  == {"STR", "LIST", "HASH", "ZSET"}
Sizes  == {InitialSize * 2^d : d \in 0 .. MaxDoublings}
Entity == [key : Keys, type : Types, val : Vals \cup {Obj}]

ASSUME DictionaryAssumption ==
  /\ InitialSize \in Nat \ {0}
  /\ MaxRefer \in Nat \ {0}
  /\ MinRefer \in Nat
  /\ MaxUsed \in Nat
  /\ MaxDoublings \in Nat
  /\ Hash \in [Keys -> Nat]
  /\ Uses \subseteq Keys \X Types
  /\ Sizes \subseteq Nat \ {0}
  /\ \E s \in Sizes : s >= 2 * MaxUsed

VARIABLES
  size,   \* m_lSize of the two tables
  used,   \* m_lUsed of the two tables
  chain,  \* m_table of the two tables: a chain per bucket
  idx,    \* m_iRehashidx, -1 when no rehash is in progress
  pc,     \* where UpdateDict stands: "serve" when it is not running
  reply   \* what the last command answered its client

vars == <<size, used, chain, idx, pc, reply>>

Buckets(t) == 0 .. size[t] - 1
NoChains(n) == [b \in 0 .. n - 1 |-> <<>>]

-----------------------------------------------------------------------------
(* JK_Hashmap: one table.                                                  *)

BucketOf(t, k) == Hash[k] % size[t]
ChainOf(t, k)  == chain[t][BucketOf(t, k)]

\* Positions of the entities on a chain that hold key k.
Holding(c, k) == {i \in DOMAIN c : c[i].key = k}

\* JK_Hashmap::IsExists, and the duplicate test of Add.
HasKey(t, k) == Holding(ChainOf(t, k), k) # {}

\* Positions a typed Get may return: key and value type both match.
Matching(t, k, type) ==
  IF used[t] = 0 THEN {}
  ELSE {i \in Holding(ChainOf(t, k), k) : ChainOf(t, k)[i].type = type}

First(I) == CHOOSE i \in I : \A j \in I : i <= j

WithoutAt(c, i) == SubSeq(c, 1, i - 1) \o SubSeq(c, i + 1, Len(c))

\* The tail of JK_Hashmap::Add: a new entity at the end of its chain.
LinkAtTail(t, k, type, v) ==
  /\ used[0] + used[1] < MaxUsed
  /\ chain' = [chain EXCEPT ![t][BucketOf(t, k)] =
                 Append(@, [key |-> k, type |-> type, val |-> v])]
  /\ used' = [used EXCEPT ![t] = @ + 1]
  /\ reply' = TRUE

\* JK_Hashmap::Add: refused when the chain holds the key, whatever its type.
HashmapAdd(t, k, type, v) ==
  IF HasKey(t, k)
  THEN reply' = FALSE /\ UNCHANGED <<chain, used>>
  ELSE LinkAtTail(t, k, type, v)

\* JK_Hashmap::Update: the first entity with the key, whatever its type.
HashmapUpdate(t, k, v) ==
  IF HasKey(t, k)
  THEN /\ chain' = [chain EXCEPT ![t][BucketOf(t, k)]
                                    [First(Holding(ChainOf(t, k), k))].val = v]
       /\ reply' = TRUE
  ELSE reply' = FALSE /\ UNCHANGED chain

\* GetParentEntity looks behind the head before Remove looks at the head.
Victim(c, k) ==
  LET behind == Holding(c, k) \ {1}
  IN  IF behind # {} THEN First(behind) ELSE 1

MutRemoveKeepsCount(t, k) ==
  IF used[t] > 0 /\ HasKey(t, k)
  THEN /\ chain' = [chain EXCEPT ![t][BucketOf(t, k)] = WithoutAt(@, Victim(@, k))]
       /\ used' = used
       /\ reply' = TRUE
  ELSE reply' = FALSE /\ UNCHANGED <<chain, used>>

\* JK_Hashmap::Remove
HashmapRemove(t, k) ==
  IF used[t] > 0 /\ HasKey(t, k)
  THEN /\ chain' = [chain EXCEPT ![t][BucketOf(t, k)] = WithoutAt(@, Victim(@, k))]
       /\ used' = [used EXCEPT ![t] = @ - 1]
       /\ reply' = TRUE
  ELSE reply' = FALSE /\ UNCHANGED <<chain, used>>

\* The entities in the order of the iterator: the used buckets from the first on,
\* each from its head.  (From the end of a chain it goes on behind the bucket
\* that the last key hashes to, which is that chain's: OnItsChain.)
Walk(t) ==
  LET from[b \in 0 .. size[t]] ==
        IF b = size[t] THEN <<>> ELSE chain[t][b] \o from[b + 1]
  IN  from[0]

MutKeysOf(t, matching, ilimit) ==
  LET Matches(e) == e.key \in matching
      found == SelectSeq(Walk(t), Matches)
  IN  [i \in 1 .. (IF Len(found) <= ilimit THEN Len(found) ELSE ilimit + 1) |->
         found[i].key]

\* JK_Hashmap::FetchKeys, for a pattern that these keys match: the first ilimit
\* of them that the iterator comes by.
KeysOf(t, matching, ilimit) ==
  LET Matches(e) == e.key \in matching
      found == SelectSeq(Walk(t), Matches)
  IN  [i \in 1 .. (IF Len(found) <= ilimit THEN Len(found) ELSE ilimit) |->
         found[i].key]

-----------------------------------------------------------------------------
(* JK_Dictionary: table 0 alone, or both tables while a rehash runs.       *)

Rehashing == idx # -1

\* GetElement: table 0 first, table 1 only during a rehash.
Found(k, type) ==
  \/ Matching(0, k, type) # {}
  \/ Rehashing /\ Matching(1, k, type) # {}

MutAddToOld(k, type, v) == HashmapAdd(0, k, type, v)

\* AddElement: during a rehash new entities go to table 1 only.
AddElement(k, type, v) == HashmapAdd(IF Rehashing THEN 1 ELSE 0, k, type, v)

\* UpdateElement and RemoveElement act on table 1 when table 0 lacks the key.
TableOf(k) == IF Rehashing /\ ~HasKey(0, k) THEN 1 ELSE 0

UpdateElement(k, v) == HashmapUpdate(TableOf(k), k, v)

MutRemoveOldOnly(k) == HashmapRemove(0, k)

RemoveElement(k) == HashmapRemove(TableOf(k), k)

\* FetchKeys: one table only, table 1 during a rehash.
FetchKeys(matching, ilimit) ==
  KeysOf(IF Rehashing THEN 1 ELSE 0, matching, ilimit)

IsExists(k) == HasKey(0, k) \/ (Rehashing /\ HasKey(1, k))

MutRealSize(n) == n + n \div 2

\* GetRealSize: the smallest table size that is not below n.
RealSize(n) == CHOOSE s \in Sizes : s >= n /\ \A r \in Sizes : r >= n => s <= r

\* IsNeedResize, in the integer divisions of the code.
IsNeedResize ==
  /\ ~Rehashing
  /\ \/ used[0] \div size[0] >= MaxRefer
     \/ /\ used[0] > 0
        /\ size[0] > InitialSize
        /\ (used[0] * 100) \div size[0] < MinRefer

-----------------------------------------------------------------------------
(* The commands, between two turns of UpdateDict.                          *)

\* DataSpace::InsertKV (SET): update a string in place, else add one.
InsertKV(k, v) ==
  /\ pc = "serve"
  /\ IF Found(k, "STR")
     THEN UpdateElement(k, v) /\ UNCHANGED used
     ELSE AddElement(k, "STR", v)
  /\ UNCHANGED <<size, idx, pc>>

\* The first LPUSH, RPUSH or ZADD of a key, and every HSET: an object is added
\* under the key.  Only HSET tries again when the object is there already.
AddObject(k, type) ==
  /\ pc = "serve"
  /\ Found(k, type) => type = "HASH"
  /\ AddElement(k, type, Obj)
  /\ UNCHANGED <<size, idx, pc>>

\* DataSpace::RemoveKV (REMOVE, and UpdateDB for a key that has expired).
RemoveKV(k) ==
  /\ pc = "serve"
  /\ RemoveElement(k)
  /\ UNCHANGED <<size, idx, pc>>

-----------------------------------------------------------------------------
(* UpdateDict, one turn: TryRehashDict, then UpdateResize until it answers *)
(* true or the turn's time is up.                                          *)

\* TryRehashDict and BeginResizeDict
BeginTurn ==
  /\ pc = "serve"
  /\ pc' = "resize"
  /\ IF IsNeedResize
     THEN LET n == RealSize(used[0] * 2)
          IN  /\ size' = [size EXCEPT ![1] = n]
              /\ chain' = [chain EXCEPT ![1] = NoChains(n)]
              /\ used' = [used EXCEPT ![1] = 0]
              /\ idx' = 0
     ELSE UNCHANGED <<size, chain, used, idx>>
  /\ UNCHANGED reply

\* UpdateResize with no rehash in progress: the turn is over.
NothingToMove ==
  /\ pc = "resize" /\ ~Rehashing
  /\ pc' = "serve"
  /\ UNCHANGED <<size, used, chain, idx, reply>>

MutSwapKeepsCursor ==
  /\ pc = "resize" /\ Rehashing /\ used[0] = 0
  /\ size' = [t \in 0 .. 1 |-> IF t = 0 THEN size[1] ELSE 0]
  /\ used' = [t \in 0 .. 1 |-> IF t = 0 THEN used[1] ELSE 0]
  /\ chain' = [t \in 0 .. 1 |-> IF t = 0 THEN chain[1] ELSE NoChains(0)]
  /\ idx' = 0
  /\ pc' = "serve"
  /\ UNCHANGED reply

\* UpdateResize once table 0 is empty: table 1 takes its place.
SwapTables ==
  /\ pc = "resize" /\ Rehashing /\ used[0] = 0
  /\ size' = [t \in 0 .. 1 |-> IF t = 0 THEN size[1] ELSE 0]
  /\ used' = [t \in 0 .. 1 |-> IF t = 0 THEN used[1] ELSE 0]
  /\ chain' = [t \in 0 .. 1 |-> IF t = 0 THEN chain[1] ELSE NoChains(0)]
  /\ idx' = -1
  /\ pc' = "serve"
  /\ UNCHANGED reply

\* Buckets of table 0 from the cursor on that still hold entities.
Unmoved == {b \in idx .. size[0] - 1 : chain[0][b] # <<>>}

\* UpdateResize skips empty buckets; with none left it reads past m_table.
SkipEmptyBuckets ==
  /\ pc = "resize" /\ Rehashing /\ used[0] > 0
  /\ IF Unmoved = {}
     THEN pc' = "overrun" /\ UNCHANGED idx
     ELSE pc' = "move" /\ idx' = First(Unmoved)
  /\ UNCHANGED <<size, used, chain, reply>>

\* A turn of UpdateResize's inner loop: the entity at the head of the bucket
\* becomes the head of its chain in table 1.  The masked index of the code is
\* the remainder, since table sizes are powers of two (MCDictionary checks it).
MutMoveToSameBucket ==
  /\ pc = "move" /\ chain[0][idx] # <<>>
  /\ LET e == Head(chain[0][idx])
         b == idx % size[1]
     IN  chain' = [chain EXCEPT ![0][idx] = Tail(@), ![1][b] = <<e>> \o @]
  /\ used' = [used EXCEPT ![0] = @ - 1, ![1] = @ + 1]
  /\ UNCHANGED <<size, idx, pc, reply>>

MutMoveDropsChain ==
  /\ pc = "move" /\ chain[0][idx] # <<>>
  /\ LET e == Head(chain[0][idx])
         b == BucketOf(1, e.key)
     IN  chain' = [chain EXCEPT ![0][idx] = Tail(@), ![1][b] = <<e>>]
  /\ used' = [used EXCEPT ![0] = @ - 1, ![1] = @ + 1]
  /\ UNCHANGED <<size, idx, pc, reply>>

MoveEntity ==
  /\ pc = "move" /\ chain[0][idx] # <<>>
  /\ LET e == Head(chain[0][idx])
         b == BucketOf(1, e.key)
     IN  chain' = [chain EXCEPT ![0][idx] = Tail(@), ![1][b] = <<e>> \o @]
  /\ used' = [used EXCEPT ![0] = @ - 1, ![1] = @ + 1]
  /\ UNCHANGED <<size, idx, pc, reply>>

\* The bucket is clear: the cursor moves on, and UpdateDict goes round again
\* unless it made its hundred steps or used up its milliseconds.
FinishBucket ==
  /\ pc = "move" /\ chain[0][idx] = <<>>
  /\ idx' = idx + 1
  /\ pc' \in {"resize", "serve"}
  /\ UNCHANGED <<size, used, chain, reply>>

UpdateDict ==
  \/ BeginTurn
  \/ NothingToMove
  \/ SwapTables
  \/ SkipEmptyBuckets
  \/ MoveEntity
  \/ FinishBucket

Init ==
  /\ size = [t \in 0 .. 1 |-> IF t = 0 THEN InitialSize ELSE 0]
  /\ used = [t \in 0 .. 1 |-> 0]
  /\ chain = [t \in 0 .. 1 |-> NoChains(size[t])]
  /\ idx = -1
  /\ pc = "serve"
  /\ reply = TRUE

Next ==
  \/ \E k \in Keys, v \in Vals : <<k, "STR">> \in Uses /\ InsertKV(k, v)
  \/ \E k \in Keys, type \in Types \ {"STR"} :
       <<k, type>> \in Uses /\ AddObject(k, type)
  \/ \E k \in Keys : RemoveKV(k)
  \/ UpdateDict

Spec == Init /\ [][Next]_vars

\* RunServer calls UpdateDB, and so UpdateDict, on every turn of the main loop.
FairSpec == Spec /\ WF_vars(UpdateDict)

-----------------------------------------------------------------------------
(* Properties *)

TypeOK ==
  /\ size \in [0 .. 1 -> Sizes \cup {0}]
  /\ used \in [0 .. 1 -> Nat]
  /\ chain \in [0 .. 1 -> {chain[0], chain[1]}]
  /\ \A t \in 0 .. 1 : chain[t] \in [Buckets(t) -> Seq(Entity)]
  /\ idx \in -1 .. size[0]
  /\ pc \in {"serve", "resize", "move", "overrun"}
  /\ reply \in BOOLEAN
  /\ size[0] > 0
  /\ Rehashing <=> size[1] > 0
  /\ pc = "move" => Rehashing /\ idx < size[0]

\* The slots of a table of n buckets: a bucket and a position on its chain.
SlotsOf(table, n) == UNION {{b} \X (DOMAIN table[b]) : b \in 0 .. n - 1}

Slots(t) == SlotsOf(chain[t], size[t])

\* m_lUsed is the number of entities on the chains of each table, through every
\* insert, remove and step of a migration.  Get and Remove give up when it is 0,
\* and UpdateResize takes 0 for "everything has moved", so an error loses keys.
UsedCounts == \A t \in 0 .. 1 : used[t] = Cardinality(Slots(t))

\* During a rehash nothing is left, or put, behind the cursor in table 0:
\* UpdateResize never looks there again and the swap frees that table.
NothingBehindCursor ==
  Rehashing => \A b \in 0 .. idx - 1 : b \in Buckets(0) => chain[0][b] = <<>>

\* The loop that skips empty buckets stops inside m_table and the assertion
\* above it (m_hashtable[0].GetSize() > m_iRehashidx) holds: while m_lUsed says
\* there is something to move, some bucket from the cursor on holds it.
CursorInBounds == pc # "overrun"

\* Every entity is on the chain its hash selects in its table, so the lookups,
\* which search that one chain, find it, before, during and after a rehash.
OnItsChain ==
  \A t \in 0 .. 1 : \A b \in Buckets(t) : \A i \in DOMAIN chain[t][b] :
    BucketOf(t, chain[t][b][i].key) = b

\* What the tables hold, together.
Contents ==
  UNION {UNION {{chain[t][b][i] : i \in DOMAIN chain[t][b]} : b \in Buckets(t)}
           : t \in 0 .. 1}

\* A turn of UpdateDict neither loses, alters nor duplicates an entity.
MigrationKeepsEntities ==
  [][pc' # "serve" \/ pc # "serve" =>
       Contents' = Contents /\ used'[0] + used'[1] = used[0] + used[1]]_vars

\* Where a key is held: a table and a position on the key's chain in it.
Places(k) ==
  {p \in {0, 1} \X (1 .. MaxUsed) :
     size[p[1]] > 0 /\ p[2] \in Holding(ChainOf(p[1], k), k)}

\* A key is held once, whichever tables are in use: JK_Hashmap::Add refuses a
\* key it holds.
UniqueKeys == \A k \in Keys : Cardinality(Places(k)) <= 1

\* KEYS * lists every key that EXISTS would confirm, when there are no more than
\* it may list.
KeysListsAll ==
  LET listed == FetchKeys(Keys, Cardinality(Keys))
  IN  pc = "serve" => {listed[i] : i \in DOMAIN listed} = {k \in Keys : IsExists(k)}

\* A rehash that has begun ends, whatever commands arrive meanwhile.
RehashEnds == Rehashing ~> ~Rehashing
=============================================================================
