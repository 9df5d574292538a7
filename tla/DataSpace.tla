----------------------------- MODULE DataSpace -----------------------------
(***************************************************************************)
(* The commands of DataSpace on keys of every type, the timers of EXPIRE,  *)
(* and the log: every command carried out puts a line on the append queue, *)
(* and Appender::HandleCmdLine carries out such lines when a server starts *)
(* or a slave receives them.                                               *)
(*                                                                         *)
(* A value is the sequence of its words: what stands between spaces.  Keys *)
(* and fields are single words.                                            *)
(*                                                                         *)
(* The key space is a function from keys to values, as it is while no      *)
(* rehash runs (Dictionary has the tables).  Instead of the lines, shadow  *)
(* is kept: what carrying out the lines so far, from nothing, has built.   *)
(* Lists and sorted sets are there with their nodes (DList, SkipList).     *)
(***************************************************************************)
EXTENDS Integers, Sequences, FiniteSets, PriorityQueue

CONSTANTS
  Keys,
  Vals,      \* sequences of words
  Long,      \* the values that do not fit into a line of the log (MAX_CMD_LEN)
  EndOfLine, \* the word "\n", which ends every line
  Mixed,     \* the keys that commands of all types are used on, not strings only
  Fields,    \* the keys within a map (HSET)
  Scores,    \* of ZADD; 0 is the key of the head node of a skip list
  Seconds,   \* of EXPIRE
  None,      \* no value
  Dangling,  \* an entity whose key and value have been freed
  Nodes,     \* bound: the memory for the nodes of a list, numbered
  Null, Junk, \* pointers of such nodes: NULL, and what was never set
  MaxLevel,  \* of a skip list: 16
  MaxTime    \* bound: the seconds the clock is followed for

\* How a value that a line was written with comes back from it.  strtok takes the
\* next word for it: the end of the line when it has none, and never a second one.
ReadBack(v) == IF v = <<>> THEN <<EndOfLine>> ELSE <<Head(v)>>

\* What memory may hold: what clients sent, and what was read back.
Stored == Vals \cup {ReadBack(v) : v \in Vals}

ASSUME DataSpaceAssumption ==
  /\ Mixed \subseteq Keys
  /\ Long \subseteq Vals
  /\ Scores \subseteq Nat /\ Seconds \subseteq Nat
  /\ Nodes \subseteq Nat /\ {Null, Junk} \cap Nodes = {} /\ Null # Junk
  /\ MaxLevel \in Nat \ {0} /\ MaxTime \in Nat
  /\ {None, Dangling, Junk} \cap Stored = {} /\ None # Dangling
  /\ NoTimer.key \notin Keys /\ NoTimer.time = 0

List == INSTANCE DList

ZSet == INSTANCE SkipList WITH NoValue <- None

VARIABLES
  store,    \* m_normalDict
  expires,  \* m_expireQueue
  now,      \* time(NULL)
  shadow    \* the key space that carrying out all the lines builds

vars == <<store, expires, now, shadow>>

-----------------------------------------------------------------------------
(* Values.  A value of one type leaves the parts of the others empty.      *)

Absent == [type |-> "NONE", str |-> None, list |-> List!EmptyList,
           fields |-> [f \in Fields |-> None], scores |-> ZSet!EmptySkipList(Scores)]

New(type) == [Absent EXCEPT !.type = type]

\* What a command may do: the key space it leaves and the lines it logs.
Done(s, log) == [store |-> s, log |-> log]
Refused(s)   == [store |-> s, log |-> <<>>]

\* Objects are found by key and type; AddElement refuses a key that is in use.
IsA(s, k, type) == s[k].type = type
IsFree(s, k) == IsA(s, k, "NONE")

\* The value a push, HSET or ZADD works on: the one there, or a new one.
ValueFor(s, k, type) == IF IsFree(s, k) THEN New(type) ELSE s[k]

-----------------------------------------------------------------------------
(* The commands that change the key space, as functions of it.             *)

\* UpdateKV: the value of the key's entity, whatever its type.
UpdateKV(s, k, v) ==
  IF IsFree(s, k) THEN Refused(s)
  ELSE Done([s EXCEPT ![k].str = v], <<[cmd |-> "UPD", key |-> k, val |-> v]>>)

InsertKV(s, k, v) ==
  IF IsA(s, k, "STR") THEN UpdateKV(s, k, v)
  ELSE IF IsFree(s, k)
  THEN Done([s EXCEPT ![k] = [New("STR") EXCEPT !.str = v]],
            <<[cmd |-> "ADD", key |-> k, val |-> v]>>)
  ELSE Refused(s)

RemoveKV(s, k) ==
  IF IsFree(s, k) THEN Refused(s)
  ELSE Done([s EXCEPT ![k] = Absent], <<[cmd |-> "DEL", key |-> k, val |-> None]>>)

MutListPushLeft(s, k, v) ==
  IF ~IsA(s, k, "LIST") /\ ~IsFree(s, k) THEN Refused(s)
  ELSE Done([s EXCEPT ![k] = [ValueFor(s, k, "LIST") EXCEPT !.list = List!LPush(@, v)]],
            <<[cmd |-> "RPUSH", key |-> k, val |-> v]>>)

ListPushLeft(s, k, v) ==
  IF ~IsA(s, k, "LIST") /\ ~IsFree(s, k) THEN Refused(s)
  ELSE Done([s EXCEPT ![k] = [ValueFor(s, k, "LIST") EXCEPT !.list = List!LPush(@, v)]],
            <<[cmd |-> "LPUSH", key |-> k, val |-> v]>>)

ListPushRight(s, k, v) ==
  IF ~IsA(s, k, "LIST") /\ ~IsFree(s, k) THEN Refused(s)
  ELSE Done([s EXCEPT ![k] = [ValueFor(s, k, "LIST") EXCEPT !.list = List!RPush(@, v)]],
            <<[cmd |-> "RPUSH", key |-> k, val |-> v]>>)

\* A list that pops have emptied stays under its key.
ListPopLeft(s, k) ==
  IF ~IsA(s, k, "LIST") \/ s[k].list.count = 0 THEN Refused(s)
  ELSE Done([s EXCEPT ![k].list = List!LPop(@)], <<[cmd |-> "LPOP", key |-> k, val |-> None]>>)

ListPopRight(s, k) ==
  IF ~IsA(s, k, "LIST") \/ s[k].list.count = 0 THEN Refused(s)
  ELSE Done([s EXCEPT ![k].list = List!RPop(@)],
            <<[cmd |-> "RPOP", key |-> k, val |-> None]>>)

\* HashSet: the field goes into the map first, and AddElement then refuses the
\* map unless it is new: the field is freed but stays linked.
HashSet(s, k, f, v) ==
  IF IsFree(s, k)
  THEN Done([s EXCEPT ![k] = [New("HASH") EXCEPT !.fields[f] = v]],
            <<[cmd |-> "HSET", key |-> k, field |-> f, val |-> v]>>)
  ELSE IF IsA(s, k, "HASH") /\ s[k].fields[f] = None
  THEN Refused([s EXCEPT ![k].fields[f] = Dangling])
  ELSE Refused(s)

\* ZSetAdd; up is how often the skip list promotes the node, if it makes one.  A
\* replay draws anew, but no client can tell the rows apart: it gets the same here.
ZSetAdd(s, k, n, v, up) ==
  IF ~IsA(s, k, "ZSET") /\ ~IsFree(s, k) THEN Refused(s)
  ELSE Done([s EXCEPT ![k] = [ValueFor(s, k, "ZSET") EXCEPT
                                 !.scores = ZSet!InsertNode(@, n, v, up)]],
            <<[cmd |-> "ZADD", key |-> k, score |-> n, val |-> v, up |-> up]>>)

-----------------------------------------------------------------------------
(* The commands that only read: what they reply.                           *)

\* The one command a server replies to before it is ready.
Get(s, k) == IF IsA(s, k, "STR") THEN s[k].str ELSE None

Exists(s, k) == ~IsFree(s, k)

\* A key that holds no list counts as an empty one.
LLen(s, k) == IF IsA(s, k, "LIST") THEN s[k].list.count ELSE 0

HGet(s, k, f) == IF IsA(s, k, "HASH") THEN s[k].fields[f] ELSE None

\* The whole set, whatever range is asked for.
ZRange(s, k) == IF IsA(s, k, "ZSET") THEN ZSet!Listed(s[k].scores) ELSE <<>>

-----------------------------------------------------------------------------
(* The lines of the log.                                                   *)

\* HandleCmdLine, which splits the line into words and dispatches on the first.
HandleCmdLine(s, line) ==
  LET val == ReadBack(line.val)
  IN  CASE line.cmd = "ADD"   -> InsertKV(s, line.key, val)
        [] line.cmd = "UPD"   -> UpdateKV(s, line.key, val)
        [] line.cmd = "DEL"   -> RemoveKV(s, line.key)
        [] line.cmd = "LPUSH" -> ListPushLeft(s, line.key, val)
        [] line.cmd = "RPUSH" -> ListPushRight(s, line.key, val)
        [] line.cmd = "LPOP"  -> ListPopLeft(s, line.key)
        [] line.cmd = "RPOP"  -> ListPopRight(s, line.key)
        [] line.cmd = "HSET"  -> HashSet(s, line.key, line.field, val)
        [] line.cmd = "ZADD"  -> ZSetAdd(s, line.key, line.score, val, line.up)

\* What carrying out the lines of a log makes of a key space.
Replay(s, log) ==
  LET After[i \in 0 .. Len(log)] ==
        IF i = 0 THEN s ELSE HandleCmdLine(After[i - 1], log[i]).store
  IN  After[Len(log)]

-----------------------------------------------------------------------------
(* The main thread: a client's command, or the turn of UpdateDB.           *)

\* The server ends, its append thread having written every line, and starts
\* again: LoadAppendFile carries the lines out.  The timers are gone.
Restart ==
  /\ store' = shadow
  /\ expires' = EmptyHeap
  /\ UNCHANGED <<now, shadow>>

\* A command that was carried out is logged.  When its line does not fit, sprintf_s
\* ends the server.
Command(result) ==
  IF \E i \in DOMAIN result.log : result.log[i].val \in Long
  THEN Restart
  ELSE /\ store' = result.store
       /\ shadow' = Replay(shadow, result.log)
       /\ UNCHANGED <<expires, now>>

Set(k, v) == Command(InsertKV(store, k, v))

Remove(k) == Command(RemoveKV(store, k))

\* The list of a refused LPUSH is destroyed, which follows a pointer that was never
\* set: it goes well when the memory held NULL, and otherwise the server ends there
\* (Restart).
LPush(k, v) ==
  /\ store[k].list.used # Nodes
  /\ Command(ListPushLeft(store, k, v))

RPush(k, v) ==
  /\ store[k].list.used # Nodes
  /\ Command(ListPushRight(store, k, v))

LPop(k) == Command(ListPopLeft(store, k))

RPop(k) == Command(ListPopRight(store, k))

HSet(k, f, v) == Command(HashSet(store, k, f, v))

ZAdd(k, n, v) == \E up \in 0 .. MaxLevel - 1 : Command(ZSetAdd(store, k, n, v, up))

\* Strings only.
ExpireKey(k, time) ==
  IF IsA(store, k, "STR") THEN Insert(expires, [key |-> k, time |-> time]) ELSE expires

\* EXPIRE: nothing is logged, and nothing tells the client when the queue was full.
Expire(k, seconds) ==
  /\ now + seconds <= MaxTime
  /\ expires' = ExpireKey(k, now + seconds)
  /\ UNCHANGED <<store, now, shadow>>

\* UpdateDB: every timer that is due goes, with the key it was set for and
\* whatever that key holds by now.  The order the keys go in makes no odds.
UpdateDB ==
  LET popped == PopDue(expires, now)
      gone   == {k \in popped.keys : ~IsFree(store, k)}
  IN  /\ expires' = popped.heap
      /\ store' = [k \in Keys |-> IF k \in gone THEN Absent ELSE store[k]]
      /\ shadow' = [k \in Keys |->
                      IF k \in gone
                      THEN RemoveKV(shadow, k).store[k] ELSE shadow[k]]
      /\ UNCHANGED now

\* The clock.
Tick ==
  /\ now < MaxTime
  /\ now' = now + 1
  /\ UNCHANGED <<store, expires, shadow>>

Init ==
  /\ store = [k \in Keys |-> Absent]
  /\ expires = EmptyHeap
  /\ now = 0
  /\ shadow = store

Next ==
  \/ \E k \in Keys : Remove(k) \/ \E v \in Vals : Set(k, v)
  \/ \E k \in Mixed : LPop(k) \/ RPop(k)
  \/ \E k \in Mixed, v \in Vals : LPush(k, v) \/ RPush(k, v)
  \/ \E k \in Mixed, f \in Fields, v \in Vals : HSet(k, f, v)
  \/ \E k \in Mixed, n \in Scores, v \in Vals : ZAdd(k, n, v)
  \/ \E k \in Keys, s \in Seconds : Expire(k, s)
  \/ UpdateDB \/ Tick \/ Restart

Spec == Init /\ [][Next]_vars

-----------------------------------------------------------------------------
(* Properties *)

Value ==
  [type : {"NONE", "STR", "LIST", "HASH", "ZSET"}, str : Stored \cup {None},
   list : List!Lists(Stored),
   fields : [Fields -> Stored \cup {None, Dangling}],
   scores : ZSet!SkipLists(Scores, Stored)]

Timer == [key : Keys, time : 0 .. MaxTime]

TypeOK ==
  /\ \A k \in Keys : store[k] \in Value /\ shadow[k] \in Value
  /\ expires.size \in 0 .. Capacity
  /\ expires.elements \in [0 .. Capacity -> Timer \cup {NoTimer}]
  /\ TimersOf(expires) \subseteq Timer
  /\ now \in 0 .. MaxTime

\* All that replies show of a key space, without the fields that were freed, whose
\* memory may read as anything.
Visible(s) ==
  [k \in Keys |->
     [type |-> s[k].type, get |-> Get(s, k), exists |-> Exists(s, k),
      llen |-> LLen(s, k), pops |-> List!Elements(s[k].list), zrange |-> ZRange(s, k),
      hget |-> [f \in Fields |-> IF HGet(s, k, f) = Dangling THEN None ELSE HGet(s, k, f)]]]

\* A key space with every value as it comes back from a line: a value of one word,
\* which is all that molyclient sends, as it was.
Cut(x) == IF x \in Vals THEN ReadBack(x) ELSE x

AsRead(s) ==
  LET Each(f) == [i \in DOMAIN f |-> Cut(f[i])]
  IN  [k \in Keys |-> [s[k] EXCEPT !.str = Cut(@), !.list.data = Each(@),
                                   !.fields = Each(@), !.scores.value = Each(@)]]

\* Carrying out the lines of the log from nothing rebuilds what clients see,
\* after any commands on keys of any type, but for the values: of each the first
\* word comes back, and the end of the line of one that was empty.  What was
\* carried out is logged, as the command that has the same effect again, what was
\* refused is not, and a value too long for its line ends the server before it
\* leaves a line that is cut off.
ReplayRebuilds == Visible(shadow) = Visible(AsRead(store))

\* What clients see, as the values they sent: the elements that pops would return,
\* the fields that are there, and the scores that ZRANGE lists.
Seen(s, k) ==
  [type |-> s[k].type, str |-> Get(s, k), list |-> List!Elements(s[k].list),
   fields |-> [f \in Fields |-> IF HGet(s, k, f) = Dangling THEN None ELSE HGet(s, k, f)],
   ranks |-> LET listed == ZRange(s, k) IN {listed[i] : i \in DOMAIN listed}]

Promise == INSTANCE KeySpace WITH Vals <- Vals \ Long, Kept <- Cut,
                                  space <- [k \in Keys |-> Seen(store, k)]


\* Lists and sorted sets stay whole through any pushes, pops and ZADDs on new,
\* emptied and full ones: from either end of a list the pointers that count lead
\* through all its nodes, though pops leave others dangling; and the rows of a
\* sorted set stay in order, so that FindNode finds, and ZRANGE lists, each score
\* but 0, whose value the head swallows.
ObjectsAreSound ==
  \A k \in Mixed : List!IsList(store[k].list) /\ ZSet!IsSkipList(store[k].scores)

\* A turn of UpdateDB leaves no timer that is due; and but for a restart a timer
\* goes only when it is due, and takes its key with it.
TimersFireOnTime ==
  [][/\ UpdateDB => \A t \in TimersOf(expires') : t.time > now
     /\ \A t \in TimersOf(expires) \ TimersOf(expires') :
          Restart \/ (t.time <= now /\ IsFree(store', t.key))]_vars
=============================================================================
