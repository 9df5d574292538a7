------------------------------ MODULE SkipList ------------------------------
(***************************************************************************)
(* JK_SkipList, as functions on its rows.  A row is the sequence of keys   *)
(* on the nodes between its head and its tail; a node of one row stands on *)
(* the node of the row below with the same key.  The head's key is 0, and  *)
(* it can hold a value.                                                    *)
(***************************************************************************)
EXTENDS Integers, SequencesExt, FiniteSetsExt

CONSTANTS
  MaxLevel,  \* m_iMaxLevel, the number of rows: 16
  NoValue    \* NULL

\* keys are those that values are followed for.
EmptySkipList(keys) ==
  [rows |-> [r \in 1 .. MaxLevel |-> <<>>], size |-> 0,
   value |-> [k \in keys |-> NoValue]]

\* The key of the node at place i of a row; place 0 is the head's.
KeyAt(row, i) == IF i = 0 THEN 0 ELSE row[i]

\* The place of the node with a key, the head for none.
PlaceOf(row, key) ==
  IF \E i \in DOMAIN row : row[i] = key THEN CHOOSE i \in DOMAIN row : row[i] = key ELSE 0

\* To the right as long as the next key is not above the key looked for.
Rightward(row, from, key) ==
  Max({i \in from .. Len(row) : \A j \in from + 1 .. i : row[j] <= key})

MutFindNode(l, key) == Rightward(l.rows[1], 0, key - 1)

\* FindNode: from the head of the top row, right and down.  The place in the
\* bottom row.
FindNode(l, key) ==
  LET place[r \in 1 .. MaxLevel] ==
        LET from == IF r = MaxLevel THEN 0
                    ELSE PlaceOf(l.rows[r], KeyAt(l.rows[r + 1], place[r + 1]))
        IN  Rightward(l.rows[r], from, key)
  IN  place[1]

\* To the left from a node of row r, to one that row r + 1 has a node on.
ClimbFrom(l, r, key) ==
  LET row   == l.rows[r]
      above == {PlaceOf(l.rows[r + 1], row[i]) : i \in 1 .. PlaceOf(row, key)}
  IN  Max(above \cup {0})

\* InsertNode, with as many promotions as randomLevel says.  The MaxLevel-th would
\* climb from the head of the top row, through NULL; the code allows it.
InsertNode(l, key, value, promotions) ==
  LET at == FindNode(l, key)
      up[r \in 1 .. promotions + 1] ==
        IF r = 1 THEN [l EXCEPT !.rows[1] = InsertAt(@, at + 1, key)]
        ELSE LET m == up[r - 1]
             IN  [m EXCEPT !.rows[r] = InsertAt(@, ClimbFrom(m, r - 1, key) + 1, key)]
  IN  IF KeyAt(l.rows[1], at) = key
      THEN [l EXCEPT !.value[key] = value]
      ELSE [up[promotions + 1] EXCEPT !.value[key] = value, !.size = @ + 1]

\* ZSetRange: the bottom row, as many as the list counts.
Listed(l) ==
  [i \in 1 .. Min({Len(l.rows[1]), l.size}) |-> <<l.rows[1][i], l.value[l.rows[1][i]]>>]

\* The skip lists of some keys and values, by their types only.
SkipLists(keys, values) ==
  [rows : [1 .. MaxLevel -> Seq(keys)], size : Nat,
   value : [keys -> values \cup {NoValue}]]

\* Every row is in order and has its nodes on nodes of the row below, and every
\* key but the head's that has a value is found, and listed.
IsSkipList(l) ==
  /\ \A r \in 1 .. MaxLevel : \A i \in 2 .. Len(l.rows[r]) : l.rows[r][i - 1] < l.rows[r][i]
  /\ \A r \in 2 .. MaxLevel : Range(l.rows[r]) \subseteq Range(l.rows[r - 1])
  /\ \A k \in DOMAIN l.value \ {0} : l.value[k] # NoValue =>
       /\ KeyAt(l.rows[1], FindNode(l, k)) = k
       /\ <<k, l.value[k]>> \in Range(Listed(l))
=============================================================================
