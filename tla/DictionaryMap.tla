---------------------------- MODULE DictionaryMap ----------------------------
(***************************************************************************)
(* The key space as one map: what a client that uses each key with one     *)
(* type sees of the two tables, and that it is what StringMap promises.    *)
(***************************************************************************)
EXTENDS Dictionary

CONSTANT None  \* what a lookup of a key that is not there returns

\* The value GetElement returns for the type the key is used with, or None.
Lookup(k) ==
  LET In(t) == UNION {Matching(t, k, type) : type \in Types}
      At(t) == ChainOf(t, k)[First(In(t))].val
  IN  IF In(0) # {} THEN At(0)
      ELSE IF Rehashing /\ In(1) # {} THEN At(1)
      ELSE None

\* Clients keep each key to one type, and use no HSET, which adds its object
\* again before it looks whether there is one.
Settled ==
  /\ \A use, other \in Uses : use[1] = other[1] => use[2] = other[2]
  /\ \A use \in Uses : use[2] # "HASH"
  /\ None \notin Vals \cup {Obj}

Map == INSTANCE StringMap WITH Vals <- Vals \cup {Obj},
                               store <- [k \in Keys |-> Lookup(k)]

\* As long as clients keep each key to one type, the two tables behave as one
\* map, at every step of an incremental rehash.
MapSpec == Map!Spec
=============================================================================
