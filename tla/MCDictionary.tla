---------------------------- MODULE MCDictionary ----------------------------
(***************************************************************************)
(* Small instances of Dictionary for TLC, and what only TLC checks: that   *)
(* the masked index of the migration is the remainder the other operations *)
(* use, and what KEYS lists for a pattern.                                 *)
(***************************************************************************)
EXTENDS DictionaryMap, KeyPattern, Bitwise, SequencesExt

CONSTANTS k1, k2, k3, k4

\* Hashes that collide in a table of 2 and part in a table of 4 or 8.
MCHash ==
  LET djb == (k1 :> 0) @@ (k2 :> 2) @@ (k3 :> 4) @@ (k4 :> 5)
  IN  [k \in Keys |-> djb[k]]

\* Commands that keep each key to one type, and commands that do not.
OneTypePerKey == {<<k1, "STR">>, <<k2, "STR">>, <<k3, "STR">>, <<k4, "LIST">>}
MixedTypes == OneTypePerKey \cup {<<k2, "LIST">>, <<k4, "HASH">>}

\* UpdateResize computes a chain with HashFunction(key) & (size - 1) where Add
\* and Get compute HashFunction(key) % size: they agree in every table in use.
MaskIsRemainder ==
  \A t \in 0 .. 1 : size[t] > 0 =>
    \A k \in Keys : Hash[k] & (size[t] - 1) = BucketOf(t, k)

\* The names of the keys, and the patterns of up to four signs that KEYS is asked
\* for, with brackets that list, exclude or span characters.
Name(k) ==
  CASE k = k1 -> <<"a">> [] k = k2 -> <<"a", "b">>
    [] k = k3 -> <<"b", "*", "a">> [] k = k4 -> <<"a", "c", "b", "c">>

AnyCharacter == ToSet(Characters)
Signs ==
  {Sign(<<"*">>, AnyCharacter, TRUE), Sign(<<"?">>, AnyCharacter, FALSE), Sign(<<"a">>, {"a"}, FALSE),
   Sign(<<"b">>, {"b"}, FALSE), Sign(<<"\\", "*">>, {"*"}, FALSE),
   Sign(<<"[", "^", "a", "]">>, AnyCharacter \ {"a"}, FALSE),
   Sign(<<"[", "c", "-", "b", "\\", "*", "]">>, {"b", "c", "*"}, FALSE)}

Spelling(signs) == FlattenSeq([i \in DOMAIN signs |-> signs[i].spelt])

\* For every pattern, the keys that match it in the code and by its meaning.
Matched ==
  {<<{k \in Keys : StrMatch(Spelling(signs), Name(k))}, {k \in Keys : Glob(signs, Name(k))}>>
     : signs \in SeqOf(Signs, 4) \ {<<>>}}

\* While no rehash is in progress KEYS lists, for every pattern, keys that EXISTS
\* would confirm and whose names are of that pattern, no key twice, and all of
\* them unless there are more than the limit (100 at ClientAgent.cpp:166), when it
\* lists as many as the limit.  The code follows a star by calling itself, and
\* has to see stars off that stand for nothing; its iterator has to come by
\* every chain, and stop.
KeysListsMatching ==
  pc = "serve" /\ ~Rehashing =>
    \A m \in Matched, ilimit \in 2 .. 4 :
      LET listed == FetchKeys(m[1], ilimit)
          there == {k \in m[2] : IsExists(k)}
      IN  /\ ToSet(listed) \subseteq there
          /\ Cardinality(ToSet(listed)) = Len(listed)
          /\ Len(listed) = Min({ilimit, Cardinality(there)})
=============================================================================
