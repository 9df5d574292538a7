------------------------------ MODULE KeySpace ------------------------------
(***************************************************************************)
(* What the commands promise: under every key nothing, a string, a         *)
(* sequence, a map of fields or a set of scores with a value each.  A      *)
(* command changes one key, keys expire, and when the server starts again  *)
(* every value is there as far as a line of the log holds it.              *)
(***************************************************************************)
EXTENDS Integers, Sequences

CONSTANTS
  Keys, Vals, Fields, Scores,
  None,    \* no value
  Kept(_)  \* what a line of the log holds of a value

VARIABLE space  \* what clients see under each key

Nothing == [type |-> "NONE", str |-> None, list |-> <<>>,
            fields |-> [f \in Fields |-> None], ranks |-> {}]

\* What a command works on: x, or a new object of its type; a key in use for
\* another type is left alone.
Objects(x, type) ==
  IF x = Nothing THEN {[Nothing EXCEPT !.type = type]}
  ELSE IF x.type = type THEN {x} ELSE {}

\* Whether a command may make y of what is under its key, x.
Set(x, y) == \E o \in Objects(x, "STR"), v \in Vals : y = [o EXCEPT !.str = v]

Push(x, y) ==
  \E o \in Objects(x, "LIST"), v \in Vals :
    \/ y = [o EXCEPT !.list = <<v>> \o @]
    \/ y = [o EXCEPT !.list = Append(@, v)]

Pop(x, y) ==
  /\ x.list # <<>>
  /\ \/ y = [x EXCEPT !.list = Tail(@)]
     \/ y = [x EXCEPT !.list = SubSeq(@, 1, Len(@) - 1)]

\* A map gets the field it is made with, and no other.
HSet(x, y) ==
  /\ x = Nothing
  /\ \E o \in Objects(x, "HASH"), f \in Fields, v \in Vals : y = [o EXCEPT !.fields[f] = v]

\* A value of score 0 is not listed.
ZAdd(x, y) ==
  \E o \in Objects(x, "ZSET"), n \in Scores, v \in Vals :
    y = [o EXCEPT !.ranks = IF n = 0 THEN @ ELSE {p \in @ : p[1] # n} \cup {<<n, v>>}]

Command(k) ==
  LET x == space[k]
      y == space'[k]
  IN  /\ \A other \in Keys \ {k} : space'[other] = space[other]
      /\ Set(x, y) \/ Push(x, y) \/ Pop(x, y) \/ HSet(x, y) \/ ZAdd(x, y)

\* Keys are removed: one by a client, all that are due in a turn.
Remove == \A k \in Keys : space'[k] \in {space[k], Nothing}

\* The server has started again.
Reload ==
  \A k \in Keys :
    space'[k] = [space[k] EXCEPT
                   !.str = Kept(@),
                   !.list = [i \in DOMAIN @ |-> Kept(@[i])],
                   !.fields = [f \in Fields |-> Kept(@[f])],
                   !.ranks = {<<p[1], Kept(p[2])>> : p \in @}]

Init == space = [k \in Keys |-> Nothing]

Next == Remove \/ (\E k \in Keys : Command(k)) \/ Reload

Spec == Init /\ [][Next]_space
=============================================================================
