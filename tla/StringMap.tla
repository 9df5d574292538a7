----------------------------- MODULE StringMap -----------------------------
(***************************************************************************)
(* What the SET, GET and REMOVE commands promise their callers: one value  *)
(* per key, replaced by SET, gone after REMOVE, and a REMOVE that answers  *)
(* whether the key was there.  Dictionary implements it (see               *)
(* DictionaryMap!MapSpec) however its two tables are being rehashed.       *)
(***************************************************************************)
CONSTANTS Keys, Vals, None

VARIABLES
  store,  \* the value of each key, None when it has none
  reply   \* whether the last command found what it needed

Init == /\ store = [k \in Keys |-> None]
        /\ reply = TRUE

Set(k, v) == /\ store' = [store EXCEPT ![k] = v]
             /\ reply' = TRUE

Remove(k) == /\ store' = [store EXCEPT ![k] = None]
             /\ reply' = (store[k] # None)

Next == \E k \in Keys : Remove(k) \/ \E v \in Vals : Set(k, v)

Spec == Init /\ [][Next]_<<store, reply>>
=============================================================================
