------------------------------- MODULE Channel -------------------------------
(***************************************************************************)
(* What a channel from one thread or program to another promises: what was *)
(* put in comes out, once, in order and unaltered, until the channel is    *)
(* broken; then it promises nothing any more.                              *)
(***************************************************************************)
EXTENDS Naturals, Sequences

VARIABLES
  put,    \* what was put in, in order
  taken,  \* what came out
  broken

Init == put = <<>> /\ taken = <<>> /\ broken = FALSE

Put ==
  /\ ~broken
  /\ put' # <<>> /\ put' = Append(put, put'[Len(put')])
  /\ UNCHANGED <<taken, broken>>

Take ==
  /\ ~broken
  /\ Len(taken) < Len(put)
  /\ taken' = Append(taken, put[Len(taken) + 1])
  /\ UNCHANGED <<put, broken>>

Break == broken'

Next == Put \/ Take \/ Break

Spec == Init /\ [][Next]_<<put, taken, broken>>
=============================================================================
