---------------------------- MODULE MCDataSpace ----------------------------
(***************************************************************************)
(* Two keys for TLC, with lists of up to two elements, maps of two fields, *)
(* sorted sets of two scores and 0 in two rows, and a heap of two timers.  *)
(* A value has one word, two, of which the first is read back, or is too   *)
(* long for a line.                                                        *)
(***************************************************************************)
EXTENDS DataSpace

MCOneWord == <<"v">>
MCTwoWords == <<"w", "x">>
MCTooLong == <<"w", "x", "x">>

MCVals == {MCOneWord, MCTwoWords, MCTooLong}
MCLong == {MCTooLong}

MCNoTimer == [key |-> "", time |-> 0]
=============================================================================
