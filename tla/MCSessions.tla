----------------------------- MODULE MCSessions -----------------------------
(***************************************************************************)
(* A slave for TLC: two sessions for clients, room for one connection, and *)
(* the session that dials the master.                                      *)
(***************************************************************************)
EXTENDS Sessions, TLC

\* One session of the pool is as good as another.
SessionSymmetry == Permutations(AcceptSess)
=============================================================================
