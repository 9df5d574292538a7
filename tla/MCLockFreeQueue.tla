-------------------------- MODULE MCLockFreeQueue --------------------------
(***************************************************************************)
(* The append queue of the server for TLC: the main thread enqueues, the   *)
(* append thread dequeues, and three nodes besides the sentinel are        *)
(* allocated again and again.                                              *)
(***************************************************************************)
EXTENDS LockFreeQueue, TLC

CONSTANTS main, append, head, n1, n2, n3

\* The memory of one node is as good as that of another.
NodeSymmetry == Permutations({n1, n2, n3})
=============================================================================
