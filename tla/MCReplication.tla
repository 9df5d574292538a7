--------------------------- MODULE MCReplication ---------------------------
(***************************************************************************)
(* A master and a slave for TLC.                                           *)
(***************************************************************************)
EXTENDS Replication, TLC

CONSTANTS master, slave, a1, a2

\* Commands and crashes of each server.
MCMaxIssued == (master :> 2) @@ (slave :> 1)
MCMaxCrashes == (master :> 1) @@ (slave :> 1)

\* One address is as good as another.
AgentSymmetry == Permutations({a1, a2})
=============================================================================
