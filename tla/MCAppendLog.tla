---------------------------- MODULE MCAppendLog ----------------------------
(***************************************************************************)
(* The append file of one server for TLC.                                  *)
(***************************************************************************)
EXTENDS AppendLog, TLC

CONSTANT server

\* Commands and crashes of the server.
MCMaxIssued == server :> 5
MCMaxCrashes == server :> 2
=============================================================================
