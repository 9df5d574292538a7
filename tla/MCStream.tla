------------------------------ MODULE MCStream ------------------------------
(***************************************************************************)
(* Three packets of three or four cells, between servers through rings of  *)
(* five and four, and to and from a client with pools of six.              *)
(***************************************************************************)
EXTENDS Stream

MCEnds == {<<"server", "server">>, <<"client", "server">>, <<"server", "client">>}
=============================================================================
