------------------------------- MODULE MCCgi ---------------------------------
(***************************************************************************)
(* For model checking Cgi: two clients and a pid for each, so that a pid   *)
(* that was never set may be that of the other client's script.            *)
(***************************************************************************)
EXTENDS CgiProps
=============================================================================
