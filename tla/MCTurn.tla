------------------------------- MODULE MCTurn --------------------------------
(***************************************************************************)
(* Turn on small tables.                                                   *)
(***************************************************************************)
EXTENDS Turn
===============================================================================
