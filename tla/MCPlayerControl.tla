--------------------------- MODULE MCPlayerControl ---------------------------
(***************************************************************************)
(* PlayerControl at a table of three, where control can go round in        *)
(* circles of two and of three players.                                    *)
(***************************************************************************)
EXTENDS PlayerControl
===============================================================================
