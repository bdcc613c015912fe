---------------------------- MODULE MCStateTriggers ----------------------------
(***************************************************************************)
(* State triggers of two permanents of two or three players.               *)
(***************************************************************************)
EXTENDS StateTriggers, TLC

Interchangeable == Permutations(Player) \union Permutations(Source)
===============================================================================
