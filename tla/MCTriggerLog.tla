---------------------------- MODULE MCTriggerLog ----------------------------
(***************************************************************************)
(* The event log of a game of three players, or of two.                    *)
(***************************************************************************)
EXTENDS TriggerLog, TLC

Interchangeable == Permutations(Player)
=============================================================================
