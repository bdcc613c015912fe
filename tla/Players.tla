------------------------------ MODULE Players ------------------------------
(***************************************************************************)
(* The players of a game, where their seats do not matter: the components  *)
(* that go by seats extend TurnOrder instead.                              *)
(***************************************************************************)
CONSTANT Player
=============================================================================
