------------------------ MODULE MCStateBasedActions ------------------------
(***************************************************************************)
(* Two legends of one name, one of them a commander, a jailer and a thief, *)
(* owned by three players.                                                 *)
(***************************************************************************)
EXTENDS StateBasedActions

Owners == [lord |-> "ann", twin |-> "bob", jail |-> "bob", thief |-> "cat"]
=============================================================================
