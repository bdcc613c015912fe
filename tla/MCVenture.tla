------------------------------ MODULE MCVenture ------------------------------
(***************************************************************************)
(* Three small dungeons: an ordinary one with a branch, one of free        *)
(* traversal, and the one of the initiative, whose last room has the       *)
(* number of a room that is not the last in the first.                     *)
(***************************************************************************)
EXTENDS Venture, TLC

SmallDungeons == {"mine", "wilds", "undercity"}
SmallPaths ==
  [mine |-> (0 :> {1} @@ 1 :> {2} @@ 2 :> {}),
   wilds |-> (0 :> {} @@ 1 :> {}),
   undercity |-> (0 :> {1} @@ 1 :> {})]
MayLackTargets == {<<"wilds", 1>>, <<"mine", 0>>, <<"mine", 1>>, <<"undercity", 0>>}

Interchangeable == Permutations(Player)
=============================================================================
