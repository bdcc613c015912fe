--------------------------- MODULE NextTurnControl ---------------------------
(***************************************************************************)
(* What control of another player's next turn promises (CR 723.1), with no *)
(* list of effects: each player's next turn is claimed by at most one      *)
(* player, the last to claim it; the claim is used up when that turn       *)
(* begins, and nobody else inherits it.  PlayerControl.tla is shown to     *)
(* keep this promise.                                                      *)
(***************************************************************************)
CONSTANTS
  Seats,
  Nobody   \* not a seat

VARIABLES
  alive,   \* the players still in the game
  whose,   \* whose turn it is
  claim,   \* per player, who is to control their next turn
  ruler    \* who controls the turn in progress

vars == <<alive, whose, claim, ruler>>

Init == /\ alive \in SUBSET Seats
        /\ whose \in Seats
        /\ claim = [p \in Seats |-> Nobody]
        /\ ruler = Nobody

\* A later claim replaces an earlier one; the turn in progress is not concerned.
Claim(c, p) == /\ {c, p} \subseteq alive
               /\ claim' = [claim EXCEPT ![p] = c]
               /\ UNCHANGED <<alive, whose, ruler>>

\* p's turn begins: whoever claimed it rules, and the claim is gone.
Begin(p) == /\ p \in alive
            /\ whose' = p
            /\ ruler' = claim[p]
            /\ claim' = [claim EXCEPT ![p] = Nobody]
            /\ UNCHANGED alive

\* The claims of those who leave lapse, and so do claims on them; a turn whose
\* ruler leaves is its player's own again.
Leave(gone) ==
  /\ gone \subseteq alive
  /\ alive' = alive \ gone
  /\ claim' = [p \in Seats |-> IF p \in gone \/ claim[p] \in gone THEN Nobody ELSE claim[p]]
  /\ ruler' = IF whose \in gone \/ ruler \in gone THEN Nobody ELSE ruler
  /\ UNCHANGED whose

Next == \/ \E c, p \in Seats : Claim(c, p)
        \/ \E p \in Seats : Begin(p)
        \/ \E gone \in SUBSET Seats : Leave(gone)

Spec == Init /\ [][Next]_vars
=============================================================================
