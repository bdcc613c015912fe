------------------------------ MODULE PassRound ------------------------------
(***************************************************************************)
(* What a priority window promises (CR 117.4), with no counter and no      *)
(* rotation: an object resolves, and the step ends, only when every player *)
(* still in the game has passed since anybody last did anything.  The      *)
(* comment of runPriorityLoop (mtg/rules/priority.go) states the promise;  *)
(* Priority.tla is shown to keep it.                                       *)
(***************************************************************************)
CONSTANT Seats

VARIABLES
  alive,    \* the players still in the game
  toPass,   \* those among them who have not passed since the last action
  stage     \* "open" while the window runs, then how it closed

Init == /\ alive \in SUBSET Seats
        /\ toPass = alive
        /\ stage = "open"

\* A player passes and somebody is still to pass.
Pass(p) == /\ toPass \ {p} # {}
           /\ toPass' = toPass \ {p}
           /\ UNCHANGED <<alive, stage>>

\* A player passes and nobody else is to: an object resolves and a new round
\* starts, or the stack was empty and the step is done.  Everybody may have
\* passed before, when the one player still to pass left the game instead: the
\* next player is then asked once more.
LastPass(p) == /\ toPass \subseteq {p}
               /\ \/ toPass' = alive /\ stage' = stage
                  \/ toPass' = {} /\ stage' = "ended"
               /\ UNCHANGED alive

\* Somebody acts, or abilities trigger: a new round starts.
NewRound == toPass' = alive /\ UNCHANGED <<alive, stage>>

\* Players lose and leave.  While anybody is still to pass only those
\* leave: nothing happened to the others since they passed.
Leave(losers) == /\ losers \subseteq toPass \/ toPass = {}
                 /\ alive' = alive \ losers
                 /\ toPass' = toPass \ losers
                 /\ stage' \in {"open", "over"}

\* The harness gives up on the game.
GiveUp == stage' = "workBudget" /\ UNCHANGED <<alive, toPass>>

Next == /\ stage = "open"
        /\ \/ \E p \in alive : Pass(p) \/ LastPass(p)
           \/ NewRound
           \/ \E losers \in SUBSET alive : Leave(losers)
           \/ GiveUp

vars == <<alive, toPass, stage>>

Spec == Init /\ [][Next]_vars
=============================================================================
