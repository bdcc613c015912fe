------------------------------ MODULE TurnPlan ------------------------------
(***************************************************************************)
(* What a turn promises (CR 500, 505.1a): an agenda of phases, played from *)
(* its head.  A phase that an effect adds comes directly after the phase   *)
(* in progress; nothing is left out, repeated or moved.  The first main    *)
(* phase played is the precombat one.  Turn.tla is shown to keep this.     *)
(***************************************************************************)
EXTENDS Sequences

CONSTANT Additions   \* the sequences of phases that an effect can add

VARIABLES
  current,   \* the phase in progress
  agenda,    \* what is to be played after it in this turn
  hadMain    \* whether the turn has had a main phase

vars == <<current, agenda, hadMain>>

Regular == <<"main", "combat", "main", "ending">>

NewTurn == current' = "beginning" /\ agenda' = Regular /\ hadMain' = FALSE

Init == current = "beginning" /\ agenda = Regular /\ hadMain = FALSE

\* The next phase on the agenda is played.
Play ==
  /\ agenda # <<>>
  /\ agenda' = Tail(agenda)
  /\ IF Head(agenda) = "main"
     THEN current' = (IF hadMain THEN "postcombat" ELSE "precombat") /\ hadMain' = TRUE
     ELSE current' = Head(agenda) /\ hadMain' = hadMain

\* An effect adds phases after the one in progress.
Add == /\ \E fs \in Additions : agenda' = fs \o agenda
       /\ current # "ending"
       /\ UNCHANGED <<current, hadMain>>

\* When the ending phase is over, so is the turn.
EndTurn == current = "ending" /\ agenda = <<>> /\ NewTurn

Next == Play \/ Add \/ EndTurn

Spec == Init /\ [][Next]_vars
=============================================================================
