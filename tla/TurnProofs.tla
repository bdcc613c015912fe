----------------------------- MODULE TurnProofs -----------------------------
(***************************************************************************)
(* The turn structure, for every number of seats, turns and effects: the   *)
(* invariant Inv of Turn, one lemma for each of its parts, and from it     *)
(* that skips are used once, that nothing begins after the end, and that   *)
(* Turn implements TurnPlan.  Placement is what makes Inv inductive: which *)
(* step is in progress tells what a phase that ends has left.              *)
(***************************************************************************)
EXTENDS Turn, TurnOrderProofs, SequenceTheorems

USE DEF Beginning, Precombat, Combat, Postcombat, Ending, NoPhase, Phase

\* What is added are phases, and never an ending phase.
LEMMA AddedPhases ==
  ASSUME NEW fs \in PhaseGroups
  PROVE  fs \in Seq({Beginning, Combat, Postcombat}) /\ fs \in Seq(Phase)
  <1>1. ASSUME NEW S, NEW a \in S, NEW b \in S
        PROVE  <<a>> \in Seq(S) /\ <<a, b>> \in Seq(S)
    OBVIOUS
  <1>2. PhaseGroups \subseteq Seq({Beginning, Combat, Postcombat})
    <2>1. /\ Beginning \in {Beginning, Combat, Postcombat}
          /\ Combat \in {Beginning, Combat, Postcombat}
          /\ Postcombat \in {Beginning, Combat, Postcombat}
      OBVIOUS
    <2>2. /\ <<Beginning>> \in Seq({Beginning, Combat, Postcombat})
          /\ <<Combat>> \in Seq({Beginning, Combat, Postcombat})
          /\ <<Combat, Combat>> \in Seq({Beginning, Combat, Postcombat})
          /\ <<Combat, Postcombat>> \in Seq({Beginning, Combat, Postcombat})
      BY <1>1, <2>1
    <2> QED BY <2>2 DEF PhaseGroups
  <1>3. {Beginning, Combat, Postcombat} \subseteq Phase
    OBVIOUS
  <1> QED BY <1>2, <1>3, SeqMonotonic

\* Every action keeps the variables in their types.
LEMMA TypeOKKept ==
  ASSUME Inv, [Next]_vars
  PROVE  TypeOK'
  <1> USE DEF TypeOK, Steps, Places
  <1>1. CASE GameOver
    BY <1>1 DEF Inv, GameOver, turnVars, effectVars
  <1>2. CASE RunTurn
    BY <1>2 DEF Inv, RunTurn, StartBeginning, Open, turnVars, effectVars
  <1>3. CASE StopAtLimit
    BY <1>3 DEF Inv, StopAtLimit, turnVars, effectVars
  <1>4. CASE AddExtraPhases
    <2>1. PICK fs \in PhaseGroups : queue' = fs \o queue
      BY <1>4 DEF AddExtraPhases, Added
    <2>2. fs \in Seq(Phase)
      BY AddedPhases
    <2>3. queue' \in Seq(Phase)
      BY <2>1, <2>2, ConcatProperties DEF Inv
    <2>4. happened' \in 0..MaxEffects
      BY <1>4, LimitsAssumption DEF AddExtraPhases, Happens, Inv
    <2> QED BY <1>4, <2>3, <2>4 DEF Inv, AddExtraPhases, Happens, turnVars, placeVars
  <1>5. CASE AddExtraUpkeepStep
    BY <1>5, LimitsAssumption DEF Inv, AddExtraUpkeepStep, Happens, turnVars, placeVars
  <1>6. CASE SkipStep
    <2>1. skips' \in [Player -> Nat]
      <3>1. PICK p \in Alive(out) : skips' = [skips EXCEPT ![p] = @ + 1]
        BY <1>6 DEF SkipStep
      <3>2. skips \in [Player -> Nat]
        BY DEF Inv
      <3>3. p \in Player /\ skips[p] + 1 \in Nat
        BY <3>2 DEF Alive
      <3> QED BY <3>1, <3>2, <3>3
    <2>2. happened' \in 0..MaxEffects
      BY <1>6, LimitsAssumption DEF SkipStep, Happens, Inv
    <2> QED BY <1>6, <2>1, <2>2 DEF Inv, SkipStep, Happens, turnVars, placeVars
  <1>7. CASE Leave
    <2>1. out' \in SUBSET Player
      BY <1>7 DEF Inv, Leave, Alive
    <2>2. happened' \in 0..MaxEffects
      BY <1>7, LimitsAssumption DEF Leave, Happens, Inv
    <2> QED BY <1>7, <2>1, <2>2 DEF Inv, Leave, Happens, turnVars, placeVars
  <1>8. CASE RepeatUpkeep
    BY <1>8 DEF Inv, RepeatUpkeep, Closes, MoreUpkeeps, StartBeginning, Open, turnVars
  <1>9. CASE AfterUpkeep
    BY <1>9 DEF Inv, AfterUpkeep, Closes, MoreUpkeeps, ConsumeSkip, EndPhase, AfterRegular, Open, turnVars
  <1>10. CASE AfterLastStep
    BY <1>10 DEF Inv, AfterLastStep, Closes, EndPhase, AfterRegular, turnVars, effectVars
  <1>11. CASE AdvanceCombat
    BY <1>11 DEF Inv, AdvanceCombat, NextCombatStep, Open, turnVars, effectVars
  <1>12. CASE BeginCleanup
    BY <1>12 DEF Inv, BeginCleanup, Closes, turnVars, effectVars
  <1>13. CASE CleanupWindow
    BY <1>13, LimitsAssumption DEF Inv, CleanupWindow, Alive, Open, turnVars
  <1>14. CASE AdvanceToNextTurn
    <2>1. active' \in Player
      BY <1>14, NextIsTheNextAlive DEF Inv, AdvanceToNextTurn
    <2>2. idle' \in [Player -> Nat]
      BY <1>14 DEF Inv, AdvanceToNextTurn
    <2>3. happened' \in 0..MaxEffects
      BY <1>14, LimitsAssumption DEF AdvanceToNextTurn
    <2>4. queue' \in Seq(Phase)
      BY <1>14, EmptySeq DEF AdvanceToNextTurn
    <2>5. /\ turn' = turn + 1 /\ phase' = Beginning /\ step' = "untap" /\ at' = "begin"
          /\ upkeeps' = 0 /\ mains' = 0 /\ continuation' = NoPhase
          /\ base' = Beginning /\ inserted' = FALSE
          /\ UNCHANGED <<out, skips>>
      BY <1>14 DEF AdvanceToNextTurn
    <2>6. turn' \in Nat /\ phase' \in Phase /\ upkeeps' \in Nat /\ mains' \in Nat /\ base' \in Phase
      BY <2>5 DEF Inv
    <2>7. step' \in Steps /\ at' \in Places /\ inserted' \in BOOLEAN
      BY <2>5
    <2>8. out' \in SUBSET Player /\ skips' \in [Player -> Nat]
          /\ continuation' \in Phase \union {NoPhase}
      BY <2>5 DEF Inv
    <2> QED BY <2>1, <2>2, <2>3, <2>4, <2>6, <2>7, <2>8
  <1>15. CASE RunExtraPhase
    BY <1>15 DEF Inv, RunExtraPhase, StartBeginning, StartCombat, StartMain, InsertedMainGoesOn, Remaining, Open, turnVars
  <1>16. CASE RunRegularPhase
    <2>1. base' \in Phase
      BY <1>16 DEF Inv, Placement, RunRegularPhase
    <2>2. StartMain(base' + 1) \/ StartCombat \/ StartEnding
      BY <1>16 DEF RunRegularPhase
    <2>3. phase' \in Phase
      BY <2>2 DEF StartMain, StartCombat, StartEnding
    <2>4. mains' \in Nat
      BY <2>2 DEF Inv, StartMain, StartCombat, StartEnding
    <2>5. step' \in Steps /\ at' \in Places
      BY <2>2 DEF StartMain, StartCombat, StartEnding, Open
    <2>6. inserted' \in BOOLEAN
      BY <1>16 DEF RunRegularPhase
    <2>7. continuation' \in Phase \union {NoPhase}
      BY <1>16 DEF Inv, RunRegularPhase, StartCombat, StartMain, StartEnding
    <2> QED BY <1>16, <2>1, <2>3, <2>4, <2>5, <2>6, <2>7 DEF Inv, RunRegularPhase, turnVars, effectVars
  <1>17. CASE FinishCurrentTurn
    <2>1. continuation = base + 1
      BY <1>17 DEF Inv, ContinuationIsNext, FinishCurrentTurn, Closes
    <2>2. base' = base
      BY <1>17, <2>1 DEF Inv, FinishCurrentTurn
    <2>3. mains' \in Nat /\ inserted' \in BOOLEAN /\ at' \in Places
      BY <1>17 DEF Inv, FinishCurrentTurn
    <2> QED BY <1>17, <2>2, <2>3 DEF Inv, FinishCurrentTurn, turnVars, effectVars
  <1>18. CASE UNCHANGED vars
    BY <1>18 DEF Inv, vars, turnVars, effectVars, placeVars
  <1> QED BY <1>1, <1>2, <1>3, <1>4, <1>5, <1>6, <1>7, <1>8, <1>9, <1>10, <1>11, <1>12, <1>13, <1>14, <1>15, <1>16, <1>17, <1>18 DEF Next

\* A phase that is over, or that was added, has left the next regular phase as
\* the continuation.
LEMMA ContinuationIsNextKept ==
  ASSUME Inv, [Next]_vars
  PROVE  ContinuationIsNext'
  <1> USE DEF ContinuationIsNext, Placement, TypeOK, CombatSteps
  <1>1. CASE GameOver
    BY <1>1 DEF Inv, GameOver, turnVars, effectVars
  <1>2. CASE RunTurn
    BY <1>2 DEF Inv, RunTurn, StartBeginning, Open, turnVars, effectVars
  <1>3. CASE StopAtLimit
    BY <1>3 DEF Inv, StopAtLimit, turnVars, effectVars
  <1>4. CASE AddExtraPhases
    BY <1>4 DEF Inv, AddExtraPhases, Happens, Added, PhaseGroups, turnVars, placeVars
  <1>5. CASE AddExtraUpkeepStep
    BY <1>5 DEF Inv, AddExtraUpkeepStep, Happens, turnVars, placeVars
  <1>6. CASE SkipStep
    BY <1>6 DEF Inv, SkipStep, Happens, turnVars, placeVars
  <1>7. CASE Leave
    BY <1>7 DEF Inv, Leave, Happens, Alive, turnVars, placeVars
  <1>8. CASE RepeatUpkeep
    BY <1>8 DEF Inv, RepeatUpkeep, Closes, MoreUpkeeps, StartBeginning, Open, turnVars
  <1>9. CASE AfterUpkeep
    BY <1>9 DEF Inv, AfterUpkeep, Closes, MoreUpkeeps, ConsumeSkip, EndPhase, AfterRegular, Open, turnVars
  <1>10. CASE AfterLastStep
    BY <1>10 DEF Inv, AfterLastStep, Closes, EndPhase, AfterRegular, turnVars, effectVars
  <1>11. CASE AdvanceCombat
    BY <1>11 DEF Inv, AdvanceCombat, NextCombatStep, Open, turnVars, effectVars
  <1>12. CASE BeginCleanup
    BY <1>12 DEF Inv, BeginCleanup, Closes, turnVars, effectVars
  <1>13. CASE CleanupWindow
    BY <1>13 DEF Inv, CleanupWindow, Alive, Open, turnVars
  <1>14. CASE AdvanceToNextTurn
    BY <1>14 DEF Inv, AdvanceToNextTurn
  <1>15. CASE RunExtraPhase
    BY <1>15 DEF Inv, RunExtraPhase, StartBeginning, StartCombat, StartMain, InsertedMainGoesOn, Remaining, Open, turnVars
  <1>16. CASE RunRegularPhase
    BY <1>16 DEF Inv, RunRegularPhase, StartCombat, StartMain, StartEnding, Open, turnVars, effectVars
  <1>17. CASE FinishCurrentTurn
    BY <1>17 DEF Inv, FinishCurrentTurn, Closes, turnVars, effectVars
  <1>18. CASE UNCHANGED vars
    BY <1>18 DEF Inv, vars, turnVars, effectVars, placeVars
  <1> QED BY <1>1, <1>2, <1>3, <1>4, <1>5, <1>6, <1>7, <1>8, <1>9, <1>10, <1>11, <1>12, <1>13, <1>14, <1>15, <1>16, <1>17, <1>18 DEF Next

\* Upkeep steps are added in the upkeep only, and the draw step waits for them.
LEMMA UpkeepsArePlayedKept ==
  ASSUME Inv, [Next]_vars
  PROVE  UpkeepsArePlayed'
  <1> USE DEF UpkeepsArePlayed, Placement, TypeOK, CombatSteps
  <1>1. CASE GameOver
    BY <1>1 DEF Inv, GameOver, turnVars, effectVars
  <1>2. CASE RunTurn
    BY <1>2 DEF Inv, RunTurn, StartBeginning, Open, turnVars, effectVars
  <1>3. CASE StopAtLimit
    BY <1>3 DEF Inv, StopAtLimit, turnVars, effectVars
  <1>4. CASE AddExtraPhases
    BY <1>4 DEF Inv, AddExtraPhases, Happens, Added, PhaseGroups, turnVars, placeVars
  <1>5. CASE AddExtraUpkeepStep
    BY <1>5 DEF Inv, AddExtraUpkeepStep, Happens, turnVars, placeVars
  <1>6. CASE SkipStep
    BY <1>6 DEF Inv, SkipStep, Happens, turnVars, placeVars
  <1>7. CASE Leave
    BY <1>7 DEF Inv, Leave, Happens, Alive, turnVars, placeVars
  <1>8. CASE RepeatUpkeep
    BY <1>8 DEF Inv, RepeatUpkeep, Closes, MoreUpkeeps, StartBeginning, Open, turnVars
  <1>9. CASE AfterUpkeep
    BY <1>9 DEF Inv, AfterUpkeep, Closes, MoreUpkeeps, ConsumeSkip, EndPhase, AfterRegular, Open, turnVars
  <1>10. CASE AfterLastStep
    BY <1>10 DEF Inv, AfterLastStep, Closes, EndPhase, AfterRegular, turnVars, effectVars
  <1>11. CASE AdvanceCombat
    BY <1>11 DEF Inv, AdvanceCombat, NextCombatStep, Open, turnVars, effectVars
  <1>12. CASE BeginCleanup
    BY <1>12 DEF Inv, BeginCleanup, Closes, turnVars, effectVars
  <1>13. CASE CleanupWindow
    BY <1>13 DEF Inv, CleanupWindow, Alive, Open, turnVars
  <1>14. CASE AdvanceToNextTurn
    BY <1>14 DEF Inv, AdvanceToNextTurn
  <1>15. CASE RunExtraPhase
    BY <1>15 DEF Inv, RunExtraPhase, StartBeginning, StartCombat, StartMain, InsertedMainGoesOn, Remaining, Open, turnVars
  <1>16. CASE RunRegularPhase
    BY <1>16 DEF Inv, RunRegularPhase, StartCombat, StartMain, StartEnding, Open, turnVars, effectVars
  <1>17. CASE FinishCurrentTurn
    BY <1>17 DEF Inv, FinishCurrentTurn, Closes, turnVars, effectVars
  <1>18. CASE UNCHANGED vars
    BY <1>18 DEF Inv, vars, turnVars, effectVars, placeVars
  <1> QED BY <1>1, <1>2, <1>3, <1>4, <1>5, <1>6, <1>7, <1>8, <1>9, <1>10, <1>11, <1>12, <1>13, <1>14, <1>15, <1>16, <1>17, <1>18 DEF Next

\* The step in progress and the phase in progress belong together.
LEMMA PlacementKept ==
  ASSUME Inv, [Next]_vars
  PROVE  Placement'
  <1> USE DEF Placement, TypeOK, CombatSteps, Steps
  <1>1. CASE GameOver
    BY <1>1 DEF Inv, GameOver, turnVars, effectVars
  <1>2. CASE RunTurn
    BY <1>2 DEF Inv, RunTurn, StartBeginning, Open, turnVars, effectVars
  <1>3. CASE StopAtLimit
    BY <1>3 DEF Inv, StopAtLimit, turnVars, effectVars
  <1>4. CASE AddExtraPhases
    <2>1. PICK fs \in PhaseGroups : queue' = fs \o queue
      BY <1>4 DEF AddExtraPhases, Added
    <2>2. queue' \in Seq({Beginning, Combat, Postcombat})
      BY <2>1, AddedPhases, ConcatProperties DEF Inv
    <2>3. UNCHANGED placeVars /\ at = "window"
      BY <1>4 DEF AddExtraPhases, Happens
    <2> QED BY <2>2, <2>3 DEF Inv, placeVars
  <1>5. CASE AddExtraUpkeepStep
    BY <1>5 DEF Inv, AddExtraUpkeepStep, Happens, turnVars, placeVars
  <1>6. CASE SkipStep
    BY <1>6 DEF Inv, SkipStep, Happens, turnVars, placeVars
  <1>7. CASE Leave
    BY <1>7 DEF Inv, Leave, Happens, Alive, turnVars, placeVars
  <1>8. CASE RepeatUpkeep
    BY <1>8 DEF Inv, RepeatUpkeep, Closes, MoreUpkeeps, StartBeginning, Open, turnVars
  <1>9. CASE AfterUpkeep
    BY <1>9 DEF Inv, AfterUpkeep, Closes, MoreUpkeeps, ConsumeSkip, EndPhase, AfterRegular, Open, turnVars
  <1>10. CASE AfterLastStep
    BY <1>10 DEF Inv, AfterLastStep, Closes, EndPhase, AfterRegular, turnVars, effectVars
  <1>11. CASE AdvanceCombat
    BY <1>11 DEF Inv, AdvanceCombat, NextCombatStep, Open, turnVars, effectVars
  <1>12. CASE BeginCleanup
    BY <1>12 DEF Inv, BeginCleanup, Closes, turnVars, effectVars
  <1>13. CASE CleanupWindow
    BY <1>13 DEF Inv, CleanupWindow, Alive, Open, turnVars
  <1>14. CASE AdvanceToNextTurn
    BY <1>14 DEF Inv, AdvanceToNextTurn
  <1>15. CASE RunExtraPhase
    BY <1>15 DEF Inv, RunExtraPhase, StartBeginning, StartCombat, StartMain, InsertedMainGoesOn, Remaining, Open, turnVars
  <1>16. CASE RunRegularPhase
    BY <1>16 DEF Inv, RunRegularPhase, StartCombat, StartMain, StartEnding, Open, turnVars, effectVars
  <1>17. CASE FinishCurrentTurn
    BY <1>17 DEF Inv, ContinuationIsNext, FinishCurrentTurn, Closes, turnVars, effectVars
  <1>18. CASE UNCHANGED vars
    BY <1>18 DEF Inv, vars, turnVars, effectVars, placeVars
  <1> QED BY <1>1, <1>2, <1>3, <1>4, <1>5, <1>6, <1>7, <1>8, <1>9, <1>10, <1>11, <1>12, <1>13, <1>14, <1>15, <1>16, <1>17, <1>18 DEF Next

\* The turn passes over seats that are empty only: what a wait grows by the
\* distance shrinks by.
LEMMA RotationIsFairKept ==
  ASSUME Inv, [Next]_vars
  PROVE  RotationIsFair' /\ (idle[active] = 0)'
  <1> USE DEF TypeOK
  <1>1. CASE AdvanceToNextTurn
    <2> DEFINE n == NextActivePlayer(active, out)
    <2>1. active' = n /\ out' = out /\ idle' = [p \in Player |-> IF p = n THEN 0 ELSE idle[p] + 1]
      BY <1>1 DEF AdvanceToNextTurn
    <2>2. n \in Player /\ \A q \in Alive(out) \ {active} : n # active /\ Ahead(active, n) <= Ahead(active, q)
      BY NextIsTheNextAlive DEF Inv
    <2>3. \A q \in Alive(out) \ {active} :
            Ahead(n, q) = Ahead(active, q) - Ahead(active, n) /\ Ahead(n, q) < Ahead(n, active)
      BY RotationKeepsTheOrder DEF Inv
    <2> HIDE DEF n
    <2>4. idle'[active'] = 0
      BY <2>1, <2>2
    <2>5. ASSUME NEW q \in Alive(out)
          PROVE  idle'[q] + Ahead(n, q) <= NumPlayers
      <3>1. q \in Player /\ idle[q] \in Nat /\ NumPlayers \in Nat \ {0}
        BY NumPlayersAssumption DEF Inv, Alive
      <3>2. CASE q = n
        BY <2>1, <2>2, <3>1, <3>2 DEF Ahead, Player
      <3>3. CASE q # n /\ q = active
        <4>1. Ahead(n, q) \in 1..(NumPlayers - 1)
          BY <2>2, <3>1, <3>3, SeatAndDistance
        <4>2. idle'[q] = 1
          BY <2>1, <3>1, <3>3 DEF Inv
        <4> QED BY <3>1, <4>1, <4>2
      <3>4. CASE q # n /\ q # active
        <4>1. Ahead(active, n) \in 1..(NumPlayers - 1) /\ Ahead(active, q) \in 1..(NumPlayers - 1)
          BY <2>2, <3>1, <3>4, SeatAndDistance DEF Inv
        <4>2. Ahead(n, q) = Ahead(active, q) - Ahead(active, n)
          BY <2>3, <3>4
        <4>3. idle[q] + Ahead(active, q) <= NumPlayers
          BY DEF Inv, RotationIsFair
        <4>4. idle'[q] = idle[q] + 1
          BY <2>1, <3>1, <3>4
        <4> QED BY <3>1, <4>1, <4>2, <4>3, <4>4
      <3> QED BY <3>2, <3>3, <3>4
    <2> QED BY <2>1, <2>4, <2>5 DEF RotationIsFair
  <1>2. CASE ~AdvanceToNextTurn
    <2>1. UNCHANGED <<active, idle>> /\ Alive(out') \subseteq Alive(out)
      BY <1>2 DEF Next, vars, GameOver, RunTurn, StopAtLimit, Happens, AddExtraPhases, AddExtraUpkeepStep,
         SkipStep, Leave, RepeatUpkeep, AfterUpkeep, AfterLastStep, AdvanceCombat, BeginCleanup,
         CleanupWindow, RunExtraPhase, RunRegularPhase, FinishCurrentTurn, turnVars, effectVars, Alive
    <2> QED BY <2>1 DEF Inv, RotationIsFair
  <1> QED BY <1>1, <1>2

\* A game begins in the beginning phase of the first turn.
LEMMA InvInit == ASSUME Init PROVE Inv
  <1>1. TypeOK
    <2>1. 0 \in Player /\ 0 \in 0..MaxEffects
      BY NumPlayersAssumption, LimitsAssumption DEF Player
    <2>2. queue \in Seq(Phase)
      BY EmptySeq DEF Init
    <2> QED BY <2>1, <2>2 DEF Init, TypeOK, Steps, Places
  <1>2. ContinuationIsNext /\ UpkeepsArePlayed
    BY DEF Init, ContinuationIsNext, UpkeepsArePlayed
  <1>3. Placement
    <2>1. queue \in Seq({Beginning, Combat, Postcombat})
      BY EmptySeq DEF Init
    <2> QED BY <2>1 DEF Init, Placement, CombatSteps
  <1>4. idle[active] = 0
    BY <1>1 DEF Init, TypeOK
  <1>5. RotationIsFair
    <2> SUFFICES ASSUME NEW p \in Player PROVE idle[p] + Ahead(active, p) <= NumPlayers
      BY DEF RotationIsFair, Alive
    <2>1. idle[p] = 0 /\ active = 0
      BY DEF Init
    <2> QED BY <2>1, NumPlayersAssumption DEF Ahead, Player
  <1> QED BY <1>1, <1>2, <1>3, <1>4, <1>5 DEF Inv

\* For every table, turn limit and number of effects: a search goes on with the
\* phase that is next, extra upkeep steps are played where they were added, and
\* nobody waits longer than a round for a turn.
THEOREM TurnsAreWhole == Spec => []Inv
  <1>1. Init => Inv
    BY InvInit
  <1>2. Inv /\ [Next]_vars => Inv'
    BY TypeOKKept, ContinuationIsNextKept, UpkeepsArePlayedKept, PlacementKept, RotationIsFairKept DEF Inv
  <1> QED BY <1>1, <1>2, PTL DEF Spec

\* The continuation a search resumes a turn from is always its next regular phase.
THEOREM TurnsAreContinued == Spec => []ContinuationIsNext
  <1>1. Inv => ContinuationIsNext
    BY DEF Inv
  <1> QED BY <1>1, TurnsAreWhole, PTL

\* Extra upkeep steps are played in the beginning phase they were added for.
THEOREM UpkeepsAreNotLost == Spec => []UpkeepsArePlayed
  <1>1. Inv => UpkeepsArePlayed
    BY DEF Inv
  <1> QED BY <1>1, TurnsAreWhole, PTL

\* Nobody in the game waits longer than a round for a turn.
THEOREM SeatsTakeTurns == Spec => []RotationIsFair
  <1>1. Inv => RotationIsFair
    BY DEF Inv
  <1> QED BY <1>1, TurnsAreWhole, PTL

\* Once the game is over no step, phase or turn begins and nothing happens, and
\* turns begin only for players who are in the game.
THEOREM NothingAfterTheEnd == Spec => StopsWithTheGame
  <1> DEFINE Stops == IsGameOver(out) => UNCHANGED <<turnVars, effectVars, phase, step, mains, continuation>>
             Living == turn' # turn => active' \in Alive(out)
  <1>1. Inv /\ [Next]_vars => [Stops /\ Living]_vars
    <2> SUFFICES ASSUME Inv, Next PROVE Stops /\ Living
      OBVIOUS
    <2>1. ASSUME IsGameOver(out)
          PROVE  UNCHANGED <<turnVars, effectVars, phase, step, mains, continuation>>
      <3>1. ~Continues
        BY <2>1 DEF Continues
      <3>2. GameOver
        BY <3>1 DEF Next, RunTurn, StopAtLimit, Happens, AddExtraPhases, AddExtraUpkeepStep, SkipStep,
           Leave, Closes, RepeatUpkeep, AfterUpkeep, AfterLastStep, AdvanceCombat, BeginCleanup,
           CleanupWindow, AdvanceToNextTurn, RunExtraPhase, RunRegularPhase, FinishCurrentTurn
      <3> QED BY <3>2 DEF GameOver, turnVars, effectVars
    <2>2. ASSUME turn' # turn
          PROVE  active' \in Alive(out)
      <3>1. AdvanceToNextTurn
        BY <2>2 DEF Next, GameOver, RunTurn, StopAtLimit, Happens, AddExtraPhases, AddExtraUpkeepStep,
           SkipStep, Leave, RepeatUpkeep, AfterUpkeep, AfterLastStep, AdvanceCombat, BeginCleanup,
           CleanupWindow, RunExtraPhase, RunRegularPhase, FinishCurrentTurn, turnVars
      <3>2. active' = NextActivePlayer(active, out) /\ ~IsGameOver(out)
        BY <3>1 DEF AdvanceToNextTurn, Continues
      <3>3. Alive(out) # {}
        <4>1. CASE Goldfish
          BY <3>2, <4>1, NumPlayersAssumption DEF IsGameOver, Alive, Player
        <4>2. CASE ~Goldfish /\ Alive(out) = {}
          <5>1. out = 0..(NumPlayers - 1)
            BY <4>2 DEF Inv, TypeOK, Alive, Player
          <5>2. Cardinality(0..(NumPlayers - 1)) = NumPlayers
            BY NumPlayersAssumption, FS_Interval
          <5> QED BY <3>2, <4>2, <5>1, <5>2, NumPlayersAssumption DEF IsGameOver, ActivePlayerCount
        <4> QED BY <4>1, <4>2
      <3> QED BY <3>2, <3>3, NextIsTheNextAlive DEF Inv, TypeOK
    <2> QED BY <2>1, <2>2
  <1> QED BY <1>1, TurnsAreWhole, PTL DEF Spec, StopsWithTheGame

\* A scheduled skip is used up by the next draw step, and that step is skipped.
THEOREM SkipsAreUsedOnce == Spec => SkipsAreUsedUp
  <1> DEFINE Leaves == at = "window" /\ step = "upkeep" /\ (at' = "drain" \/ step' = "draw")
             Used   == skips[active] = 0 \/ (at' = "drain" /\ skips'[active] = skips[active] - 1)
  <1>1. Inv /\ [Next]_vars => [Leaves => Used]_vars
    <2> SUFFICES ASSUME Inv, Next, Leaves PROVE Used
      OBVIOUS
    <2>1. AfterUpkeep
      BY DEF Next, GameOver, RunTurn, StopAtLimit, Happens, AddExtraPhases, AddExtraUpkeepStep,
         SkipStep, Leave, Closes, RepeatUpkeep, StartBeginning, Open, AfterLastStep, AdvanceCombat,
         NextCombatStep, BeginCleanup, CleanupWindow, AdvanceToNextTurn, RunExtraPhase,
         RunRegularPhase, FinishCurrentTurn, placeVars
    <2>2. skips \in [Player -> Nat] /\ active \in Player
      BY DEF Inv, TypeOK
    <2>3. CASE skips[active] > 0
      BY <2>1, <2>2, <2>3 DEF AfterUpkeep, ConsumeSkip, EndPhase
    <2> QED BY <2>2, <2>3
  <1> QED BY <1>1, TurnsAreWhole, PTL DEF Spec, SkipsAreUsedUp

-------------------------------------------------------------------------------
PhaseKind == {"beginning", "main", "combat", "ending"}

\* Kinds maps sequences of phases element by element.
LEMMA KindsOf ==
  ASSUME NEW fs \in Seq(Phase)
  PROVE  /\ Kinds(fs) \in Seq(PhaseKind)
         /\ Len(Kinds(fs)) = Len(fs)
         /\ \A i \in 1..Len(fs) : Kinds(fs)[i] = KindOf(fs[i])
  <1>1. \A f \in Phase : KindOf(f) \in PhaseKind
    BY DEF KindOf, PhaseKind
  <1>2. Len(fs) \in Nat /\ \A i \in 1..Len(fs) : fs[i] \in Phase
    BY LenProperties, ElementOfSeq
  <1>3. Kinds(fs) \in [1..Len(fs) -> PhaseKind]
    BY <1>1, <1>2 DEF Kinds
  <1> QED BY <1>2, <1>3 DEF Kinds

\* No phases, no kinds.
LEMMA KindsOfNone == Kinds(<<>>) = <<>>
  <1>1. <<>> \in Seq(Phase) /\ Len(<<>>) = 0
    BY EmptySeq
  <1>2. Kinds(<<>>) \in Seq(PhaseKind) /\ Len(Kinds(<<>>)) = 0
    BY <1>1, KindsOf
  <1> QED BY <1>2, EmptySeq

\* The kinds of two sequences in a row.
LEMMA KindsOfConcat ==
  ASSUME NEW fs \in Seq(Phase), NEW gs \in Seq(Phase)
  PROVE  Kinds(fs \o gs) = Kinds(fs) \o Kinds(gs)
  <1>1. /\ fs \o gs \in Seq(Phase)
        /\ Len(fs \o gs) = Len(fs) + Len(gs)
        /\ \A i \in 1..Len(fs) + Len(gs) :
             (fs \o gs)[i] = IF i <= Len(fs) THEN fs[i] ELSE gs[i - Len(fs)]
    BY ConcatProperties
  <1>2. /\ Kinds(fs) \o Kinds(gs) \in Seq(PhaseKind)
        /\ Len(Kinds(fs) \o Kinds(gs)) = Len(fs) + Len(gs)
        /\ \A i \in 1..Len(fs) + Len(gs) :
             (Kinds(fs) \o Kinds(gs))[i] = IF i <= Len(fs) THEN Kinds(fs)[i] ELSE Kinds(gs)[i - Len(fs)]
    <2>1. /\ Kinds(fs) \in Seq(PhaseKind) /\ Len(Kinds(fs)) = Len(fs)
          /\ Kinds(gs) \in Seq(PhaseKind) /\ Len(Kinds(gs)) = Len(gs)
      BY KindsOf
    <2> DEFINE k == Kinds(fs)
               l == Kinds(gs)
    <2> HIDE DEF k, l
    <2>2. k \in Seq(PhaseKind) /\ l \in Seq(PhaseKind)
      BY <2>1 DEF k, l
    <2>3. /\ k \o l \in Seq(PhaseKind) /\ Len(k \o l) = Len(k) + Len(l)
          /\ \A i \in 1..Len(k) + Len(l) : (k \o l)[i] = IF i <= Len(k) THEN k[i] ELSE l[i - Len(k)]
      BY <2>2, ConcatProperties
    <2>4. Len(k) = Len(fs) /\ Len(l) = Len(gs)
      BY <2>1 DEF k, l
    <2>5. /\ k \o l \in Seq(PhaseKind) /\ Len(k \o l) = Len(fs) + Len(gs)
          /\ \A i \in 1..Len(fs) + Len(gs) : (k \o l)[i] = IF i <= Len(fs) THEN k[i] ELSE l[i - Len(fs)]
      BY <2>3, <2>4
    <2> QED BY <2>5 DEF k, l
  <1>3. /\ Kinds(fs \o gs) \in Seq(PhaseKind)
        /\ Len(Kinds(fs \o gs)) = Len(fs) + Len(gs)
        /\ \A i \in 1..Len(fs) + Len(gs) : Kinds(fs \o gs)[i] = KindOf((fs \o gs)[i])
    BY <1>1, KindsOf
  <1>4. Len(fs) \in Nat /\ Len(gs) \in Nat
    BY LenProperties
  <1>5. ASSUME NEW i \in 1..Len(fs) + Len(gs)
        PROVE  Kinds(fs \o gs)[i] = (Kinds(fs) \o Kinds(gs))[i]
    <2>1. CASE i <= Len(fs)
      <3>1. i \in 1..Len(fs)
        BY <1>4, <2>1
      <3> QED BY <1>1, <1>2, <1>3, <2>1, <3>1, KindsOf
    <2>2. CASE ~(i <= Len(fs))
      <3>1. i - Len(fs) \in 1..Len(gs)
        BY <1>4, <2>2
      <3>2. Kinds(gs)[i - Len(fs)] = KindOf(gs[i - Len(fs)])
        BY <3>1, KindsOf
      <3> QED BY <1>1, <1>2, <1>3, <2>2, <3>2
    <2> QED BY <2>1, <2>2
  <1> QED BY <1>2, <1>3, <1>5, SeqEqual

\* The kinds of what is left when the first phase is taken.
LEMMA KindsOfTail ==
  ASSUME NEW fs \in Seq(Phase), fs # <<>>
  PROVE  /\ Kinds(fs) # <<>>
         /\ Head(Kinds(fs)) = KindOf(Head(fs))
         /\ Tail(Kinds(fs)) = Kinds(Tail(fs))
  <1>1. Len(fs) \in Nat \ {0}
    BY EmptySeq
  <1>2. Kinds(fs) \in Seq(PhaseKind) /\ Len(Kinds(fs)) = Len(fs)
    BY KindsOf
  <1>3. Kinds(fs) # <<>>
    BY <1>1, <1>2, EmptySeq
  <1>4. Head(fs) = fs[1] /\ Head(Kinds(fs)) = Kinds(fs)[1]
    BY <1>3
  <1>5. Head(Kinds(fs)) = KindOf(Head(fs))
    BY <1>1, <1>4, KindsOf
  <1>6. /\ Tail(fs) \in Seq(Phase) /\ Len(Tail(fs)) = Len(fs) - 1
        /\ \A i \in 1..Len(Tail(fs)) : Tail(fs)[i] = fs[i + 1]
    BY HeadTailProperties
  <1>7. /\ Tail(Kinds(fs)) \in Seq(PhaseKind) /\ Len(Tail(Kinds(fs))) = Len(fs) - 1
        /\ \A i \in 1..Len(fs) - 1 : Tail(Kinds(fs))[i] = Kinds(fs)[i + 1]
    BY <1>2, <1>3, HeadTailProperties
  <1>8. /\ Kinds(Tail(fs)) \in Seq(PhaseKind) /\ Len(Kinds(Tail(fs))) = Len(fs) - 1
        /\ \A i \in 1..Len(fs) - 1 : Kinds(Tail(fs))[i] = KindOf(fs[i + 1])
    BY <1>6, KindsOf
  <1>9. ASSUME NEW i \in 1..Len(fs) - 1
        PROVE  Tail(Kinds(fs))[i] = Kinds(Tail(fs))[i]
    <2>1. i + 1 \in 1..Len(fs)
      BY <1>1
    <2> QED BY <1>7, <1>8, <2>1, KindsOf
  <1>10. Tail(Kinds(fs)) = Kinds(Tail(fs))
    BY <1>7, <1>8, <1>9, SeqEqual
  <1> QED BY <1>3, <1>5, <1>10

\* The tail of a concatenation is taken from its first part.
LEMMA TailOfConcat ==
  ASSUME NEW S, NEW s \in Seq(S), NEW t \in Seq(S), s # <<>>
  PROVE  s \o t # <<>> /\ Head(s \o t) = Head(s) /\ Tail(s \o t) = Tail(s) \o t
  <1>1. Len(s) \in Nat \ {0} /\ Len(t) \in Nat
    BY EmptySeq, LenProperties
  <1>2. /\ s \o t \in Seq(S) /\ Len(s \o t) = Len(s) + Len(t)
        /\ \A i \in 1..Len(s) + Len(t) : (s \o t)[i] = IF i <= Len(s) THEN s[i] ELSE t[i - Len(s)]
    BY ConcatProperties
  <1>3. s \o t # <<>>
    BY <1>1, <1>2, EmptySeq
  <1>4. Head(s \o t) = Head(s)
    BY <1>1, <1>2, <1>3
  <1>5. /\ Tail(s) \in Seq(S) /\ Len(Tail(s)) = Len(s) - 1
        /\ \A i \in 1..Len(Tail(s)) : Tail(s)[i] = s[i + 1]
    BY HeadTailProperties
  <1>6. /\ Tail(s \o t) \in Seq(S) /\ Len(Tail(s \o t)) = Len(s) + Len(t) - 1
        /\ \A i \in 1..Len(Tail(s \o t)) : Tail(s \o t)[i] = (s \o t)[i + 1]
    BY <1>2, <1>3, HeadTailProperties
  <1>7. /\ Tail(s) \o t \in Seq(S) /\ Len(Tail(s) \o t) = Len(s) - 1 + Len(t)
        /\ \A i \in 1..Len(s) - 1 + Len(t) :
             (Tail(s) \o t)[i] = IF i <= Len(s) - 1 THEN Tail(s)[i] ELSE t[i - (Len(s) - 1)]
    BY <1>5, ConcatProperties
  <1>8. ASSUME NEW i \in 1..Len(s) + Len(t) - 1
        PROVE  Tail(s \o t)[i] = (Tail(s) \o t)[i]
    <2>1. i + 1 \in 1..Len(s) + Len(t) /\ i \in 1..Len(s) - 1 + Len(t)
      BY <1>1
    <2>2. Tail(s \o t)[i] = (s \o t)[i + 1]
      BY <1>6
    <2>3. CASE i + 1 <= Len(s)
      <3>1. i <= Len(s) - 1 /\ i \in 1..Len(Tail(s))
        BY <1>1, <1>5, <2>3
      <3> QED BY <1>2, <1>5, <1>7, <2>1, <2>2, <2>3, <3>1
    <2>4. CASE ~(i + 1 <= Len(s))
      <3>1. ~(i <= Len(s) - 1) /\ (i + 1) - Len(s) = i - (Len(s) - 1)
        BY <1>1, <2>4
      <3> QED BY <1>2, <1>7, <2>1, <2>2, <2>4, <3>1
    <2> QED BY <2>3, <2>4
  <1>9. Len(Tail(s \o t)) = Len(Tail(s) \o t)
    BY <1>1, <1>6, <1>7
  <1>10. Tail(s \o t) = Tail(s) \o t
    BY <1>1, <1>6, <1>7, <1>8, <1>9, SeqEqual
  <1> QED BY <1>3, <1>4, <1>10

\* The regular phases after b: one less after each, none after the last.
LEMMA RegularPhases ==
  ASSUME NEW b \in Phase
  PROVE  /\ RegularAfter(b) \in Seq(Phase)
         /\ b # Ending => /\ RegularAfter(b) # <<>>
                          /\ Head(RegularAfter(b)) = b + 1
                          /\ Tail(RegularAfter(b)) = RegularAfter(b + 1)
         /\ b = Ending => RegularAfter(b) = <<>>
  <1>1. ASSUME NEW c \in Phase
        PROVE  /\ RegularAfter(c) \in Seq(Phase) /\ Len(RegularAfter(c)) = 4 - c
               /\ \A i \in 1..(4 - c) : RegularAfter(c)[i] = c + i
    <2>1. 4 - c \in Nat /\ \A i \in 1..(4 - c) : c + i \in Phase
      OBVIOUS
    <2>2. RegularAfter(c) \in [1..(4 - c) -> Phase]
      BY <2>1 DEF RegularAfter
    <2> QED BY <2>1, <2>2 DEF RegularAfter
  <1>2. CASE b = Ending
    BY <1>1, <1>2, EmptySeq
  <1>3. CASE b # Ending
    <2>1. b + 1 \in Phase
      BY <1>3
    <2>2. RegularAfter(b) # <<>>
      BY <1>1, <1>3, EmptySeq
    <2>3. Head(RegularAfter(b)) = b + 1
      <3>1. Head(RegularAfter(b)) = RegularAfter(b)[1]
        BY <1>1, <2>2
      <3>2. 1 \in 1..(4 - b)
        BY <1>3
      <3> QED BY <1>1, <3>1, <3>2
    <2>4. /\ Tail(RegularAfter(b)) \in Seq(Phase) /\ Len(Tail(RegularAfter(b))) = 4 - b - 1
          /\ \A i \in 1..Len(Tail(RegularAfter(b))) : Tail(RegularAfter(b))[i] = RegularAfter(b)[i + 1]
      BY <1>1, <2>2, HeadTailProperties
    <2>5. ASSUME NEW i \in 1..(4 - (b + 1))
          PROVE  Tail(RegularAfter(b))[i] = RegularAfter(b + 1)[i]
      <3>1. i + 1 \in 1..(4 - b) /\ i \in 1..Len(Tail(RegularAfter(b)))
        BY <2>4
      <3>2. RegularAfter(b)[i + 1] = b + (i + 1)
        BY <1>1, <3>1
      <3>3. RegularAfter(b + 1)[i] = (b + 1) + i
        BY <1>1, <2>1
      <3>4. b + (i + 1) = (b + 1) + i
        OBVIOUS
      <3> QED BY <2>4, <3>1, <3>2, <3>3, <3>4
    <2>6. Tail(RegularAfter(b)) = RegularAfter(b + 1)
      <3>1. RegularAfter(b + 1) \in Seq(Phase) /\ Len(RegularAfter(b + 1)) = 4 - (b + 1)
        BY <1>1, <2>1
      <3>2. 4 - b - 1 = 4 - (b + 1)
        OBVIOUS
      <3> QED BY <2>4, <2>5, <3>1, <3>2, SeqEqual
    <2> QED BY <1>1, <1>3, <2>2, <2>3, <2>6
  <1> QED BY <1>1, <1>2, <1>3

-------------------------------------------------------------------------------
\* The agenda, once neither the queue nor the regular phases are looked into.
LEMMA AgendaParts ==
  ASSUME Inv
  PROVE  /\ Kinds(queue) \in Seq(PhaseKind)
         /\ Kinds(RegularAfter(base)) \in Seq(PhaseKind)
         /\ queue \in Seq(Phase) /\ base \in Phase
  BY KindsOf, RegularPhases DEF Inv, TypeOK

\* Playing an added phase takes it from the agenda.
LEMMA AddedPhaseIsNext ==
  ASSUME Inv, RunExtraPhase
  PROVE  /\ Agenda # <<>>
         /\ Head(Agenda) = KindOf(Head(queue))
         /\ Agenda' = Tail(Agenda)
  <1>1. base # Ending /\ base' = base
    BY DEF RunExtraPhase, Inv, Placement
  <1>2. queue # <<>> /\ queue' = Tail(queue)
    BY DEF RunExtraPhase, Remaining
  <1>3. Kinds(queue) # <<>> /\ Head(Kinds(queue)) = KindOf(Head(queue)) /\ Tail(Kinds(queue)) = Kinds(Tail(queue))
    BY <1>2, AgendaParts, KindsOfTail
  <1>4. Agenda = Kinds(queue) \o Kinds(RegularAfter(base))
    BY <1>1 DEF Agenda
  <1>5. Agenda' = Kinds(Tail(queue)) \o Kinds(RegularAfter(base))
    BY <1>1, <1>2 DEF Agenda
  <1> DEFINE q == Kinds(queue)
             r == Kinds(RegularAfter(base))
  <1>6. q \in Seq(PhaseKind) /\ r \in Seq(PhaseKind) /\ q # <<>>
    BY <1>3, AgendaParts
  <1> HIDE DEF q, r
  <1>7. q \o r # <<>> /\ Head(q \o r) = Head(q) /\ Tail(q \o r) = Tail(q) \o r
    BY <1>6, TailOfConcat
  <1> QED BY <1>3, <1>4, <1>5, <1>7 DEF q, r

\* So does playing a regular one, when no added phase is left.
LEMMA RegularPhaseIsNext ==
  ASSUME Inv, RunRegularPhase
  PROVE  /\ Agenda # <<>>
         /\ Head(Agenda) = KindOf(base')
         /\ Agenda' = Tail(Agenda)
  <1>1. base # Ending /\ base' = base + 1
    BY DEF RunRegularPhase, Inv, Placement
  <1>2. queue = <<>> /\ queue' = <<>>
    BY DEF RunRegularPhase, effectVars
  <1>3. base \in Phase /\ base + 1 \in Phase
    BY <1>1, AgendaParts
  <1>4. /\ RegularAfter(base) \in Seq(Phase) /\ RegularAfter(base) # <<>>
        /\ Head(RegularAfter(base)) = base + 1
        /\ Tail(RegularAfter(base)) = RegularAfter(base + 1)
    BY <1>1, <1>3, RegularPhases
  <1>5. Agenda = Kinds(RegularAfter(base))
    BY <1>1, <1>2, AgendaParts, KindsOfNone, ConcatEmptySeq DEF Agenda
  <1>6. /\ Agenda # <<>> /\ Head(Agenda) = KindOf(base + 1)
        /\ Tail(Agenda) = Kinds(RegularAfter(base + 1))
    BY <1>4, <1>5, KindsOfTail
  <1>7. Agenda' = Kinds(RegularAfter(base + 1))
    <2>1. CASE base + 1 = Ending
      <3>1. RegularAfter(base + 1) = <<>>
        BY <1>3, <2>1, RegularPhases
      <3> QED BY <1>1, <2>1, <3>1, KindsOfNone DEF Agenda
    <2>2. CASE base + 1 # Ending
      <3>1. RegularAfter(base + 1) \in Seq(Phase)
        BY <1>3, RegularPhases
      <3>2. Kinds(RegularAfter(base + 1)) \in Seq(PhaseKind)
        BY <3>1, KindsOf
      <3>3. Agenda' = <<>> \o Kinds(RegularAfter(base + 1))
        BY <1>1, <1>2, <2>2, KindsOfNone DEF Agenda
      <3> QED BY <3>2, <3>3, ConcatEmptySeq
    <2> QED BY <2>1, <2>2
  <1> QED BY <1>1, <1>6, <1>7

\* The agenda of a new turn is the regular phases.
LEMMA NewAgenda ==
  <<>> \o Kinds(RegularAfter(Beginning)) = Plan!Regular
  <1>1. RegularAfter(Beginning) \in Seq(Phase) /\ Len(RegularAfter(Beginning)) = 4
    <2>1. RegularAfter(Beginning) \in Seq(Phase)
      BY RegularPhases
    <2> QED BY <2>1 DEF RegularAfter
  <1>2. \A i \in 1..4 : RegularAfter(Beginning)[i] = i
    BY DEF RegularAfter
  <1>3. /\ Kinds(RegularAfter(Beginning)) \in Seq(PhaseKind)
        /\ Len(Kinds(RegularAfter(Beginning))) = 4
        /\ \A i \in 1..4 : Kinds(RegularAfter(Beginning))[i] = KindOf(i)
    BY <1>1, <1>2, KindsOf
  <1>4. Plan!Regular \in Seq(PhaseKind) /\ Len(Plan!Regular) = 4
    BY DEF Plan!Regular, PhaseKind
  <1>5. \A i \in 1..4 : Kinds(RegularAfter(Beginning))[i] = Plan!Regular[i]
    BY <1>3 DEF Plan!Regular, KindOf
  <1>6. Kinds(RegularAfter(Beginning)) = Plan!Regular
    BY <1>3, <1>4, <1>5, SeqEqual
  <1> QED BY <1>3, <1>6, ConcatEmptySeq

\* What is added comes before what was there, unless the turn is in its ending
\* phase.
LEMMA AdditionsComeFirst ==
  ASSUME Inv, AddExtraPhases
  PROVE  \/ base = Ending /\ UNCHANGED <<Agenda, Current, HadMain>>
         \/ Plan!Add
  <1>1. PICK fs \in PhaseGroups : queue' = fs \o queue
    BY DEF AddExtraPhases, Added
  <1>2. UNCHANGED <<phase, mains, base>>
    BY DEF AddExtraPhases, Happens, placeVars
  <1>3. UNCHANGED <<Current, HadMain>>
    BY <1>2 DEF Current, HadMain
  <1>4. CASE base = Ending
    BY <1>2, <1>3, <1>4 DEF Agenda
  <1>5. CASE base # Ending
    <2>1. fs \in Seq(Phase)
      BY AddedPhases
    <2>2. Kinds(fs \o queue) = Kinds(fs) \o Kinds(queue)
      BY <2>1, AgendaParts, KindsOfConcat
    <2>3. Agenda' = (Kinds(fs) \o Kinds(queue)) \o Kinds(RegularAfter(base))
      BY <1>1, <1>2, <1>5, <2>2 DEF Agenda
    <2>4. Kinds(fs) \in Seq(PhaseKind)
      BY <2>1, KindsOf
    <2>5. Agenda' = Kinds(fs) \o Agenda
      <3> DEFINE a == Kinds(fs)
                 q == Kinds(queue)
                 r == Kinds(RegularAfter(base))
      <3>1. a \in Seq(PhaseKind) /\ q \in Seq(PhaseKind) /\ r \in Seq(PhaseKind)
        BY <2>4, AgendaParts
      <3>2. Agenda = q \o r /\ Agenda' = (a \o q) \o r
        BY <1>5, <2>3 DEF Agenda
      <3> HIDE DEF a, q, r
      <3>3. (a \o q) \o r = a \o (q \o r)
        BY <3>1, ConcatAssociative
      <3>4. Agenda' = a \o Agenda
        BY <3>2, <3>3
      <3> QED BY <3>4 DEF a
    <2>6. Current # "ending"
      BY <1>5 DEF Inv, TypeOK, Placement, Current, KindOf
    <2> QED BY <1>3, <2>5, <2>6 DEF Plan!Add
  <1> QED BY <1>4, <1>5

\* Steps within a phase leave the agenda as it is.
LEMMA SameAgenda ==
  ASSUME UNCHANGED <<phase, base, queue>>, HadMain' = HadMain
  PROVE  UNCHANGED <<Current, Agenda, HadMain>>
  BY DEF Current, Agenda

\* Phases are played in order, each once, those that were added directly after
\* the phase in which they were: Turn implements TurnPlan.
THEOREM TurnsGoByPlan == Spec => ImplementsTurnPlan
  <1>1. Init => Plan!Init
    <2> SUFFICES ASSUME Init PROVE Plan!Init
      OBVIOUS
    <2>1. Current = "beginning" /\ HadMain = FALSE
      BY DEF Init, Current, KindOf, HadMain
    <2>2. Agenda = Plan!Regular
      <3>1. base = Beginning /\ queue = <<>>
        BY DEF Init
      <3>2. Agenda = Kinds(queue) \o Kinds(RegularAfter(Beginning))
        BY <3>1 DEF Agenda
      <3>3. Kinds(queue) = <<>>
        BY <3>1, KindsOfNone
      <3> QED BY <3>2, <3>3, NewAgenda
    <2> QED BY <2>1, <2>2 DEF Plan!Init
  <1>2. Inv /\ [Next]_vars => [Plan!Next]_(Plan!vars)
    <2> SUFFICES ASSUME Inv, [Next]_vars
                 PROVE  Plan!Next \/ UNCHANGED <<Current, Agenda, HadMain>>
      BY DEF Plan!vars
    <2> USE DEF Inv, TypeOK
    <2>1. CASE AddExtraPhases
      BY <2>1, AdditionsComeFirst DEF Plan!Next
    <2>2. CASE RunExtraPhase
      <3>1. CASE Head(queue) = Beginning /\ StartBeginning
        <4>1. Current' = "beginning" /\ KindOf(Head(queue)) = "beginning" /\ UNCHANGED HadMain
          BY <3>1 DEF StartBeginning, Current, KindOf, HadMain
        <4> QED BY <2>2, <4>1, AddedPhaseIsNext DEF Plan!Next, Plan!Play
      <3>2. CASE Head(queue) = Combat /\ StartCombat
        <4>1. Current' = "combat" /\ KindOf(Head(queue)) = "combat" /\ UNCHANGED HadMain
          BY <3>2 DEF StartCombat, Current, KindOf, HadMain
        <4> QED BY <2>2, <4>1, AddedPhaseIsNext DEF Plan!Next, Plan!Play
      <3>3. CASE Head(queue) \in {Precombat, Postcombat} /\ StartMain(InsertedMainGoesOn)
        <4>1. /\ Current' = (IF HadMain THEN "postcombat" ELSE "precombat")
              /\ KindOf(Head(queue)) = "main" /\ HadMain' = TRUE
          BY <3>3 DEF StartMain, Current, KindOf, HadMain
        <4> QED BY <2>2, <4>1, AddedPhaseIsNext DEF Plan!Next, Plan!Play
      <3> QED BY <2>2, <3>1, <3>2, <3>3 DEF RunExtraPhase
    <2>3. CASE RunRegularPhase
      <3>1. CASE base' \in {Precombat, Postcombat} /\ StartMain(base' + 1)
        <4>1. /\ Current' = (IF HadMain THEN "postcombat" ELSE "precombat")
              /\ KindOf(base') = "main" /\ HadMain' = TRUE
          BY <3>1 DEF StartMain, Current, KindOf, HadMain
        <4> QED BY <2>3, <4>1, RegularPhaseIsNext DEF Plan!Next, Plan!Play
      <3>2. CASE base' = Combat /\ StartCombat
        <4>1. Current' = "combat" /\ KindOf(base') = "combat" /\ UNCHANGED HadMain
          BY <3>2 DEF StartCombat, Current, KindOf, HadMain
        <4> QED BY <2>3, <4>1, RegularPhaseIsNext DEF Plan!Next, Plan!Play
      <3>3. CASE base' = Ending /\ StartEnding
        <4>1. Current' = "ending" /\ KindOf(base') = "ending" /\ UNCHANGED HadMain
          BY <3>3 DEF StartEnding, Current, KindOf, HadMain
        <4> QED BY <2>3, <4>1, RegularPhaseIsNext DEF Plan!Next, Plan!Play
      <3> QED BY <2>3, <3>1, <3>2, <3>3 DEF RunRegularPhase
    <2>4. CASE AdvanceToNextTurn
      <3>1. phase = Ending /\ base = Ending
        BY <2>4 DEF AdvanceToNextTurn, Placement
      <3>2. Current = "ending" /\ Agenda = <<>>
        BY <3>1 DEF Current, KindOf, Agenda
      <3>3. Current' = "beginning" /\ HadMain' = FALSE
        BY <2>4 DEF AdvanceToNextTurn, Current, KindOf, HadMain
      <3>4. Agenda' = Plan!Regular
        <4>1. base' = Beginning /\ queue' = <<>>
          BY <2>4 DEF AdvanceToNextTurn
        <4>2. Agenda' = Kinds(queue') \o Kinds(RegularAfter(Beginning))
          BY <4>1 DEF Agenda
        <4>3. Kinds(queue') = <<>>
          BY <4>1, KindsOfNone
        <4> QED BY <4>2, <4>3, NewAgenda
      <3> QED BY <3>2, <3>3, <3>4 DEF Plan!Next, Plan!EndTurn, Plan!NewTurn
    <2>5. CASE RunTurn \/ RepeatUpkeep
      <3>1. phase' = phase /\ UNCHANGED <<base, queue, mains>>
        BY <2>5 DEF RunTurn, RepeatUpkeep, Closes, StartBeginning, Placement, effectVars
      <3> QED BY <3>1, SameAgenda DEF HadMain
    <2>6. CASE FinishCurrentTurn
      <3>1. base' = base
        BY <2>6 DEF FinishCurrentTurn, Closes, ContinuationIsNext
      <3>2. mains > 0 /\ mains' = mains
        BY <2>6 DEF FinishCurrentTurn, Closes, Placement
      <3>3. UNCHANGED <<phase, queue>>
        BY <2>6 DEF FinishCurrentTurn, effectVars
      <3> QED BY <3>1, <3>2, <3>3, SameAgenda DEF HadMain
    <2>7. CASE UNCHANGED <<phase, base, queue, mains>>
      BY <2>7, SameAgenda DEF HadMain
    <2>8. \/ AddExtraPhases \/ RunExtraPhase \/ RunRegularPhase \/ AdvanceToNextTurn
          \/ RunTurn \/ RepeatUpkeep \/ FinishCurrentTurn \/ UNCHANGED <<phase, base, queue, mains>>
      BY DEF Next, vars, GameOver, StopAtLimit, Happens, AddExtraUpkeepStep, SkipStep, Leave, AfterUpkeep,
         AfterLastStep, EndPhase, AdvanceCombat, BeginCleanup, CleanupWindow, effectVars, placeVars
    <2> QED BY <2>1, <2>2, <2>3, <2>4, <2>5, <2>6, <2>7, <2>8
  <1> QED BY <1>1, <1>2, TurnsAreWhole, PTL DEF Spec, ImplementsTurnPlan, Plan!Spec

=============================================================================
