-------------------------------- MODULE Turn --------------------------------
(***************************************************************************)
(* The turn structure: runTurn, runTurnFromPhase, runExtraPhases, the      *)
(* phases of mtg/rules/phases.go and combat_engine.go, and the turn loop   *)
(* of RunGameWithTurnLimit.  The program nests these calls; here `at` says *)
(* where it is, `base` which regular phase the turn has come to.           *)
(*                                                                         *)
(* Every step with a priority window is one state in which effects may     *)
(* resolve; the window itself is the subject of Priority.tla.  Effects are *)
(* those that change the turn: phases, upkeep steps and skips are added,   *)
(* and players leave.  No card of the pool gives or skips whole turns, so  *)
(* ExtraTurns and SkippedTurns stay empty.                                 *)
(***************************************************************************)
EXTENDS TurnOrder

CONSTANTS
  TurnLimit,    \* turnLimit of RunGameWithTurnLimit
  MaxEffects    \* bound: what happens to the structure of one turn

ASSUME LimitsAssumption == TurnLimit \in Nat \ {0} /\ MaxEffects \in Nat

Phase     == 0..4
Beginning == 0
Precombat == 1
Combat    == 2
Postcombat == 3
Ending    == 4
NoPhase   == 5    \* MainPhaseContinuation does not exist

VARIABLES
  out,            \* g.TurnOrder.Eliminated
  active,         \* g.Turn.ActivePlayer
  turn,           \* g.Turn.TurnNumber
  phase, step,    \* g.Turn.Phase and g.Turn.Step
  queue,          \* g.Turn.ExtraPhases
  upkeeps,        \* g.Turn.ExtraUpkeepSteps
  skips,          \* g.SkippedSteps[p][StepDraw]
  mains,          \* g.Turn.MainPhasesThisTurn
  continuation,   \* g.Turn.MainPhaseContinuation
  base,           \* the regular phase runTurnFromPhase has come to
  inserted,       \* whether runExtraPhases plays the phase in progress
  at,             \* where the program is
  happened,       \* effects in this turn, for the bound MaxEffects
  idle            \* history: per player, turns begun since their own

turnVars   == <<active, turn, idle>>
effectVars == <<out, queue, upkeeps, skips, happened>>
placeVars  == <<phase, step, mains, continuation, base, inserted, at>>
vars == <<turnVars, effectVars, placeVars>>

Steps == {"untap", "upkeep", "draw", "main", "beginningOfCombat", "declareAttackers",
          "declareBlockers", "firstStrikeDamage", "combatDamage", "endOfCombat",
          "end", "cleanup"}

CombatSteps == {"beginningOfCombat", "declareAttackers", "declareBlockers",
                "firstStrikeDamage", "combatDamage", "endOfCombat"}

\* "begin": a turn is set up; "window": a priority window of `step` is open;
\* "cleanup": the cleanup step acts; "drain": a phase is over; "over": returned.
Places == {"begin", "window", "cleanup", "drain", "over"}

-------------------------------------------------------------------------------
Init ==
  /\ out \in SUBSET Player
  /\ Goldfish => Player \ {0} \subseteq out
  /\ ~IsGameOver(out)
  /\ active = 0 /\ turn = 1
  /\ phase = Beginning /\ step = "untap"
  /\ queue = <<>> /\ upkeeps = 0 /\ mains = 0 /\ continuation = NoPhase
  /\ skips = [p \in Player |-> 0]
  /\ base = Beginning /\ inserted = FALSE /\ at = "begin" /\ happened = 0
  /\ idle = [p \in Player |-> 0]

\* Each phase, step and drained phase ends with "if g.IsGameOver() return".
Continues == ~IsGameOver(out)

\* A game that is over unwinds to the turn loop, which returns it.
GameOver ==
  /\ at # "over"
  /\ IsGameOver(out)
  /\ at' = "over"
  /\ UNCHANGED <<turnVars, effectVars, phase, step, mains, continuation, base, inserted>>

\* A window opens in step s of the phase in progress.
Open(s) == step' = s /\ at' = "window"

StartBeginning ==
  /\ phase' = Beginning /\ Open("upkeep")
  /\ UNCHANGED <<mains, continuation>>

\* runMainPhaseWithContinuation: the first main phase of a turn is precombat.
StartMain(next) ==
  /\ phase' = (IF mains = 0 THEN Precombat ELSE Postcombat)
  /\ mains' = mains + 1
  /\ continuation' = next
  /\ Open("main")

StartCombat ==
  /\ phase' = Combat /\ Open("beginningOfCombat")
  /\ UNCHANGED <<mains, continuation>>

StartEnding ==
  /\ phase' = Ending /\ Open("end")
  /\ UNCHANGED <<mains, continuation>>

\* The turn loop plays the next turn, unless the limit is reached.
RunTurn ==
  /\ at = "begin" /\ Continues
  /\ turn <= TurnLimit
  /\ StartBeginning
  /\ UNCHANGED <<turnVars, effectVars, base, inserted>>

StopAtLimit ==
  /\ at = "begin" /\ Continues
  /\ turn > TurnLimit
  /\ at' = "over"
  /\ UNCHANGED <<turnVars, effectVars, phase, step, mains, continuation, base, inserted>>

-------------------------------------------------------------------------------
\* Effects that resolve in a window.
Happens ==
  /\ at = "window" /\ Continues
  /\ happened < MaxEffects
  /\ happened' = happened + 1
  /\ UNCHANGED <<turnVars, placeVars>>

Added_AtTheEnd(fs) == queue \o fs

\* What is added last comes first.
Added(fs) == fs \o queue

\* What cards add: a beginning phase, or combat phases and perhaps a main phase
\* after them.
PhaseGroups == {<<Beginning>>, <<Combat>>, <<Combat, Combat>>, <<Combat, Postcombat>>}

\* handleAddExtraPhases.
AddExtraPhases ==
  /\ Happens
  /\ \E fs \in PhaseGroups : queue' = Added(fs)
  /\ UNCHANGED <<out, upkeeps, skips>>

\* handleAddExtraUpkeepStep, from abilities that trigger in the upkeep.
AddExtraUpkeepStep ==
  /\ Happens
  /\ step = "upkeep"
  /\ upkeeps' = upkeeps + 1
  /\ UNCHANGED <<out, queue, skips>>

\* handleSkipStep: a player is to skip their next draw step.
SkipStep ==
  /\ Happens
  /\ \E p \in Alive(out) : skips' = [skips EXCEPT ![p] = @ + 1]
  /\ UNCHANGED <<out, queue, upkeeps>>

\* Players lose in a window; the one whose turn it is may be among them.
Leave ==
  /\ Happens
  /\ \E losers \in SUBSET Alive(out) : losers # {} /\ out' = out \union losers
  /\ UNCHANGED <<queue, upkeeps, skips>>

-------------------------------------------------------------------------------
\* A window of step s has closed and the game goes on.
Closes_GameNotAskedAbout(s) == at = "window" /\ step = s
Closes(s) == at = "window" /\ step = s /\ Continues

AfterRegular_CombatForgotten ==
  IF base = Beginning THEN Precombat ELSE continuation

\* What runTurnFromPhase sets MainPhaseContinuation to when the regular phase
\* base is over; a main phase has set it when it began.
AfterRegular ==
  CASE base = Beginning -> Precombat
    [] base = Combat    -> Postcombat
    [] OTHER            -> continuation

\* The phase in progress is over.
EndPhase ==
  /\ at' = "drain"
  /\ continuation' = IF inserted THEN continuation ELSE AfterRegular
  /\ UNCHANGED <<phase, step, mains, base, inserted>>

MoreUpkeeps_OneLeft == upkeeps > 1
MoreUpkeeps == upkeeps > 0

\* Another upkeep step was added.
RepeatUpkeep ==
  /\ Closes("upkeep")
  /\ MoreUpkeeps
  /\ upkeeps' = upkeeps - 1
  /\ StartBeginning
  /\ UNCHANGED <<turnVars, out, queue, skips, happened, base, inserted>>

\* consumeSkipStep, whether or not a static effect skips the draw step, too.
ConsumeSkip ==
  IF skips[active] > 0 THEN [skips EXCEPT ![active] = @ - 1] ELSE skips

\* The upkeep steps are done.  Effects on the battlefield decide whether the
\* player skips every draw step, which playerSkipsDrawStep looks up.
AfterUpkeep ==
  /\ Closes("upkeep")
  /\ ~MoreUpkeeps
  /\ \E static \in BOOLEAN :
       /\ skips' = ConsumeSkip
       /\ IF static \/ skips[active] > 0
          THEN EndPhase
          ELSE Open("draw") /\ UNCHANGED <<phase, mains, continuation, base, inserted>>
  /\ UNCHANGED <<turnVars, out, queue, upkeeps, happened>>

\* The last window of a phase has closed.
AfterLastStep ==
  /\ \E s \in {"draw", "main", "endOfCombat"} : Closes(s)
  /\ EndPhase
  /\ UNCHANGED <<turnVars, effectVars>>

\* resolveCombatAfterAttackers: without an attack the blocks and the damage are
\* left out; first strike adds a step before the damage.
NextCombatStep ==
  \/ step = "beginningOfCombat" /\ Open("declareAttackers")
  \/ step = "declareAttackers"  /\ (Open("declareBlockers") \/ Open("endOfCombat"))
  \/ step = "declareBlockers"   /\ (Open("firstStrikeDamage") \/ Open("combatDamage"))
  \/ step = "firstStrikeDamage" /\ Open("combatDamage")
  \/ step = "combatDamage"      /\ Open("endOfCombat")

AdvanceCombat ==
  /\ at = "window" /\ Continues
  /\ NextCombatStep
  /\ UNCHANGED <<turnVars, effectVars, phase, mains, continuation, base, inserted>>

\* The end step is over, or a window after cleanup: cleanup acts (again).
BeginCleanup ==
  /\ \E s \in {"end", "cleanup"} : Closes(s)
  /\ step' = "cleanup" /\ at' = "cleanup"
  /\ UNCHANGED <<turnVars, effectVars, phase, mains, continuation, base, inserted>>

\* CR 514.3a: state-based actions or triggers in cleanup open a window.
CleanupWindow ==
  /\ at = "cleanup" /\ Continues
  /\ happened < MaxEffects
  /\ happened' = happened + 1
  /\ \E losers \in SUBSET Alive(out) : out' = out \union losers
  /\ Open("cleanup")
  /\ UNCHANGED <<turnVars, queue, upkeeps, skips, phase, mains, continuation, base, inserted>>

\* advanceToNextTurn: the turn passes to the next player in the game.
AdvanceToNextTurn ==
  /\ at = "cleanup" /\ Continues
  /\ active' = NextActivePlayer(active, out)
  /\ turn' = turn + 1
  /\ idle' = [p \in Player |-> IF p = active' THEN 0 ELSE idle[p] + 1]
  /\ phase' = Beginning /\ step' = "untap" /\ at' = "begin"
  /\ queue' = <<>> /\ upkeeps' = 0 /\ mains' = 0 /\ continuation' = NoPhase
  /\ base' = Beginning /\ inserted' = FALSE /\ happened' = 0
  /\ UNCHANGED <<out, skips>>

-------------------------------------------------------------------------------
\* Where the turn goes on after a main phase that was added.
InsertedMainGoesOn == IF continuation # NoPhase THEN continuation ELSE phase + 1

Remaining_All == queue
Remaining == Tail(queue)

\* runExtraPhases plays the first of the phases that were added.
RunExtraPhase ==
  /\ at = "drain" /\ Continues
  /\ queue # <<>>
  /\ queue' = Remaining
  /\ inserted' = TRUE
  /\ \/ Head(queue) = Beginning /\ StartBeginning
     \/ Head(queue) = Combat /\ StartCombat
     \/ Head(queue) \in {Precombat, Postcombat} /\ StartMain(InsertedMainGoesOn)
  /\ UNCHANGED <<turnVars, out, upkeeps, skips, happened, base>>

\* runTurnFromPhase goes on with the next regular phase.
RunRegularPhase ==
  /\ at = "drain" /\ Continues
  /\ queue = <<>>
  /\ base' = base + 1
  /\ inserted' = FALSE
  /\ \/ base' \in {Precombat, Postcombat} /\ StartMain(base' + 1)
     \/ base' = Combat /\ StartCombat
     \/ base' = Ending /\ StartEnding
  /\ UNCHANGED <<turnVars, effectVars>>

\* Simulator.PlayForward: a search that has resolved the window of a main phase
\* finishes the turn from the continuation (finishCurrentTurn).
FinishCurrentTurn ==
  /\ Closes("main")
  /\ base' = continuation - 1
  /\ mains' = IF continuation > Precombat /\ mains = 0 THEN 1 ELSE mains
  /\ inserted' = FALSE
  /\ at' = "drain"
  /\ UNCHANGED <<turnVars, effectVars, phase, step, continuation>>

Next ==
  \/ GameOver \/ RunTurn \/ StopAtLimit
  \/ AddExtraPhases \/ AddExtraUpkeepStep \/ SkipStep \/ Leave
  \/ RepeatUpkeep \/ AfterUpkeep \/ AfterLastStep
  \/ AdvanceCombat \/ BeginCleanup \/ CleanupWindow \/ AdvanceToNextTurn
  \/ RunExtraPhase \/ RunRegularPhase \/ FinishCurrentTurn

\* One goroutine plays the game; every window closes (Priority!Closes).
Spec == Init /\ [][Next]_vars /\ WF_vars(Next)

-------------------------------------------------------------------------------
TypeOK ==
  /\ out \in SUBSET Player /\ active \in Player
  /\ turn \in Nat /\ phase \in Phase /\ step \in Steps
  /\ queue \in Seq(Phase) /\ upkeeps \in Nat /\ skips \in [Player -> Nat]
  /\ mains \in Nat /\ continuation \in Phase \union {NoPhase}
  /\ base \in Phase /\ inserted \in BOOLEAN /\ at \in Places
  /\ happened \in 0..MaxEffects /\ idle \in [Player -> Nat]

\* While a main phase or what was added after any phase is played, the
\* continuation is the regular phase that is next: the search that finishes a
\* turn from there leaves nothing out and repeats nothing.
ContinuationIsNext ==
  at = "drain" \/ inserted \/ step = "main" => continuation = base + 1

\* CR 500.7: additional upkeep steps are played in the beginning phase in which
\* they were added; none is left over.
UpkeepsArePlayed == phase # Beginning \/ step = "draw" \/ at = "drain" => upkeeps = 0

\* Nobody waits longer than a round: the turns begun since a player's own and
\* the seats between the active player and them make up one round at most.
RotationIsFair ==
  \A p \in Alive(out) : idle[p] + Ahead(active, p) <= NumPlayers

\* Where the program can be in which phase and step.
Placement ==
  /\ step \in {"untap", "upkeep", "draw"} => phase = Beginning
  /\ step = "main" => phase \in {Precombat, Postcombat} /\ mains > 0
  /\ step \in CombatSteps => phase = Combat
  /\ step \in {"end", "cleanup"} <=> phase = Ending
  /\ base = Ending <=> phase = Ending
  /\ inserted \/ step = "main" \/ base = phase
  /\ phase = Ending => ~inserted /\ at # "drain"
  /\ step = "untap" => at \in {"begin", "over"} /\ ~inserted /\ mains = 0 /\ queue = <<>>
  /\ at = "begin" => step = "untap"
  /\ at = "cleanup" => step = "cleanup"
  /\ queue \in Seq({Beginning, Combat, Postcombat})

\* The inductive invariant of the proofs.
Inv == /\ TypeOK /\ ContinuationIsNext /\ UpkeepsArePlayed /\ RotationIsFair
       /\ Placement
       /\ idle[active] = 0

\* The comment of beginningPhase: a scheduled skip applies to the next draw step
\* even when a static effect skips it, too, and never to a later one.
SkipsAreUsedUp ==
  [][at = "window" /\ step = "upkeep" /\ (at' = "drain" \/ step' = "draw") =>
       \/ skips[active] = 0
       \/ at' = "drain" /\ skips'[active] = skips[active] - 1]_vars

\* In whatever window the game has ended, the calls around it unwind: no step,
\* phase or turn begins, no extra one is used up, and nothing more happens.  While
\* it goes on, turns begin only for players who are in it.
StopsWithTheGame ==
  [][/\ IsGameOver(out) => UNCHANGED <<turnVars, effectVars, phase, step, mains, continuation>>
     /\ turn' # turn => active' \in Alive(out)]_vars

\* Every turn ends, and with the turns the game.
GameEnds == <>(at = "over")

KindOf(f) ==
  CASE f = Beginning -> "beginning"
    [] f = Combat    -> "combat"
    [] f = Ending    -> "ending"
    [] OTHER         -> "main"

Kinds(fs) == [i \in 1..Len(fs) |-> KindOf(fs[i])]

\* The regular phases that follow phase b.
RegularAfter(b) == [i \in 1..(4 - b) |-> b + i]

Current ==
  CASE phase = Precombat  -> "precombat"
    [] phase = Postcombat -> "postcombat"
    [] OTHER              -> KindOf(phase)

\* What the ending phase adds is dropped.
Agenda == IF base = Ending THEN <<>> ELSE Kinds(queue) \o Kinds(RegularAfter(base))

HadMain == mains > 0

Plan == INSTANCE TurnPlan WITH
          Additions <- {Kinds(fs) : fs \in PhaseGroups},
          current <- Current, agenda <- Agenda, hadMain <- HadMain

\* Phases are played in the order of CR 500, each once, those that were added
\* directly after the phase in which they were, also in the turn that a search
\* finishes.
ImplementsTurnPlan == Plan!Spec
=============================================================================
