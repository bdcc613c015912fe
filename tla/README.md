# Verification of council4

council4 plays four-player Commander games of Magic: The Gathering between
agents: a rules engine (`mtg/rules` over the state of `mtg/game`), agents that
answer its requests (`mtg/agent`), a harness that plays batches of games
(`mtg/sim`), reports on them (`mtg/report`), a generated card pool (`mtg/cards`)
and the tools that produce it (`cmd`, `internal`, `.github/extensions`).

The engine is one goroutine per game. What makes it hard is not data races but
*order*: state-based actions, triggered abilities, resolutions, departures of
players and decisions of agents interleave in every order the cards allow, and
counters, cursors and "whose turn is it" fields are read at one point of that
order and used at another. The tools that produce the card pool add crashes, restarts and
a remote they only know by its answers. This project states these protocols as
TLA+ state machines, checks them with TLC and proves the central ones with
TLAPS.

## 1. Inventory

| Component | State it keeps | Operations | Hard behaviour | What makes it correct |
|---|---|---|---|---|
| Seating (`game/turn.go`, `game/game.go`) | `TurnOrder.Order`, `Eliminated` | `NextActivePlayer`, `NextPriority`, `ActivePlayerCount`, `IsGameOver` | wrap-around with seats missing | the next player is the nearest one still in the game |
| Priority loop (`rules/priority.go`) | `PriorityPlayer`, `consecutivePasses`, the stack, cast attempts | apply SBAs, place triggers, ask, pass, act, reverse, resolve, return | players leave in the middle of a round; every step can trigger the check again | CR 117: nothing resolves and no step ends before everybody left has passed |
| Turn structure (`rules/phases.go`, `rules/skip.go`) | `Phase`, `Step`, `ActivePlayer`, extra turns, extra phases and steps, skips | `runTurn` and its phases, `advanceToNextTurn` | effects add and skip phases while they run; the active player leaves; the game ends anywhere | phases in order, skips and extras used up exactly once, the next turn goes to the right living player |
| Player control (`game/player_control.go`, `rules/player_control.go`) | pending effects, immediate controllers, active controls | schedule, begin turn, end, `DecisionMaker` | chains and cycles of control, effects on effects, controllers who leave | every decision reaches a living player; at most one effect is used per turn |
| State-based actions (`rules/sba.go`, `rules/sba_pass.go`, `rules/player_departure.go`) | losses, deaths, departures of one pass | prepare, apply, repeat until stable | simultaneous losses, chains of passes, cleanup of a departed player's objects | one pass reads one state; nothing of a departed player stays |
| Triggered abilities (`rules/triggers*.go`, `rules/durations.go`) | the event log, `TriggerEventCursor`, latches, delayed and reflexive triggers | detect, order, prepare, push, expire | events emitted while triggers are being placed; a latch set here and released there; windows that end at steps | every event is looked at exactly once; a trigger fires exactly when it is due |
| Dungeons and initiative (`rules/venture.go`, `rules/initiative.go`, `game/dungeon.go`) | each player's dungeon and room, queued room abilities, `HasInitiative` | venture, enter, advance, complete, take and pass the initiative | the last room's ability is copied, dropped, countered or leaves with another player; simultaneous losses | a dungeon is walked along its paths and completed once; one living player has the initiative |
| Actions: casting and activating (`rules/actions*.go`, `rules/cast_*.go`) | announcement, proposals, `castAttempts` | attempt, withhold, reverse | an action that cannot be completed is undone (CR 733) | reversal restores the game; attempts run out |
| Mana and payment (`rules/payment*`, `rules/*mana*`, `game/mana`) | pools, pinned activations, journal | plan, pay, roll back, empty | irreversible mana abilities in a payment that fails | paid = spent; unspent mana empties at the end of the step |
| Zones and commanders (`rules/zones.go`, `rules/zone_transition.go`, `rules/commander.go`) | zones, `ZoneVersion`, `CommanderEventCursor` | move, replace, reconsider | the same card moves again before a queued choice about it is made | a card is in one zone; stale references are not followed |
| Combat (`rules/combat*.go`, `rules/damage_batch.go`) | declarations, attackers, blockers, damage batch | declare, assign, deal, remove | creatures and players leave between declaration and damage | damage is dealt once and simultaneously |
| Continuous and replacement effects (`rules/continuous*.go`, `rules/replacement.go`, `rules/durations.go`) | effects, timestamps, durations | layers, replace, expire | effects that depend on each other | each replacement applies once to an event |
| Resolution of instructions (`rules/primitive_handlers*.go`, `cardprogram`, `rules/effects*.go`) | resolution context | one handler per instruction | breadth: one handler per card text | per card |
| Setup and mulligan (`rules/setup.go`, `rules/mulligan.go`) | hands, libraries | draw, mulligan | - | hand sizes |
| Search simulator (`rules/simulator.go`, `rules/determinize.go`, `agent/search.go`, `game/clone.go`) | clones of a game | apply, resolve, play forward | aliasing between a clone and the live game | the live game is never changed |
| Agents (`mtg/agent`) | strategy weights | choose | heuristics | - |
| Harness (`mtg/sim`) | per-index results and failures, the tally | `Run`, `RunMatchup`, replay | workers, games that panic, budgets | the result is that of playing one game after the other |
| Reports, decks, evaluation (`mtg/report`, `mtg/deck`, `mtg/eval`) | none | parse, aggregate, render | - | - |
| Card pool (`mtg/cards`) | none: generated tables | registry lookup | size | - |
| Card production tools (`cmd/cardqueue`, `cmd/productiondash`, `.github/extensions/council4-production`) | queue state in files, a checkpoint, a task branch and its worktree, the pull request on GitHub | claim, implement, review, land, resume | crashes at every step, lost answers, a moving main, checks that fail for reasons of their own | a landing can always be resumed, repeats nothing beyond its bounds, and lands what was validated and reviewed |
| Other tools (`cmd/council4`, `cmd/ciplan`, `internal`, `magefiles`, `opt`) | none | command lines, code generation | - | - |

How they interact: `runTurn` walks the phases and opens a priority window in
most steps. The window calls the state-based actions and the trigger placement
before every decision, asks an agent through the player-control chain, and
resolves the top of the stack through the instruction handlers. Everything that
happens is appended to one event log, which the triggers, the commander choices
and the reports read with cursors of their own. A departure removes a player's
objects everywhere and moves priority on. The harness runs many such games at
once and turns panics and exhausted budgets into results.

The hazards of the code, each with its line and the properties that stand
guard over it, are listed in `PROJECT.json` under `hazards`.

## 2. Plan

The most important behaviour first: the window in which players act, what
strings windows together (turns), who decides in them (control), what runs the
games (harness); then what happens inside a step of the window, in the order of
how much several parts of the code have to agree on; last the tools around it.

| # | Module | Composes | Promise it is held to | State |
|---|---|---|---|---|
| 1 | `TurnOrder` | - | the nearest seat still in the game | proved |
| 2 | `Priority` | `TurnOrder` | `PassRound` (CR 117.4) | proved, liveness checked |
| 3 | `Turn` | `TurnOrder` | `TurnPlan` (CR 500) | proved, liveness checked |
| 4 | `PlayerControl` | `TurnOrder` | `NextTurnControl` (CR 723) | proved |
| 5 | `Matchup` | - | the tally of a sequential run | tally proved, liveness checked |
| 6 | `StateTriggers` | the step `PutTriggersOnStack` of `Priority` | a trigger is held back while its ability waits (CR 603.8) | proved |
| 7 | `TriggerLog` | the same step, the cursor and the turns | every event is looked at once, with one exception named; delayed triggers fire when due (CR 603.7) | proved |
| 8 | `Venture` | `Dungeons` | `DungeonCrawl` (CR 309), one holder of the initiative (CR 720) | proved |
| 9 | `PaymentRollback` | - | what cannot be undone stays, the rest is undone, the pool balances (CR 733.1) | proved |
| 10 | `CastAttempts` | the step `Reverse` of `Priority` | only what failed is withheld, and the window moves on (CR 733.2) | proved, liveness checked |
| 11 | `StateBasedActions` | the step `ApplyStateBasedActions` of `Priority`; zones, commanders, departures | passes converge on a settled game | proved |
| 12 | `Landing` | checkpoint, worktree, GitHub | resumable, bounded, lands what it checked | proved, liveness checked |
| 13 | `Combat` | the combat windows of `Turn`, declarations, the damage batch | damage is dealt once, to and by what is still there | next |
| 14 | `Replacement` | replacement and prevention effects of one event | each applies once | next |
| 15 | `Search` | clone, determinize, play forward over `Priority` and `Turn` | the live game is never changed | later |
| 16 | `CardQueue` | claims, saves and restarts of the production tools | a card is worked on once | later |

Theorems worth adding, with the modules to come: that nothing is damaged twice
(`Combat`) and that a replacement applies once (`Replacement`).

## 3. The modules and the code

Definitions keep the names of the functions and fields they stand for;
`PROJECT.json` maps each one to its lines. Where modules are proved about together,
the names they would share (`Init`, `Next`, `Spec`, `TypeOK`, `Inv`, `vars`) start
with the initials of the module: `CA`, `PR`, `SB`, `MU`, `ST`, `TL`. `Players`
declares the set of players of those that need no seats. Operators named `<Name>_<Bug>` are
plausible bugs of the definition beside them, used to show that each property
can fail.

**`TurnOrder`** (`mtg/game/turn.go`). Seats `0 .. NumPlayers-1`, the players out
of the game as a set. `NextActivePlayer` is the loop around the table, `Ahead`
a distance along it. `Goldfish` is the one-player mode, in which `IsGameOver`
asks for no player left rather than for fewer than two.

**`Priority`** (`runPriorityLoop`, `mtg/rules/priority.go`). One call of the
loop, from its entry to its return. `step` is the place in the loop body:
`ApplyStateBasedActions`, `PutTriggersOnStack`, then either `SkipDeparted` or a
decision (`Pass`, `EndStep`, `ResolveTop`, `Act`, `Reverse`), or
`ExhaustBudget` where `countDecision` panics. `passes` is the local
`consecutivePasses`; `passed` is a history variable, the set of players who have
really passed, that the counter is compared with. Cards are abstracted to what
the loop can see of them: objects put on and taken off the stack, abilities that
trigger (`pending`), players who now meet a loss condition (`doomed`). The loop
can be entered by a step, or in the middle by the search simulator; `Init` has
both.

**`PassRound`**. What the loop promises: a set of players still to pass. An
action starts the round again, a departure takes a player out of it, and only
when the set is empty does an object resolve or the step end.

**`Turn`** (`mtg/rules/phases.go`, `combat_engine.go`, `skip.go`, `engine.go`,
`game/turn.go`). The code is a nest of calls; the model is the position in it:
`at` (a turn begins, a window is open, cleanup acts, a phase is over), `base`
(the regular phase `runTurnFromPhase` has come to), `inserted` (whether
`runExtraPhases` is playing). Effects on the structure (`AddExtraPhases`,
`AddExtraUpkeepStep`, `SkipStep`, `Leave`) happen in any window. `GameOver` is
the unwinding after each of the `IsGameOver` tests. `FinishCurrentTurn` is
`Simulator.PlayForward`, which leaves the nest and re-enters it at
`MainPhaseContinuation`. Two details are the code's and not the rules': what is
added in the ending phase is dropped by `advanceToNextTurn`, and each phase
added later comes before those added earlier.

**`TurnPlan`**. An agenda of phases: play its head, put additions at its head,
start again when it is empty.

**`PlayerControl`** (`mtg/game/player_control.go`, `rules/player_control.go`,
`rules/search_control.go`). The list of control effects is a set of records
(player, controller, turn it applies to, turn it was created in), scopes of
controlled searches a sequence. `advanceToNextTurn` and `runTurn` both call
`BeginPlayerControlTurn`, so the model makes both calls. `DecisionMaker` and
`CanSeePlayerInformation` are the code's walks from controller to controller as
recursive functions. To whom the next turn goes is left open, which covers
extra turns.

**`NextTurnControl`**. Per player at most one claim on their next turn, the last
one made; the claim is used up when that turn begins and lapses with either
player.

**`Matchup`** (`mtg/sim/matchup.go`, `sim.go`, `result.go`). The rotation of the
tested seat over batches; in a batch the caller sends indices over an unbuffered
channel to workers, closes it and waits. How each game ends is drawn once, in
`Init`, since `RunOne` is a function of its seed and index; a worker's write goes
to the slot of its index. `EndRotation` is `accumulateRotation`.

**`StateTriggers`** (`detectStateTriggeredAbilities`, `releaseStateTriggerLatch`
and who calls it). A pass detects, latches, drops what cannot be prepared and
places the rest; resolving, countering and ceasing to be a copy release the
latch, by source. Whether a condition holds is open at each pass. Two histories
name the exceptions the code makes: `orphaned`, latches of abilities that left
with a player, and `early`, sources released while an ability of theirs waits.

**`TriggerLog`** (`triggers_detection.go:77-190`, the delayed triggers of
`durations.go`, the cursor in `events.go`). The log of events, the cursor, the
passes that read it and append to it, the steps and turns that bound the windows
of delayed triggers, repeated cleanup steps, departures, and the turn change. What
each trigger watches is one kind of event; `looks`, `fired` and `overlooked` are
histories. `AdvanceToNextTurn` is the whole of `advanceToNextTurn`: the search for
the next turn comes to seats of players who have left, where
`expireDepartedNextTurnDurations` ends what was to last until then and
`settleDepartedControl` may exile what nobody is left to control
(`EndedWhileChoosing`); these events are of the turn that ends, "this turn"
triggers expire after them, and `markCurrentTurnEventStart` moves the cursor past
them. Which seats the search comes to and what ends there is left open.
An event-based delayed trigger also fires at events that its own resolution
emitted before it was created: the pass that reads them comes after.

**`Venture`** (`rules/venture.go`, `rules/initiative.go`), over **`Dungeons`**,
the paths. A venture moves at once and queues the room's ability; a pass places
it, possibly more than once (an effect that doubles triggers), or drops it; the
stack is what `StateTriggers` has. `CompleteDungeonForRoomMark` is called by
everything that takes such an ability off the stack and by the drop. The
initiative's own ventures wait in a queue drained by the pass. The new holder
after a departure is any living player (the code prefers the active one).
`DroppedCompletes` is in the code although no dungeon of the pool has a last room
whose ability can lack targets, and `ChangeStackObjectController` although the
pool gives it spells only. **`DungeonCrawl`** is the promise: a player is in at
most one dungeon, goes along its paths and completes it from its last room.

**`PaymentRollback`** (`payment_mana_rollback.go`, `payment_mana_window.go`).
The game is what a checkpoint holds that matters here: sources used, the size of
the pool, the library. `UndoManualPaymentMana` goes back to the first activation
that may be reversed, and repeats those that may not; a repeated shuffle has any
outcome, and what differs from the first time makes it fall back to the state
after the last irreversible one.

**`CastAttempts`** (`cast_reversals.go`, the attempts in `actions_cast.go`,
`cast_announcement.go` and `activation_mana_window.go`). One priority window of
one player. An attempt is a proposal (a route, a cost option and the payment of
each Phyrexian symbol), targets, and one later choice that stands for the mana
abilities and additional costs. The record `attempts` is the code's, field by
field. The game is the same before every attempt of a window, as a reversal
restores it. Splicing is left out, and of the prefixes of choices that
`closePrefix` can close only the whole one.

**`StateBasedActions`** (`sba.go`, `sba_pass.go`, `player_departure.go`,
`commander.go`, `until_source_leaves.go`, the moves of `zones.go`). Instructions
move, seize, exile and harm cards; a check then takes passes until one changes
nothing. A pass returns what was exiled until a permanent that has left, reads the
commanders' arrivals from the log, ends control that has expired, chooses which
legend to keep, buries what dies, offers commanders the command zone, and lets
players leave with what they own. A card's zone version distinguishes its
incarnations (CR 400.7). The effects that give control are a set in which `made`,
the timestamp, orders them as `g.ContinuousEffects` does. `Filtered` is
`filterContinuousEffects` with its own slice under it: while an effect is judged,
those before it that were kept have already overwritten the first places.
`SettleDepartedControl` repeats this until nothing expires and exiles what the
departed are left in control of. Hand and library are one zone. `MaxPasses` is the
1000 of the code, after which it panics; the longest check here has three passes
that change something.

**`Landing`** (`.github/extensions/council4-production/pull-request.mjs`, with
the parts of `workflow.mjs` and `telemetry.mjs` that call it and save its
checkpoint). `pc` is the place in `landPullRequest`; what a process remembers
(`volatile`) is lost by `Crash`, what is on disk and on GitHub (`durable`) stays.
A step is what lies between two things that may be interrupted: a write of the
checkpoint, a git command, a request. A lost answer is a step followed by
`Crash`. Abstractions: a commit is how many repairs and which main are in it;
what reviews, tests and agents answer is open; a conflict or edits of a failed
repair are left for the user, as the code leaves them, and end in `refused`;
a rerun that mixes billing and runner failures follows its billing part; people
who close or merge the pull request themselves, statuses set by others, and
requests that take effect after the next process has started are left out.

`MC*` modules name what TLC instantiates; `*Proofs` modules hold proofs.

## 4. The runs

| Run | Instance | What it shows |
|---|---|---|
| `priority` | three seats, two objects on the stack, two triggers, five decisions, one choice inside a step | the pass counter counts living players only, the round goes in turn order whoever leaves, nobody acts and no window ends with losses or triggers waiting, nothing of a departed player is on the stack; the loop implements `PassRound` and closes, by the budget if need be |
| `matchup` | two seats, two games each, one worker or two | the tally is that of playing in order, and the matchup ends |
| `player_control` | three seats, three turns, two effects, two nested searches | decisions go to one living player who sees what they decide about; beginning a turn twice is beginning it once; the list implements `NextTurnControl` |
| `turn` | three seats, three turns, two effects in each | the continuation is the next phase, extra upkeeps are played, nobody waits longer than a round, nothing begins once the game is over; turns go by `TurnPlan`, and the game ends |
| `state_triggers` | two sources of three players, three abilities or copies, three effects | a source is held back while its ability waits, and no longer, but for the exceptions named |
| `trigger_log` | three players, one of whom may leave, three turns, four events, one delayed trigger of any kind | one pass looks at each event, but for those of the choice of the next turn; a trigger with a timing fires at its step, one with a pattern at what it watches |
| `venture` | two players, three dungeons, three stack objects, four instructions | each dungeon is completed once; one living player has the initiative; `DungeonCrawl` |
| `payment_rollback` | seven mana abilities in every order, two cards in the library | libraries stand, the pool balances, what can be reversed is |
| `cast_attempts` | three hands out of four casts and an activation, two players | only what failed is withheld, each reversal adds to the record, the window moves on |
| `state_based_actions` | four cards of three players, three instructions | passes end, nothing is left undone, arrivals are offered once, departures leave nothing behind, exiles end as they should |
| `landing` | two checks, main moves once, one repair, two reruns, any number of crashes | a landing can be resumed, is bounded, lands what it checked, and comes to rest |
| `landing_reviewed` | main moves twice | a documented promise the code does not keep, see section 7 |

Each property of a passing run has a mutant in `PROJECT.json`: a bug in one
definition under which TLC finds that property violated.

Configurations that are not among the runs are for use by hand: those of section 7
(`MatchupComments`, `StateTriggersLatch`, `StateTriggersTwice`, `TriggerLogOverlooked`,
`VentureLost`, `VentureStolen`, `CastAttemptsTargets`, `CastAttemptsChoices`,
`CastAttemptsHolder`), each of which ends in a violation. `CHECK_DEADLOCK` is
off everywhere because every program here stops: it returns, or the instance
reaches a bound on events.

**Bounds and why they are enough.** Three seats are the smallest table at which
a player other than the two concerned can be skipped or counted by mistake. Two
objects on the stack are one that resolves above one that stays; two triggers are
one placed and one triggered by placing it. Five decisions are a full round of
three and the start of another. Two effects per turn let an effect happen in a
phase another one added. Two control effects and two searches make chains of
four links and circles of two and of three. In `StateTriggers` three objects are
an ability, a copy and the ability once more. In `TriggerLog` four events are a
step, an event before and after it, and one in a later turn or on the way to it;
three players are one who leaves and two who go on; three turns are one in which a
trigger is created, another player's, and one's own again. The three
dungeons of `Venture` have a branch, free traversal and the room number at which
one dungeon ends and another does not; four instructions enter a second dungeon
while copies of the first's last ability wait. The seven abilities of
`PaymentRollback` are one of each way an activation matters to another. In
`CastAttempts` one cast has too many Phyrexian symbols to be filtered, one has
sampled targets, and one names its target. The four cards of
`StateBasedActions` are the smallest cast in which one permanent's departure
returns another, which makes two legends of which one is a commander. In
`Landing` main moves once or twice because a second move before the first is
integrated is the same as one; two checks are one that fails while another runs;
one repair and two reruns are the policy's own numbers (`DEFAULT_POLICY`). Main's
content starts with a fixed value: contents are interchangeable.

## 5. Fairness

`Priority`, `Turn` and `CastAttempts` have weak fairness of `Next`: a game is one
goroutine whose calls return, and agents are asked synchronously and answer.
Nothing is assumed about *which* step it takes: that an agent passes sooner or
later is not assumed. `Closes` relies on the budget of decisions alone, and
`MovesOn` on what the record of attempts withholds alone: the player may try
what fails for as long as anything is offered. `Turn` takes the closing of a
window as given by `Priority`. `Matchup` has weak fairness of the caller, of the
hand-over on the channel and of each worker's own steps: the Go scheduler runs
what can run. A worker that the channel never chooses is allowed. `Landing` has
weak fairness of its own steps (not of being resumed, and crashes are never
forced), of a job that has been queued or started, and of the registration of a
requested rerun.

## 6. What is proved

For every number of seats, players, permanents, checks and mains, and all bounds;
TLC evaluates the assumptions on the constants, which say that bounds are natural
numbers.

- **Seating** (`TurnOrderProofs`). `NextIsTheNextAlive`: the loop of
  `NextActivePlayer` finds a player still in the game if there is one and passes
  over none. `RotationKeepsTheOrder`: moving on shifts every distance by the same
  amount and makes the mover last.
- **Priority** (`PriorityProofs`). `Inv` is inductive and gives each safety
  property. The properties alone are not inductive: that the counter counts the
  *living* who passed survives a departure only because those who are about to
  lose have not passed yet, or the round is complete (`LosersAreStillToPass`).
  This holds because every harm comes with an action or resolution, which starts
  a new round, or from reversing an action, which harms only the player with
  priority. `KeepsThePromise`: under `Inv` each step of the loop is a step of
  `PassRound` or a stutter.
- **Turns** (`TurnProofs`). `Inv` adds `Placement`, which phase and step go with
  which place in the nest of calls, and that the active player has not waited;
  both are needed to say where a closing window leads. `TurnsAreContinued`,
  `UpkeepsAreNotLost` and `SeatsTakeTurns` follow from it, the last through
  `RotationKeepsTheOrder`. `TurnsGoByPlan` maps the queue and the regular phases
  to come to one agenda, with lemmas on heads, tails and concatenations of such
  lists. `SkipsAreUsedOnce` and `NothingAfterTheEnd` are action properties; the
  first, on the result of one operation, is proved only and not among the runs.
- **Control** (`PlayerControlProofs`). `OneClaim`: `Inv` is inductive with
  `createdTurn <= turn`, without which an effect could be taken for one created
  in the turn that begins. `BeginningTwiceIsOnce` and the refinement
  `ClaimsAreKept` follow from it. `DecisionsArrive`: the walks of `DecisionMaker`
  and `CanSeePlayerInformation` are recursive functions; that such a function exists
  at all, and where it ends, is proved once for any walk that passes nobody twice
  (`WalksEnd`), by induction on how many players are left to pass. The invariant
  keeps those who have left out of every effect and search, so no walk ends there.
- **Harness** (`ToolsProofs`). `CountsAllGames`: within a rotation each index sent
  has been played or is with a worker, and a worker that has left holds none, so
  that the caller who has waited finds all played; what a rotation counts and what
  the rotations before it counted are disjoint sets, whose cardinalities add up.
- **Attempts** (`RulesProofs`). `WithheldHasFailed` is inductive with `Remembered`:
  what the record holds was attempted, and what can never be paid was withheld at
  once, so that a second reversal of it says nothing new. `ReversalsTeach` is an
  action property of the same invariant.
- **Payments** (`RulesProofs`). `PRInv` adds `Chained`: the checkpoints of a window
  lead from one activation to the next, and since the last irreversible one no
  library has changed. The repetition after an undo and the balance of the pool are
  recursive functions; `Computed` and `StepByStep` say what any such function holds
  at each of its arguments, and the three theorems (`UndoLeavesLibraries`,
  `UndoBalances`, `UndoReverses`) follow step by step along the activations.
- **State-based actions** (`RulesProofs`). The invariant `SBInv` says in three
  parts what the board and the histories owe each other: what damage, grants and
  the log refer to is there or was (`Sound`), the records of exile and what is in
  exile for a jailer agree (`Recalled`), and a commander in a public zone is in the
  log or was the last arrival offered (`Noticed`). Every move, expiry and return
  leads to a board that *follows* (`Follows`): a card is what and where it was, or
  is a new object of its owner's that the log knows of. Following is transitive and
  keeps `Recalled` and `Noticed`, so each part of an instruction or a pass is
  treated once. `NothingIsLeft` needs that control settles after each part that can
  end it; `ChecksSettle` that a pass which asks for no other has left the board as
  it read it, so that the choices it made on that board had nothing to choose;
  `ArrivalsAreOffered` that the log is empty when a check ends; `ExilesComeBack` is
  an action property. `ControlComesToRest`: `settleDepartedControl` reaches a board
  it would not change, as each of its rounds but the last drops a grant or a
  permanent; the panic after its loop is out of reach. `PassesEnd` is the same for
  the passes of a check: beside returns, nothing comes to the battlefield in a
  pass, and to a public zone only from there (`Clears`), so one that asks for another ends exiles or
  leaves fewer grants, permanents or public cards (`Reduces`), or has had the last
  player lose who was going to. That bounds the passes of a check by what is there
  to be done, not by the code's 1000: whether a game can hold enough is not asked.
- **State triggers** (`TriggersProofs`). The two directions, latch without
  ability and ability without latch, are inductive together, with the identities
  of stack objects being fresh.
- **Trigger log** (`TriggersProofs`). Looking once needs that the cursor is
  never beyond the log, and that the turn's own move of it steps over nothing but
  what happened in that very step, because the last pass of a turn leaves nothing
  unread. What happened there is in `overlooked`, which is empty while nobody has
  left. The theorems on delayed triggers need to know where each one's window
  begins in the log, and that no step begins while the next turn is chosen.
- **Dungeons** (`VentureProofs`). A player in a last room has its ability queued
  or on the stack, marked with this entry; entries are never reused; so exactly
  one mark completes it, and `VenturingImplementsTheCrawl`. `InitiativeIsKept`
  needs only that a new holder has not lost in the same pass.
- **Landing** (`ToolsProofs`). What makes a crash harmless is that the branch is
  where the checkpoint says, or one journaled commit ahead (`JournalMatches`),
  that attempts are counted before they are made (`CountedFirst`), and that each
  place in the pass can rely on what the steps before it left (`Placed`).
  `LandingsAreResumed`, `LandingsGiveUp`, `WhatLandsWasChecked`.

**Only model-checked.** Liveness (`Closes`, `GameEnds`, `Finishes`, `MovesOn`,
`ComesToRest`), which is out of the prover's reach under fairness. That each of
`MatchupResult`'s sums is what its comment says is refuted in section 7.

## 7. Where the comments and the code disagree

One is a run of the project:

- `docs/dynamic-card-production.md:41` says "Changed integration receives
  independent review". `finishPending` (`pull-request.mjs:205`) sets
  `reviewedHead` to the merge whenever its tree is that of its parent, without
  asking whether the parent had been reviewed. When the review of a first
  integration fails or is interrupted, and main moves on without a net change, the
  next merge counts as reviewed. Run `landing_reviewed`.

The others are shown by hand, each by the configuration named:

- `MatchupResult` says that wins, draws and failures add up to `TotalGames`, and
  that draws include games that reach the turn limit (`matchup.go:41-42`,
  `50-51`). `accumulateRotation` counts those, and games that use up their
  decisions, in `BudgetStops` only (`MatchupComments.cfg`). The sum with `BudgetStops`
  holds.
- `Run` and `SimulationResult` say that the slot of a game that panicked holds the
  zero result (`sim.go:66-67`, `result.go:30-31`). `runGameSafely` records what
  ended the game there (`MatchupComments.cfg` with TLC's `-continue`, which goes on
  after the first of the two violations).
- `detectStateTriggeredAbilities` says that state triggers do not trigger again
  until the ability leaves the stack or fails to enter it. A departure removes the
  ability and leaves the latch, so a source whose owner stays never triggers again
  (`StateTriggersLatch.cfg`); a copy that leaves the stack releases the latch of the
  ability itself (`StateTriggersTwice.cfg`).
- `mtg/game/README.md:239` says that `TriggerEventCursor` records how far trigger
  detection has consumed the event stream, and `game.go:263` that it is the next
  event to inspect. The turn change moves it past events that no pass has looked
  at: X gives control of B's creature, which X has put onto the battlefield, to C
  until X's next turn, and leaves; when that turn would have begun the grant ends
  and the creature is exiled, after the last pass of the turn
  (`phases.go:514`, `durations.go:74-86`, `player_departure.go:149-181`) and before
  `markCurrentTurnEventStart` (`events.go:298`). Nothing triggers on its leaving, and
  no delayed trigger fires, of that turn or a lasting one
  (`TriggerLogOverlooked.cfg`).
- `chooseUnvisitedRoom` says that a room is always left before a dungeon of free
  traversal is completed. A venture while the last room's ability waits finds none
  and does nothing (`VentureLost.cfg`). The comment of `DungeonRoomMark` has the
  dungeon completed once the ability has left the stack; when it leaves the game
  with a player it was given to, it is not (`VentureStolen.cfg`).
- `castActionKey` drops the targets of a cast that names them in the action: when
  one choice of targets has exhausted its proposals, the cast is withdrawn for all
  (`CastAttemptsTargets.cfg`). An attempt is told from another by proposal and
  targets and not by what is chosen later, so two failures with different mana
  abilities count as a repetition (`CastAttemptsChoices.cfg`). `runPriorityLoop`
  keeps the record when its holder is eliminated and the next player has priority
  (`CastAttemptsHolder.cfg`).

## 8. What is not modelled

Extra turns and skipped turns: the fields exist, and no code outside tests fills
them. Of `SkippedSteps`, the draw step, which is the one cards skip. `Concede`,
called by tests only; a player may leave in any window in any case.
`DecisionPersonal`, which goes to the player without a walk.

Inside the modelled components: counters, attachments, battles, sagas, tokens,
regeneration and other replacements among the state-based actions, and goldfish
games of them; which events a pattern matches, APNAP order, and how an ability's
modes and targets are chosen; the solver that assigns mana to costs; what a room,
a spell or an ability does. Delayed triggers of departed players stay in the list
and are dropped when they fire, which `TriggerLog` does not tell from firing. In
`PaymentRollback`, reveals that move no card and abilities that can be activated
again; in `Landing`, files that a reviewer or validator leaves in the worktree,
which `clean()` refuses, and reruns of which some are accepted and some are not,
which are one step.

Components without a module: combat, continuous and replacement effects and the
search simulator are in the plan; instruction handlers (a model of each would be
the handler again), heuristics of agents, reports and evaluation (functions from
data to text), setup (sequential dealing), the generated card pool and the other
command lines are not. Most of the repository's lines are the generated pool and
the handlers, which is why the map names a small share of them. Of the production
tools, the selection, triage, implementation and review of units, and the claims
of the queue, are not modelled.
