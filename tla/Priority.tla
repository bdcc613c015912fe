------------------------------- MODULE Priority -------------------------------
(***************************************************************************)
(* One priority window: Engine.runPriorityLoop (mtg/rules/priority.go)     *)
(* from its call, at the start of a step or where a search resumes a       *)
(* position, to its return.                                                *)
(*                                                                         *)
(* `step` is the place in the loop body: the state-based actions, the      *)
(* waiting triggered abilities, the decision of the player with priority,  *)
(* or one of the ways out.  What a card does is abstracted to what the     *)
(* loop can observe: objects put on and taken off the stack, abilities     *)
(* that trigger, and players who now meet a condition for losing.  How a   *)
(* spell is announced, paid for and reversed is left out: a reversal       *)
(* (CR 733) keeps priority and may keep the harm its irreversible mana     *)
(* abilities did to the player who activated them.                         *)
(***************************************************************************)
EXTENDS TurnOrder

CONSTANTS
  DecisionLimit,   \* requests for actions and choices Engine.DecisionLimit leaves
  MaxChoices,      \* bound: choices one placement, action or resolution asks for
  MaxStack,        \* bound: objects on the stack
  MaxTriggers      \* bound: abilities that trigger in one window

ASSUME BoundsAssumption ==
  /\ DecisionLimit \in Nat
  /\ MaxChoices \in Nat
  /\ MaxStack \in Nat
  /\ MaxTriggers \in Nat

VARIABLES
  active,      \* g.Turn.ActivePlayer
  holder,      \* g.Turn.PriorityPlayer
  out,         \* g.TurnOrder.Eliminated
  passes,      \* consecutivePasses
  stack,       \* g.Stack, bottom first: owner and controller of each object
  pending,     \* per controller, abilities triggered by events not yet read
  doomed,      \* players meeting a loss condition the last check did not see
  decisions,   \* g.Execution.Decisions since the call
  fired,       \* abilities that triggered so far, for the bound MaxTriggers
  passed,      \* history: who passed since the last action or resolution
  step

vars == <<active, holder, out, passes, stack, pending, doomed, decisions,
          fired, passed, step>>

StackObject == [owner : Player, controller : Player]
Closed == {"ended", "over", "workBudget"}
Steps  == {"stateBased", "triggers", "decide"} \union Closed

NothingPending == [p \in Player |-> 0]

\* On top of those in waiting, abilities of the players in S trigger on what just
\* happened: one for each of them, within the bound.
Trigger(waiting, S) ==
  /\ fired + Cardinality(S) <= MaxTriggers
  /\ fired' = fired + Cardinality(S)
  /\ pending' = [p \in Player |-> IF p \in S THEN waiting[p] + 1 ELSE waiting[p]]

\* countDecision: n more requests fit in the budget.
Affordable(n) == decisions + n <= DecisionLimit

\* n choices are asked for.
Choices(n) == Affordable(n) /\ decisions' = decisions + n

\* Everybody is to pass again.
NewRound_KeepsTheCount == passed' = {} /\ UNCHANGED passes
NewRound == passes' = 0 /\ passed' = {}

\* The parts of sequence s at the positions in kept, in their order.
Selections(s, kept) ==
  LET n == Cardinality(kept)
      Increasing == {f \in [1..n -> kept] : \A i, j \in 1..n : i < j => f[i] < f[j]}
  IN {[i \in 1..n |-> s[f[i]]] : f \in Increasing}

\* Whether an object stays when the players in gone have left: those they own
\* leave the game, those they only control cease to exist or are exiled.
Stays_IfOwned(obj, gone) == obj.owner \notin gone
Stays(obj, gone) == obj.owner \notin gone /\ obj.controller \notin gone

-------------------------------------------------------------------------------
\* A step starts with an empty stack and priority to the active player, who may
\* be out of the game in the turn they left; a search (Simulator.ResolvePriority)
\* resumes where a player with priority has acted.  What happened before may have
\* triggered abilities and left players about to lose.
Init ==
  /\ out \in SUBSET Player
  /\ Goldfish => out = Player \ {0}
  /\ ~IsGameOver(out)
  /\ active \in Player
  /\ \/ holder = active /\ stack = <<>>
     \/ /\ holder \in Alive(out)
        /\ stack \in UNION {[1..n -> [owner : Alive(out), controller : Alive(out)]] :
                              n \in 1..MaxStack}
  /\ passes = 0
  /\ doomed \in SUBSET Alive(out)
  /\ \E S \in SUBSET Alive(out) :
       /\ Cardinality(S) <= MaxTriggers
       /\ pending = [p \in Player |-> IF p \in S THEN 1 ELSE 0]
       /\ fired = Cardinality(S)
  /\ decisions = 0
  /\ passed = {}
  /\ step = "stateBased"

\* applyStateBasedActionsWithLog: every player who meets a loss condition
\* leaves at once; cleanupEliminatedPlayer takes their objects off the stack
\* and hands priority on.  What leaves with them may trigger abilities; what the
\* check does to permanents counts with the action that led to it.  Players
\* choose among legendary permanents and where their commanders go.
ApplyStateBasedActions ==
  /\ step = "stateBased"
  /\ \E n \in 0..MaxChoices : Choices(n)
  /\ out' = out \union doomed
  /\ doomed' = {}
  /\ stack' \in Selections(stack, {i \in 1..Len(stack) : Stays(stack[i], out')})
  /\ holder' = IF holder \in doomed THEN NextActivePlayer(holder, out') ELSE holder
  /\ \E S \in SUBSET Alive(out') : (doomed = {} => S = {}) /\ Trigger(pending, S)
  /\ step' = IF IsGameOver(out') THEN "over" ELSE "triggers"
  /\ UNCHANGED <<active, passes, passed>>

\* What waiting abilities may put on the stack: of each player still in the game
\* some of theirs, since those without a legal mode or target are dropped, in
\* APNAP order from the bottom.
Placements ==
  LET Ability(p) == [owner |-> p, controller |-> p]
      Lists == UNION {[1..n -> {Ability(p) : p \in Alive(out)}] : n \in 0..MaxStack}
      CountOf(p, q) == Cardinality({i \in DOMAIN q : q[i] = Ability(p)})
  IN {q \in Lists :
        /\ \A p \in Alive(out) : CountOf(p, q) <= pending[p]
        /\ \A i, j \in DOMAIN q :
             i < j => BeforeAPNAP(active, q[i].controller, q[j].controller)}

\* Placing anything restarts the check; otherwise a player may act.
AfterTriggers_NoRestart(anyPlaced) == "decide"
AfterTriggers(anyPlaced) == IF anyPlaced THEN "stateBased" ELSE "decide"

\* putTriggeredAbilitiesOnStackWithChoices: reads every event up to now, drops
\* the abilities of departed players and those without a legal mode or target,
\* and puts the rest on the stack in APNAP order.  Being put there, and chosen
\* as a target, may trigger more.
PutTriggersOnStack ==
  /\ step = "triggers"
  /\ \E placed \in Placements, n \in 0..MaxChoices :
       /\ Choices(n)
       /\ stack' = stack \o placed
       /\ Len(stack') <= MaxStack
       /\ \/ /\ placed = <<>>
             /\ pending' = NothingPending
             /\ UNCHANGED <<passes, passed, fired>>
          \/ /\ placed # <<>>
             /\ \E S \in SUBSET Alive(out) : Trigger(NothingPending, S)
             /\ NewRound
       /\ step' = AfterTriggers(placed # <<>>)
  /\ UNCHANGED <<active, holder, out, doomed>>

-------------------------------------------------------------------------------
\* The player with priority has left: it moves on, and the loop starts again.
SkipDeparted ==
  /\ step = "decide"
  /\ holder \in out
  /\ holder' = NextActivePlayer(holder, out)
  /\ step' = "stateBased"
  /\ UNCHANGED <<active, out, passes, stack, pending, doomed, decisions, fired, passed>>

Decides_Uncounted(n) ==
  step = "decide" /\ holder \notin out /\ UNCHANGED decisions

\* chooseAction asks a player who can act, and n choices follow.
Decides(n) ==
  /\ step = "decide"
  /\ holder \notin out
  /\ Choices(1 + n)

LastPass_OneEarly == passes + 2 >= ActivePlayerCount(out)
LastPass == passes + 1 >= ActivePlayerCount(out)

\* A pass that is not the last one hands priority on.
Pass ==
  /\ Decides(0)
  /\ ~LastPass
  /\ passes' = passes + 1
  /\ passed' = passed \union {holder}
  /\ holder' = NextActivePlayer(holder, out)
  /\ step' = "stateBased"
  /\ UNCHANGED <<active, out, stack, pending, doomed, fired>>

\* The last pass over an empty stack: runPriorityLoop returns.
EndStep ==
  /\ Decides(0)
  /\ LastPass
  /\ stack = <<>>
  /\ passes' = passes + 1
  /\ passed' = passed \union {holder}
  /\ step' = "ended"
  /\ UNCHANGED <<active, holder, out, stack, pending, doomed, fired>>

\* The effects of a resolution on the stack s below: nothing, one object is
\* countered, or one is put on top (a copy, a spell cast while resolving).
StackAfterEffects(s) ==
  {s} \union {SubSeq(s, 1, i - 1) \o SubSeq(s, i + 1, Len(s)) : i \in 1..Len(s)}
      \union {Append(s, obj) : obj \in [owner : Alive(out), controller : Alive(out)]}

\* The last pass over a stack: resolveTopOfStackWithChoices, after which the
\* active player receives priority, in the game or not.
ResolveTop ==
  /\ \E n \in 0..MaxChoices : Decides(n)
  /\ LastPass
  /\ stack # <<>>
  /\ stack' \in StackAfterEffects(SubSeq(stack, 1, Len(stack) - 1))
  /\ Len(stack') <= MaxStack
  /\ doomed' \in SUBSET Alive(out)
  /\ \E S \in SUBSET Alive(out) : Trigger(pending, S)
  /\ NewRound
  /\ holder' = active
  /\ step' = "stateBased"
  /\ UNCHANGED <<active, out>>

\* attemptActionWithChoices applied an action other than passing: a spell or
\* ability of the player is on the stack, or a land, special action or mana
\* ability is done with; its costs may trigger abilities and harm players.
Act ==
  /\ \E n \in 0..MaxChoices : Decides(n)
  /\ stack' \in {stack} \union
       {Append(stack, [owner |-> p, controller |-> holder]) : p \in Alive(out)}
  /\ Len(stack') <= MaxStack
  /\ doomed' \in SUBSET Alive(out)
  /\ \E S \in SUBSET Alive(out) : Trigger(pending, S)
  /\ NewRound
  /\ step' = "stateBased"
  /\ UNCHANGED <<active, holder, out>>

\* actionReversed: the player keeps priority and the count of passes stands.
Reverse ==
  /\ \E n \in 0..MaxChoices : Decides(n)
  /\ doomed' \in SUBSET {holder}
  /\ \E S \in SUBSET Alive(out) : Trigger(pending, S)
  /\ step' = "stateBased"
  /\ UNCHANGED <<active, holder, out, passes, stack, passed>>

\* countDecision panics with WorkBudgetError, at the request for an action or
\* at a choice that follows; the caller gives the game up.
ExhaustBudget ==
  /\ \/ step = "decide" /\ holder \notin out /\ ~Affordable(1 + MaxChoices)
     \/ step = "triggers" /\ pending # NothingPending /\ ~Affordable(MaxChoices)
     \/ step = "stateBased" /\ ~Affordable(MaxChoices)
  /\ step' = "workBudget"
  /\ UNCHANGED <<active, holder, out, passes, stack, pending, doomed,
                 decisions, fired, passed>>

Next ==
  \/ ApplyStateBasedActions
  \/ PutTriggersOnStack
  \/ SkipDeparted
  \/ Pass
  \/ EndStep
  \/ ResolveTop
  \/ Act
  \/ Reverse
  \/ ExhaustBudget

\* The loop is one goroutine and agents answer: it never stops between steps.
Spec == Init /\ [][Next]_vars /\ WF_vars(Next)

-------------------------------------------------------------------------------
TypeOK ==
  /\ active \in Player /\ holder \in Player
  /\ out \in SUBSET Player
  /\ passes \in Nat
  /\ stack \in Seq(StackObject)
  /\ pending \in [Player -> Nat]
  /\ doomed \in SUBSET Alive(out)
  /\ decisions \in 0..DecisionLimit
  /\ fired \in 0..MaxTriggers
  /\ passed \in SUBSET Player
  /\ step \in Steps

\* Everybody still in the game has passed.
RoundComplete == Alive(out) \subseteq passed

\* The counter of runPriorityLoop reaches the number of players still in the
\* game exactly when all of them have passed in succession; until then it counts
\* the living who passed, so a departure in the middle of a round never leaves
\* the pass of somebody who is gone in it.
PassesCountTheLiving ==
  step \notin Closed =>
    \/ RoundComplete /\ passes >= ActivePlayerCount(out)
    \/ passed \subseteq Alive(out) /\ passes = Cardinality(passed)

\* From the player with priority onward, whoever is still to pass sits before
\* everybody who has passed: nobody is skipped and nobody is asked twice, also
\* when players leave in the middle of a round.
RoundInTurnOrder ==
  step \in Steps \ Closed =>
    \A q \in passed, r \in Alive(out) \ passed : Ahead(holder, r) < Ahead(holder, q)

\* CR 117.5: a player is asked to act only in a game without players about to
\* lose and without triggered abilities waiting.
AsksInASettledGame ==
  step = "decide" => doomed = {} /\ pending = NothingPending

\* CR 800.4a: once a check is through, no departed player owns or controls
\* anything on the stack.
NoDepartedOnStack ==
  \A i \in 1..Len(stack) :
    stack[i].owner \notin out /\ stack[i].controller \notin out

\* A step ends only after everybody passed with nothing left to do: an empty
\* stack, no ability waiting, nobody about to lose.
EndsQuietly ==
  step = "ended" =>
    /\ RoundComplete
    /\ stack = <<>> /\ pending = NothingPending /\ doomed = {}

\* CR 117.5 and 500.2: from the first request to the end of the step nothing that
\* a check would have to do is left over when somebody is asked, or when all is done.
SettledThroughout == AsksInASettledGame /\ EndsQuietly

\* What a check finds lost has not passed in this round, unless the round is
\* complete; and no loss is left over when triggered abilities are placed.
LosersAreStillToPass ==
  /\ step \notin Closed => RoundComplete \/ doomed \intersect passed = {}
  /\ step = "triggers" => doomed = {}

\* The inductive invariant of the safety proofs.
Inv ==
  /\ TypeOK
  /\ PassesCountTheLiving
  /\ RoundInTurnOrder
  /\ LosersAreStillToPass
  /\ AsksInASettledGame
  /\ NoDepartedOnStack
  /\ EndsQuietly

\* Whatever the agents do, the window closes: the budget of decisions runs out
\* where passing does not.
Closes == <>(step \in Closed)

\* runPriorityLoop keeps the promise of CR 117.4.
Round == INSTANCE PassRound WITH
           Seats  <- Player,
           alive  <- Alive(out),
           toPass <- Alive(out) \ passed,
           stage  <- IF step \in Closed THEN step ELSE "open"

ImplementsPassRound == Round!Spec
=============================================================================
