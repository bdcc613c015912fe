--------------------------- MODULE PaymentRollback ---------------------------
(***************************************************************************)
(* While paying a cost a player may activate mana abilities (CR 601.2g).   *)
(* If the cost then goes unpaid they are reversed, except those that moved *)
(* or shuffled cards of a library (CR 733.1).  The engine takes a          *)
(* checkpoint before each activation and can only go back to one, so it    *)
(* goes back past what cannot be reversed and activates that again,        *)
(* hoping for the same result; the random stream is not rewound.           *)
(***************************************************************************)
EXTENDS Integers, Sequences, FiniteSets, FiniteSetsExt

CONSTANTS
  Source,   \* mana abilities, each activated at most once in a payment
  Cost,     \* Cost[s]: mana an activation of s spends
  Makes,    \* Makes[s]: mana it makes
  Moves,    \* Moves[s]: "none", "mill" (the top card), or "shuffle"
  Needs,    \* Needs[s]: sources without which s cannot be activated
  Boosts,   \* sources that make every later activation produce one more
  Cards,    \* of the library
  Floating  \* how much mana may be in the pool before

ASSUME SourcesAssumption ==
  /\ Cost \in [Source -> Nat] /\ Makes \in [Source -> Nat]
  /\ Moves \in [Source -> {"none", "mill", "shuffle"}]
  /\ Needs \in [Source -> SUBSET Source]
  /\ Boosts \subseteq Source /\ Floating \subseteq Nat
  /\ IsFiniteSet(Boosts) /\ IsFiniteSet(Cards)

VARIABLES
  game,    \* what a checkpoint holds: sources used, the pool and the library
  steps,   \* manaPaymentStep of each activation, in order
  stage,   \* "window", "undone" or "paid"
  start    \* history: the game before the payment

PRvars == <<game, steps, stage, start>>

Orders == {l \in [1..Cardinality(Cards) -> Cards] : \A c \in Cards : \E i \in DOMAIN l : l[i] = c}
Shuffled(library) ==
  {l \in [DOMAIN library -> {library[i] : i \in DOMAIN library}] :
     \A i, j \in DOMAIN library : i # j => l[i] # l[j]}

PRInit ==
  /\ game \in [used : {{}}, pool : Floating, library : Orders]
  /\ steps = <<>>
  /\ stage = "window"
  /\ start = game

\* legalManaAbilityActions
Legal(g, s) == s \notin g.used /\ Needs[s] \subseteq g.used /\ Cost[s] <= g.pool

Amount(g, s) == Makes[s] + Cardinality(g.used \intersect Boosts)

\* What becomes of the game when s is activated; a shuffle is random.
Activated(g, s) ==
  {[used |-> g.used \union {s}, pool |-> g.pool - Cost[s] + Amount(g, s), library |-> l] :
     l \in CASE Moves[s] = "shuffle" -> Shuffled(g.library)
             [] Moves[s] = "mill" /\ g.library # <<>> -> {Tail(g.library)}
             [] OTHER -> {g.library}}

\* replayableManaEvents: the mana made and the card moved, not the order of a
\* shuffled library.
Events(g, s) ==
  [source |-> s, amount |-> Amount(g, s),
   moved |-> IF Moves[s] = "mill" /\ g.library # <<>> THEN <<Head(g.library)>> ELSE <<>>]

\* manaActivationIsReversible: a shuffle counts whatever the order after it.
Reversible(g, s) == Moves[s] = "none" \/ (Moves[s] = "mill" /\ g.library = <<>>)

\* One turn of the window of activateManualPaymentManaAbilities.
ActivateManaAbility(s) ==
  /\ stage = "window"
  /\ Legal(game, s)
  /\ game' \in Activated(game, s)
  /\ steps' = Append(steps,
       [before |-> game, source |-> s, reversible |-> Reversible(game, s),
        spentMana |-> Cost[s] > 0, events |-> Events(game, s)])
  /\ UNCHANGED <<stage, start>>

Irreversible == {i \in DOMAIN steps : ~steps[i].reversible}
Last == Max(Irreversible \union {0})

Pinned == Max({i \in Irreversible : steps[i].spentMana} \union {0})

\* The first activation to reverse.
First == Min({i \in DOMAIN steps : i > Pinned /\ steps[i].reversible} \union {Len(steps) + 1})

\* Where the game is when the activations after the last irreversible one have
\* been reversed.
AfterLast_AsIs == game
AfterLast == IF Last < Len(steps) THEN steps[Last + 1].before ELSE game

\* repeatIrreversibleManaSteps: whether a repeated activation is like the first.
SameEvents_Assumed(g, s, events) == TRUE
SameEvents(g, s, events) == Events(g, s) = events

\* g is a game in which the activation of step k happens again as it did.
Repeats(g, k) == Legal(g, steps[k].source) /\ SameEvents(g, steps[k].source, steps[k].events)

\* The games there can be when the irreversible activations among First..k have
\* been repeated.
Repeated ==
  LET after[k \in 0..Last] ==
        IF k < First THEN {steps[First].before}
        ELSE IF steps[k].reversible THEN after[k - 1]
        ELSE UNION {Activated(g, steps[k].source) : g \in {h \in after[k - 1] : Repeats(h, k)}}
  IN after

\* The ways a repeat can go wrong: an activation is no longer legal or does
\* something else, or a library has ended differently.
SameLibrary_Unchecked(g) == TRUE
SameLibrary(g) == g.library = AfterLast.library
MayFail ==
  \/ \E k \in {i \in Irreversible : i >= First} : \E g \in Repeated[k - 1] : ~Repeats(g, k)
  \/ \E g \in Repeated[Last] : ~SameLibrary(g)

\* undoManualPaymentMana, when the cost goes unpaid.
UndoManualPaymentMana ==
  /\ stage = "window"
  /\ stage' = "undone"
  /\ \/ First > Len(steps) /\ game' = game
     \/ First <= Len(steps) /\ Last < First /\ game' = steps[First].before
     \/ First <= Len(steps) /\ Last > First /\ game' \in {g \in Repeated[Last] : SameLibrary(g)}
     \/ First <= Len(steps) /\ Last > First /\ MayFail /\ game' = AfterLast
  /\ UNCHANGED <<steps, start>>

\* The cost is paid with what is in the pool.
Pay ==
  /\ stage = "window"
  /\ game.pool > 0
  /\ stage' = "paid"
  /\ game' = [game EXCEPT !.pool = @ - 1]
  /\ UNCHANGED <<steps, start>>

PRNext ==
  \/ \E s \in Source : ActivateManaAbility(s)
  \/ UndoManualPaymentMana
  \/ Pay

PRSpec == PRInit /\ [][PRNext]_PRvars

-------------------------------------------------------------------------------
Games == [used : SUBSET Source, pool : Nat, library : Seq(Cards)]

PaymentStep ==
  [before : Games, source : Source, reversible : BOOLEAN, spentMana : BOOLEAN,
   events : [source : Source, amount : Nat, moved : Seq(Cards)]]

PRTypeOK ==
  /\ game \in Games /\ start \in Games
  /\ stage \in {"window", "undone", "paid"}
  /\ steps \in Seq(PaymentStep)

\* Which activations are left when a payment has been undone.
Kept == {i \in DOMAIN steps : steps[i].source \in game.used}

\* CR 733.1: undoing a payment leaves every library as it is, and the activations
\* that moved or shuffled cards, in whatever order reversing goes back and forth.
LibrariesStand ==
  [][stage' = "undone" => game'.library = game.library /\ (Irreversible \subseteq Kept)']_PRvars

\* What a pool holds after those of the activations made that are kept: what they
\* made when they were first activated, less what they cost.
Balance(pool, made, kept) ==
  LET after[k \in 0..Len(made)] ==
        IF k = 0 THEN pool
        ELSE after[k - 1] + (IF k \in kept THEN made[k].events.amount - Cost[made[k].source] ELSE 0)
  IN after[Len(made)]

\* Nobody gains or owes mana when a payment is undone.
PoolBalances == stage = "undone" => game.pool = Balance(start.pool, steps, Kept)

\* What an irreversible activation spent may have come from any before it: all of
\* those stay.  Nothing else that can be reversed does: never what came after the
\* last irreversible activation, and something before it only if all of it does.
ReversibleIsUndone ==
  stage = "undone" =>
    /\ \A i \in Irreversible : steps[i].spentMana => 1..i \subseteq Kept
    /\ \A i \in Kept : i <= Last \/ ~steps[i].reversible
    /\ \/ \A i \in Kept : i <= Pinned \/ ~steps[i].reversible
       \/ Kept = 1..Last

\* The game before activation k, and after all of them.
GameAt(k) == IF k <= Len(steps) THEN steps[k].before ELSE game

\* The checkpoints of a window lead from one activation to the next, and since
\* the last irreversible activation no library has changed.
Chained ==
  /\ GameAt(1) = start
  /\ \A k \in DOMAIN steps :
       /\ Legal(GameAt(k), steps[k].source)
       /\ GameAt(k + 1) \in Activated(GameAt(k), steps[k].source)
       /\ steps[k].reversible = Reversible(GameAt(k), steps[k].source)
       /\ steps[k].spentMana = (Cost[steps[k].source] > 0)
       /\ steps[k].events = Events(GameAt(k), steps[k].source)
  /\ \A k \in 1..(Len(steps) + 1) :
       /\ GameAt(k).used = {steps[i].source : i \in 1..(k - 1)}
       /\ (\A i \in k..Len(steps) : steps[i].reversible) => GameAt(k).library = game.library

\* The inductive invariant of the proofs.
PRInv == PRTypeOK /\ (stage = "window" => Chained) /\ PoolBalances /\ ReversibleIsUndone
=============================================================================
