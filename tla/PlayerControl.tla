---------------------------- MODULE PlayerControl ----------------------------
(***************************************************************************)
(* Who decides for a player: the one-turn control effects of               *)
(* mtg/game/player_control.go ("you control target player during their     *)
(* next turn"), the control of library searches of                         *)
(* mtg/rules/search_control.go, and the decision maker that the engine     *)
(* asks, found by following both from player to player.                    *)
(*                                                                         *)
(* Which player the next turn goes to is left open, since extra and        *)
(* skipped turns may give it to anybody still in the game.                 *)
(***************************************************************************)
EXTENDS TurnOrder

CONSTANTS
  MaxTurns,     \* bound: turns played
  MaxEffects,   \* bound: control effects created
  MaxScopes     \* bound: searches one inside the other

ASSUME BoundsAssumption ==
  /\ MaxTurns \in Nat
  /\ MaxEffects \in Nat
  /\ MaxScopes \in Nat

VARIABLES
  out,       \* g.TurnOrder.Eliminated and Player.Eliminated
  active,    \* g.Turn.ActivePlayer
  turn,      \* g.Turn.TurnNumber
  started,   \* whether runTurn has begun the turn advanceToNextTurn set up
  effects,   \* g.PlayerControlEffects; their order never matters, their id does
  scopes,    \* g.SearchControlScopes, outermost first
  created    \* g.IDGen: effects created so far, which is the id of the newest

vars == <<out, active, turn, started, effects, scopes, created>>

\* `turn` is zero while the effect waits for the player's next turn.
PlayerControlEffect ==
  [id : 1..MaxEffects, controller : Player, player : Player,
   createdTurn : Nat, turn : Nat]

SearchControlScope == [player : Player, controller : Player, override : BOOLEAN]

Pending(p) == {e \in effects : e.player = p /\ e.turn = 0}

\* The effects that apply to p in the turn in progress.
InForce(p) ==
  {e \in effects : e.player = p /\ e.turn = turn /\ e.turn > 0 /\ e.controller \notin out}

-------------------------------------------------------------------------------
\* The newest effect of a non-empty set.
Newest(S) == CHOOSE e \in S : \A f \in S : f.id <= e.id

\* The scopes that hand the searches of p to a player still in the game.
Overrides(p) ==
  {i \in DOMAIN scopes :
     scopes[i].override /\ scopes[i].player = p /\ scopes[i].controller \notin out}

ImmediateDecisionController_DeadToo(p) ==
  LET applying == {e \in effects : e.player = p /\ e.turn = turn}
      searches == {i \in DOMAIN scopes : scopes[i].player = p}
  IN IF searches # {}
     THEN scopes[CHOOSE i \in searches : \A j \in searches : j <= i].controller
     ELSE IF applying # {} THEN Newest(applying).controller ELSE p

\* immediateDecisionController: the innermost search that somebody else
\* controls, else the newest effect on the turn in progress, else the player.
ImmediateDecisionController(p) ==
  IF Overrides(p) # {}
  THEN scopes[CHOOSE i \in Overrides(p) : \A j \in Overrides(p) : j <= i].controller
  ELSE IF InForce(p) # {} THEN Newest(InForce(p)).controller ELSE p

\* DecisionMaker of a rules decision: controllers may themselves be controlled;
\* a chain that comes back to a player it has passed leaves p to decide.
DecisionMaker(p) ==
  LET follow[at \in (SUBSET Player) \X Player] ==
        LET seen == at[1]
            q    == at[2]
            next == ImmediateDecisionController(q)
        IN IF q \in seen THEN p
           ELSE IF next = q THEN q ELSE follow[<<seen \union {q}, next>>]
  IN IF p \in out THEN p ELSE follow[<<{}, p>>]

\* CanSeePlayerInformation: whoever the chain of control passes through sees
\* what p sees.
CanSeePlayerInformation(viewer, p) ==
  LET meets[at \in (SUBSET Player) \X Player] ==
        LET seen == at[1]
            q    == at[2]
            next == ImmediateDecisionController(q)
        IN IF q \in seen THEN FALSE
           ELSE IF next = viewer THEN TRUE ELSE meets[<<seen \union {q}, next>>]
  IN viewer = p \/ ({viewer, p} \intersect out = {} /\ meets[<<{}, p>>])

-------------------------------------------------------------------------------
\* NewGame: the first seat's turn, nobody controlled; players may have lost
\* before it begins, that seat's too.
Init ==
  /\ out \in SUBSET Player
  /\ Goldfish => Player \ {0} \subseteq out
  /\ ~IsGameOver(out)
  /\ active = 0
  /\ turn = 1
  /\ started = FALSE
  /\ effects = {}
  /\ scopes = <<>>
  /\ created = 0

Supersedes_OnlyOwn(new, old) ==
  old.player = new.player /\ old.turn = 0 /\ old.controller = new.controller

\* SchedulePlayerControlEffect: a pending effect on the same player gives way
\* to a new one; one that applies already is not touched.
Supersedes(new, old) == old.player = new.player /\ old.turn = 0

\* ControlNextTurn: c's effect resolves for the next turn of p.
ControlNextTurn(c, p) ==
  /\ started /\ ~IsGameOver(out)
  /\ {c, p} \intersect out = {}
  /\ created < MaxEffects
  /\ created' = created + 1
  /\ LET new == [id |-> created', controller |-> c, player |-> p,
                 createdTurn |-> turn, turn |-> 0]
     IN effects' = {e \in effects : ~Supersedes(new, e)} \union {new}
  /\ UNCHANGED <<out, active, turn, started, scopes>>

\* beginSearchControl: p searches their library; c, when not p, is the player
\* resolveSearchControl found to control the search.
BeginSearch(p, c) ==
  /\ started /\ ~IsGameOver(out)
  /\ {c, p} \intersect out = {}
  /\ Len(scopes) < MaxScopes
  /\ scopes' = Append(scopes, [player |-> p, controller |-> c, override |-> p # c])
  /\ UNCHANGED <<out, active, turn, started, effects, created>>

\* The innermost search is over.
EndSearch ==
  /\ scopes # <<>>
  /\ scopes' = SubSeq(scopes, 1, Len(scopes) - 1)
  /\ UNCHANGED <<out, active, turn, started, effects, created>>

\* EndPlayerControls for everybody in gone: their effects and those on them
\* end, and searches they take part in are no longer controlled.
EffectsWithout(gone) == {e \in effects : {e.player, e.controller} \intersect gone = {}}

ScopesWithout(gone) ==
  [i \in DOMAIN scopes |->
     IF {scopes[i].player, scopes[i].controller} \intersect gone = {}
     THEN scopes[i] ELSE [scopes[i] EXCEPT !.override = FALSE]]

\* Players lose or concede, at any moment: cleanupEliminatedPlayer ends the
\* controls of all who have left so far.
Leave(losers) ==
  /\ started /\ ~IsGameOver(out)
  /\ losers # {} /\ losers \subseteq Alive(out)
  /\ out' = out \union losers
  /\ effects' = EffectsWithout(out')
  /\ scopes' = ScopesWithout(out')
  /\ UNCHANGED <<active, turn, started, created>>

BegunEffects_ThisTurnToo(p, t) ==
  LET current  == {e \in effects : {e.player, e.controller} \intersect out = {} /\ e.turn = 0}
      consumed == {e \in current : e.player = p /\ e.createdTurn < t}
  IN IF consumed = {} THEN current
     ELSE (current \ consumed) \union {[Newest(consumed) EXCEPT !.turn = t]}

\* BeginPlayerControlTurn in turn t of player p: effects of players who have
\* left and those of past turns are dropped, those waiting for this turn are
\* used up, and the newest of them applies.
BegunEffects(p, t) ==
  LET current  == {e \in effects : {e.player, e.controller} \intersect out = {} /\ e.turn \in {0, t}}
      consumed == {e \in current : e.turn = 0 /\ e.player = p /\ e.createdTurn < t}
  IN IF consumed = {} THEN current
     ELSE (current \ consumed) \union {[Newest(consumed) EXCEPT !.turn = t]}

\* advanceToNextTurn gives the next turn to p.
AdvanceToNextTurn(p) ==
  /\ started /\ ~IsGameOver(out)
  /\ scopes = <<>>
  /\ p \in Alive(out)
  /\ turn < MaxTurns
  /\ turn' = turn + 1
  /\ active' = p
  /\ started' = FALSE
  /\ effects' = BegunEffects(p, turn')
  /\ UNCHANGED <<out, scopes, created>>

\* runTurn begins the turn once more before it plays it.
RunTurn ==
  /\ ~started
  /\ started' = TRUE
  /\ effects' = BegunEffects(active, turn)
  /\ UNCHANGED <<out, active, turn, scopes, created>>

Next ==
  \/ \E c, p \in Player : ControlNextTurn(c, p) \/ BeginSearch(p, c)
  \/ EndSearch
  \/ \E losers \in SUBSET Player : Leave(losers)
  \/ \E p \in Player : AdvanceToNextTurn(p)
  \/ RunTurn

Spec == Init /\ [][Next]_vars

-------------------------------------------------------------------------------
TypeOK ==
  /\ out \in SUBSET Player
  /\ active \in Player
  /\ turn \in 1..(MaxTurns + 1)
  /\ started \in BOOLEAN
  /\ effects \in SUBSET PlayerControlEffect
  /\ scopes \in Seq(SearchControlScope)
  /\ created \in 0..MaxEffects

\* CR 723.1a: of the effects waiting for one player's next turn only the last
\* is left, and only one applies to a turn, to that of the active player.
\* Nothing that waited for a turn waits on when it has begun.
OneClaimPerTurn ==
  /\ \A e, f \in effects : e.player = f.player /\ e.turn = f.turn => e = f
  /\ \A e \in effects : e.turn # 0 => e.turn = turn /\ e.player = active
  /\ \A e \in Pending(active) : e.createdTurn = turn
  /\ \A e \in effects : e.createdTurn <= turn

\* The effects that exist are of players still in the game.
EffectsOfTheLiving ==
  \A e \in effects : {e.player, e.controller} \intersect out = {}

\* The inductive invariant of the proofs.
Inv == TypeOK /\ OneClaimPerTurn /\ EffectsOfTheLiving

\* A decision goes to a player still in the game, who sees all that the player
\* they decide for sees, and who decides for themselves: whatever chains and
\* circles of control turns and searches make, nobody who is gone is asked,
\* nobody decides blindly and no decision is handed on twice.
DecisionsReachThePlayers ==
  \A p \in Alive(out) :
    LET d == DecisionMaker(p)
    IN d \notin out /\ CanSeePlayerInformation(d, p) /\ DecisionMaker(d) = d

\* The comment of BeginPlayerControlTurn: repeated calls in the same turn are
\* inert, so it does not matter that both advanceToNextTurn and runTurn call it.
RepeatedBeginIsInert == [][started' /\ ~started => effects' = effects]_vars

Nobody == NumPlayers

\* The controller of the one effect in S, if there is one.
ControllerOf(S) == IF S = {} THEN Nobody ELSE (CHOOSE e \in S : TRUE).controller

\* Who is to control the next turn of p, and who controls the turn in progress.
ClaimOn(p) == ControllerOf(Pending(p))

Applying == {e \in effects : e.player = active /\ e.turn = turn}

Ruler == ControllerOf(Applying)

\* The list of effects keeps the promise of one claim per turn, the latest.
Promise == INSTANCE NextTurnControl WITH
             Seats  <- Player,
             alive  <- Alive(out),
             whose  <- active,
             claim  <- [p \in Player |-> ClaimOn(p)],
             ruler  <- Ruler

KeepsTheClaims == Promise!Spec
=============================================================================
