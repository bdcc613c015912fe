------------------------- MODULE PlayerControlProofs -------------------------
(***************************************************************************)
(* One claim per turn, for every number of seats, turns and effects: the   *)
(* invariant Inv of PlayerControl, and from it that the second call of     *)
(* BeginPlayerControlTurn changes nothing, that the list of effects        *)
(* implements NextTurnControl, and that every decision reaches a player    *)
(* still in the game.                                                      *)
(***************************************************************************)
EXTENDS PlayerControl, TurnOrderProofs

\* Effects that are kept were there, and one claim stays one claim: any part of
\* the list keeps the invariant's statements about it.
LEMMA PartsKeepOneClaim ==
  ASSUME Inv, NEW S \in SUBSET effects
  PROVE  /\ S \in SUBSET PlayerControlEffect
         /\ \A e, f \in S : e.player = f.player /\ e.turn = f.turn => e = f
         /\ \A e \in S : e.turn # 0 => e.turn = turn /\ e.player = active
         /\ \A e \in S : e.createdTurn <= turn
  BY DEF Inv, TypeOK, OneClaimPerTurn

\* Of the effects that wait for a player's turn there is one at most.
LEMMA OnePending ==
  ASSUME Inv, NEW p \in Player, NEW e \in Pending(p)
  PROVE  Pending(p) = {e}
  BY DEF Inv, OneClaimPerTurn, Pending

\* So is there of those that apply to the turn in progress.
LEMMA OneApplies ==
  ASSUME Inv, NEW e \in Applying
  PROVE  Applying = {e}
  BY DEF Inv, OneClaimPerTurn, Applying

\* When a turn of p begins, the one effect that waited for it applies to it.
LEMMA ClaimIsUsedUp ==
  ASSUME Inv, NEW p \in Player, NEW e \in Pending(p)
  PROVE  BegunEffects(p, turn + 1) =
           {f \in effects : f.turn = 0 /\ f.player # p} \union {[e EXCEPT !.turn = turn + 1]}
  <1> DEFINE t == turn + 1
             current  == {f \in effects : {f.player, f.controller} \intersect out = {} /\ f.turn \in {0, t}}
             consumed == {f \in current : f.turn = 0 /\ f.player = p /\ f.createdTurn < t}
  <1>1. turn \in Nat /\ \A f \in effects : f.createdTurn \in Nat /\ f.turn \in Nat
    BY DEF Inv, TypeOK, PlayerControlEffect
  <1>2. \A f \in effects : f.createdTurn <= turn /\ f.turn # t
    BY <1>1 DEF Inv, OneClaimPerTurn
  <1>3. current = {f \in effects : f.turn = 0}
    BY <1>2 DEF Inv, EffectsOfTheLiving
  <1>4. \A f \in effects : f.createdTurn < t
    BY <1>1, <1>2
  <1>5. consumed = Pending(p)
    BY <1>3, <1>4 DEF Pending
  <1>6. consumed = {e}
    BY <1>5, OnePending
  <1>7. Newest(consumed) = e
    <2>1. e.id <= e.id
      BY DEF Pending, Inv, TypeOK, PlayerControlEffect
    <2> QED BY <1>6, <2>1 DEF Newest
  <1>8. BegunEffects(p, t) = (current \ consumed) \union {[e EXCEPT !.turn = t]}
    BY <1>6, <1>7 DEF BegunEffects
  <1>9. current \ consumed = {f \in effects : f.turn = 0 /\ f.player # p}
    BY <1>3, <1>5 DEF Pending
  <1> QED BY <1>8, <1>9

\* When nothing waits for p's turn, it begins uncontrolled.
LEMMA NothingToUse ==
  ASSUME Inv, NEW p \in Player, Pending(p) = {}
  PROVE  BegunEffects(p, turn + 1) = {f \in effects : f.turn = 0}
  <1>1. turn \in Nat /\ \A f \in effects : f.turn \in Nat
    BY DEF Inv, TypeOK, PlayerControlEffect
  <1>2. \A f \in effects : f.turn # turn + 1
    BY <1>1 DEF Inv, OneClaimPerTurn
  <1> QED BY <1>2 DEF BegunEffects, Inv, EffectsOfTheLiving, Pending

\* The second call in a turn finds nothing to do.
LEMMA SecondBegin ==
  ASSUME Inv
  PROVE  BegunEffects(active, turn) = effects
  <1>1. turn \in Nat /\ \A f \in effects : f.turn \in Nat /\ f.createdTurn \in Nat
    BY DEF Inv, TypeOK, PlayerControlEffect
  <1>2. \A f \in effects : f.turn \in {0, turn}
    BY DEF Inv, OneClaimPerTurn
  <1>3. \A f \in effects : ~(f.turn = 0 /\ f.player = active /\ f.createdTurn < turn)
    BY <1>1 DEF Inv, OneClaimPerTurn, Pending
  <1> QED BY <1>2, <1>3 DEF BegunEffects, Inv, EffectsOfTheLiving

-------------------------------------------------------------------------------
LEMMA InvInit == ASSUME Init PROVE Inv
  <1>1. TypeOK
    <2>1. MaxTurns \in Nat /\ MaxEffects \in Nat
      BY BoundsAssumption
    <2>2. turn \in 1..(MaxTurns + 1) /\ created \in 0..MaxEffects
      BY <2>1 DEF Init
    <2>3. scopes \in Seq(SearchControlScope)
      BY DEF Init
    <2>4. out \in SUBSET Player /\ active \in Player /\ started \in BOOLEAN
      <3>1. 0 \in Player
        BY NumPlayersAssumption DEF Player
      <3> QED BY <3>1 DEF Init
    <2>5. effects \in SUBSET PlayerControlEffect
      BY DEF Init
    <2> QED BY <2>2, <2>3, <2>4, <2>5 DEF TypeOK
  <1>2. OneClaimPerTurn /\ EffectsOfTheLiving
    BY DEF Init, OneClaimPerTurn, EffectsOfTheLiving, Pending
  <1> QED BY <1>1, <1>2 DEF Inv

\* Scheduling removes what waited for the same turn before it adds an effect.
LEMMA SchedulingKeepsInv ==
  ASSUME Inv, NEW c \in Player, NEW p \in Player, ControlNextTurn(c, p)
  PROVE  Inv'
  <1> DEFINE new  == [id |-> created', controller |-> c, player |-> p,
                      createdTurn |-> turn, turn |-> 0]
             kept == {e \in effects : ~Supersedes(new, e)}
  <1>1. effects' = kept \union {new} /\ UNCHANGED <<out, active, turn, started, scopes>>
    BY DEF ControlNextTurn
  <1>2. created \in 0..MaxEffects /\ turn \in 1..(MaxTurns + 1) /\ turn \in Nat /\ MaxEffects \in Nat
    BY BoundsAssumption DEF Inv, TypeOK
  <1>3. created' = created + 1 /\ created < MaxEffects
    BY DEF ControlNextTurn
  <1>4. created' \in 1..MaxEffects /\ created' \in 0..MaxEffects
    BY <1>2, <1>3
  <1>5. new \in PlayerControlEffect
    BY <1>2, <1>4 DEF PlayerControlEffect
  <1>6. TypeOK'
    BY <1>1, <1>4, <1>5 DEF Inv, TypeOK
  <1>7. \A e \in kept : ~(e.player = p /\ e.turn = 0)
    BY DEF Supersedes
  <1>8. OneClaimPerTurn'
    <2>1. \A e, f \in effects' : e.player = f.player /\ e.turn = f.turn => e = f
      BY <1>1, <1>7, PartsKeepOneClaim
    <2>2. \A e \in effects' : e.turn # 0 => e.turn = turn' /\ e.player = active'
      BY <1>1, PartsKeepOneClaim
    <2>3. \A e \in Pending(active)' : e.createdTurn = turn'
      BY <1>1 DEF Pending, Inv, OneClaimPerTurn
    <2>4. \A e \in effects' : e.createdTurn <= turn'
      BY <1>1, <1>2, PartsKeepOneClaim
    <2> QED BY <2>1, <2>2, <2>3, <2>4 DEF OneClaimPerTurn
  <1>9. EffectsOfTheLiving'
    <2>1. {c, p} \intersect out = {}
      BY DEF ControlNextTurn
    <2> QED BY <1>1, <2>1 DEF Inv, EffectsOfTheLiving
  <1> QED BY <1>6, <1>8, <1>9 DEF Inv

\* Searches concern no effect.
LEMMA SearchesKeepInv ==
  ASSUME Inv, NEW c \in Player, NEW p \in Player, BeginSearch(p, c) \/ EndSearch
  PROVE  Inv'
  <1>1. UNCHANGED <<out, active, turn, started, effects, created>>
    BY DEF BeginSearch, EndSearch
  <1>2. scopes' \in Seq(SearchControlScope)
    <2>1. CASE BeginSearch(p, c)
      <3>1. [player |-> p, controller |-> c, override |-> p # c] \in SearchControlScope
        BY DEF SearchControlScope
      <3> QED BY <2>1, <3>1 DEF BeginSearch, Inv, TypeOK
    <2>2. CASE EndSearch
      <3>1. scopes \in Seq(SearchControlScope) /\ scopes # <<>>
        BY <2>2 DEF EndSearch, Inv, TypeOK
      <3>2. SubSeq(scopes, 1, Len(scopes) - 1) \in Seq(SearchControlScope)
        BY <3>1
      <3> QED BY <2>2, <3>2 DEF EndSearch
    <2> QED BY <2>1, <2>2
  <1>3. TypeOK'
    BY <1>1, <1>2 DEF Inv, TypeOK
  <1> QED BY <1>1, <1>3 DEF Inv, OneClaimPerTurn, EffectsOfTheLiving, Pending

\* What a departure leaves is a part of the list, of the living.
LEMMA DeparturesKeepInv ==
  ASSUME Inv, NEW losers \in SUBSET Player, Leave(losers)
  PROVE  Inv'
  <1>1. /\ out' = out \union losers
        /\ effects' = {e \in effects : {e.player, e.controller} \intersect out' = {}}
        /\ UNCHANGED <<active, turn, started, created>>
    BY DEF Leave, EffectsWithout
  <1>2. effects' \in SUBSET effects
    BY <1>1
  <1>3. scopes' \in Seq(SearchControlScope)
    <2>1. scopes \in Seq(SearchControlScope) /\ scopes' = ScopesWithout(out')
      BY DEF Leave, Inv, TypeOK
    <2>2. \A i \in DOMAIN scopes :
            scopes[i] \in SearchControlScope /\ [scopes[i] EXCEPT !.override = FALSE] \in SearchControlScope
      <3>1. \A r \in SearchControlScope : [r EXCEPT !.override = FALSE] \in SearchControlScope
        BY DEF SearchControlScope
      <3>2. \A i \in DOMAIN scopes : scopes[i] \in SearchControlScope
        BY <2>1
      <3> QED BY <3>1, <3>2
    <2>3. Len(scopes) \in Nat /\ DOMAIN scopes = 1..Len(scopes)
      BY <2>1
    <2>4. ScopesWithout(out') \in [1..Len(scopes) -> SearchControlScope]
      BY <2>2, <2>3 DEF ScopesWithout
    <2> QED BY <2>1, <2>3, <2>4
  <1>4. TypeOK'
    BY <1>1, <1>2, <1>3 DEF Inv, TypeOK
  <1>5. OneClaimPerTurn'
    BY <1>1, <1>2, PartsKeepOneClaim DEF OneClaimPerTurn, Pending, Inv
  <1>6. EffectsOfTheLiving'
    BY <1>1 DEF EffectsOfTheLiving
  <1> QED BY <1>4, <1>5, <1>6 DEF Inv

\* The next turn keeps what waits for others and turns what waited for it into
\* the one effect that applies.
LEMMA NextTurnKeepsInv ==
  ASSUME Inv, NEW p \in Player, AdvanceToNextTurn(p)
  PROVE  Inv'
  <1>1. /\ turn' = turn + 1 /\ active' = p /\ started' = FALSE
        /\ turn < MaxTurns /\ UNCHANGED <<out, scopes, created>>
        /\ effects' = BegunEffects(p, turn + 1)
    BY DEF AdvanceToNextTurn
  <1>2. turn \in 1..(MaxTurns + 1) /\ MaxTurns \in Nat
    BY BoundsAssumption DEF Inv, TypeOK
  <1>3. turn' \in 1..(MaxTurns + 1) /\ turn + 1 \in Nat /\ turn + 1 # 0 /\ turn <= turn + 1
    BY <1>1, <1>2
  <1>4. \A e \in effects : e.createdTurn \in Nat /\ e.createdTurn <= turn
    BY DEF Inv, TypeOK, OneClaimPerTurn, PlayerControlEffect
  <1>5. CASE Pending(p) = {}
    <2>1. effects' = {f \in effects : f.turn = 0}
      BY <1>1, <1>5, NothingToUse
    <2>2. TypeOK'
      BY <1>1, <1>3, <2>1 DEF Inv, TypeOK
    <2>3. Pending(active)' = {}
      BY <1>1, <1>5, <2>1 DEF Pending
    <2>4. \A e \in effects' : e.createdTurn <= turn'
      BY <1>1, <1>2, <1>4, <2>1
    <2>5. OneClaimPerTurn'
      BY <2>1, <2>3, <2>4, PartsKeepOneClaim DEF OneClaimPerTurn
    <2> QED BY <1>1, <2>1, <2>2, <2>5 DEF Inv, EffectsOfTheLiving
  <1>6. CASE Pending(p) # {}
    <2>1. PICK e \in Pending(p) : TRUE
      BY <1>6
    <2> DEFINE used == [e EXCEPT !.turn = turn + 1]
               kept == {f \in effects : f.turn = 0 /\ f.player # p}
    <2>2. effects' = kept \union {used}
      BY <1>1, ClaimIsUsedUp
    <2>3. e \in effects /\ e \in PlayerControlEffect /\ e.player = p
      BY DEF Pending, Inv, TypeOK
    <2>4. /\ used \in PlayerControlEffect /\ used.turn = turn + 1 /\ used.player = p
          /\ used.controller = e.controller /\ used.createdTurn = e.createdTurn
      BY <1>3, <2>3 DEF PlayerControlEffect
    <2>5. TypeOK'
      BY <1>1, <1>3, <2>2, <2>4 DEF Inv, TypeOK
    <2>6. OneClaimPerTurn'
      <3> HIDE DEF used
      <3>1. \A d, f \in effects' : d.player = f.player /\ d.turn = f.turn => d = f
        BY <2>2, <2>4, PartsKeepOneClaim
      <3>2. \A f \in effects' : f.turn # 0 => f.turn = turn' /\ f.player = active'
        BY <1>1, <2>2, <2>4
      <3>3. Pending(active)' = {}
        BY <1>1, <1>3, <2>2, <2>4 DEF Pending
      <3>4. \A f \in effects' : f.createdTurn <= turn'
        BY <1>1, <1>2, <1>4, <2>2, <2>3, <2>4
      <3> QED BY <3>1, <3>2, <3>3, <3>4 DEF OneClaimPerTurn
    <2>7. EffectsOfTheLiving'
      <3> HIDE DEF used
      <3> QED BY <1>1, <2>2, <2>3, <2>4 DEF Inv, EffectsOfTheLiving
    <2> QED BY <2>5, <2>6, <2>7 DEF Inv
  <1> QED BY <1>5, <1>6

LEMMA RunTurnKeepsInv ==
  ASSUME Inv, RunTurn
  PROVE  Inv'
  <1>1. effects' = effects /\ started' = TRUE /\ UNCHANGED <<out, active, turn, scopes, created>>
    BY SecondBegin DEF RunTurn
  <1> QED BY <1>1 DEF Inv, TypeOK, OneClaimPerTurn, EffectsOfTheLiving, Pending

LEMMA InvStep == ASSUME Inv, [Next]_vars PROVE Inv'
  <1>1. CASE \E c, p \in Player : ControlNextTurn(c, p) \/ BeginSearch(p, c)
    BY <1>1, SchedulingKeepsInv, SearchesKeepInv
  <1>2. CASE EndSearch
    <2>1. 0 \in Player
      BY NumPlayersAssumption DEF Player
    <2> QED BY <1>2, <2>1, SearchesKeepInv
  <1>3. CASE \E losers \in SUBSET Player : Leave(losers)
    BY <1>3, DeparturesKeepInv
  <1>4. CASE \E p \in Player : AdvanceToNextTurn(p)
    BY <1>4, NextTurnKeepsInv
  <1>5. CASE RunTurn
    BY <1>5, RunTurnKeepsInv
  <1>6. CASE UNCHANGED vars
    BY <1>6 DEF vars, Inv, TypeOK, OneClaimPerTurn, EffectsOfTheLiving, Pending
  <1> QED BY <1>1, <1>2, <1>3, <1>4, <1>5, <1>6 DEF Next

\* Of the effects waiting for a player's next turn only the last is left, and
\* what waited does not outlast the turn (SchedulePlayerControlEffect and
\* BeginPlayerControlTurn).
THEOREM OneClaim == Spec => []Inv
  <1>1. Init => Inv
    BY InvInit
  <1>2. Inv /\ [Next]_vars => Inv'
    BY InvStep
  <1> QED BY <1>1, <1>2, PTL DEF Spec

\* Both advanceToNextTurn and runTurn begin the turn; the second call is inert.
THEOREM BeginningTwiceIsOnce == Spec => RepeatedBeginIsInert
  <1>1. Inv /\ [Next]_vars => [started' /\ ~started => effects' = effects]_vars
    <2> SUFFICES ASSUME Inv, Next, started', ~started PROVE effects' = effects
      OBVIOUS
    <2>1. CASE EndSearch
      BY <2>1 DEF EndSearch
    <2>2. CASE RunTurn
      BY <2>2, SecondBegin DEF RunTurn
    <2> QED BY <2>1, <2>2 DEF Next, ControlNextTurn, BeginSearch, Leave, AdvanceToNextTurn
  <1> QED BY <1>1, OneClaim, PTL DEF Spec, RepeatedBeginIsInert

-------------------------------------------------------------------------------
\* Reading the one claim off the list: whose effect waits, and whose applies.
LEMMA TheOneOf ==
  /\ ControllerOf({}) = Nobody
  /\ \A e : ControllerOf({e}) = e.controller
  BY DEF ControllerOf

LEMMA PromiseInit == ASSUME Init PROVE Promise!Init
  <1>1. \A p \in Player : ClaimOn(p) = Nobody
    BY TheOneOf DEF Init, ClaimOn, Pending
  <1>2. Ruler = Nobody
    BY TheOneOf DEF Init, Ruler, Applying
  <1>3. Alive(out) \in SUBSET Player /\ active \in Player
    BY NumPlayersAssumption DEF Init, Alive, Player
  <1> QED BY <1>1, <1>2, <1>3 DEF Promise!Init

\* To schedule an effect is to claim a turn, whoever had claimed it before.
LEMMA SchedulingClaims ==
  ASSUME Inv, NEW c \in Player, NEW p \in Player, ControlNextTurn(c, p)
  PROVE  Promise!Claim(c, p)
  <1> DEFINE new  == [id |-> created', controller |-> c, player |-> p,
                      createdTurn |-> turn, turn |-> 0]
             kept == {e \in effects : ~Supersedes(new, e)}
  <1>1. /\ effects' = kept \union {new} /\ UNCHANGED <<out, active, turn>>
        /\ {c, p} \intersect out = {}
    BY DEF ControlNextTurn
  <1>2. turn # 0
    BY DEF Inv, TypeOK
  <1>3. new.player = p /\ new.turn = 0 /\ new.controller = c
    OBVIOUS
  <1>4. kept = {e \in effects : ~(e.player = p /\ e.turn = 0)}
    BY DEF Supersedes
  <1> HIDE DEF new, kept
  <1>5. ClaimOn(p)' = c
    <2>1. Pending(p)' = {new}
      BY <1>1, <1>3, <1>4 DEF Pending
    <2> QED BY <2>1, <1>3, TheOneOf DEF ClaimOn
  <1>6. \A q \in Player \ {p} : ClaimOn(q)' = ClaimOn(q)
    <2>1. \A q \in Player \ {p} : Pending(q)' = Pending(q)
      BY <1>1, <1>3, <1>4 DEF Pending
    <2> QED BY <2>1 DEF ClaimOn
  <1>7. Ruler' = Ruler
    <2>1. Applying' = Applying
      BY <1>1, <1>2, <1>3, <1>4 DEF Applying
    <2> QED BY <2>1 DEF Ruler
  <1>8. {c, p} \subseteq Alive(out) /\ Alive(out)' = Alive(out) /\ active' = active
    BY <1>1 DEF Alive
  <1>9. [q \in Player |-> ClaimOn(q)]' = [[q \in Player |-> ClaimOn(q)] EXCEPT ![p] = c]
    BY <1>5, <1>6
  <1> QED BY <1>7, <1>8, <1>9 DEF Promise!Claim

\* Departures take the claims of and on those who leave, and no others.
LEMMA DeparturesLapse ==
  ASSUME Inv, NEW losers \in SUBSET Player, Leave(losers)
  PROVE  Promise!Leave(losers)
  <1>1. /\ losers \subseteq Alive(out) /\ out' = out \union losers
        /\ effects' = {e \in effects : {e.player, e.controller} \intersect out' = {}}
        /\ UNCHANGED <<active, turn>>
    BY DEF Leave, EffectsWithout
  <1>2. \A e \in effects : e.player \notin out /\ e.controller \notin out
                           /\ e.controller \in Player
    BY DEF Inv, EffectsOfTheLiving, TypeOK, PlayerControlEffect
  <1>3. effects' = {e \in effects : e.player \notin losers /\ e.controller \notin losers}
    BY <1>1, <1>2
  <1>4. Nobody \notin losers
    BY NumPlayersAssumption DEF Nobody, Player
  <1>5. ASSUME NEW q \in Player
        PROVE  ClaimOn(q)' = IF q \in losers \/ ClaimOn(q) \in losers THEN Nobody ELSE ClaimOn(q)
    <2>1. CASE Pending(q) = {}
      <3>1. Pending(q)' = {}
        BY <1>3, <2>1 DEF Pending
      <3> QED BY <3>1, <2>1, <1>4, TheOneOf DEF ClaimOn
    <2>2. CASE Pending(q) # {}
      <3>1. PICK e \in Pending(q) : TRUE
        BY <2>2
      <3>2. Pending(q) = {e} /\ e.player = q
        BY <3>1, OnePending DEF Pending
      <3>3. ClaimOn(q) = e.controller
        BY <3>2, TheOneOf DEF ClaimOn
      <3>4. CASE q \in losers \/ e.controller \in losers
        <4>1. Pending(q)' = {}
          BY <1>3, <3>2, <3>4 DEF Pending
        <4> QED BY <4>1, <3>3, <3>4, TheOneOf DEF ClaimOn
      <3>5. CASE ~(q \in losers \/ e.controller \in losers)
        <4>1. Pending(q)' = {e}
          BY <1>3, <3>2, <3>5 DEF Pending
        <4>2. ClaimOn(q)' = e.controller
          BY <4>1, TheOneOf DEF ClaimOn
        <4> QED BY <4>2, <3>3, <3>5
      <3> QED BY <3>4, <3>5
    <2> QED BY <2>1, <2>2
  <1>6. Ruler' = IF active \in losers \/ Ruler \in losers THEN Nobody ELSE Ruler
    <2>1. CASE Applying = {}
      <3>1. Applying' = {}
        BY <1>1, <1>3, <2>1 DEF Applying
      <3> QED BY <3>1, <2>1, <1>4, TheOneOf DEF Ruler
    <2>2. CASE Applying # {}
      <3>1. PICK e \in Applying : TRUE
        BY <2>2
      <3>2. Applying = {e} /\ e.player = active
        BY <3>1, OneApplies DEF Applying
      <3>3. Ruler = e.controller
        BY <3>2, TheOneOf DEF Ruler
      <3>4. CASE active \in losers \/ e.controller \in losers
        <4>1. Applying' = {}
          BY <1>1, <1>3, <3>2, <3>4 DEF Applying
        <4> QED BY <4>1, <3>3, <3>4, TheOneOf DEF Ruler
      <3>5. CASE ~(active \in losers \/ e.controller \in losers)
        <4>1. Applying' = {e}
          BY <1>1, <1>3, <3>2, <3>5 DEF Applying
        <4>2. Ruler' = e.controller
          BY <4>1, TheOneOf DEF Ruler
        <4> QED BY <4>2, <3>3, <3>5
      <3> QED BY <3>4, <3>5
    <2> QED BY <2>1, <2>2
  <1>7. Alive(out)' = Alive(out) \ losers
    BY <1>1 DEF Alive
  <1> QED BY <1>1, <1>5, <1>6, <1>7 DEF Promise!Leave

\* The next turn is ruled by whoever claimed it, and the claim is gone.
LEMMA NextTurnUsesTheClaim ==
  ASSUME Inv, NEW p \in Player, AdvanceToNextTurn(p)
  PROVE  Promise!Begin(p)
  <1>1. /\ turn' = turn + 1 /\ active' = p /\ p \in Alive(out) /\ out' = out
        /\ effects' = BegunEffects(p, turn + 1)
    BY DEF AdvanceToNextTurn
  <1>2. turn + 1 # 0
    BY DEF Inv, TypeOK
  <1>3. ClaimOn(p)' = Nobody /\ Ruler' = ClaimOn(p)
        /\ \A q \in Player \ {p} : ClaimOn(q)' = ClaimOn(q)
    <2>1. CASE Pending(p) = {}
      <3>1. effects' = {f \in effects : f.turn = 0}
        BY <1>1, <2>1, NothingToUse
      <3>2. \A q \in Player : Pending(q)' = Pending(q)
        BY <3>1 DEF Pending
      <3>3. Applying' = {}
        BY <1>1, <1>2, <3>1 DEF Applying
      <3> QED BY <2>1, <3>2, <3>3, TheOneOf DEF ClaimOn, Ruler
    <2>2. CASE Pending(p) # {}
      <3>1. PICK e \in Pending(p) : TRUE
        BY <2>2
      <3> DEFINE used == [e EXCEPT !.turn = turn + 1]
      <3>2. effects' = {f \in effects : f.turn = 0 /\ f.player # p} \union {used}
        BY <1>1, ClaimIsUsedUp
      <3>3. e \in PlayerControlEffect /\ e.player = p
        BY DEF Pending, Inv, TypeOK
      <3>4. used.turn = turn + 1 /\ used.player = p /\ used.controller = e.controller
        BY <3>3 DEF PlayerControlEffect
      <3>5. ClaimOn(p) = e.controller
        BY OnePending, TheOneOf DEF ClaimOn
      <3> HIDE DEF used
      <3>6. Pending(p)' = {} /\ \A q \in Player \ {p} : Pending(q)' = Pending(q)
        BY <1>2, <3>2, <3>4 DEF Pending
      <3>7. Applying' = {used}
        BY <1>1, <1>2, <3>2, <3>4 DEF Applying
      <3>8. Ruler' = e.controller
        BY <3>4, <3>7, TheOneOf DEF Ruler
      <3> QED BY <3>5, <3>6, <3>8, TheOneOf DEF ClaimOn
    <2> QED BY <2>1, <2>2
  <1>4. [q \in Player |-> ClaimOn(q)]' = [[q \in Player |-> ClaimOn(q)] EXCEPT ![p] = Nobody]
    BY <1>3
  <1>5. Alive(out)' = Alive(out)
    BY <1>1 DEF Alive
  <1> QED BY <1>1, <1>3, <1>4, <1>5 DEF Promise!Begin

\* Every step claims a turn, begins one, takes claims away, or changes none.
LEMMA PromiseStep == ASSUME Inv, [Next]_vars PROVE [Promise!Next]_(Promise!vars)
  <1>1. ASSUME UNCHANGED <<out, active, turn, effects>> PROVE UNCHANGED Promise!vars
    BY <1>1 DEF Promise!vars, Alive, ClaimOn, Pending, Ruler, Applying
  <1>2. ASSUME NEW c \in Player, NEW p \in Player, ControlNextTurn(c, p) PROVE Promise!Next
    BY <1>2, SchedulingClaims DEF Promise!Next
  <1>3. ASSUME NEW c \in Player, NEW p \in Player, BeginSearch(p, c) PROVE UNCHANGED Promise!vars
    BY <1>1, <1>3 DEF BeginSearch
  <1>4. CASE EndSearch
    BY <1>1, <1>4 DEF EndSearch
  <1>5. ASSUME NEW losers \in SUBSET Player, Leave(losers) PROVE Promise!Next
    BY <1>5, DeparturesLapse DEF Promise!Next
  <1>6. ASSUME NEW p \in Player, AdvanceToNextTurn(p) PROVE Promise!Next
    BY <1>6, NextTurnUsesTheClaim DEF Promise!Next
  <1>7. CASE RunTurn
    BY <1>1, <1>7, SecondBegin DEF RunTurn
  <1>8. CASE UNCHANGED vars
    BY <1>1, <1>8 DEF vars
  <1> QED BY <1>2, <1>3, <1>4, <1>5, <1>6, <1>7, <1>8 DEF Next

\* CR 723.1: each player's next turn is claimed by at most one player, the last
\* to claim it, and the claim is used up when that turn begins.
THEOREM ClaimsAreKept == Spec => KeepsTheClaims
  <1>1. Init => Promise!Init
    BY PromiseInit
  <1>2. Inv /\ [Next]_vars => [Promise!Next]_(Promise!vars)
    BY PromiseStep
  <1> QED BY <1>1, <1>2, OneClaim, PTL DEF Spec, KeepsTheClaims, Promise!Spec
-------------------------------------------------------------------------------
\* Following control from player to player.

\* Where a walk is: the players it has passed, and the player it has come to.
Walks == (SUBSET Player) \X Player

\* f says where every walk ends: it goes from a player to the next one until it
\* stops, with what is found there, or is back where it has been.
TellsTheEnd(f, next, stops, found, back) ==
  \A at \in Walks :
    f[at] = IF at[2] \in at[1] THEN back
            ELSE IF at[2] \in stops THEN found[at[2]]
            ELSE f[<<at[1] \union {at[2]}, next[at[2]]>>]

\* A walk that passes nobody twice ends: whatever is next to each player, at
\* whichever players it stops, there is a function that says where it ends.
LEMMA WalksEnd ==
  ASSUME NEW next \in [Player -> Player], NEW stops \in SUBSET Player, NEW found, NEW back
  PROVE  \E f : TellsTheEnd(f, next, stops, found, back)
  <1> DEFINE End(f, at) == IF at[2] \in at[1] THEN back
                           ELSE IF at[2] \in stops THEN found[at[2]]
                           ELSE f[<<at[1] \union {at[2]}, next[at[2]]>>]
             Ends(f, n) == \A at \in Walks : Cardinality(at[1]) >= n => f[at] = End(f, at)
             Enough == {n \in Nat : \E f : Ends(f, n)}
  <1>1. \A at \in Walks : /\ at[1] \in SUBSET Player /\ at[2] \in Player /\ at = <<at[1], at[2]>>
                          /\ IsFiniteSet(at[1]) /\ Cardinality(at[1]) \in 0..NumPlayers
    <2> TAKE at \in Walks
    <2>1. at[1] \in SUBSET Player /\ at[2] \in Player /\ at = <<at[1], at[2]>>
      BY DEF Walks
    <2>2. IsFiniteSet(Player) /\ Cardinality(Player) = NumPlayers
      BY NumPlayersAssumption, FS_Interval DEF Player
    <2>3. IsFiniteSet(at[1]) /\ Cardinality(at[1]) <= NumPlayers
      BY <2>1, <2>2, FS_Subset
    <2> QED BY <2>1, <2>3, FS_CardinalityType, NumPlayersAssumption
  <1>2. \A at \in Walks : at[2] \notin at[1] =>
          /\ <<at[1] \union {at[2]}, next[at[2]]>> \in Walks
          /\ Cardinality(at[1] \union {at[2]}) = Cardinality(at[1]) + 1
    <2> SUFFICES ASSUME NEW at \in Walks, at[2] \notin at[1]
                 PROVE  /\ <<at[1] \union {at[2]}, next[at[2]]>> \in Walks
                        /\ Cardinality(at[1] \union {at[2]}) = Cardinality(at[1]) + 1
      OBVIOUS
    <2>1. Cardinality(at[1] \union {at[2]}) = Cardinality(at[1]) + 1
      BY <1>1, FS_AddElement
    <2> QED BY <1>1, <2>1 DEF Walks
  <1>3. NumPlayers + 1 \in Enough
    <2>1. \A at \in Walks : ~(Cardinality(at[1]) >= NumPlayers + 1)
      BY <1>1, NumPlayersAssumption
    <2> QED BY <2>1, NumPlayersAssumption
  <1>4. PICK n \in Enough : \A m \in Enough : n <= m
    <2>1. Enough \in SUBSET Nat /\ Enough # {}
      BY <1>3
    <2> HIDE DEF Enough
    <2> QED BY <2>1, Least
  <1>5. PICK f : Ends(f, n)
    OBVIOUS
  <1>6. n = 0
    <2>0. n \in Nat
      OBVIOUS
    <2> SUFFICES ASSUME n # 0 PROVE n - 1 \in Enough
      <3> HIDE DEF Enough
      <3> QED BY <1>4, <2>0
    <2> DEFINE g == [at \in Walks |-> IF Cardinality(at[1]) >= n THEN f[at] ELSE End(f, at)]
    <2>1. ASSUME NEW at \in Walks, Cardinality(at[1]) >= n - 1 PROVE g[at] = End(g, at)
      <3> DEFINE then == <<at[1] \union {at[2]}, next[at[2]]>>
      <3>1. g[at] = End(f, at)
        BY <1>5
      <3>2. CASE at[2] \in at[1]
        BY <3>1, <3>2
      <3>3. CASE at[2] \notin at[1]
        <4>1. then \in Walks /\ Cardinality(at[1] \union {at[2]}) >= n
          BY <1>1, <1>2, <2>1, <3>3
        <4>2. then[1] = at[1] \union {at[2]}
          OBVIOUS
        <4> HIDE DEF then
        <4>3. g[then] = f[then]
          BY <4>1, <4>2
        <4>4. End(f, at) = End(g, at)
          BY <4>3 DEF then
        <4> QED BY <3>1, <4>4
      <3> QED BY <3>2, <3>3
    <2> HIDE DEF g
    <2>2. Ends(g, n - 1)
      BY <2>1
    <2> HIDE DEF Ends
    <2>3. \E e : Ends(e, n - 1)
      BY <2>2
    <2>4. n - 1 \in Nat
      BY <2>0
    <2> QED BY <2>3, <2>4
  <1>7. \A at \in Walks : f[at] = End(f, at)
    BY <1>1, <1>5, <1>6
  <1> QED BY <1>7 DEF TellsTheEnd

\* Control leads to players in the game: it stays with a player or goes to one
\* who has not left.
LEMMA ControlLeadsToTheLiving ==
  ASSUME Inv, NEW p \in Player
  PROVE  /\ ImmediateDecisionController(p) \in Player
         /\ ImmediateDecisionController(p) # p => ImmediateDecisionController(p) \notin out
  <1>1. CASE Overrides(p) # {}
    <2>1. scopes \in Seq(SearchControlScope) /\ Len(scopes) \in Nat
      BY DEF Inv, TypeOK
    <2> DEFINE fromLast == {Len(scopes) - i : i \in Overrides(p)}
    <2>2. \A i \in Overrides(p) : i \in 1..Len(scopes)
      BY <2>1 DEF Overrides
    <2>3. fromLast \in SUBSET Nat /\ fromLast # {}
      BY <1>1, <2>1, <2>2
    <2>4. PICK k \in fromLast : \A j \in fromLast : k <= j
      <3> HIDE DEF fromLast
      <3> QED BY <2>3, Least
    <2>5. PICK i \in Overrides(p) : k = Len(scopes) - i
      OBVIOUS
    <2>6. \A j \in Overrides(p) : j <= i
      <3> TAKE j \in Overrides(p)
      <3>1. Len(scopes) - i <= Len(scopes) - j
        BY <2>4, <2>5
      <3> QED BY <2>1, <2>2, <3>1
    <2> DEFINE last == CHOOSE l \in Overrides(p) : \A j \in Overrides(p) : j <= l
    <2>7. last \in Overrides(p)
      BY <2>6
    <2>8. ImmediateDecisionController(p) = scopes[last].controller
      BY <1>1 DEF ImmediateDecisionController
    <2> HIDE DEF last
    <2>9. scopes[last] \in SearchControlScope
      BY <2>1, <2>2, <2>7
    <2> QED BY <2>7, <2>8, <2>9 DEF Overrides, SearchControlScope
  <1>2. CASE Overrides(p) = {} /\ InForce(p) # {}
    <2>1. PICK e \in InForce(p) : TRUE
      BY <1>2
    <2>2. \A f \in InForce(p) : f = e
      BY <2>1 DEF InForce, Inv, OneClaimPerTurn
    <2>3. e \in PlayerControlEffect /\ e.controller \notin out
      BY <2>1 DEF InForce, Inv, TypeOK
    <2>4. Newest(InForce(p)) = e
      <3>1. e.id <= e.id
        BY <2>3 DEF PlayerControlEffect
      <3> QED BY <2>1, <2>2, <3>1 DEF Newest
    <2>5. ImmediateDecisionController(p) = e.controller
      BY <1>2, <2>4 DEF ImmediateDecisionController
    <2> QED BY <2>3, <2>5 DEF PlayerControlEffect
  <1>3. CASE Overrides(p) = {} /\ InForce(p) = {}
    BY <1>3 DEF ImmediateDecisionController
  <1> QED BY <1>1, <1>2, <1>3

\* f says where a walk along the controllers ends that set out from p.
FollowsControl(f, p) ==
  \A at \in Walks :
    f[at] = IF at[2] \in at[1] THEN p
            ELSE IF ImmediateDecisionController(at[2]) = at[2] THEN at[2]
            ELSE f[<<at[1] \union {at[2]}, ImmediateDecisionController(at[2])>>]

\* f says whether such a walk comes to the viewer.
LooksFor(f, viewer) ==
  \A at \in Walks :
    f[at] = IF at[2] \in at[1] THEN FALSE
            ELSE IF ImmediateDecisionController(at[2]) = viewer THEN TRUE
            ELSE f[<<at[1] \union {at[2]}, ImmediateDecisionController(at[2])>>]

\* DecisionMaker is where the walk along the controllers ends, at the player it
\* set out from if it comes back to a player it has passed.
LEMMA DecisionsFollow ==
  ASSUME Inv, NEW p \in Player \ out
  PROVE  \E f :
           /\ DecisionMaker(p) = f[<<{}, p>>]
           /\ FollowsControl(f, p)
  <1> DEFINE next == [q \in Player |-> ImmediateDecisionController(q)]
             stops == {q \in Player : ImmediateDecisionController(q) = q}
             self == [q \in Player |-> q]
             Is(f) == f = [at \in Walks |->
                             IF at[2] \in at[1] THEN p
                             ELSE IF ImmediateDecisionController(at[2]) = at[2] THEN at[2]
                             ELSE f[<<at[1] \union {at[2]}, ImmediateDecisionController(at[2])>>]]
  <1>1. next \in [Player -> Player] /\ stops \in SUBSET Player
    BY ControlLeadsToTheLiving
  <1>2. PICK g : TellsTheEnd(g, next, stops, self, p)
    <2> HIDE DEF next, stops, self
    <2> QED BY <1>1, WalksEnd
  <1> DEFINE h == [at \in Walks |-> g[at]]
  <1>3. Is(h)
    <2>1. \A at \in Walks : at[2] \in Player /\ at[1] \in SUBSET Player
      BY DEF Walks
    <2>2. \A at \in Walks : <<at[1] \union {at[2]}, ImmediateDecisionController(at[2])>> \in Walks
      BY <2>1, ControlLeadsToTheLiving DEF Walks
    <2>3. \A at \in Walks :
            g[at] = IF at[2] \in at[1] THEN p
                    ELSE IF ImmediateDecisionController(at[2]) = at[2] THEN at[2]
                    ELSE h[<<at[1] \union {at[2]}, ImmediateDecisionController(at[2])>>]
      BY <1>2, <2>1, <2>2 DEF TellsTheEnd
    <2> QED BY <2>3
  <1> DEFINE follow == CHOOSE f : Is(f)
  <1>4. Is(follow)
    <2> HIDE DEF Is
    <2> QED BY <1>3
  <1>5. DecisionMaker(p) = follow[<<{}, p>>]
    BY DEF DecisionMaker, Walks
  <1> HIDE DEF follow
  <1>6. FollowsControl(follow, p)
    BY <1>4 DEF FollowsControl
  <1> QED BY <1>5, <1>6
\* CanSeePlayerInformation asks whether that walk comes to the viewer.
LEMMA SightFollows ==
  ASSUME Inv, NEW viewer, NEW p \in Player
  PROVE  \E f :
           /\ CanSeePlayerInformation(viewer, p) =
                (viewer = p \/ ({viewer, p} \intersect out = {} /\ f[<<{}, p>>]))
           /\ LooksFor(f, viewer)
  <1> DEFINE next == [q \in Player |-> ImmediateDecisionController(q)]
             stops == {q \in Player : ImmediateDecisionController(q) = viewer}
             true == [q \in Player |-> TRUE]
             Is(f) == f = [at \in Walks |->
                             IF at[2] \in at[1] THEN FALSE
                             ELSE IF ImmediateDecisionController(at[2]) = viewer THEN TRUE
                             ELSE f[<<at[1] \union {at[2]}, ImmediateDecisionController(at[2])>>]]
  <1>1. next \in [Player -> Player] /\ stops \in SUBSET Player
    BY ControlLeadsToTheLiving
  <1>2. PICK g : TellsTheEnd(g, next, stops, true, FALSE)
    <2> HIDE DEF next, stops, true
    <2> QED BY <1>1, WalksEnd
  <1> DEFINE h == [at \in Walks |-> g[at]]
  <1>3. Is(h)
    <2>1. \A at \in Walks : at[2] \in Player /\ at[1] \in SUBSET Player
      BY DEF Walks
    <2>2. \A at \in Walks : <<at[1] \union {at[2]}, ImmediateDecisionController(at[2])>> \in Walks
      BY <2>1, ControlLeadsToTheLiving DEF Walks
    <2>3. \A at \in Walks :
            g[at] = IF at[2] \in at[1] THEN FALSE
                    ELSE IF ImmediateDecisionController(at[2]) = viewer THEN TRUE
                    ELSE h[<<at[1] \union {at[2]}, ImmediateDecisionController(at[2])>>]
      BY <1>2, <2>1, <2>2 DEF TellsTheEnd
    <2> QED BY <2>3
  <1> DEFINE meets == CHOOSE f : Is(f)
  <1>4. Is(meets)
    <2> HIDE DEF Is
    <2> QED BY <1>3
  <1>5. CanSeePlayerInformation(viewer, p) =
          (viewer = p \/ ({viewer, p} \intersect out = {} /\ meets[<<{}, p>>]))
    BY DEF CanSeePlayerInformation, Walks
  <1> HIDE DEF meets
  <1>6. LooksFor(meets, viewer)
    BY <1>4 DEF LooksFor
  <1> QED BY <1>5, <1>6

\* Where the walk ends at somebody else than it set out from, nobody else decides
\* for them, they have not left, and the walk that looks for them finds them.
LEMMA WalksMeetTheirEnd ==
  ASSUME Inv, NEW p \in Player \ out, NEW d, d # p, NEW follow, NEW meets,
         FollowsControl(follow, p),
         LooksFor(meets, d)
  PROVE  \A at \in Walks : follow[at] = d =>
           /\ d \in Player /\ ImmediateDecisionController(d) = d
           /\ at[2] \notin out => d \notin out
           /\ at[2] = d \/ meets[at]
  <1> DEFINE Fine(at) == follow[at] = d =>
                           /\ d \in Player /\ ImmediateDecisionController(d) = d
                           /\ at[2] \notin out => d \notin out
                           /\ at[2] = d \/ meets[at]
             Left(at) == NumPlayers - Cardinality(at[1])
             Bad == {Left(at) : at \in {a \in Walks : ~Fine(a)}}
  <1>1. \A at \in Walks : at[1] \in SUBSET Player /\ at[2] \in Player
    BY DEF Walks
  <1>2. \A at \in Walks : IsFiniteSet(at[1]) /\ Cardinality(at[1]) \in Nat /\ Left(at) \in Nat
    <2> TAKE at \in Walks
    <2>1. IsFiniteSet(Player) /\ Cardinality(Player) = NumPlayers
      BY NumPlayersAssumption, FS_Interval DEF Player
    <2>2. IsFiniteSet(at[1]) /\ Cardinality(at[1]) <= NumPlayers
      BY <1>1, <2>1, FS_Subset
    <2>3. Cardinality(at[1]) \in Nat
      BY <2>2, FS_CardinalityType
    <2> QED BY <2>2, <2>3, NumPlayersAssumption
  <1>3. SUFFICES ASSUME Bad # {} PROVE FALSE
    <2>1. ASSUME Bad = {} PROVE \A at \in Walks : Fine(at)
      <3> HIDE DEF Fine, Left
      <3> QED BY <2>1
    <2> QED BY <2>1
  <1>4. PICK k \in Bad : \A j \in Bad : k <= j
    <2>1. Bad \in SUBSET Nat
      BY <1>2
    <2> HIDE DEF Bad
    <2> QED BY <1>3, <2>1, Least
  <1>5. PICK at \in Walks : k = Left(at) /\ ~Fine(at)
    <2> HIDE DEF Fine, Left
    <2> QED OBVIOUS
  <1> DEFINE then == <<at[1] \union {at[2]}, ImmediateDecisionController(at[2])>>
  <1>6. at[2] \notin at[1] /\ ImmediateDecisionController(at[2]) # at[2]
    <2>1. follow[at] = d
      BY <1>5
    <2>2. at[2] \notin at[1]
      BY <2>1 DEF FollowsControl
    <2>3. ASSUME ImmediateDecisionController(at[2]) = at[2] PROVE Fine(at)
      <3>1. d = at[2]
        BY <2>1, <2>2, <2>3 DEF FollowsControl
      <3> QED BY <1>1, <2>3, <3>1
    <2> HIDE DEF Fine
    <2> QED BY <1>5, <2>2, <2>3
  <1>7. then \in Walks /\ then[1] = at[1] \union {at[2]} /\ then[2] = ImmediateDecisionController(at[2])
    BY <1>1, ControlLeadsToTheLiving DEF Walks
  <1>8. Left(then) = Left(at) - 1
    <2>1. Cardinality(at[1] \union {at[2]}) = Cardinality(at[1]) + 1
      BY <1>2, <1>6, FS_AddElement
    <2> QED BY <1>2, <1>7, <2>1, NumPlayersAssumption
  <1>9. Fine(then)
    <2>1. ~(k <= Left(then)) /\ (~Fine(then) => Left(then) \in Bad)
      <3>1. Left(at) \in Nat
        BY <1>2
      <3> HIDE DEF Left, Fine, then
      <3> QED BY <1>5, <1>7, <1>8, <3>1
    <2> HIDE DEF Bad, Fine, Left
    <2> QED BY <1>4, <2>1
  <1>10. then[2] \notin out
    BY <1>1, <1>6, <1>7, ControlLeadsToTheLiving
  <1>11. follow[at] = follow[then]
    BY <1>6 DEF FollowsControl
  <1>12. meets[at] = IF then[2] = d THEN TRUE ELSE meets[then]
    BY <1>6 DEF LooksFor
  <1> HIDE DEF then
  <1> QED BY <1>5, <1>9, <1>10, <1>11, <1>12

\* Every decision reaches a player in the game who sees what it is about and
\* decides for themselves, at a table of any size and however control goes round.
THEOREM DecisionsArrive == Spec => []DecisionsReachThePlayers
  <1>1. ASSUME Inv, NEW p \in Player \ out
        PROVE  LET d == DecisionMaker(p)
               IN d \notin out /\ CanSeePlayerInformation(d, p) /\ DecisionMaker(d) = d
    <2> DEFINE d == DecisionMaker(p)
    <2> HIDE DEF d
    <2>1. CASE d = p
      BY <2>1 DEF CanSeePlayerInformation, d
    <2>2. CASE d # p
      <3>1. PICK follow :
              /\ d = follow[<<{}, p>>]
              /\ FollowsControl(follow, p)
        BY <1>1, DecisionsFollow DEF d
      <3>2. PICK meets :
              /\ CanSeePlayerInformation(d, p) = (d = p \/ ({d, p} \intersect out = {} /\ meets[<<{}, p>>]))
              /\ LooksFor(meets, d)
        BY <1>1, SightFollows
      <3>3. \A at \in Walks : follow[at] = d =>
              /\ d \in Player /\ ImmediateDecisionController(d) = d
              /\ at[2] \notin out => d \notin out
              /\ at[2] = d \/ meets[at]
        BY <1>1, <2>2, <3>1, <3>2, WalksMeetTheirEnd
      <3>4. <<{}, p>> \in Walks /\ <<{}, p>>[2] = p
        BY <1>1 DEF Walks
      <3>5. d \in Player /\ ImmediateDecisionController(d) = d /\ d \notin out /\ meets[<<{}, p>>]
        BY <1>1, <2>2, <3>1, <3>3, <3>4
      <3>6. CanSeePlayerInformation(d, p)
        BY <1>1, <3>2, <3>5
      <3>7. DecisionMaker(d) = d
        <4>1. PICK f :
                /\ DecisionMaker(d) = f[<<{}, d>>]
                /\ FollowsControl(f, d)
          BY <1>1, <3>5, DecisionsFollow
        <4>2. <<{}, d>> \in Walks /\ <<{}, d>>[1] = {} /\ <<{}, d>>[2] = d
          BY <3>5 DEF Walks
        <4> QED BY <3>5, <4>1, <4>2 DEF FollowsControl
      <3> QED BY <3>5, <3>6, <3>7 DEF d
    <2> QED BY <2>1, <2>2 DEF d
  <1>2. Inv => DecisionsReachThePlayers
    BY <1>1 DEF DecisionsReachThePlayers, Alive
  <1> QED BY <1>2, OneClaim, PTL
=============================================================================
