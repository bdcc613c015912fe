---------------------------- MODULE PriorityProofs ----------------------------
(***************************************************************************)
(* Safety of the priority loop for any number of seats, any budget and any *)
(* bounds: type correctness, the inductive invariant Inv, and from it that *)
(* the loop implements PassRound.                                          *)
(***************************************************************************)
EXTENDS Priority, TurnOrderProofs

USE DEF Closed, Steps

\* Taking some positions of a sequence in order yields a sequence of elements
\* at those positions.
LEMMA SelectionsSelect ==
  ASSUME NEW X, NEW s \in Seq(X), NEW kept \in SUBSET (1..Len(s)),
         NEW t \in Selections(s, kept)
  PROVE  /\ t \in Seq(X)
         /\ \A i \in 1..Len(t) : \E j \in kept : t[i] = s[j]
<1> DEFINE n == Cardinality(kept)
<1>1. n \in Nat
  <2>1. IsFiniteSet(1..Len(s))
    BY FS_Interval
  <2> QED BY <2>1, FS_Subset, FS_CardinalityType
<1>2. PICK f \in [1..n -> kept] : t = [i \in 1..n |-> s[f[i]]]
  BY DEF Selections
<1> HIDE DEF n
<1>3. \A i \in 1..n : f[i] \in kept /\ s[f[i]] \in X
  <2>1. \A i \in 1..n : f[i] \in kept
    BY <1>2
  <2>2. \A j \in kept : s[j] \in X
    OBVIOUS
  <2> QED BY <2>1, <2>2
<1>4. t \in [1..n -> X] /\ \A i \in 1..n : t[i] = s[f[i]]
  <2>1. \A i \in 1..n : t[i] = s[f[i]] /\ t[i] \in X
    BY <1>2, <1>3
  <2> QED BY <1>2, <2>1
<1>5. t \in Seq(X) /\ Len(t) = n
  BY <1>1, <1>4
<1> QED BY <1>3, <1>4, <1>5

\* Taking one object out of the middle, or putting one on top, leaves a stack
\* whose objects were there before or are the new one.
LEMMA EffectsKeepTheStack ==
  ASSUME NEW s \in Seq(StackObject), NEW t \in StackAfterEffects(s)
  PROVE  /\ t \in Seq(StackObject)
         /\ \A i \in 1..Len(t) :
              \/ \E j \in 1..Len(s) : t[i] = s[j]
              \/ t[i] \in [owner : Alive(out), controller : Alive(out)]
<1>1. CASE t = s
  BY <1>1
<1>2. ASSUME NEW k \in 1..Len(s), t = SubSeq(s, 1, k - 1) \o SubSeq(s, k + 1, Len(s))
      PROVE  t \in Seq(StackObject) /\ \A i \in 1..Len(t) : \E j \in 1..Len(s) : t[i] = s[j]
  <2> DEFINE a == SubSeq(s, 1, k - 1)
             b == SubSeq(s, k + 1, Len(s))
  <2>1. a \in Seq(StackObject) /\ Len(a) = k - 1 /\ \A i \in 1..(k - 1) : a[i] = s[i]
    OBVIOUS
  <2>2. /\ b \in Seq(StackObject) /\ Len(b) = Len(s) - k
        /\ \A i \in 1..(Len(s) - k) : b[i] = s[k + i]
    OBVIOUS
  <2>3. t = a \o b
    BY <1>2
  <2> HIDE DEF a, b
  <2>4. t \in Seq(StackObject) /\ Len(t) = Len(s) - 1
    BY <2>1, <2>2, <2>3
  <2>5. ASSUME NEW i \in 1..Len(t) PROVE \E j \in 1..Len(s) : t[i] = s[j]
    <3>1. CASE i <= k - 1
      BY <2>1, <2>2, <2>3, <2>4, <3>1
    <3>2. CASE i > k - 1
      <4>1. t[i] = b[i - (k - 1)] /\ i - (k - 1) \in 1..(Len(s) - k)
        BY <2>1, <2>2, <2>3, <2>4, <3>2
      <4>2. t[i] = s[k + (i - (k - 1))] /\ k + (i - (k - 1)) \in 1..Len(s)
        BY <2>2, <2>4, <4>1
      <4> QED BY <4>2
    <3> QED BY <3>1, <3>2
  <2> QED BY <2>4, <2>5
<1>3. CASE \E obj \in [owner : Alive(out), controller : Alive(out)] : t = Append(s, obj)
  BY <1>3 DEF StackObject, Alive
<1> QED BY <1>1, <1>2, <1>3 DEF StackAfterEffects

\* What is placed are abilities owned and controlled by players still there.
LEMMA PlacementsAreOfTheLiving ==
  ASSUME NEW q \in Placements
  PROVE  /\ q \in Seq(StackObject)
         /\ \A i \in 1..Len(q) : q[i].owner \notin out /\ q[i].controller \notin out
<1> DEFINE Abilities == {[owner |-> p, controller |-> p] : p \in Alive(out)}
<1>1. PICK n \in 0..MaxStack : q \in [1..n -> Abilities]
  BY DEF Placements
<1>2. Abilities \subseteq StackObject
  BY DEF StackObject, Alive
<1>3. \A a \in Abilities : a.owner \notin out /\ a.controller \notin out
  BY DEF Alive
<1> HIDE DEF Abilities
<1>4. n \in Nat
  BY <1>1, BoundsAssumption
<1>5. q \in Seq(StackObject) /\ Len(q) = n
  BY <1>1, <1>2, <1>4
<1> QED BY <1>1, <1>3, <1>5

LEMMA TriggerTypes ==
  ASSUME NEW waiting \in [Player -> Nat], NEW S \in SUBSET Player,
         Trigger(waiting, S), fired \in 0..MaxTriggers
  PROVE  pending' \in [Player -> Nat] /\ fired' \in 0..MaxTriggers
<1>1. Cardinality(S) \in Nat
  <2>1. IsFiniteSet(Player)
    BY FS_Interval, NumPlayersAssumption DEF Player
  <2> QED BY <2>1, FS_Subset, FS_CardinalityType
<1> QED BY <1>1, BoundsAssumption DEF Trigger
-------------------------------------------------------------------------------
\* The loop starts over a stack of players in the game.
LEMMA InitialStack ==
  Init => stack \in Seq(StackObject) /\ NoDepartedOnStack
<1> SUFFICES ASSUME Init PROVE stack \in Seq(StackObject) /\ NoDepartedOnStack
  OBVIOUS
<1> DEFINE Objects == [owner : Alive(out), controller : Alive(out)]
<1>1. CASE stack = <<>>
  BY <1>1 DEF NoDepartedOnStack
<1>2. ASSUME NEW n \in 1..MaxStack, stack \in [1..n -> Objects]
      PROVE  stack \in Seq(StackObject) /\ NoDepartedOnStack
  <2>1. Objects \subseteq StackObject
    BY DEF StackObject, Alive
  <2>2. \A o \in Objects : o.owner \notin out /\ o.controller \notin out
    BY DEF Alive
  <2> HIDE DEF Objects
  <2>3. n \in Nat
    BY BoundsAssumption
  <2>4. stack \in Seq(StackObject) /\ Len(stack) = n
    BY <1>2, <2>1, <2>3
  <2> QED BY <1>2, <2>2, <2>4 DEF NoDepartedOnStack
<1>3. stack = <<>> \/ \E n \in 1..MaxStack : stack \in [1..n -> Objects]
  BY DEF Init
<1> QED BY <1>1, <1>2, <1>3

\* The loop starts well-typed.
LEMMA TypeInit == Init => TypeOK
<1> SUFFICES ASSUME Init PROVE TypeOK
  OBVIOUS
<1>1. pending \in [Player -> Nat] /\ fired \in 0..MaxTriggers
  <2>1. PICK S \in SUBSET Alive(out) :
          /\ Cardinality(S) <= MaxTriggers
          /\ pending = [p \in Player |-> IF p \in S THEN 1 ELSE 0]
          /\ fired = Cardinality(S)
    BY DEF Init
  <2>2. Cardinality(S) \in Nat
    BY FS_Subset, FS_CardinalityType, CountOfTheLiving DEF Init
  <2> QED BY <2>1, <2>2, BoundsAssumption
<1>2. stack \in Seq(StackObject)
  BY InitialStack
<1>3. active \in Player /\ holder \in Player /\ out \in SUBSET Player /\ doomed \in SUBSET Alive(out)
  BY DEF Init, Alive
<1>4. passes \in Nat /\ decisions \in 0..DecisionLimit /\ passed \in SUBSET Player /\ step \in Steps
  BY BoundsAssumption DEF Init
<1> QED BY <1>1, <1>2, <1>3, <1>4 DEF TypeOK

\* Every step of the loop keeps it well-typed.
LEMMA TypeStep == TypeOK /\ [Next]_vars => TypeOK'
<1> SUFFICES ASSUME TypeOK, [Next]_vars PROVE TypeOK'
  OBVIOUS
<1> USE DEF TypeOK
<1>1. CASE ApplyStateBasedActions
  <2>1. out' \in SUBSET Player /\ doomed' \in SUBSET Alive(out')
    BY <1>1 DEF ApplyStateBasedActions, Alive
  <2>2. holder' \in Player
    BY <1>1, <2>1, NextIsTheNextAlive DEF ApplyStateBasedActions
  <2>3. stack' \in Seq(StackObject)
    BY <1>1, SelectionsSelect DEF ApplyStateBasedActions
  <2>4. pending' \in [Player -> Nat] /\ fired' \in 0..MaxTriggers
    BY <1>1, <2>1, TriggerTypes DEF ApplyStateBasedActions, Alive
  <2>5. step' \in Steps
    BY <1>1 DEF ApplyStateBasedActions
  <2>6. decisions' \in 0..DecisionLimit
    BY <1>1, BoundsAssumption DEF ApplyStateBasedActions, Choices, Affordable
  <2> QED BY <1>1, <2>1, <2>2, <2>3, <2>4, <2>5, <2>6 DEF ApplyStateBasedActions
<1>2. CASE PutTriggersOnStack
  <2>1. PICK placed \in Placements, n \in 0..MaxChoices :
          /\ Choices(n)
          /\ stack' = stack \o placed
          /\ \/ pending' = NothingPending /\ UNCHANGED <<passes, passed, fired>>
             \/ (\E S \in SUBSET Alive(out) : Trigger(NothingPending, S)) /\ NewRound
          /\ step' = AfterTriggers(placed # <<>>)
    BY <1>2 DEF PutTriggersOnStack
  <2>2. stack' \in Seq(StackObject)
    BY <2>1, PlacementsAreOfTheLiving
  <2>3. decisions' \in 0..DecisionLimit
    BY <2>1, BoundsAssumption DEF Choices, Affordable
  <2>4. NothingPending \in [Player -> Nat]
    BY DEF NothingPending
  <2>5. /\ pending' \in [Player -> Nat] /\ fired' \in 0..MaxTriggers
        /\ passes' \in Nat /\ passed' \in SUBSET Player
    BY <2>1, <2>4, TriggerTypes DEF Alive, NewRound
  <2>6. step' \in Steps
    BY <2>1 DEF AfterTriggers
  <2> QED BY <1>2, <2>2, <2>3, <2>5, <2>6 DEF PutTriggersOnStack
<1>3. CASE SkipDeparted
  BY <1>3, NextIsTheNextAlive DEF SkipDeparted
<1>4. ASSUME NEW n \in Nat, Decides(n)
      PROVE  decisions' \in 0..DecisionLimit /\ holder \in Alive(out)
  BY <1>4, BoundsAssumption DEF Decides, Choices, Affordable, Alive
<1>5. CASE Pass
  BY <1>4, <1>5, NextIsTheNextAlive DEF Pass
<1>6. CASE EndStep
  BY <1>4, <1>6 DEF EndStep
<1>7. 0..MaxChoices \subseteq Nat
  BY BoundsAssumption
<1>8. CASE ResolveTop
  <2>1. SubSeq(stack, 1, Len(stack) - 1) \in Seq(StackObject)
    OBVIOUS
  <2>2. stack' \in Seq(StackObject)
    BY <1>8, <2>1, EffectsKeepTheStack DEF ResolveTop
  <2>3. pending' \in [Player -> Nat] /\ fired' \in 0..MaxTriggers
    BY <1>8, TriggerTypes DEF ResolveTop, Alive
  <2> QED BY <1>4, <1>7, <1>8, <2>2, <2>3 DEF ResolveTop, NewRound
<1>9. CASE Act
  <2>1. stack' \in Seq(StackObject)
    <3>1. \A p \in Alive(out) : [owner |-> p, controller |-> holder] \in StackObject
      BY DEF StackObject, Alive
    <3>2. \A obj \in StackObject : Append(stack, obj) \in Seq(StackObject)
      OBVIOUS
    <3> QED BY <1>9, <3>1, <3>2 DEF Act
  <2>2. pending' \in [Player -> Nat] /\ fired' \in 0..MaxTriggers
    BY <1>9, TriggerTypes DEF Act, Alive
  <2> QED BY <1>4, <1>7, <1>9, <2>1, <2>2 DEF Act, NewRound
<1>10. CASE Reverse
  <2>1. pending' \in [Player -> Nat] /\ fired' \in 0..MaxTriggers
    BY <1>10, TriggerTypes DEF Reverse, Alive
  <2> QED BY <1>4, <1>7, <1>10, <2>1 DEF Reverse
<1>11. CASE ExhaustBudget
  BY <1>11 DEF ExhaustBudget
<1>12. CASE UNCHANGED vars
  BY <1>12 DEF vars
<1> QED BY <1>1, <1>2, <1>3, <1>5, <1>6, <1>8, <1>9, <1>10, <1>11, <1>12 DEF Next

\* Every reachable state of the loop is well-typed: priority is always with a
\* seat of the table and only players in the game are about to lose.
THEOREM TypeCorrect == Spec => []TypeOK
BY TypeInit, TypeStep, PTL DEF Spec

-------------------------------------------------------------------------------
\* As many passers as there are players left are all the players left.
LEMMA EverybodyPassed ==
  ASSUME NEW gone \in SUBSET Player, NEW S \in SUBSET Alive(gone),
         Cardinality(S) >= ActivePlayerCount(gone)
  PROVE  S = Alive(gone)
<1>1. IsFiniteSet(Alive(gone)) /\ ActivePlayerCount(gone) = Cardinality(Alive(gone))
  BY CountOfTheLiving
<1>2. Cardinality(S) <= Cardinality(Alive(gone)) /\ Cardinality(S) \in Nat /\ Cardinality(Alive(gone)) \in Nat
  BY <1>1, FS_Subset, FS_CardinalityType
<1>3. Cardinality(S) = Cardinality(Alive(gone))
  BY <1>1, <1>2
<1> QED BY <1>1, <1>3, FS_Subset

\* A departure never makes more players.
LEMMA FewerAreLeft ==
  ASSUME NEW gone \in SUBSET Player, NEW losers \in SUBSET Player
  PROVE  ActivePlayerCount(gone \union losers) <= ActivePlayerCount(gone)
<1>1. /\ IsFiniteSet(Alive(gone))
      /\ ActivePlayerCount(gone) = Cardinality(Alive(gone))
      /\ ActivePlayerCount(gone \union losers) = Cardinality(Alive(gone \union losers))
  BY CountOfTheLiving
<1>2. Alive(gone \union losers) \in SUBSET Alive(gone)
  BY DEF Alive
<1> QED BY <1>1, <1>2, FS_Subset

\* Handing priority from p to the next player keeps the order of the round: p
\* may have passed, or have left, or have passed before over a complete round.
LEMMA HandingOnKeepsTheOrder ==
  ASSUME NEW p \in Player, NEW gone \in SUBSET Player, NEW S \in SUBSET Alive(gone),
         \A q \in S, r \in Alive(gone) \ S : Ahead(p, r) < Ahead(p, q)
  PROVE  \A q \in S \union {p}, r \in Alive(gone) \ (S \union {p}) :
           Ahead(NextActivePlayer(p, gone), r) < Ahead(NextActivePlayer(p, gone), q)
<1> DEFINE n == NextActivePlayer(p, gone)
<1> SUFFICES ASSUME NEW q \in S \union {p}, NEW r \in Alive(gone) \ (S \union {p})
             PROVE  Ahead(n, r) < Ahead(n, q)
  OBVIOUS
<1>1. \A x \in Alive(gone) \ {p} :
        Ahead(n, x) = Ahead(p, x) - Ahead(p, n) /\ Ahead(n, x) < Ahead(n, p)
  BY RotationKeepsTheOrder
<1>2. n \in Player
  BY NextIsTheNextAlive
<1>3. \A x, y \in Player : Ahead(x, y) \in Int
  BY NumPlayersAssumption DEF Ahead, Player
<1> HIDE DEF n
<1>4. CASE q = p
  BY <1>1, <1>4
<1>5. CASE q # p
  <2>1. q \in Alive(gone) \ {p} /\ r \in Alive(gone) \ {p} /\ Ahead(p, r) < Ahead(p, q)
    BY <1>5
  <2>2. q \in Player /\ r \in Player
    BY <2>1 DEF Alive
  <2> QED BY <1>1, <1>2, <1>3, <2>1, <2>2
<1> QED BY <1>4, <1>5

-------------------------------------------------------------------------------
\* While the round is not complete, the player asked has not passed in it, and
\* with their pass the counter is the number of players who have.
LEMMA WhoPasses ==
  ASSUME TypeOK, PassesCountTheLiving, RoundInTurnOrder,
         step = "decide", holder \notin out, ~RoundComplete
  PROVE  /\ holder \notin passed
         /\ passed \union {holder} \in SUBSET Alive(out)
         /\ passes + 1 = Cardinality(passed \union {holder})
<1>1. passed \in SUBSET Alive(out) /\ passes = Cardinality(passed)
  BY DEF PassesCountTheLiving
<1>2. holder \in Alive(out)
  BY DEF TypeOK, Alive
<1>3. holder \notin passed
  <2>1. PICK r \in Alive(out) : r \notin passed
    BY DEF RoundComplete
  <2>2. ~(Ahead(holder, r) < Ahead(holder, holder))
    BY <1>2, NumPlayersAssumption DEF Ahead, Alive, Player
  <2> QED BY <2>1, <2>2 DEF RoundInTurnOrder
<1>4. IsFiniteSet(passed)
  BY <1>1, CountOfTheLiving, FS_Subset DEF TypeOK
<1>5. Cardinality(passed \union {holder}) = Cardinality(passed) + 1
  BY <1>3, <1>4, FS_AddElement
<1> QED BY <1>1, <1>2, <1>3, <1>5

\* Over a complete round the counter has reached the number of players left.
LEMMA CompleteRoundIsCounted ==
  ASSUME TypeOK, PassesCountTheLiving, step \notin Closed, RoundComplete
  PROVE  passes >= ActivePlayerCount(out)
<1>1. ActivePlayerCount(out) = Cardinality(Alive(out)) /\ ActivePlayerCount(out) \in Nat
  BY CountOfTheLiving DEF TypeOK
<1>2. CASE passed \subseteq Alive(out) /\ passes = Cardinality(passed)
  <2>1. passed = Alive(out)
    BY <1>2 DEF RoundComplete
  <2> QED BY <1>1, <1>2, <2>1
<1> QED BY <1>2 DEF PassesCountTheLiving

\* When the count says that a pass is the last one, it is: nobody else is still
\* to pass.
LEMMA TheLastPassIsTheLast ==
  ASSUME TypeOK, PassesCountTheLiving, RoundInTurnOrder,
         step = "decide", holder \notin out, LastPass
  PROVE  Alive(out) \subseteq passed \union {holder}
<1>1. CASE RoundComplete
  BY <1>1 DEF RoundComplete
<1>2. CASE ~RoundComplete
  BY <1>2, WhoPasses, EverybodyPassed DEF LastPass, TypeOK
<1> QED BY <1>1, <1>2

\* Priority moves on from a player who left, or passed, and with their name
\* added the round is still in turn order.
LEMMA PriorityMovesOn ==
  ASSUME TypeOK, RoundInTurnOrder, step \notin Closed,
         NEW gone \in SUBSET Player, out \subseteq gone, passed \in SUBSET Alive(gone)
  PROVE  \A q \in passed \union {holder}, r \in Alive(gone) \ (passed \union {holder}) :
           Ahead(NextActivePlayer(holder, gone), r)
             < Ahead(NextActivePlayer(holder, gone), q)
<1>1. \A q \in passed, r \in Alive(gone) \ passed : Ahead(holder, r) < Ahead(holder, q)
  BY DEF RoundInTurnOrder, Alive, TypeOK
<1>2. holder \in Player
  BY DEF TypeOK
<1> QED BY <1>1, <1>2, HandingOnKeepsTheOrder

\* The loop starts with nobody having passed.
LEMMA InvInit == Init => Inv
<1> SUFFICES ASSUME Init PROVE Inv
  OBVIOUS
<1>1. TypeOK
  BY TypeInit
<1>2. PassesCountTheLiving /\ RoundInTurnOrder
  BY FS_EmptySet DEF Init, PassesCountTheLiving, RoundInTurnOrder
<1>3. LosersAreStillToPass
  BY DEF Init, LosersAreStillToPass
<1>4. AsksInASettledGame /\ EndsQuietly
  BY DEF Init, AsksInASettledGame, EndsQuietly
<1>5. NoDepartedOnStack
  BY InitialStack
<1> QED BY <1>1, <1>2, <1>3, <1>4, <1>5 DEF Inv

\* A new round starts with nobody having passed.
LEMMA NewRoundRestarts ==
  ASSUME NewRound
  PROVE  PassesCountTheLiving' /\ RoundInTurnOrder' /\ doomed' \intersect passed' = {}
<1>1. passed' = {} /\ passes' = 0
  BY DEF NewRound
<1>2. Cardinality(passed') = 0
  BY <1>1, FS_EmptySet
<1> QED BY <1>1, <1>2 DEF PassesCountTheLiving, RoundInTurnOrder

\* A check of the state-based actions keeps the invariant: those who leave are
\* still to pass, so the count and the order of the round survive them.
LEMMA StateBasedActionsKeepInv ==
  ASSUME Inv, ApplyStateBasedActions, TypeOK' PROVE Inv'
<1> USE DEF Inv
<1>1. /\ step = "stateBased" /\ step' \in {"over", "triggers"}
      /\ out' = out \union doomed /\ doomed' = {}
      /\ passed' = passed /\ passes' = passes
      /\ holder' = IF holder \in doomed THEN NextActivePlayer(holder, out') ELSE holder
  BY DEF ApplyStateBasedActions
<1>2. Alive(out') = Alive(out) \ doomed /\ out' \in SUBSET Player /\ doomed \in SUBSET Player
  BY <1>1 DEF TypeOK, Alive
<1>3. NoDepartedOnStack'
  <2>1. stack \in Seq(StackObject)
    BY DEF TypeOK
  <2>2. stack' \in Selections(stack, {i \in 1..Len(stack) : Stays(stack[i], out')})
    BY DEF ApplyStateBasedActions
  <2>3. \A i \in 1..Len(stack') : Stays(stack'[i], out')
    BY <2>1, <2>2, SelectionsSelect
  <2> QED BY <2>3 DEF NoDepartedOnStack, Stays
<1>4. LosersAreStillToPass' /\ AsksInASettledGame' /\ EndsQuietly'
  BY <1>1 DEF LosersAreStillToPass, AsksInASettledGame, EndsQuietly
<1>5. CASE RoundComplete
  <2>1. RoundComplete'
    BY <1>1, <1>2, <1>5 DEF RoundComplete
  <2>2. passes >= ActivePlayerCount(out)
    BY <1>1, <1>5, CompleteRoundIsCounted
  <2>3. passes >= ActivePlayerCount(out')
    <3>1. ActivePlayerCount(out') <= ActivePlayerCount(out)
      BY <1>1, <1>2, FewerAreLeft DEF TypeOK
    <3>2. ActivePlayerCount(out') \in Nat /\ ActivePlayerCount(out) \in Nat /\ passes \in Nat
      BY <1>2, CountOfTheLiving DEF TypeOK
    <3> QED BY <2>2, <3>1, <3>2
  <2>4. PassesCountTheLiving'
    BY <1>1, <2>1, <2>3 DEF PassesCountTheLiving
  <2>5. RoundInTurnOrder'
    BY <2>1 DEF RoundInTurnOrder, RoundComplete
  <2> QED BY <1>1, <1>3, <1>4, <2>4, <2>5
<1>6. CASE ~RoundComplete
  <2>1. passed \in SUBSET Alive(out') /\ passes = Cardinality(passed)
    BY <1>1, <1>2, <1>6 DEF PassesCountTheLiving, LosersAreStillToPass
  <2>2. PassesCountTheLiving'
    BY <1>1, <2>1 DEF PassesCountTheLiving
  <2>3. RoundInTurnOrder'
    <3>1. CASE holder \in doomed
      <4>1. \A q \in passed, r \in Alive(out') \ passed : Ahead(holder', r) < Ahead(holder', q)
        BY <1>1, <1>2, <2>1, <3>1, PriorityMovesOn DEF Alive
      <4> QED BY <1>1, <4>1 DEF RoundInTurnOrder
    <3>2. CASE holder \notin doomed
      BY <1>1, <1>2, <3>2 DEF RoundInTurnOrder
    <3> QED BY <3>1, <3>2
  <2> QED BY <1>1, <1>3, <1>4, <2>2, <2>3
<1> QED BY <1>5, <1>6

\* Placing the waiting abilities keeps the invariant: nothing waits and nobody
\* is about to lose when a player is asked, and a placement starts a new round.
LEMMA TriggersKeepInv ==
  ASSUME Inv, PutTriggersOnStack, TypeOK' PROVE Inv'
<1> USE DEF Inv
<1>1. PICK placed \in Placements :
        /\ stack' = stack \o placed
        /\ \/ /\ placed = <<>>
              /\ pending' = NothingPending
              /\ UNCHANGED <<passes, passed>>
           \/ placed # <<>> /\ NewRound
        /\ step' = AfterTriggers(placed # <<>>)
  BY DEF PutTriggersOnStack
<1>2. step = "triggers" /\ doomed = {} /\ UNCHANGED <<holder, out, doomed>>
  BY DEF PutTriggersOnStack, LosersAreStillToPass
<1>3. NoDepartedOnStack'
  <2>1. placed \in Seq(StackObject) /\ stack \in Seq(StackObject)
    BY PlacementsAreOfTheLiving DEF TypeOK
  <2>2. \A i \in 1..Len(placed) : placed[i].owner \notin out /\ placed[i].controller \notin out
    BY PlacementsAreOfTheLiving
  <2>3. \A i \in 1..Len(stack) : stack[i].owner \notin out /\ stack[i].controller \notin out
    BY DEF NoDepartedOnStack
  <2>4. ASSUME NEW i \in 1..Len(stack')
        PROVE  stack'[i].owner \notin out /\ stack'[i].controller \notin out
    <3>1. CASE i <= Len(stack)
      <4>1. i \in 1..Len(stack) /\ stack'[i] = stack[i]
        BY <1>1, <2>1, <3>1
      <4> QED BY <2>3, <4>1
    <3>2. CASE i > Len(stack)
      <4>1. i - Len(stack) \in 1..Len(placed) /\ stack'[i] = placed[i - Len(stack)]
        BY <1>1, <2>1, <3>2
      <4> QED BY <2>2, <4>1
    <3> QED BY <2>1, <3>1, <3>2
  <2> QED BY <1>2, <2>4 DEF NoDepartedOnStack
<1>4. CASE placed = <<>>
  <2>1. step' = "decide" /\ pending' = NothingPending /\ UNCHANGED <<passes, passed>>
    BY <1>1, <1>4 DEF AfterTriggers
  <2>2. PassesCountTheLiving' /\ RoundInTurnOrder'
    BY <1>2, <2>1 DEF PassesCountTheLiving, RoundInTurnOrder, RoundComplete
  <2>3. LosersAreStillToPass' /\ AsksInASettledGame' /\ EndsQuietly'
    BY <1>2, <2>1 DEF LosersAreStillToPass, AsksInASettledGame, EndsQuietly
  <2> QED BY <1>3, <2>2, <2>3
<1>5. CASE placed # <<>>
  <2>1. step' = "stateBased" /\ NewRound
    BY <1>1, <1>5 DEF AfterTriggers
  <2>2. LosersAreStillToPass' /\ AsksInASettledGame' /\ EndsQuietly'
    BY <2>1, NewRoundRestarts DEF LosersAreStillToPass, AsksInASettledGame, EndsQuietly
  <2> QED BY <1>3, <2>1, <2>2, NewRoundRestarts
<1> QED BY <1>4, <1>5

\* A pass keeps the invariant: it is of a player still to pass, and the order of
\* the round decides who is asked next.
LEMMA PassKeepsInv ==
  ASSUME Inv, Pass \/ SkipDeparted \/ EndStep, TypeOK' PROVE Inv'
<1> USE DEF Inv
<1>1. /\ step = "decide" /\ UNCHANGED <<out, stack, pending, doomed>>
      /\ doomed = {} /\ pending = NothingPending
  BY DEF Pass, SkipDeparted, EndStep, Decides, AsksInASettledGame
<1>2. NoDepartedOnStack'
  BY <1>1 DEF NoDepartedOnStack
<1>3. LosersAreStillToPass' /\ AsksInASettledGame'
  BY <1>1 DEF LosersAreStillToPass, AsksInASettledGame, Pass, SkipDeparted, EndStep
<1>4. CASE SkipDeparted
  <2>1. /\ holder \in out /\ holder' = NextActivePlayer(holder, out)
        /\ step' = "stateBased" /\ UNCHANGED <<passes, passed>>
    BY <1>4 DEF SkipDeparted
  <2>2. PassesCountTheLiving' /\ EndsQuietly'
    BY <1>1, <2>1 DEF PassesCountTheLiving, RoundComplete, EndsQuietly
  <2>3. RoundInTurnOrder'
    <3>1. CASE RoundComplete
      BY <1>1, <2>1, <3>1 DEF RoundInTurnOrder, RoundComplete
    <3>2. CASE ~RoundComplete
      <4>1. passed \in SUBSET Alive(out)
        BY <1>1, <3>2 DEF PassesCountTheLiving
      <4>2. \A q \in passed, r \in Alive(out) \ passed : Ahead(holder', r) < Ahead(holder', q)
        BY <1>1, <2>1, <4>1, PriorityMovesOn DEF Alive, TypeOK
      <4> QED BY <1>1, <2>1, <4>2 DEF RoundInTurnOrder
    <3> QED BY <3>1, <3>2
  <2> QED BY <1>2, <1>3, <2>2, <2>3
<1>5. CASE Pass
  <2>1. /\ holder \notin out /\ holder' = NextActivePlayer(holder, out)
        /\ passes' = passes + 1 /\ passed' = passed \union {holder}
        /\ step' = "stateBased" /\ ~LastPass
    BY <1>5 DEF Pass, Decides
  <2>2. ActivePlayerCount(out) \in Nat /\ passes \in Nat
    BY CountOfTheLiving DEF TypeOK
  <2>3. ~RoundComplete
    <3>1. ~(passes >= ActivePlayerCount(out))
      BY <2>1, <2>2 DEF LastPass
    <3> QED BY <1>1, <3>1, CompleteRoundIsCounted
  <2>4. passed' \in SUBSET Alive(out) /\ passes' = Cardinality(passed')
    BY <1>1, <2>1, <2>3, WhoPasses
  <2>5. PassesCountTheLiving' /\ EndsQuietly'
    BY <1>1, <2>1, <2>4 DEF PassesCountTheLiving, EndsQuietly
  <2>6. RoundInTurnOrder'
    <3>1. passed \in SUBSET Alive(out)
      BY <2>1, <2>4
    <3> QED BY <1>1, <2>1, <3>1, PriorityMovesOn DEF RoundInTurnOrder, TypeOK
  <2> QED BY <1>2, <1>3, <2>5, <2>6
<1>6. CASE EndStep
  <2>1. /\ holder \notin out /\ LastPass /\ stack = <<>>
        /\ passed' = passed \union {holder} /\ step' = "ended"
    BY <1>6 DEF EndStep, Decides
  <2>2. EndsQuietly'
    BY <1>1, <2>1, TheLastPassIsTheLast DEF EndsQuietly, RoundComplete
  <2>3. PassesCountTheLiving' /\ RoundInTurnOrder'
    BY <2>1 DEF PassesCountTheLiving, RoundInTurnOrder
  <2> QED BY <1>2, <1>3, <2>2, <2>3
<1> QED BY <1>4, <1>5, <1>6

\* A resolution and an action keep the invariant: they start a new round, and
\* what they put on the stack is of players still in the game.
LEMMA ActionsKeepInv ==
  ASSUME Inv, ResolveTop \/ Act \/ Reverse, TypeOK' PROVE Inv'
<1> USE DEF Inv
<1>1. step = "decide" /\ holder \notin out /\ step' = "stateBased" /\ out' = out
  BY DEF ResolveTop, Act, Reverse, Decides
<1>2. AsksInASettledGame' /\ EndsQuietly'
  BY <1>1 DEF AsksInASettledGame, EndsQuietly
<1>3. stack \in Seq(StackObject)
      /\ \A i \in 1..Len(stack) : stack[i].owner \notin out /\ stack[i].controller \notin out
  BY DEF TypeOK, NoDepartedOnStack
<1>4. CASE ResolveTop
  <2> DEFINE below == SubSeq(stack, 1, Len(stack) - 1)
  <2>1. stack # <<>> /\ stack' \in StackAfterEffects(below) /\ NewRound
    BY <1>4 DEF ResolveTop
  <2>2. below \in Seq(StackObject) /\ \A i \in 1..Len(below) : i \in 1..Len(stack) /\ below[i] = stack[i]
    BY <1>3, <2>1
  <2> HIDE DEF below
  <2>3. \A i \in 1..Len(stack') : stack'[i].owner \notin out /\ stack'[i].controller \notin out
    <3>1. ASSUME NEW i \in 1..Len(stack')
          PROVE  stack'[i].owner \notin out /\ stack'[i].controller \notin out
      <4>1. CASE \E j \in 1..Len(below) : stack'[i] = below[j]
        BY <1>3, <2>2, <4>1
      <4>2. CASE stack'[i] \in [owner : Alive(out), controller : Alive(out)]
        BY <4>2 DEF Alive
      <4> QED BY <2>1, <2>2, <3>1, <4>1, <4>2, EffectsKeepTheStack
    <3> QED BY <3>1
  <2> QED BY <1>1, <1>2, <2>1, <2>3, NewRoundRestarts DEF NoDepartedOnStack, LosersAreStillToPass
<1>5. CASE Act
  <2>1. NewRound /\ stack' \in {stack} \union
          {Append(stack, [owner |-> p, controller |-> holder]) : p \in Alive(out)}
    BY <1>5 DEF Act
  <2>2. \A i \in 1..Len(stack') : stack'[i].owner \notin out /\ stack'[i].controller \notin out
    <3>1. CASE stack' = stack
      BY <1>3, <3>1
    <3>2. ASSUME NEW p \in Alive(out), stack' = Append(stack, [owner |-> p, controller |-> holder])
          PROVE  \A i \in 1..Len(stack') : stack'[i].owner \notin out /\ stack'[i].controller \notin out
      <4> DEFINE obj == [owner |-> p, controller |-> holder]
      <4>1. obj.owner \notin out /\ obj.controller \notin out /\ stack' = Append(stack, obj)
        BY <1>1, <3>2 DEF Alive
      <4> HIDE DEF obj
      <4>2. \A i \in 1..Len(stack') : stack'[i] = obj \/ (i \in 1..Len(stack) /\ stack'[i] = stack[i])
        BY <1>3, <4>1
      <4> QED BY <1>3, <4>1, <4>2
    <3> QED BY <2>1, <3>1, <3>2
  <2> QED BY <1>1, <1>2, <2>1, <2>2, NewRoundRestarts DEF NoDepartedOnStack, LosersAreStillToPass
<1>6. CASE Reverse
  <2>1. doomed' \in SUBSET {holder} /\ UNCHANGED <<holder, passes, stack, passed>>
    BY <1>6 DEF Reverse
  <2>2. PassesCountTheLiving' /\ RoundInTurnOrder' /\ NoDepartedOnStack'
    BY <1>1, <2>1 DEF PassesCountTheLiving, RoundInTurnOrder, RoundComplete, NoDepartedOnStack
  <2>3. LosersAreStillToPass'
    <3>1. CASE RoundComplete
      BY <1>1, <2>1, <3>1 DEF LosersAreStillToPass, RoundComplete
    <3>2. CASE ~RoundComplete
      BY <1>1, <2>1, <3>2, WhoPasses DEF LosersAreStillToPass
    <3> QED BY <3>1, <3>2
  <2> QED BY <1>2, <2>2, <2>3
<1> QED BY <1>4, <1>5, <1>6

\* Inv is inductive: every step of the loop keeps it.
LEMMA InvStep == Inv /\ [Next]_vars => Inv'
<1> SUFFICES ASSUME Inv, [Next]_vars PROVE Inv'
  OBVIOUS
<1>1. TypeOK'
  BY TypeStep DEF Inv
<1>2. CASE ApplyStateBasedActions
  BY <1>1, <1>2, StateBasedActionsKeepInv
<1>3. CASE PutTriggersOnStack
  BY <1>1, <1>3, TriggersKeepInv
<1>4. CASE Pass \/ SkipDeparted \/ EndStep
  BY <1>1, <1>4, PassKeepsInv
<1>5. CASE ResolveTop \/ Act \/ Reverse
  BY <1>1, <1>5, ActionsKeepInv
<1>6. CASE ExhaustBudget
  BY <1>1, <1>6 DEF ExhaustBudget, Inv, PassesCountTheLiving, RoundInTurnOrder,
     LosersAreStillToPass, AsksInASettledGame, NoDepartedOnStack, EndsQuietly
<1>7. CASE UNCHANGED vars
  BY <1>1, <1>7 DEF vars, Inv, PassesCountTheLiving, RoundInTurnOrder, RoundComplete,
     LosersAreStillToPass, AsksInASettledGame, NoDepartedOnStack, EndsQuietly
<1> QED BY <1>2, <1>3, <1>4, <1>5, <1>6, <1>7 DEF Next

\* The safety of the loop, for every number of seats and every bound.
THEOREM Safety == Spec => []Inv
BY InvInit, InvStep, PTL DEF Spec

\* The counter agrees with the players who passed (CR 117.4, 800.4).
THEOREM CountIsOfTheLiving == Spec => []PassesCountTheLiving
<1>1. Inv => PassesCountTheLiving
  BY DEF Inv
<1> QED BY <1>1, Safety, PTL

\* Nobody is skipped and nobody is asked twice in a round.
THEOREM RoundsFollowTurnOrder == Spec => []RoundInTurnOrder
<1>1. Inv => RoundInTurnOrder
  BY DEF Inv
<1> QED BY <1>1, Safety, PTL

\* Players are asked to act in a settled game only, and steps end in one.
THEOREM SettledWhenAskedAndAtTheEnd == Spec => []SettledThroughout
<1>1. Inv => SettledThroughout
  BY DEF Inv, SettledThroughout
<1> QED BY <1>1, Safety, PTL

\* Departed players leave nothing on the stack.
THEOREM StackOfTheLiving == Spec => []NoDepartedOnStack
<1>1. Inv => NoDepartedOnStack
  BY DEF Inv
<1> QED BY <1>1, Safety, PTL
-------------------------------------------------------------------------------
\* A pass that the count does not take for the last one leaves somebody to pass.
LEMMA MoreAreToPass ==
  ASSUME Inv, Pass
  PROVE  Alive(out) \ (passed \union {holder}) # {}
<1>1. /\ TypeOK /\ PassesCountTheLiving /\ RoundInTurnOrder
      /\ step = "decide" /\ holder \notin out /\ ~LastPass
  BY DEF Inv, Pass, Decides
<1>2. ActivePlayerCount(out) = Cardinality(Alive(out)) /\ ActivePlayerCount(out) \in Nat /\ passes \in Nat
  BY <1>1, CountOfTheLiving DEF TypeOK
<1>3. passes + 1 < ActivePlayerCount(out)
  BY <1>1, <1>2 DEF LastPass
<1>4. ~RoundComplete
  BY <1>1, <1>2, <1>3, CompleteRoundIsCounted
<1>5. /\ passed \union {holder} \in SUBSET Alive(out)
      /\ passes + 1 = Cardinality(passed \union {holder})
  BY <1>1, <1>4, WhoPasses
<1>6. passed \union {holder} # Alive(out)
  BY <1>2, <1>3, <1>5
<1> QED BY <1>5, <1>6

\* Every step of the loop is a step of the abstract window or none at all.
LEMMA StepOfTheRound ==
  ASSUME Inv, [Next]_vars PROVE [Round!Next]_Round!vars
<1> USE DEF Round!Next, Round!vars
<1>1. TypeOK /\ LosersAreStillToPass
  BY DEF Inv
<1>2. CASE ApplyStateBasedActions
  <2>1. /\ step = "stateBased" /\ step' \in {"over", "triggers"}
        /\ out' = out \union doomed /\ passed' = passed
    BY <1>2 DEF ApplyStateBasedActions
  <2>2. doomed \in SUBSET Alive(out) /\ Alive(out') = Alive(out) \ doomed
    BY <1>1, <2>1 DEF TypeOK, Alive
  <2>3. doomed \subseteq Alive(out) \ passed \/ Alive(out) \ passed = {}
    BY <1>1, <2>1, <2>2 DEF LosersAreStillToPass, RoundComplete
  <2>4. Round!Leave(doomed)
    BY <2>1, <2>2, <2>3 DEF Round!Leave
  <2> QED BY <2>1, <2>2, <2>4
<1>3. CASE PutTriggersOnStack
  <2>1. /\ step = "triggers" /\ step' \in {"stateBased", "decide"} /\ out' = out
        /\ passed' = passed \/ passed' = {}
    BY <1>3 DEF PutTriggersOnStack, NewRound, AfterTriggers
  <2>2. CASE passed' = passed
    BY <2>1, <2>2
  <2>3. CASE passed' = {}
    <3>1. Round!NewRound
      BY <2>1, <2>3 DEF Round!NewRound
    <3> QED BY <2>1, <3>1
  <2> QED BY <2>1, <2>2, <2>3
<1>4. CASE SkipDeparted
  BY <1>4 DEF SkipDeparted
<1>5. CASE Pass
  <2>1. /\ step = "decide" /\ step' = "stateBased" /\ out' = out /\ holder \in Alive(out)
        /\ passed' = passed \union {holder}
    BY <1>1, <1>5 DEF Pass, Decides, TypeOK, Alive
  <2>2. Round!Pass(holder)
    BY <1>5, <2>1, MoreAreToPass DEF Round!Pass
  <2> QED BY <2>1, <2>2
<1>6. ASSUME EndStep \/ ResolveTop
      PROVE  /\ step = "decide" /\ holder \in Alive(out) /\ out' = out
             /\ Alive(out) \ passed \subseteq {holder}
  <2>1. step = "decide" /\ holder \notin out /\ out' = out /\ LastPass
    BY <1>6 DEF EndStep, ResolveTop, Decides
  <2>2. Alive(out) \subseteq passed \union {holder}
    BY <2>1, TheLastPassIsTheLast DEF Inv
  <2> QED BY <1>1, <2>1, <2>2 DEF TypeOK, Alive
<1>7. CASE EndStep
  <2>1. passed' = passed \union {holder} /\ step' = "ended"
    BY <1>7 DEF EndStep
  <2>2. Round!LastPass(holder)
    BY <1>6, <1>7, <2>1 DEF Round!LastPass
  <2> QED BY <1>6, <1>7, <2>2
<1>8. CASE ResolveTop
  <2>1. passed' = {} /\ step' = "stateBased"
    BY <1>8 DEF ResolveTop, NewRound
  <2>2. Round!LastPass(holder)
    BY <1>6, <1>8, <2>1 DEF Round!LastPass
  <2> QED BY <1>6, <1>8, <2>2
<1>9. CASE Act
  <2>1. step = "decide" /\ step' = "stateBased" /\ out' = out /\ passed' = {}
    BY <1>9 DEF Act, Decides, NewRound
  <2>2. Round!NewRound
    BY <2>1 DEF Round!NewRound
  <2> QED BY <2>1, <2>2
<1>10. CASE Reverse
  BY <1>10 DEF Reverse, Decides
<1>11. CASE ExhaustBudget
  <2>1. Round!GiveUp
    BY <1>11 DEF ExhaustBudget, Round!GiveUp
  <2> QED BY <1>11, <2>1 DEF ExhaustBudget
<1>12. CASE UNCHANGED vars
  BY <1>12 DEF vars
<1> QED BY <1>2, <1>3, <1>4, <1>5, <1>7, <1>8, <1>9, <1>10, <1>11, <1>12 DEF Next

\* The loop, which counts passes and rotates priority, keeps the promise of
\* CR 117.4: an object resolves and a step ends only when every player still in
\* the game has passed since anybody last did anything.
THEOREM KeepsThePromise == Spec => ImplementsPassRound
<1>1. Init => Round!Init
  BY DEF Init, Round!Init, Alive
<1>2. Inv /\ [Next]_vars => [Round!Next]_Round!vars
  BY StepOfTheRound
<1> QED BY <1>1, <1>2, Safety, PTL DEF Spec, ImplementsPassRound, Round!Spec
===============================================================================
