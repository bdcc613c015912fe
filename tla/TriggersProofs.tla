---------------------------- MODULE TriggersProofs ----------------------------
(***************************************************************************)
(* Proofs about state triggers, for any number of players, sources and     *)
(* effects, and about the event log and delayed triggers, for logs of any  *)
(* length, any number of triggers and any turns.                           *)
(***************************************************************************)
EXTENDS StateTriggers, TriggerLog, WellFoundedInduction, TLAPS

-----------------------------------------------------------------------------
(* State triggers.                                                         *)

LEMMA STInvInit == ASSUME STInit PROVE STInv
  BY ObjectsAssumption
     DEF STInit, STInv, STTypeOK, IdentitiesAreFresh, HeldBackByItsAbility,
         WaitingHoldsBack, WaitsOnce, NothingOfTheDeparted, Waiting, Originals, Active

\* Taking one object off the stack and releasing the latch of its source, which
\* may have left the battlefield by then.
LEMMA RemovalKeepsInv ==
  ASSUME STInv, NEW o \in stack, stack' = stack \ {o}, Release(o),
         where' \in {where, [where EXCEPT ![o.source] = "gone"]},
         effects' \in 0..MaxEffects,
         UNCHANGED <<owner, controller, lacks, ids, out>>
  PROVE  STInv'
  <1>1. o \in StackObject /\ o.source \in Source
    BY DEF STInv, STTypeOK, StackObject
  <1>2. STTypeOK'
    BY <1>1 DEF STInv, STTypeOK, Release
  <1>3. IdentitiesAreFresh'
    BY DEF STInv, IdentitiesAreFresh
  <1>4. \A s \in Source \ {o.source} :
          /\ Waiting(s)' = Waiting(s)
          /\ (s \in latches' <=> s \in latches)
          /\ (s \in early' <=> s \in early)
          /\ (s \in orphaned' <=> s \in orphaned)
    BY <1>1 DEF Release, Waiting, STInv, STTypeOK
  <1>5. HeldBackByItsAbility'
    <2> SUFFICES ASSUME NEW s \in latches'
                 PROVE  Waiting(s)' # {} \/ s \in orphaned'
      BY DEF HeldBackByItsAbility
    <2>1. s \in Source /\ s # o.source
      BY <1>2 DEF Release, STTypeOK
    <2> QED BY <1>4, <2>1 DEF STInv, HeldBackByItsAbility
  <1>6. WaitingHoldsBack'
    <2> SUFFICES ASSUME NEW s \in Source, Waiting(s)' # {} PROVE s \in latches' \union early'
      BY DEF WaitingHoldsBack
    <2>1. CASE s = o.source
      <3>1. Waiting(s) # {o}
        BY <2>1 DEF Waiting
      <3> QED BY <2>1, <3>1 DEF Release
    <2>2. CASE s # o.source
      BY <1>4, <2>2 DEF STInv, WaitingHoldsBack
    <2> QED BY <2>1, <2>2
  <1>7. WaitsOnce'
    <2> SUFFICES ASSUME NEW s \in Source, NEW a \in Originals(s)', NEW b \in Originals(s)', a # b
                 PROVE  s \in early'
      BY DEF WaitsOnce
    <2>1. a \in Originals(s) /\ b \in Originals(s)
      BY DEF Originals, Waiting
    <2>2. s \in early
      BY <2>1 DEF STInv, WaitsOnce
    <2>3. a \in Waiting(s)'
      BY DEF Originals
    <2>4. CASE s = o.source
      <3>1. Waiting(s) # {o}
        BY <2>3, <2>4 DEF Waiting
      <3> QED BY <2>4, <3>1 DEF Release
    <2>5. CASE s # o.source
      BY <1>4, <2>2, <2>5
    <2> QED BY <2>4, <2>5
  <1>8. NothingOfTheDeparted'
    BY <1>1 DEF STInv, STTypeOK, NothingOfTheDeparted
  <1> QED BY <1>2, <1>3, <1>5, <1>6, <1>7, <1>8 DEF STInv

\* Effects that leave latches and stack alone: the source moves, changes control
\* or loses the ability.
LEMMA SourcesChange ==
  ASSUME STInv, Effect, ChangeControl \/ ChangeAbilities \/ Move
  PROVE  STInv'
  <1>1. /\ UNCHANGED <<owner, latches, stack, ids, out, orphaned, early>>
        /\ effects' \in 0..MaxEffects
    BY ObjectsAssumption DEF ChangeControl, ChangeAbilities, Move, Effect, STInv, STTypeOK
  <1>2. \A s \in Source : Waiting(s)' = Waiting(s) /\ Originals(s)' = Originals(s)
    BY <1>1 DEF Waiting, Originals
  <1>3. STTypeOK' /\ NothingOfTheDeparted'
    <2>1. CASE ChangeControl
      BY <1>1, <2>1 DEF ChangeControl, STInv, STTypeOK, NothingOfTheDeparted, Active
    <2>2. CASE ChangeAbilities
      BY <1>1, <2>2 DEF ChangeAbilities, STInv, STTypeOK, NothingOfTheDeparted, Active
    <2>3. CASE Move
      BY <1>1, <2>3 DEF Move, STInv, STTypeOK, NothingOfTheDeparted
    <2> QED BY <2>1, <2>2, <2>3
  <1> QED BY <1>1, <1>2, <1>3
          DEF STInv, STTypeOK, IdentitiesAreFresh, HeldBackByItsAbility, WaitingHoldsBack, WaitsOnce

\* A copy waits beside what it copies; no latch is looked at.
LEMMA CopyKeepsInv ==
  ASSUME STInv, Copy
  PROVE  STInv'
  <1>1. PICK o \in stack, p \in Player \ out :
          stack' = stack \union {[o EXCEPT !.id = ids', !.copy = TRUE, !.controller = p, !.mine = p]}
    BY DEF Copy
  <1> DEFINE new == [o EXCEPT !.id = ids', !.copy = TRUE, !.controller = p, !.mine = p]
  <1>2. /\ UNCHANGED <<owner, controller, where, lacks, latches, out, orphaned, early>>
        /\ effects' \in 0..MaxEffects /\ ids < MaxObjects /\ ids' = ids + 1
    BY ObjectsAssumption DEF Copy, Effect, STInv, STTypeOK
  <1>3. /\ new \in StackObject /\ new.id = ids' /\ new.copy = TRUE
        /\ new.source = o.source /\ new.controller = p /\ new.mine = p
    <2>1. o \in StackObject /\ ids \in 0..MaxObjects
      BY DEF STInv, STTypeOK
    <2>2. ids' \in 1..MaxObjects
      BY <1>2, <2>1, ObjectsAssumption
    <2> QED BY <2>1, <2>2 DEF StackObject
  <1> HIDE DEF new
  <1>4. STTypeOK'
    BY <1>1, <1>2, <1>3, ObjectsAssumption DEF STInv, STTypeOK, new
  <1>5. IdentitiesAreFresh'
    <2>1. \A a \in stack : a.id <= ids /\ a.id # ids' /\ a.id <= ids'
      BY <1>2 DEF STInv, STTypeOK, IdentitiesAreFresh, StackObject
    <2>2. stack' = stack \union {new}
      BY <1>1 DEF new
    <2>3. ids' <= ids'
      BY <1>2 DEF STInv, STTypeOK
    <2> QED BY <1>3, <2>1, <2>2, <2>3 DEF STInv, IdentitiesAreFresh
  <1>6. \A s \in Source :
          Originals(s)' = Originals(s) /\ (Waiting(s)' # {} <=> Waiting(s) # {})
    <2>1. stack' = stack \union {new}
      BY <1>1 DEF new
    <2> QED BY <1>3, <2>1 DEF Waiting, Originals
  <1>7. HeldBackByItsAbility' /\ WaitingHoldsBack' /\ WaitsOnce'
    BY <1>2, <1>6 DEF STInv, STTypeOK, HeldBackByItsAbility, WaitingHoldsBack, WaitsOnce
  <1>8. NothingOfTheDeparted'
    BY <1>1, <1>2, <1>3 DEF STInv, NothingOfTheDeparted, new
  <1> QED BY <1>4, <1>5, <1>7, <1>8 DEF STInv

\* A new controller: the ability is the same ability.
LEMMA ControllerChangeKeepsInv ==
  ASSUME STInv, ChangeStackObjectController
  PROVE  STInv'
  <1>1. PICK o \in stack, p \in Player \ out :
          stack' = (stack \ {o}) \union {[o EXCEPT !.controller = p]}
    BY DEF ChangeStackObjectController
  <1> DEFINE new == [o EXCEPT !.controller = p]
  <1>2. /\ UNCHANGED <<owner, controller, where, lacks, latches, ids, out, orphaned, early>>
        /\ effects' \in 0..MaxEffects
    BY ObjectsAssumption DEF ChangeStackObjectController, Effect, STInv, STTypeOK
  <1>3. /\ new \in StackObject /\ new.id = o.id /\ new.copy = o.copy /\ new.source = o.source
        /\ new.controller = p /\ new.mine = o.mine
    BY DEF STInv, STTypeOK, StackObject
  <1>4. stack' = (stack \ {o}) \union {new}
    BY <1>1
  <1> HIDE DEF new
  <1>5. STTypeOK' /\ NothingOfTheDeparted'
    BY <1>1, <1>2, <1>3, <1>4 DEF STInv, STTypeOK, NothingOfTheDeparted
  <1>6. IdentitiesAreFresh'
    BY <1>1, <1>2, <1>3, <1>4 DEF STInv, IdentitiesAreFresh
  <1>7. \A s \in Source : Waiting(s)' # {} <=> Waiting(s) # {}
    BY <1>3, <1>4 DEF Waiting
  <1>8. WaitsOnce'
    <2> SUFFICES ASSUME NEW s \in Source, NEW a \in Originals(s)', NEW b \in Originals(s)', a # b
                 PROVE  s \in early
      BY <1>2 DEF WaitsOnce
    <2> DEFINE Old(x) == IF x = new THEN o ELSE x
    <2>1. Old(a) \in Originals(s) /\ Old(b) \in Originals(s)
      BY <1>3, <1>4 DEF Originals, Waiting
    <2>2. Old(a) # Old(b)
      BY <1>3, <1>4 DEF Originals, Waiting
    <2> QED BY <2>1, <2>2 DEF STInv, WaitsOnce
  <1> QED BY <1>2, <1>5, <1>6, <1>7, <1>8 DEF STInv, STTypeOK, HeldBackByItsAbility, WaitingHoldsBack

\* A departure takes abilities off the stack; what it silences is marked.
LEMMA DepartureKeepsInv ==
  ASSUME STInv, Leave
  PROVE  STInv'
  <1>1. PICK p \in Player \ out :
    /\ out' = out \union {p}
    /\ stack' = StackWithout(p)
    /\ where' = [s \in Source |-> IF owner[s] = p THEN "gone" ELSE where[s]]
    /\ controller' = [s \in Source |->
         IF controller[s] = p THEN owner[s] ELSE controller[s]]
    /\ LET silenced == {o.source : o \in stack} \ {o.source : o \in stack'}
       IN /\ orphaned' = orphaned \union (silenced \intersect latches)
          /\ early' = early \ silenced
    /\ UNCHANGED <<owner, lacks, latches, ids, effects>>
    BY DEF Leave
  <1>2. stack' \subseteq stack /\ \A o \in stack' : o.mine # p /\ o.controller # p
    BY <1>1 DEF StackWithout
  <1>3. STTypeOK'
    BY <1>1, <1>2 DEF STInv, STTypeOK
  <1>4. IdentitiesAreFresh'
    BY <1>1, <1>2 DEF STInv, IdentitiesAreFresh
  <1>5. HeldBackByItsAbility'
    BY <1>1, <1>2 DEF STInv, HeldBackByItsAbility, Waiting
  <1>6. WaitingHoldsBack'
    BY <1>1, <1>2 DEF STInv, WaitingHoldsBack, Waiting
  <1>7. WaitsOnce'
    <2> SUFFICES ASSUME NEW s \in Source, NEW a \in Originals(s)', NEW b \in Originals(s)', a # b
                 PROVE  s \in early'
      BY DEF WaitsOnce
    <2>1. a \in Originals(s) /\ b \in Originals(s) /\ a \in stack' /\ a.source = s
      BY <1>2 DEF Originals, Waiting
    <2> QED BY <1>1, <2>1 DEF STInv, WaitsOnce
  <1>8. NothingOfTheDeparted'
    BY <1>1, <1>2 DEF STInv, STTypeOK, NothingOfTheDeparted
  <1> QED BY <1>3, <1>4, <1>5, <1>6, <1>7, <1>8 DEF STInv

\* A pass puts an ability on the stack only for a source that is not held back.
LEMMA STPassKeepsInv ==
  ASSUME STInv, PutOnStack
  PROVE  STInv'
  <1>1. PICK holds \in SUBSET Source : \E dropped \in SUBSET Triggered(holds) :
         LET placed == Triggered(holds) \ dropped
         IN \E order \in [placed -> 1..MaxObjects] :
              /\ \A s \in placed : order[s] > ids
              /\ \A s, t \in placed : s # t => order[s] # order[t]
              /\ ids' \in ids..MaxObjects
              /\ \A s \in placed : order[s] <= ids'
              /\ stack' = stack \union
                   {[id |-> order[s], source |-> s, copy |-> FALSE,
                     controller |-> controller[s], mine |-> controller[s]] : s \in placed}
              /\ latches' = LatchesAfterPass(Triggered(holds), dropped)
              /\ orphaned' = orphaned \intersect latches'
              /\ early' = early \union {s \in latches \intersect SeenWithout : Waiting(s) # {}}
              /\ UNCHANGED <<owner, controller, where, lacks, effects, out>>
    BY DEF PutOnStack
  <1> DEFINE triggered == Triggered(holds)
  <1>2. PICK dropped \in SUBSET triggered :
         LET placed == triggered \ dropped
         IN \E order \in [placed -> 1..MaxObjects] :
              /\ \A s \in placed : order[s] > ids
              /\ \A s, t \in placed : s # t => order[s] # order[t]
              /\ ids' \in ids..MaxObjects
              /\ \A s \in placed : order[s] <= ids'
              /\ stack' = stack \union
                   {[id |-> order[s], source |-> s, copy |-> FALSE,
                     controller |-> controller[s], mine |-> controller[s]] : s \in placed}
              /\ latches' = LatchesAfterPass(triggered, dropped)
              /\ orphaned' = orphaned \intersect latches'
              /\ early' = early \union {s \in latches \intersect SeenWithout : Waiting(s) # {}}
              /\ UNCHANGED <<owner, controller, where, lacks, effects, out>>
    BY <1>1
  <1> DEFINE placed == triggered \ dropped
  <1>3. PICK order \in [placed -> 1..MaxObjects] :
              /\ \A s \in placed : order[s] > ids
              /\ \A s, t \in placed : s # t => order[s] # order[t]
              /\ ids' \in ids..MaxObjects
              /\ \A s \in placed : order[s] <= ids'
              /\ stack' = stack \union
                   {[id |-> order[s], source |-> s, copy |-> FALSE,
                     controller |-> controller[s], mine |-> controller[s]] : s \in placed}
              /\ latches' = LatchesAfterPass(triggered, dropped)
              /\ orphaned' = orphaned \intersect latches'
              /\ early' = early \union {s \in latches \intersect SeenWithout : Waiting(s) # {}}
              /\ UNCHANGED <<owner, controller, where, lacks, effects, out>>
    BY <1>2
  <1> DEFINE Ability(s) == [id |-> order[s], source |-> s, copy |-> FALSE,
                            controller |-> controller[s], mine |-> controller[s]]
  <1>4. /\ placed \subseteq Active /\ placed \subseteq Source
        /\ placed \intersect latches = {} /\ placed \intersect dropped = {}
        /\ triggered \intersect latches = {}
    BY DEF Triggered, Active
  <1>5. /\ latches' \subseteq latches \union placed
        /\ placed \subseteq latches'
        /\ \A s \in latches \ latches' : s \in SeenWithout
    <2>1. /\ latches \subseteq Source
          /\ \A s \in Source : where[s] \in {"active", "phasedOut", "gone"}
      BY DEF STInv, STTypeOK
    <2>2. latches \ Kept \subseteq SeenWithout
      BY <2>1 DEF Kept, SeenWithout, Active
    <2> QED BY <1>3, <1>4, <2>2 DEF LatchesAfterPass, Kept
  <1> HIDE DEF triggered
  <1>6. \A s \in placed : Ability(s) \in StackObject
    BY <1>3, <1>4 DEF STInv, STTypeOK, StackObject
  <1>7. STTypeOK'
    BY <1>3, <1>4, <1>5, <1>6, ObjectsAssumption DEF STInv, STTypeOK
  <1>8. IdentitiesAreFresh'
    <2>1. \A o \in stack : o.id \in Nat /\ o.id <= ids
      BY ObjectsAssumption DEF STInv, STTypeOK, IdentitiesAreFresh, StackObject
    <2>2. \A s \in placed : order[s] \in Nat /\ order[s] > ids /\ order[s] <= ids'
      BY <1>3, ObjectsAssumption
    <2>3. ids \in Nat /\ ids' \in Nat /\ ids <= ids'
      BY <1>3, ObjectsAssumption DEF STInv, STTypeOK
    <2>4. \A o \in stack : o.id <= ids'
      BY <2>1, <2>3
    <2>5. \A o \in stack, s \in placed : o.id # order[s]
      BY <2>1, <2>2, <2>3
    <2>6. \A o \in stack' : o \in stack \/ \E s \in placed : o = Ability(s) /\ o.id = order[s]
      BY <1>3
    <2>7. \A o \in stack' : o.id <= ids'
      BY <2>2, <2>4, <2>6
    <2>8. \A o, other \in stack : o.id = other.id => o = other
      BY DEF STInv, IdentitiesAreFresh
    <2>9. \A s, t \in placed : order[s] = order[t] => Ability(s) = Ability(t)
      BY <1>3
    <2> HIDE DEF Ability
    <2>10. \A o, other \in stack' : o.id = other.id => o = other
      BY <2>5, <2>6, <2>8, <2>9
    <2> QED BY <2>7, <2>10 DEF IdentitiesAreFresh
  <1>9. \A s \in Source : Waiting(s) \subseteq Waiting(s)'
    BY <1>3 DEF Waiting
  <1>10. \A s \in Source \ placed : Waiting(s)' = Waiting(s) /\ Originals(s)' = Originals(s)
    BY <1>3 DEF Waiting, Originals
  <1>11. \A s \in placed : Ability(s) \in Waiting(s)'
    BY <1>3 DEF Waiting
  <1>12. HeldBackByItsAbility'
    <2> SUFFICES ASSUME NEW s \in latches' PROVE Waiting(s)' # {} \/ s \in orphaned'
      BY DEF HeldBackByItsAbility
    <2>1. s \in Source
      BY <1>7 DEF STTypeOK
    <2>2. CASE s \in placed
      BY <1>11, <2>2
    <2>3. CASE s \in latches
      BY <1>3, <1>9, <2>1, <2>3 DEF STInv, HeldBackByItsAbility
    <2> QED BY <1>5, <2>2, <2>3
  <1>13. WaitingHoldsBack'
    <2> SUFFICES ASSUME NEW s \in Source, Waiting(s)' # {} PROVE s \in latches' \union early'
      BY DEF WaitingHoldsBack
    <2>1. CASE s \in placed
      BY <1>5, <2>1
    <2>2. CASE s \notin placed
      BY <1>3, <1>5, <1>10, <2>2 DEF STInv, WaitingHoldsBack
    <2> QED BY <2>1, <2>2
  <1>14. WaitsOnce'
    <2> SUFFICES ASSUME NEW s \in Source, NEW a \in Originals(s)', NEW b \in Originals(s)', a # b
                 PROVE  s \in early'
      BY DEF WaitsOnce
    <2>1. CASE s \in placed
      <3>1. Waiting(s) = {} \/ s \in early
        BY <1>4, <2>1 DEF STInv, WaitingHoldsBack
      <3>2. CASE Waiting(s) = {}
        <4>1. \A x \in Originals(s)' : x = Ability(s)
          BY <1>3, <3>2 DEF Originals, Waiting
        <4> QED BY <4>1
      <3> QED BY <1>3, <3>1, <3>2
    <2>2. CASE s \notin placed
      BY <1>3, <1>10, <2>2 DEF STInv, WaitsOnce
    <2> QED BY <2>1, <2>2
  <1>15. NothingOfTheDeparted'
    <2>1. \A s \in placed : controller[s] \notin out
      BY <1>4 DEF STInv, NothingOfTheDeparted, Active
    <2>2. \A o \in stack' \ stack : o.mine \notin out /\ o.controller \notin out
      BY <1>3, <2>1
    <2> QED BY <1>3, <2>2 DEF STInv, NothingOfTheDeparted
  <1> QED BY <1>7, <1>8, <1>12, <1>13, <1>14, <1>15 DEF STInv

LEMMA STInvStep == ASSUME STInv, [STNext]_STvars PROVE STInv'
  <1>1. CASE PutOnStack
    BY <1>1, STPassKeepsInv
  <1>2. CASE Resolve
    <2>1. effects' \in 0..MaxEffects
      BY <1>2 DEF Resolve, STInv, STTypeOK
    <2> QED BY <1>2, <2>1, RemovalKeepsInv DEF Resolve
  <1>3. CASE Counter
    <2>1. effects' \in 0..MaxEffects
      BY <1>3, ObjectsAssumption DEF Counter, Effect, STInv, STTypeOK
    <2> QED BY <1>3, <2>1, RemovalKeepsInv DEF Counter, CounterAbility
  <1>4. CASE Copy
    BY <1>4, CopyKeepsInv
  <1>5. CASE ChangeStackObjectController
    BY <1>5, ControllerChangeKeepsInv
  <1>6. CASE ChangeControl \/ ChangeAbilities \/ Move
    <2>1. Effect
      BY <1>6 DEF ChangeControl, ChangeAbilities, Move
    <2> QED BY <1>6, <2>1, SourcesChange
  <1>7. CASE Leave
    BY <1>7, DepartureKeepsInv
  <1>8. CASE UNCHANGED STvars
    BY <1>8 DEF STvars, STInv, STTypeOK, IdentitiesAreFresh, HeldBackByItsAbility, WaitingHoldsBack,
                WaitsOnce, NothingOfTheDeparted, Waiting, Originals
  <1> QED BY <1>1, <1>2, <1>3, <1>4, <1>5, <1>6, <1>7, <1>8 DEF STNext

LEMMA STInvariance == STSpec => []STInv
  <1>1. STInit => STInv
    BY STInvInit
  <1>2. STInv /\ [STNext]_STvars => STInv'
    BY STInvStep
  <1> QED BY <1>1, <1>2, PTL DEF STSpec

\* detectStateTriggeredAbilities and releaseStateTriggerLatch: a source is held
\* back by an ability of its own that waits, or by one that left with a player.
THEOREM HeldBack == STSpec => []HeldBackByItsAbility
  <1>1. STInv => HeldBackByItsAbility
    BY DEF STInv
  <1> QED BY <1>1, STInvariance, PTL

\* While the ability waits its source is held back, except after a copy of it
\* left the stack first and after the source was seen without the ability.
THEOREM HoldsBack == STSpec => []WaitingHoldsBack
  <1>1. STInv => WaitingHoldsBack
    BY DEF STInv
  <1> QED BY <1>1, STInvariance, PTL

\* With the same exceptions an ability is not on the stack twice (CR 603.8).
THEOREM OneWaits == STSpec => []WaitsOnce
  <1>1. STInv => WaitsOnce
    BY DEF STInv
  <1> QED BY <1>1, STInvariance, PTL

\* leaveDepartedOwnedObjects and cleanupDepartedStackObjects leave no ability of
\* a departed player on the stack, and nothing is put there for one later.
THEOREM NothingStays == STSpec => []NothingOfTheDeparted
  <1>1. STInv => NothingOfTheDeparted
    BY DEF STInv
  <1> QED BY <1>1, STInvariance, PTL

-----------------------------------------------------------------------------
(* The event log and delayed triggers.                                     *)
\* Least elements.
LEMMA Least ==
  ASSUME NEW S \in SUBSET Nat, S # {}
  PROVE  \E x \in S : \A y \in S : x <= y
  <1> DEFINE R == OpToRel(<, Nat)
  <1>1. IsWellFoundedOn(R, Nat)
    BY NatLessThanWellFounded
  <1>2. \A x, y \in Nat : y < x => <<y, x>> \in R
    BY DEF OpToRel
  <1> HIDE DEF R
  <1>3. \E x \in S : \A y \in S : ~(<<y, x>> \in R)
    BY <1>1, WFMin
  <1>4. PICK x \in S : \A y \in S : ~(<<y, x>> \in R)
    BY <1>3
  <1>5. \A y \in S : x <= y
    <2> SUFFICES ASSUME NEW y \in S PROVE x <= y
      OBVIOUS
    <2>1. x \in Nat /\ y \in Nat
      OBVIOUS
    <2>2. ~(y < x)
      BY <1>2, <1>4, <2>1, Zenon
    <2> QED BY <2>1, <2>2
  <1> QED BY <1>5

LEMMA FirstOfSome ==
  ASSUME NEW S \in SUBSET Nat
  PROVE  First(S) = {} <=> S = {}
  BY Least DEF First

\* What comes later does not change what came first.
LEMMA FirstStays ==
  ASSUME NEW S \in SUBSET Nat, NEW T \in SUBSET Nat, S # {}, \A i \in S, j \in T : i < j
  PROVE  First(S \union T) = First(S)
  <1>1. PICK x \in S : \A y \in S : x <= y
    BY Least
  <1>2. First(S) = {x}
    <2>1. \A z \in S : (\A y \in S : z <= y) => z = x
      BY <1>1
    <2> QED BY <1>1, <2>1 DEF First
  <1>3. \A y \in S \union T : x <= y
    BY <1>1
  <1>4. \A z \in S \union T : (\A y \in S \union T : z <= y) => z = x
    BY <1>1, <1>3
  <1>5. First(S \union T) = {x}
    BY <1>1, <1>3, <1>4 DEF First
  <1> QED BY <1>2, <1>5

LEMMA FirstOfOne ==
  ASSUME NEW S \in SUBSET Nat, \A i, j \in S : i = j
  PROVE  First(S) = S
  <1>1. \A i, j \in S : i <= j
    <2>1. \A i \in S : i <= i
      OBVIOUS
    <2> QED BY <2>1
  <1> QED BY <1>1 DEF First

-------------------------------------------------------------------------------
\* The log only grows.
LEMMA Growing ==
  ASSUME TLTypeOK, NEW e \in Event, log' \in {log, Append(log, e)}
  PROVE  /\ log' \in Seq(Event)
         /\ End \in Nat /\ End' \in Nat /\ End <= End' /\ End' <= End + 1
         /\ \A i \in 1..End : log'[i] = log[i]
         /\ \A i \in (End + 1)..End' : i = End + 1 /\ log'[i] = e
  BY DEF TLTypeOK, End

LEMMA OneMore ==
  ASSUME TLTypeOK, NEW e, NEW new \in {<<>>, <<e>>}, log' = log \o new
  PROVE  log' \in {log, Append(log, e)} /\ Len(new) \in 0..1 /\ End' = End + Len(new)
  <1>1. log \in Seq(Event)
    BY DEF TLTypeOK
  <1>2. CASE new = <<>>
    <2>1. log' = log
      BY <1>1, <1>2
    <2> QED BY <2>1, <1>1, <1>2 DEF End
  <1>3. CASE new = <<e>>
    <2>1. log' = Append(log, e)
      BY <1>1, <1>3
    <2> QED BY <2>1, <1>1, <1>3 DEF End
  <1> QED BY <1>2, <1>3

LEMMA HappeningsAreEvents ==
  ASSUME TLTypeOK, NEW kind \in Steps \union {"match"}
  PROVE  Happening(kind) \in Event /\ Happening(kind).kind = kind
         /\ Happening(kind).turn = turn /\ Happening(kind).active = active
  BY DEF TLTypeOK, Happening, Event

LEMMA TLInvInit == ASSUME TLInit PROVE TLInv
  <1>1. log = <<>> /\ Len(log) = 0 /\ End = 0
    BY DEF TLInit, End
  <1>2. TLTypeOK
    <2>1. log \in Seq(Event)
      BY <1>1
    <2>2. looks \in [1..MaxEvents -> Nat]
      BY DEF TLInit
    <2>3. End <= MaxEvents /\ cursor \in 0..End
      BY <1>1, BoundsAssumption DEF TLInit
    <2> QED BY <2>1, <2>2, <2>3 DEF TLInit, TLTypeOK
  <1>3. Unread = {}
    BY <1>1 DEF TLInit, Unread
  <1>4. \A i \in 1..MaxEvents : ~(i <= cursor)
    BY DEF TLInit
  <1> QED BY <1>1, <1>2, <1>3, <1>4 DEF TLInit, TLInv, EveryEventIsLookedAtOnce, ReadBeforeActing,
          UnreadIsCurrent, SchedulesAreKept, FiresAtItsStep, FiresAtWhatItWatches, Boundaries

\* Events that no pass has looked at change nothing of what triggers owe.
LEMMA NothingFires ==
  ASSUME TLInv, NEW e \in Event, log' \in {log, Append(log, e)},
         UNCHANGED <<cursor, delayed, created, fired, turn, overlooked>>
  PROVE  FiresAtItsStep' /\ FiresAtWhatItWatches'
  <1>1. /\ End \in Nat /\ End' \in Nat /\ End <= End' /\ cursor \in 0..End
        /\ \A i \in 1..cursor : log'[i] = log[i]
    BY Growing DEF TLInv, TLTypeOK
  <1>2. \A t \in created : FiredAt(t)' = FiredAt(t)
    <2>1. \A pair \in fired : pair[2] <= cursor
      BY DEF TLInv, SchedulesAreKept
    <2>2. \A t, i : <<t.id, i>> \in fired => i <= cursor
      BY <2>1
    <2> QED BY <1>1, <2>2 DEF FiredAt
  <1>3. \A t : \A i \in 1..cursor : Due(t, i)' <=> Due(t, i)
    BY <1>1 DEF Due
  <1>4. \A t \in created : Watched(t)' = Watched(t)
    BY <1>1 DEF Watched, Matches
  <1>5. FiresAtItsStep'
    <2> SUFFICES ASSUME NEW t \in created, t.timing # "event"
                 PROVE  LET due == {i \in 1..cursor : Due(t, i)'}
                        IN FiredAt(t)' = First(due) /\ (t \in delayed <=> due = {})
      BY DEF FiresAtItsStep
    <2>1. {i \in 1..cursor : Due(t, i)'} = {i \in 1..cursor : Due(t, i)}
      BY <1>3
    <2> QED BY <1>2, <2>1 DEF TLInv, FiresAtItsStep
  <1>6. FiresAtWhatItWatches'
    BY <1>2, <1>4 DEF TLInv, FiresAtWhatItWatches, InWindow
  <1> QED BY <1>5, <1>6

\* Actions that neither fire nor schedule, in the window and around it.
LEMMA LogStep ==
  ASSUME TLInv, NEW e \in Event, e.turn = turn, e.active = active,
         log' \in {log, Append(log, e)}, End' <= MaxEvents,
         UNCHANGED <<cursor, delayed, turn, active, created, fired, looks, overlooked>>,
         departed \subseteq departed', departed' \subseteq Player,
         place' \in {"between", "window", "ending", "cleanup", "over"}, settled' \in BOOLEAN,
         log' = log \/ (~settled' /\ place' # "over"),
         (settled' \/ place' = "over") => Unread = {},
         (log' # log /\ e.kind \in Steps) => (place = "between" /\ place' # "between"),
         place' = "between" => (place = "between" \/ Unread = {}),
         settled' => place' \in {"window", "ending"}
  PROVE  TLInv'
  <1>1. /\ log' \in Seq(Event)
        /\ End \in Nat /\ End' \in Nat /\ End <= End' /\ End' <= End + 1 /\ cursor \in 0..End
        /\ \A i \in 1..End : log'[i] = log[i]
        /\ \A i \in (End + 1)..End' : i = End + 1 /\ log'[i] = e
    BY Growing DEF TLInv, TLTypeOK
  <1>2. TLTypeOK'
    BY <1>1 DEF TLInv, TLTypeOK
  <1>3. EveryEventIsLookedAtOnce'
    <2>1. \A i \in overlooked : i \in 1..End
      BY <1>1 DEF TLInv, TLTypeOK
    <2>2. \A i \in overlooked : log'[i].turn < turn
      BY <1>1, <2>1 DEF TLInv, EveryEventIsLookedAtOnce
    <2> QED BY <2>2 DEF TLInv, EveryEventIsLookedAtOnce
  <1>4. log' = log => Unread' = Unread /\ Boundaries(Unread)' = Boundaries(Unread)
    BY DEF Unread, End, Boundaries
  <1>5. ReadBeforeActing'
    BY <1>4 DEF ReadBeforeActing
  <1>6. UnreadIsCurrent'
    <2>1. \A i \in Unread' : i \in Unread \/ (i = End + 1 /\ log' # log /\ log'[i] = e)
      <3>1. log' = log => End' = End
        BY DEF End
      <3>2. Unread' = (cursor + 1)..End'
        BY DEF Unread
      <3> QED BY <1>1, <3>1, <3>2 DEF Unread
    <2>2. \A i \in Unread : log'[i] = log[i] /\ i # End + 1
      BY <1>1 DEF Unread
    <2>3. \A i \in Unread' : log'[i].turn = turn /\ log'[i].active = active
      BY <2>1, <2>2 DEF TLInv, UnreadIsCurrent
    <2>4. \A i \in Boundaries(Unread)' :
            i \in Boundaries(Unread) \/ (i = End + 1 /\ log' # log /\ e.kind \in Steps)
      BY <2>1, <2>2 DEF Boundaries
    <2>5. log' # log /\ e.kind \in Steps => Boundaries(Unread) = {}
      BY DEF TLInv, UnreadIsCurrent
    <2>6. \A i, j \in Boundaries(Unread)' : i = j
      BY <2>4, <2>5 DEF TLInv, UnreadIsCurrent
    <2>7. place' = "between" => Boundaries(Unread)' = {}
      <3>1. Unread = {} => Boundaries(Unread) = {}
        BY DEF Boundaries
      <3> QED BY <2>4, <3>1 DEF TLInv, UnreadIsCurrent
    <2>8. \A t \in created : \A i \in Boundaries(Unread)' : i > t.from
      <3>1. \A t \in created : t.from \in Nat /\ t.from <= End
        BY DEF TLInv, TLTypeOK, SchedulesAreKept, DelayedTrigger
      <3>2. \A t \in created : End + 1 > t.from
        BY <1>1, <3>1
      <3> QED BY <2>4, <3>2 DEF TLInv, UnreadIsCurrent
    <2> QED BY <2>3, <2>6, <2>7, <2>8 DEF UnreadIsCurrent
  <1>7. SchedulesAreKept'
    <2>1. \A t \in created : t.from \in Nat /\ t.from <= End
      BY DEF TLInv, TLTypeOK, SchedulesAreKept, DelayedTrigger
    <2>2. \A t \in created : t.from <= End'
      BY <1>1, <2>1
    <2> QED BY <2>2 DEF TLInv, SchedulesAreKept
  <1>8. FiresAtItsStep' /\ FiresAtWhatItWatches'
    BY NothingFires
  <1> QED BY <1>2, <1>3, <1>5, <1>6, <1>7, <1>8 DEF TLInv

-------------------------------------------------------------------------------
\* A pass over triggered abilities.

LEMMA StepsAreSteps == \A timing : StepOf(timing) \in Steps
  BY DEF StepOf, Steps

\* What a pass does to the log and the cursor.
LEMMA PassReads ==
  ASSUME TLInv, PutTriggersOnStack
  PROVE  \E e \in Event :
           /\ e.kind = "match" /\ e.turn = turn /\ e.active = active
           /\ log' \in {log, Append(log, e)} /\ End' <= MaxEvents
           /\ (settled' \/ place' = "over") => End' = End
           /\ settled' => place' \in {"window", "ending"}
           /\ cursor' = End
           /\ place' \in {"window", "ending", "cleanup", "over"} /\ settled' \in BOOLEAN
  <1>1. PICK placed \in BOOLEAN, placing \in {<<>>, <<Happening("match")>>} :
       /\ placing # <<>> => placed /\ End < MaxEvents
       /\ log' = log \o placing
       /\ cursor' = CursorAfterPass(placing)
       /\ IF place = "cleanup"
          THEN place' \in (IF placed THEN {"ending"} ELSE {"ending", "over"}) /\ settled' = FALSE
          ELSE place' = place /\ settled' = ~placed
    BY DEF PutTriggersOnStack
  <1>2. /\ Happening("match") \in Event /\ Happening("match").kind = "match"
        /\ Happening("match").turn = turn /\ Happening("match").active = active
    BY HappeningsAreEvents DEF TLInv
  <1>3. /\ log' \in {log, Append(log, Happening("match"))}
        /\ Len(placing) \in 0..1 /\ End' = End + Len(placing)
    BY <1>1, OneMore DEF TLInv
  <1>4. End \in Nat /\ End <= MaxEvents /\ place \in {"window", "ending", "cleanup"}
    BY DEF TLInv, TLTypeOK, End, PutTriggersOnStack
  <1>5. placing = <<>> => End' = End
    BY <1>3, <1>4
  <1>6. End' <= MaxEvents
    BY <1>1, <1>3, <1>4, <1>5, BoundsAssumption
  <1>7. (settled' \/ place' = "over") => ~placed
    BY <1>1, <1>4
  <1>8. (settled' \/ place' = "over") => End' = End
    BY <1>1, <1>5, <1>7
  <1>9. /\ place' \in {"window", "ending", "cleanup", "over"} /\ settled' \in BOOLEAN
        /\ settled' => place' \in {"window", "ending"}
    BY <1>1, <1>4
  <1> QED BY <1>1, <1>2, <1>3, <1>6, <1>8, <1>9 DEF CursorAfterPass

\* What it fires of one trigger.
NewlyFired(t) == {i \in Unread : <<t, i>> \in FiringAtBoundary \/ (t \in delayed /\ i \in FiringEvents(t))}

LEMMA PassFires ==
  ASSUME TLInv, PutTriggersOnStack
  PROVE  \A t \in created : FiredAt(t)' = FiredAt(t) \union NewlyFired(t)
  <1>1. PICK e \in Event : log' \in {log, Append(log, e)}
    BY PassReads
  <1>2. End \in Nat /\ End' \in Nat /\ End <= End' /\ cursor \in 0..End
    BY <1>1, Growing DEF TLInv, TLTypeOK
  <1>3. fired' = fired \union {<<pair[1].id, pair[2]>> : pair \in FiringAtBoundary}
                      \union UNION {{<<t.id, i>> : i \in FiringEvents(t)} : t \in delayed}
    BY DEF PutTriggersOnStack
  <1>4. \A pair \in FiringAtBoundary : pair = <<pair[1], pair[2]>> /\ pair[1] \in delayed /\ pair[2] \in Unread
    BY DEF FiringAtBoundary, First, Boundaries
  <1>5. \A t \in delayed : FiringEvents(t) \subseteq Unread
    BY DEF FiringEvents, First, Matches
  <1>6. delayed \subseteq created /\ \A t, u \in created : t.id = u.id => t = u
    BY DEF TLInv, TLTypeOK, SchedulesAreKept
  <1>7. \A i \in Unread : i \in 1..End
    BY <1>2 DEF Unread
  <1>8. \A pair \in fired : pair[2] <= cursor
    BY DEF TLInv, SchedulesAreKept
  <1> SUFFICES ASSUME NEW t \in created
               PROVE  FiredAt(t)' = FiredAt(t) \union NewlyFired(t)
    OBVIOUS
  <1>9. ASSUME NEW i \in FiredAt(t)' PROVE i \in FiredAt(t) \union NewlyFired(t)
    <2>1. <<t.id, i>> \in fired' /\ i \in 1..End'
      BY <1>9 DEF FiredAt
    <2>2. CASE <<t.id, i>> \in fired
      <3>1. i <= cursor
        BY <1>8, <2>2
      <3>2. i \in 1..End
        BY <1>2, <2>1, <3>1
      <3> QED BY <2>2, <3>2 DEF FiredAt
    <2>3. CASE <<t.id, i>> \in {<<pair[1].id, pair[2]>> : pair \in FiringAtBoundary}
      <3>1. PICK pair \in FiringAtBoundary : <<t.id, i>> = <<pair[1].id, pair[2]>>
        BY <2>3
      <3>2. pair[1] = t /\ pair[2] = i
        BY <1>4, <1>6, <3>1
      <3> QED BY <1>4, <3>2 DEF NewlyFired
    <2>4. CASE <<t.id, i>> \in UNION {{<<u.id, j>> : j \in FiringEvents(u)} : u \in delayed}
      <3>1. PICK u \in delayed : \E j \in FiringEvents(u) : <<t.id, i>> = <<u.id, j>>
        BY <2>4
      <3>2. u = t /\ i \in FiringEvents(u)
        BY <1>6, <3>1
      <3> QED BY <1>5, <3>1, <3>2 DEF NewlyFired
    <2> QED BY <1>3, <2>1, <2>2, <2>3, <2>4
  <1>10. ASSUME NEW i \in FiredAt(t) PROVE i \in FiredAt(t)'
    BY <1>2, <1>3, <1>10 DEF FiredAt
  <1>11. ASSUME NEW i \in NewlyFired(t) PROVE i \in FiredAt(t)'
    <2>1. i \in 1..End'
      BY <1>2, <1>7, <1>11 DEF NewlyFired
    <2>2. CASE <<t, i>> \in FiringAtBoundary
      <3>1. <<t.id, i>> \in {<<pair[1].id, pair[2]>> : pair \in FiringAtBoundary}
        BY <2>2
      <3> QED BY <1>3, <2>1, <3>1 DEF FiredAt
    <2>3. CASE t \in delayed /\ i \in FiringEvents(t)
      BY <1>3, <2>1, <2>3 DEF FiredAt
    <2> QED BY <1>11, <2>2, <2>3 DEF NewlyFired
  <1> QED BY <1>9, <1>10, <1>11

\* A timing is due at an event that is new in this pass just when the code finds
\* its trigger ready at the boundary that is new in this pass.
LEMMA ReadyWhenDue ==
  ASSUME TLInv, NEW t \in created, t.timing # "event", NEW i \in Unread
  PROVE  Due(t, i) <=> (i \in First(Boundaries(Unread)) /\ Ready(t, log[i].kind))
  <1>1. log[i].turn = turn /\ log[i].active = active
    BY DEF TLInv, UnreadIsCurrent
  <1>2. \A j, k \in Boundaries(Unread) : j = k
    BY DEF TLInv, UnreadIsCurrent
  <1>3. Unread \subseteq Nat
    BY DEF Unread, TLInv, TLTypeOK, End
  <1>4. i \in First(Boundaries(Unread)) <=> log[i].kind \in Steps
    BY <1>2, <1>3 DEF First, Boundaries
  <1>5. log[i].kind \in Steps => i > t.from
    BY DEF TLInv, UnreadIsCurrent, Boundaries
  <1>6. t.createdTurn \in Nat /\ turn \in Nat
    BY DEF TLInv, TLTypeOK, DelayedTrigger
  <1> QED BY <1>1, <1>4, <1>5, <1>6, StepsAreSteps DEF Due, Ready

LEMMA PassAtSteps ==
  ASSUME TLInv, PutTriggersOnStack
  PROVE  FiresAtItsStep'
  <1>1. PICK e \in Event : log' \in {log, Append(log, e)} /\ cursor' = End
    BY PassReads
  <1>2. /\ End \in Nat /\ End' \in Nat /\ End <= End' /\ cursor \in 0..End
        /\ \A i \in 1..End : log'[i] = log[i]
    BY <1>1, Growing DEF TLInv, TLTypeOK
  <1>3. created' = created /\ delayed' = Retained
    BY DEF PutTriggersOnStack
  <1> SUFFICES ASSUME NEW t \in created, t.timing # "event"
               PROVE  LET due == {i \in 1..cursor' : Due(t, i)'}
                      IN FiredAt(t)' = First(due) /\ (t \in delayed' <=> due = {})
    BY <1>3 DEF FiresAtItsStep
  <1> DEFINE due == {i \in 1..cursor : Due(t, i)}
             now == {i \in Unread : Due(t, i)}
             later == {i \in 1..cursor' : Due(t, i)'}
  <1>4. FiredAt(t) = First(due) /\ (t \in delayed <=> due = {})
    BY DEF TLInv, FiresAtItsStep
  <1>5. later = due \union now
    <2>1. \A i \in 1..End : Due(t, i)' <=> Due(t, i)
      BY <1>2 DEF Due
    <2>2. \A i : i \in 1..End <=> i \in 1..cursor \/ i \in Unread
      BY <1>2 DEF Unread
    <2> QED BY <1>1, <2>1, <2>2
  <1>6. ~t.oneShot /\ FiringEvents(t) = {}
    BY DEF TLInv, SchedulesAreKept, FiringEvents
  <1>7. NewlyFired(t) = IF t \in delayed THEN now ELSE {}
    <2>1. \A i \in Unread : <<t, i>> \in FiringAtBoundary <=>
            t \in delayed /\ i \in First(Boundaries(Unread)) /\ Ready(t, log[i].kind)
      BY DEF FiringAtBoundary
    <2>2. \A i \in Unread : <<t, i>> \in FiringAtBoundary <=> t \in delayed /\ Due(t, i)
      BY <2>1, ReadyWhenDue
    <2> QED BY <1>6, <2>2 DEF NewlyFired
  <1>8. t \in delayed' <=> t \in delayed /\ now = {}
    <2>1. \A pair \in FiringAtBoundary : pair = <<pair[1], pair[2]>> /\ pair[2] \in Unread
      BY DEF FiringAtBoundary, First, Boundaries
    <2>2. t \in delayed => ((\A pair \in FiringAtBoundary : pair[1] # t) <=> now = {})
      <3>1. \A i \in Unread : <<t, i>> \in FiringAtBoundary <=>
              t \in delayed /\ i \in First(Boundaries(Unread)) /\ Ready(t, log[i].kind)
        BY DEF FiringAtBoundary
      <3>2. \A i \in Unread : <<t, i>> \in FiringAtBoundary <=> t \in delayed /\ Due(t, i)
        BY <3>1, ReadyWhenDue
      <3> QED BY <2>1, <3>2
    <2>3. t \in delayed' <=> t \in delayed /\ \A pair \in FiringAtBoundary : pair[1] # t
      BY <1>3, <1>6 DEF Retained
    <2> QED BY <2>2, <2>3
  <1>9. due \subseteq Nat /\ now \subseteq Nat /\ \A i \in due, j \in now : i < j
    BY <1>2 DEF Unread
  <1>10. \A i, j \in now : i = j
    <2>1. now \subseteq Boundaries(Unread)
      BY StepsAreSteps DEF Due, Boundaries
    <2> QED BY <2>1 DEF TLInv, UnreadIsCurrent
  <1> HIDE DEF due, now, later
  <1>11. FiredAt(t)' = FiredAt(t) \union NewlyFired(t)
    BY PassFires
  <1>12. CASE due = {}
    <2>1. later = now /\ First(due) = {}
      BY <1>5, <1>12 DEF First
    <2>2. First(now) = now
      BY <1>9, <1>10, FirstOfOne
    <2> QED BY <1>4, <1>5, <1>7, <1>8, <1>11, <1>12, <2>1, <2>2 DEF later
  <1>13. CASE due # {}
    <2>1. First(later) = First(due)
      BY <1>5, <1>9, <1>13, FirstStays
    <2> QED BY <1>4, <1>5, <1>7, <1>8, <1>11, <1>13, <2>1 DEF later
  <1> QED BY <1>12, <1>13

LEMMA PassAtEvents ==
  ASSUME TLInv, PutTriggersOnStack
  PROVE  FiresAtWhatItWatches'
  <1>1. PICK e \in Event : log' \in {log, Append(log, e)} /\ cursor' = End
    BY PassReads
  <1>2. /\ End \in Nat /\ End' \in Nat /\ End <= End' /\ cursor \in 0..End
        /\ \A i \in 1..End : log'[i] = log[i]
    BY <1>1, Growing DEF TLInv, TLTypeOK
  <1>3. created' = created /\ delayed' = Retained /\ turn' = turn /\ overlooked' = overlooked
    BY DEF PutTriggersOnStack
  <1> SUFFICES ASSUME NEW t \in created, t.timing = "event"
               PROVE  /\ FiredAt(t)' = IF t.oneShot THEN First(Watched(t)') ELSE Watched(t)'
                      /\ (t \in delayed') <=> ((t.oneShot => Watched(t)' = {}) /\ InWindow(t))
    BY <1>3 DEF FiresAtWhatItWatches, InWindow
  <1> DEFINE now == IF InWindow(t) THEN Matches(Unread) ELSE {}
  <1>4. /\ FiredAt(t) = IF t.oneShot THEN First(Watched(t)) ELSE Watched(t)
        /\ (t \in delayed) <=> ((t.oneShot => Watched(t) = {}) /\ InWindow(t))
    BY DEF TLInv, FiresAtWhatItWatches
  <1>5. Watched(t)' = Watched(t) \union now
    <2>1. Watched(t)' = {i \in 1..End : log'[i].kind = "match" /\ i \notin overlooked /\ i > t.read
                                       /\ (t.thisTurn => log'[i].turn = t.createdTurn)}
      BY <1>1, <1>3 DEF Watched, Matches
    <2>2. Watched(t)' = {i \in 1..End : log[i].kind = "match" /\ i \notin overlooked /\ i > t.read
                                       /\ (t.thisTurn => log[i].turn = t.createdTurn)}
      BY <1>2, <2>1
    <2>3. /\ \A i : i \in 1..End <=> (i \in 1..cursor \/ i \in Unread)
          /\ \A i \in Unread : i \notin overlooked
      BY <1>2 DEF Unread, TLInv, TLTypeOK
    <2>4. \A i \in Unread : log[i].turn = turn /\ i > t.read
      <3>1. t.read \in Nat /\ t.read <= cursor
        BY DEF TLInv, TLTypeOK, SchedulesAreKept, DelayedTrigger
      <3>2. \A i \in Unread : i > t.read
        BY <1>2, <3>1 DEF Unread
      <3> QED BY <3>2 DEF TLInv, UnreadIsCurrent
    <2>5. now = {i \in Unread : log[i].kind = "match" /\ i > t.read
                              /\ (t.thisTurn => log[i].turn = t.createdTurn)}
      BY <2>4 DEF InWindow, Matches
    <2>6. Watched(t) = {i \in 1..cursor : log[i].kind = "match" /\ i \notin overlooked /\ i > t.read
                              /\ (t.thisTurn => log[i].turn = t.createdTurn)}
      BY DEF Watched, Matches
    <2> QED BY <2>2, <2>3, <2>5, <2>6
  <1>6. FiringEvents(t) = IF t.oneShot THEN First(now) ELSE now
    <2>1. First({}) = {}
      BY DEF First
    <2> QED BY <2>1 DEF FiringEvents
  <1>7. \A pair \in FiringAtBoundary : pair[1] # t
    BY DEF FiringAtBoundary, Ready
  <1>8. NewlyFired(t) = IF t \in delayed THEN FiringEvents(t) ELSE {}
    <2>1. \A i : <<t, i>> \notin FiringAtBoundary
      BY <1>7
    <2>2. FiringEvents(t) \subseteq Unread
      BY DEF FiringEvents, First, Matches
    <2> QED BY <2>1, <2>2 DEF NewlyFired
  <1>9. /\ Watched(t) \subseteq Nat /\ now \subseteq Nat
        /\ \A i \in Watched(t), j \in now : i < j
    BY <1>2 DEF Watched, Matches, Unread
  <1>10. t \in delayed' <=> (t \in delayed /\ InWindow(t) /\ (t.oneShot => First(now) = {}))
    BY <1>3, <1>6, <1>7 DEF Retained
  <1>11. FiredAt(t)' = FiredAt(t) \union NewlyFired(t)
    BY PassFires
  <1>12. First(now) = {} <=> now = {}
    BY <1>9, FirstOfSome
  <1>13. ~InWindow(t) => now = {}
    OBVIOUS
  <1> HIDE DEF now
  <1>14. CASE ~t.oneShot
    BY <1>4, <1>5, <1>6, <1>8, <1>10, <1>11, <1>13, <1>14
  <1>15. CASE t.oneShot /\ Watched(t) = {}
    <2>1. First({}) = {}
      BY DEF First
    <2> QED BY <1>4, <1>5, <1>6, <1>8, <1>10, <1>11, <1>12, <1>13, <1>15, <2>1
  <1>16. CASE t.oneShot /\ Watched(t) # {}
    <2>1. First(Watched(t)') = First(Watched(t))
      BY <1>5, <1>9, <1>16, FirstStays
    <2> QED BY <1>4, <1>5, <1>8, <1>10, <1>11, <1>16, <2>1
  <1> QED BY <1>14, <1>15, <1>16

LEMMA TLPassKeepsInv ==
  ASSUME TLInv, PutTriggersOnStack
  PROVE  TLInv'
  <1>1. PICK e \in Event :
           /\ e.kind = "match" /\ e.turn = turn /\ e.active = active
           /\ log' \in {log, Append(log, e)} /\ End' <= MaxEvents
           /\ (settled' \/ place' = "over") => End' = End
           /\ settled' => place' \in {"window", "ending"}
           /\ cursor' = End
           /\ place' \in {"window", "ending", "cleanup", "over"} /\ settled' \in BOOLEAN
    BY PassReads
  <1>2. /\ log' \in Seq(Event)
        /\ End \in Nat /\ End' \in Nat /\ End <= End' /\ cursor \in 0..End
        /\ \A i \in 1..End : log'[i] = log[i]
        /\ \A i \in (End + 1)..End' : log'[i] = e
    BY <1>1, Growing DEF TLInv, TLTypeOK
  <1>3. /\ created' = created /\ delayed' \subseteq delayed /\ turn' = turn /\ active' = active
        /\ departed' = departed /\ overlooked' = overlooked /\ overlooked \subseteq 1..cursor
        /\ looks' = [i \in 1..MaxEvents |-> IF i \in Unread THEN looks[i] + 1 ELSE looks[i]]
    BY DEF PutTriggersOnStack, Retained, TLInv, TLTypeOK
  <1>4. \A pair \in fired' : /\ pair \in (1..MaxTriggers) \X Nat /\ pair[2] <= End
                             /\ \E t \in created : t.id = pair[1]
    <2>1. \A pair \in fired : /\ pair \in (1..MaxTriggers) \X Nat /\ pair[2] <= End
                              /\ \E t \in created : t.id = pair[1]
      <3>1. \A pair \in fired : pair \in (1..MaxTriggers) \X Nat /\ pair[2] <= cursor
        BY DEF TLInv, TLTypeOK, SchedulesAreKept
      <3>2. \A pair \in fired : pair[2] <= End
        BY <1>2, <3>1
      <3> QED BY <3>1, <3>2 DEF TLInv, SchedulesAreKept
    <2>2. \A t \in created, i \in Unread :
             <<t.id, i>> \in (1..MaxTriggers) \X Nat /\ <<t.id, i>>[2] <= End
      BY <1>2 DEF Unread, TLInv, TLTypeOK, DelayedTrigger
    <2>3. \A pair \in FiringAtBoundary : pair[1] \in created /\ pair[2] \in Unread
      BY DEF FiringAtBoundary, First, Boundaries, TLInv, TLTypeOK
    <2>4. \A t \in delayed : t \in created /\ FiringEvents(t) \subseteq Unread
      BY DEF FiringEvents, First, Matches, TLInv, TLTypeOK
    <2>5. fired' = fired \union {<<pair[1].id, pair[2]>> : pair \in FiringAtBoundary}
                      \union UNION {{<<t.id, i>> : i \in FiringEvents(t)} : t \in delayed}
      BY DEF PutTriggersOnStack
    <2>6. \A pair \in fired' : pair \in fired \/ \E t \in created, i \in Unread : pair = <<t.id, i>>
      BY <2>3, <2>4, <2>5
    <2> QED BY <2>1, <2>2, <2>6
  <1>5. TLTypeOK'
    <2>1. looks' \in [1..MaxEvents -> Nat]
      BY <1>3 DEF TLInv, TLTypeOK
    <2>2. cursor' \in 0..End' /\ overlooked' \subseteq 1..cursor'
      BY <1>1, <1>2, <1>3
    <2> QED BY <1>1, <1>2, <1>3, <1>4, <2>1, <2>2 DEF TLInv, TLTypeOK
  <1>6. EveryEventIsLookedAtOnce'
    <2>1. \A i \in overlooked : log'[i].turn < turn
      BY <1>2, <1>3 DEF TLInv, EveryEventIsLookedAtOnce
    <2>2. overlooked # {} => departed # {}
      BY DEF TLInv, EveryEventIsLookedAtOnce
    <2> SUFFICES ASSUME NEW i \in 1..MaxEvents
                 PROVE  looks'[i] = IF i <= End /\ i \notin overlooked THEN 1 ELSE 0
      BY <1>1, <1>3, <2>1, <2>2 DEF EveryEventIsLookedAtOnce
    <2>3. looks[i] = IF i <= cursor /\ i \notin overlooked THEN 1 ELSE 0
      BY DEF TLInv, EveryEventIsLookedAtOnce
    <2>4. i \in Unread <=> (i > cursor /\ i <= End)
      BY <1>2 DEF Unread
    <2>5. i \in Unread => i \notin overlooked
      BY <1>2, <1>3, <2>4
    <2> QED BY <1>2, <1>3, <2>3, <2>4, <2>5
  <1>7. Unread' = (End + 1)..End'
    BY <1>1 DEF Unread
  <1>8. ReadBeforeActing'
    BY <1>1, <1>2, <1>7 DEF ReadBeforeActing
  <1>9. UnreadIsCurrent'
    <2>1. \A i \in Unread' : log'[i] = e
      BY <1>2, <1>7
    <2>2. Boundaries(Unread)' = {}
      BY <1>1, <2>1 DEF Boundaries, Steps
    <2> QED BY <1>1, <1>3, <2>1, <2>2 DEF UnreadIsCurrent
  <1>10. SchedulesAreKept'
    <2>1. \A t \in created : t.read \in Nat /\ t.read <= cursor /\ t.from \in Nat /\ t.from <= End
      BY DEF TLInv, TLTypeOK, SchedulesAreKept, DelayedTrigger
    <2>2. \A t \in created : t.read <= End /\ t.from <= End'
      BY <1>2, <2>1
    <2> QED BY <1>1, <1>3, <1>4, <2>2 DEF TLInv, SchedulesAreKept
  <1> QED BY <1>5, <1>6, <1>8, <1>9, <1>10, PassAtSteps, PassAtEvents DEF TLInv

-------------------------------------------------------------------------------
\* A new trigger owes nothing yet.
LEMMA SchedulingKeepsInv ==
  ASSUME TLInv, NEW timing \in Timings \union {"event"}, NEW p \in Player,
         NEW oneShot \in BOOLEAN, NEW thisTurn \in BOOLEAN,
         ScheduleDelayedTrigger(timing, p, oneShot, thisTurn)
  PROVE  TLInv'
  <1>1. PICK before \in {<<>>, <<Happening("match")>>}, new \in 1..MaxTriggers :
       /\ End + Len(before) <= MaxEvents
       /\ log' = log \o before
       /\ \A t \in created : t.id < new
       /\ LET trigger == [id |-> new, timing |-> timing, controller |-> p,
                          oneShot |-> oneShot, thisTurn |-> thisTurn, createdTurn |-> turn,
                          read |-> cursor, from |-> Len(log')]
          IN delayed' = delayed \union {trigger} /\ created' = created \union {trigger}
    BY DEF ScheduleDelayedTrigger
  <1> DEFINE e == Happening("match")
  <1>3. /\ settled /\ settled' = FALSE
        /\ UNCHANGED <<cursor, turn, active, departed, place, fired, looks, overlooked>>
        /\ (timing # "event" => (~oneShot /\ ~thisTurn))
    BY DEF ScheduleDelayedTrigger
  <1>4. e \in Event /\ e.kind = "match" /\ e.turn = turn /\ e.active = active
    BY HappeningsAreEvents DEF TLInv
  <1>5. log' \in {log, Append(log, e)} /\ End' <= MaxEvents
    BY <1>1, OneMore DEF TLInv
  <1> HIDE DEF e
  <1>6. /\ log' \in Seq(Event)
        /\ End \in Nat /\ End' \in Nat /\ End <= End' /\ cursor \in 0..End
        /\ \A i \in 1..End : log'[i] = log[i]
        /\ \A i \in (End + 1)..End' : log'[i] = e
    BY <1>4, <1>5, Growing DEF TLInv, TLTypeOK
  <1>7. PICK trigger \in DelayedTrigger :
        /\ trigger.id = new /\ trigger.timing = timing
        /\ trigger.oneShot = oneShot /\ trigger.thisTurn = thisTurn
        /\ trigger.createdTurn = turn /\ trigger.read = cursor /\ trigger.from = End'
        /\ delayed' = delayed \union {trigger} /\ created' = created \union {trigger}
    <2> DEFINE n == Len(log')
               record == [id |-> new, timing |-> timing, controller |-> p,
                          oneShot |-> oneShot, thisTurn |-> thisTurn, createdTurn |-> turn,
                          read |-> cursor, from |-> n]
    <2>1. n = End' /\ n \in Nat /\ cursor \in Nat /\ turn \in Nat
      BY <1>6 DEF End, TLInv, TLTypeOK
    <2>2. delayed' = delayed \union {record} /\ created' = created \union {record}
      BY <1>1
    <2> HIDE DEF n
    <2>3. /\ record \in DelayedTrigger
          /\ record.id = new /\ record.timing = timing
          /\ record.oneShot = oneShot /\ record.thisTurn = thisTurn
          /\ record.createdTurn = turn /\ record.read = cursor /\ record.from = n
      BY <2>1 DEF DelayedTrigger
    <2> QED BY <2>1, <2>2, <2>3
  <1>2. delayed' = delayed \union {trigger} /\ created' = created \union {trigger}
    BY <1>7
  <1>8. cursor = End
    BY <1>3, <1>6 DEF TLInv, ReadBeforeActing, Unread
  <1>9. TLTypeOK'
    <2>1. created' \subseteq DelayedTrigger /\ delayed' \subseteq created'
      BY <1>2, <1>7 DEF TLInv, TLTypeOK
    <2>2. cursor' \in 0..End'
      BY <1>3, <1>6
    <2> QED BY <1>3, <1>5, <1>6, <2>1, <2>2 DEF TLInv, TLTypeOK
  <1>10. EveryEventIsLookedAtOnce'
    <2>1. \A i \in overlooked : log'[i].turn < turn
      <3>1. \A i \in overlooked : i \in 1..End
        BY <1>6 DEF TLInv, TLTypeOK
      <3> QED BY <1>6, <3>1 DEF TLInv, EveryEventIsLookedAtOnce
    <2> QED BY <1>3, <2>1 DEF TLInv, EveryEventIsLookedAtOnce
  <1>11. ReadBeforeActing'
    <2>1. place # "over"
      BY <1>3 DEF TLInv, ReadBeforeActing
    <2> QED BY <1>3, <2>1 DEF ReadBeforeActing
  <1>12. UnreadIsCurrent'
    <2>1. Unread' = (End + 1)..End'
      BY <1>3, <1>8 DEF Unread
    <2>2. \A i \in Unread' : log'[i] = e
      BY <1>6, <2>1
    <2>3. Boundaries(Unread)' = {}
      BY <1>4, <2>2 DEF Boundaries, Steps
    <2> QED BY <1>3, <1>4, <2>2, <2>3 DEF UnreadIsCurrent
  <1>13. SchedulesAreKept'
    <2>1. \A t \in created : /\ t.id \in Nat /\ t.id # new /\ t.read <= cursor /\ t.from <= End'
      <3>1. \A t \in created : t.id \in Nat /\ t.from \in Nat /\ t.from <= End /\ t.id < new
        BY <1>1, BoundsAssumption DEF TLInv, TLTypeOK, SchedulesAreKept, DelayedTrigger
      <3>2. \A t \in created : t.from <= End' /\ t.id # new
        BY <1>6, <3>1
      <3> QED BY <3>1, <3>2 DEF TLInv, SchedulesAreKept
    <2>2. turn \in Nat /\ turn <= turn /\ cursor <= cursor /\ End' <= End'
      BY <1>6 DEF TLInv, TLTypeOK
    <2>3. \A t, u \in created' : t.id = u.id => t = u
      BY <1>2, <1>7, <2>1 DEF TLInv, SchedulesAreKept
    <2>4. \A t \in created' : /\ t.createdTurn <= turn /\ t.read <= cursor /\ t.from <= End'
                             /\ (t.timing # "event" => (~t.oneShot /\ ~t.thisTurn))
      BY <1>2, <1>3, <1>7, <2>1, <2>2 DEF TLInv, SchedulesAreKept
    <2>5. \A pair \in fired : pair[2] <= cursor /\ \E t \in created' : t.id = pair[1]
      BY <1>2 DEF TLInv, SchedulesAreKept
    <2> QED BY <1>3, <2>3, <2>4, <2>5 DEF SchedulesAreKept
  <1>14. ASSUME NEW t \in created
         PROVE  /\ FiredAt(t)' = FiredAt(t) /\ Watched(t)' = Watched(t)
                /\ {i \in 1..cursor : Due(t, i)'} = {i \in 1..cursor : Due(t, i)}
                /\ (t \in delayed' <=> t \in delayed)
    <2>1. \A i : <<t.id, i>> \in fired => i <= cursor
      BY DEF TLInv, SchedulesAreKept
    <2>2. FiredAt(t)' = FiredAt(t)
      BY <1>3, <1>6, <2>1 DEF FiredAt
    <2>3. Watched(t)' = Watched(t)
      BY <1>3, <1>6 DEF Watched, Matches
    <2>4. \A i \in 1..cursor : Due(t, i)' <=> Due(t, i)
      BY <1>6 DEF Due
    <2>5. t # trigger
      <3>1. t.id \in Nat /\ t.id < new
        BY <1>1, BoundsAssumption DEF TLInv, TLTypeOK, DelayedTrigger
      <3> QED BY <1>7, <3>1
    <2> QED BY <1>2, <2>2, <2>3, <2>4, <2>5
  <1>15. /\ FiredAt(trigger)' = {} /\ Watched(trigger)' = {}
         /\ {i \in 1..cursor : Due(trigger, i)'} = {}
    <2>1. \A i : <<new, i>> \notin fired
      <3>1. \A t \in created : t.id \in Nat /\ t.id < new
        BY <1>1, BoundsAssumption DEF TLInv, TLTypeOK, DelayedTrigger
      <3> QED BY <3>1 DEF TLInv, SchedulesAreKept
    <2>2. FiredAt(trigger)' = {}
      BY <1>3, <1>7, <2>1 DEF FiredAt
    <2>3. Watched(trigger)' = {}
      <3>1. \A i \in 1..cursor : ~(i > cursor)
        BY <1>6
      <3> QED BY <1>3, <1>7, <3>1 DEF Watched, Matches
    <2>4. \A i \in 1..cursor : ~(i > End')
      BY <1>6
    <2>5. {i \in 1..cursor : Due(trigger, i)'} = {}
      BY <1>7, <2>4 DEF Due
    <2> QED BY <2>2, <2>3, <2>5
  <1>16. First({}) = {}
    BY DEF First
  <1>17. FiresAtItsStep'
    <2> SUFFICES ASSUME NEW t \in created', t.timing # "event"
                 PROVE  LET due == {i \in 1..cursor : Due(t, i)'}
                        IN FiredAt(t)' = First(due) /\ (t \in delayed' <=> due = {})
      BY <1>3 DEF FiresAtItsStep
    <2>1. CASE t \in created
      BY <1>14, <2>1 DEF TLInv, FiresAtItsStep
    <2>2. CASE t = trigger
      BY <1>2, <1>15, <1>16, <2>2
    <2> QED BY <1>2, <2>1, <2>2
  <1>18. FiresAtWhatItWatches'
    <2> SUFFICES ASSUME NEW t \in created', t.timing = "event"
                 PROVE  /\ FiredAt(t)' = IF t.oneShot THEN First(Watched(t)') ELSE Watched(t)'
                        /\ (t \in delayed') <=> ((t.oneShot => Watched(t)' = {}) /\ InWindow(t))
      BY <1>3 DEF FiresAtWhatItWatches, InWindow
    <2>1. CASE t \in created
      BY <1>14, <2>1 DEF TLInv, FiresAtWhatItWatches
    <2>2. CASE t = trigger
      BY <1>2, <1>7, <1>15, <1>16, <2>2 DEF InWindow
    <2> QED BY <1>2, <2>1, <2>2
  <1> QED BY <1>9, <1>10, <1>11, <1>12, <1>13, <1>17, <1>18 DEF TLInv

\* The choice of the next turn finds nothing unread, and what happens in it is
\* overlooked; what expires had its turn.
LEMMA NextTurnKeepsInv ==
  ASSUME TLInv, AdvanceToNextTurn
  PROVE  TLInv'
  <1>1. PICK ended \in EndedWhileChoosing :
          /\ log' = log \o [i \in 1..ended |-> Happening("match")]
          /\ overlooked' = overlooked \union (End + 1)..(End + ended)
    BY DEF AdvanceToNextTurn
  <1>2. /\ delayed' = {t \in delayed : ~Expired(t)} /\ turn' = turn + 1
        /\ active' \in Player /\ cursor' = End' /\ place' = "between" /\ place = "over"
        /\ UNCHANGED <<departed, settled, created, fired, looks>>
    BY DEF AdvanceToNextTurn
  <1> DEFINE e == Happening("match")
  <1>3. e \in Event /\ e.kind = "match" /\ e.turn = turn
    BY HappeningsAreEvents DEF TLInv
  <1>4. /\ End \in Nat /\ End <= MaxEvents /\ cursor \in 0..End
        /\ turn \in Nat /\ turn + 1 \in Nat /\ log \in Seq(Event)
        /\ overlooked \subseteq 1..End
    BY DEF TLInv, TLTypeOK, End
  <1>5. /\ ended \in Nat /\ End + ended <= MaxEvents
        /\ ended > 0 => departed # {}
    BY <1>4, BoundsAssumption DEF EndedWhileChoosing
  <1> HIDE DEF e
  <1>6. /\ log' \in Seq(Event) /\ End' = End + ended
        /\ \A i \in 1..End : log'[i] = log[i]
        /\ \A i \in (End + 1)..End' : log'[i] = e
    <2> DEFINE more == [i \in 1..ended |-> e]
    <2>1. more \in Seq(Event) /\ Len(more) = ended /\ \A i \in 1..ended : more[i] = e
      BY <1>3, <1>5
    <2>2. log' = log \o more
      BY <1>1 DEF e
    <2> HIDE DEF more
    <2>3. log' \in Seq(Event) /\ Len(log') = Len(log) + ended
      <3>1. log \o more \in Seq(Event)
        BY <1>4, <2>1
      <3>2. Len(log \o more) = Len(log) + Len(more)
        BY <1>4, <2>1
      <3> QED BY <2>1, <2>2, <3>1, <3>2
    <2>4. \A i \in 1..Len(log) : log'[i] = log[i]
      BY <1>4, <1>5, <2>1, <2>2
    <2>5. ASSUME NEW i \in (End + 1)..(End + ended) PROVE log'[i] = e
      <3>1. i - End \in 1..ended /\ i \in Nat
        BY <1>4, <1>5
      <3>2. log'[i] = more[i - Len(log)]
        BY <1>4, <1>5, <2>1, <2>2, <3>1 DEF End
      <3> QED BY <2>1, <3>1, <3>2 DEF End
    <2> QED BY <2>3, <2>4, <2>5 DEF End
  <1>7. cursor = End
    BY <1>2, <1>4 DEF TLInv, ReadBeforeActing, Unread
  <1>8. /\ \A i : i \in 1..cursor' <=> i \in 1..cursor \/ i \in (End + 1)..End'
        /\ \A i \in 1..cursor : i \notin (End + 1)..End'
        /\ \A i \in (End + 1)..End' : i \in 1..MaxEvents
    BY <1>2, <1>4, <1>5, <1>6, <1>7, BoundsAssumption
  <1>9. overlooked' = overlooked \union (End + 1)..End' /\ overlooked' \subseteq 1..cursor'
    BY <1>1, <1>4, <1>6, <1>7, <1>8
  <1>10. TLTypeOK'
    <2>1. End' <= MaxEvents /\ cursor' \in 0..End'
      BY <1>2, <1>4, <1>5, <1>6
    <2> QED BY <1>2, <1>4, <1>6, <1>9, <2>1 DEF TLInv, TLTypeOK
  <1>11. Unread' = {}
    <2>1. Unread' = (cursor' + 1)..End'
      BY DEF Unread
    <2>2. cursor' = End' /\ End' \in Nat
      BY <1>2, <1>4, <1>5, <1>6
    <2>3. \A n \in Nat : (n + 1)..n = {}
      OBVIOUS
    <2> QED BY <2>1, <2>2, <2>3
  <1>12. EveryEventIsLookedAtOnce'
    <2>1. \A i \in overlooked' : log'[i].turn < turn'
      <3>1. \A i \in overlooked : log'[i].turn < turn
        BY <1>4, <1>6 DEF TLInv, EveryEventIsLookedAtOnce
      <3>2. \A i \in overlooked : log'[i] \in Event
        <4>1. \A i \in 1..Len(log) : log[i] \in Event
          BY <1>4
        <4> QED BY <1>4, <1>6, <4>1 DEF End
      <3>3. \A i \in overlooked : log'[i].turn \in Nat
        BY <3>2 DEF Event
      <3>4. \A i \in overlooked : log'[i].turn < turn + 1
        BY <1>4, <3>1, <3>3
      <3>5. \A i \in (End + 1)..End' : log'[i].turn < turn + 1
        BY <1>3, <1>4, <1>6
      <3> QED BY <1>2, <1>9, <3>4, <3>5
    <2>2. overlooked' # {} => departed # {}
      <3>1. ended = 0 => (End + 1)..End' = {}
        BY <1>4, <1>6
      <3> QED BY <1>5, <1>9, <3>1 DEF TLInv, EveryEventIsLookedAtOnce
    <2>3. ASSUME NEW i \in 1..MaxEvents
          PROVE  looks[i] = IF i <= cursor' /\ i \notin overlooked' THEN 1 ELSE 0
      <3>1. looks[i] = IF i <= cursor /\ i \notin overlooked THEN 1 ELSE 0
        BY DEF TLInv, EveryEventIsLookedAtOnce
      <3>2. i <= cursor' <=> (i <= cursor \/ i \in (End + 1)..End')
        BY <1>2, <1>4, <1>5, <1>6, <1>7
      <3>3. i <= cursor => i \notin (End + 1)..End'
        BY <1>4, <1>7
      <3> QED BY <1>9, <3>1, <3>2, <3>3
    <2> QED BY <1>2, <2>1, <2>2, <2>3 DEF EveryEventIsLookedAtOnce
  <1>13. ReadBeforeActing' /\ UnreadIsCurrent'
    BY <1>2, <1>11 DEF TLInv, ReadBeforeActing, UnreadIsCurrent, Boundaries
  <1>14. \A t \in created : t.createdTurn \in Nat /\ t.createdTurn <= turn
    BY DEF TLInv, TLTypeOK, SchedulesAreKept, DelayedTrigger
  <1>15. SchedulesAreKept'
    <2>1. \A t \in created : t.createdTurn <= turn'
      BY <1>2, <1>4, <1>14
    <2>2. \A t \in created : t.read \in Nat /\ t.read <= cursor /\ t.from \in Nat /\ t.from <= End
      BY DEF TLInv, TLTypeOK, SchedulesAreKept, DelayedTrigger
    <2>3. \A t \in created : t.read <= cursor' /\ t.from <= End'
      BY <1>2, <1>4, <1>5, <1>6, <1>7, <2>2
    <2>4. \A pair \in fired : pair[2] \in Nat /\ pair[2] <= cursor
      BY DEF TLInv, TLTypeOK, SchedulesAreKept
    <2>5. \A pair \in fired : pair[2] <= cursor'
      BY <1>2, <1>4, <1>5, <1>6, <1>7, <2>4
    <2> QED BY <1>2, <2>1, <2>3, <2>5 DEF TLInv, SchedulesAreKept
  <1>16. ASSUME NEW t \in created
         PROVE  /\ FiredAt(t)' = FiredAt(t) /\ Watched(t)' = Watched(t)
                /\ {i \in 1..cursor' : Due(t, i)'} = {i \in 1..cursor : Due(t, i)}
    <2>1. \A i : <<t.id, i>> \in fired => i <= cursor
      BY DEF TLInv, SchedulesAreKept
    <2>2. FiredAt(t)' = FiredAt(t)
      BY <1>2, <1>4, <1>5, <1>6, <2>1 DEF FiredAt
    <2>3. Watched(t)' = {i \in 1..cursor' : log'[i].kind = "match" /\ i \notin overlooked' /\ i > t.read
                                           /\ (t.thisTurn => log'[i].turn = t.createdTurn)}
      BY DEF Watched, Matches
    <2>4. Watched(t) = {i \in 1..cursor : log[i].kind = "match" /\ i \notin overlooked /\ i > t.read
                                         /\ (t.thisTurn => log[i].turn = t.createdTurn)}
      BY DEF Watched, Matches
    <2>5. \A i \in 1..cursor : log'[i] = log[i] /\ (i \in overlooked' <=> i \in overlooked)
      BY <1>6, <1>7, <1>8, <1>9
    <2>6. Watched(t)' = Watched(t)
      BY <1>8, <1>9, <2>3, <2>4, <2>5
    <2>7. \A i \in 1..cursor : Due(t, i)' <=> Due(t, i)
      BY <2>5 DEF Due
    <2>8. \A i \in (End + 1)..End' : ~Due(t, i)'
      BY <1>3, <1>6, StepsAreSteps DEF Due, Steps
    <2> QED BY <1>8, <2>2, <2>6, <2>7, <2>8
  <1>17. FiresAtItsStep'
    <2>1. \A t \in created : t.timing # "event" => (t \in delayed' <=> t \in delayed)
      BY <1>2 DEF Expired
    <2> SUFFICES ASSUME NEW t \in created, t.timing # "event"
                 PROVE  LET due == {i \in 1..cursor' : Due(t, i)'}
                        IN FiredAt(t)' = First(due) /\ (t \in delayed' <=> due = {})
      BY <1>2 DEF FiresAtItsStep
    <2> QED BY <1>16, <2>1 DEF TLInv, FiresAtItsStep
  <1>18. FiresAtWhatItWatches'
    <2> SUFFICES ASSUME NEW t \in created, t.timing = "event"
                 PROVE  /\ FiredAt(t)' = IF t.oneShot THEN First(Watched(t)') ELSE Watched(t)'
                        /\ (t \in delayed') <=> ((t.oneShot => Watched(t)' = {})
                                                /\ (t.thisTurn => t.createdTurn = turn'))
      BY <1>2 DEF FiresAtWhatItWatches, InWindow
    <2>1. t.thisTurn => t.createdTurn # turn'
      BY <1>2, <1>4, <1>14
    <2>2. t \in delayed' <=> (t \in delayed /\ ~t.thisTurn)
      BY <1>2 DEF Expired
    <2>3. t.createdTurn = turn \/ ~t.thisTurn \/ t \notin delayed
      BY DEF TLInv, FiresAtWhatItWatches, InWindow
    <2> QED BY <1>16, <2>1, <2>2, <2>3 DEF TLInv, FiresAtWhatItWatches, InWindow
  <1> QED BY <1>10, <1>12, <1>13, <1>15, <1>17, <1>18 DEF TLInv

LEMMA TLInvStep == ASSUME TLInv, [TLNext]_TLvars PROVE TLInv'
  <1>0. departed \subseteq Player
    BY DEF TLInv, TLTypeOK
  <1>1. CASE PutTriggersOnStack
    BY <1>1, TLPassKeepsInv
  <1>2. CASE Happen
    <2>1. /\ Happening("match") \in Event /\ Happening("match").turn = turn
          /\ Happening("match").active = active /\ Happening("match").kind = "match"
      BY HappeningsAreEvents DEF TLInv
    <2>2. /\ log' = Append(log, Happening("match")) /\ End < MaxEvents /\ place # "over"
          /\ settled' = FALSE
          /\ UNCHANGED <<cursor, delayed, turn, active, departed, place, created, fired, looks,
                        overlooked>>
      BY <1>2 DEF Happen
    <2>3. End' <= MaxEvents
      BY <2>2, BoundsAssumption DEF TLInv, TLTypeOK, End
    <2> QED BY <1>0, <2>1, <2>2, <2>3, LogStep DEF TLInv, TLTypeOK, Steps
  <1>3. CASE \E timing \in Timings \union {"event"}, p \in Player, oneShot, thisTurn \in BOOLEAN :
               ScheduleDelayedTrigger(timing, p, oneShot, thisTurn)
    BY <1>3, SchedulingKeepsInv
  <1>4. ASSUME NEW step \in Steps, BeginStep(step) PROVE TLInv'
    <2>1. /\ Happening(step) \in Event /\ Happening(step).turn = turn
          /\ Happening(step).active = active
      BY HappeningsAreEvents DEF TLInv
    <2>2. /\ log' = Append(log, Happening(step)) /\ End < MaxEvents /\ place = "between"
          /\ place' \in {"ending", "window"} /\ settled' = FALSE
          /\ UNCHANGED <<cursor, delayed, turn, active, departed, created, fired, looks, overlooked>>
      BY <1>4 DEF BeginStep
    <2>3. End' <= MaxEvents
      BY <2>2, BoundsAssumption DEF TLInv, TLTypeOK, End
    <2> QED BY <1>0, <2>1, <2>2, <2>3, LogStep
  <1>5. CASE EndStep
    <2>1. PICK e \in Event : e.turn = turn /\ e.active = active
      BY HappeningsAreEvents DEF TLInv
    <2>2. /\ place' \in {"cleanup", "between"} /\ settled /\ settled' = FALSE
          /\ UNCHANGED <<log, cursor, delayed, turn, active, departed, created, fired, looks,
                        overlooked>>
      BY <1>5 DEF EndStep
    <2>3. Unread = {}
      BY <2>2 DEF TLInv, ReadBeforeActing
    <2>4. End' <= MaxEvents
      BY <2>2 DEF TLInv, TLTypeOK, End
    <2> QED BY <1>0, <2>1, <2>2, <2>3, <2>4, LogStep
  <1>6. CASE AdvanceToNextTurn
    BY <1>6, NextTurnKeepsInv
  <1>7. CASE UNCHANGED TLvars
    <2>1. PICK e \in Event : e.turn = turn /\ e.active = active
      BY HappeningsAreEvents DEF TLInv
    <2>2. End' <= MaxEvents
      BY <1>7 DEF TLInv, TLTypeOK, End, TLvars
    <2> QED BY <1>0, <1>7, <2>1, <2>2, LogStep DEF TLvars, TLInv, TLTypeOK, ReadBeforeActing
  <1>8. CASE Depart
    <2>1. PICK e \in Event : e.turn = turn /\ e.active = active
      BY HappeningsAreEvents DEF TLInv
    <2>2. /\ place' \in {"window", "ending"} /\ settled' = FALSE
          /\ departed \subseteq departed' /\ departed' \subseteq Player
          /\ UNCHANGED <<log, cursor, delayed, turn, active, created, fired, looks, overlooked>>
      BY <1>0, <1>8 DEF Depart
    <2>3. End' <= MaxEvents
      BY <2>2 DEF TLInv, TLTypeOK, End
    <2> QED BY <2>1, <2>2, <2>3, LogStep
  <1> QED BY <1>1, <1>2, <1>3, <1>4, <1>5, <1>6, <1>7, <1>8 DEF TLNext

LEMMA TLInvariance == TLSpec => []TLInv
  <1>1. TLInit => TLInv
    BY TLInvInit
  <1>2. TLInv /\ [TLNext]_TLvars => TLInv'
    BY TLInvStep
  <1> QED BY <1>1, <1>2, PTL DEF TLSpec

\* putTriggeredAbilitiesOnStackWithChoices and markCurrentTurnEventStart: each
\* event is looked at by one pass, but for those that happened while the next turn
\* was chosen after a player had left, which are looked at by none.
THEOREM LookedAtOnce == TLSpec => []EveryEventIsLookedAtOnce
  <1>1. TLInv => EveryEventIsLookedAtOnce
    BY DEF TLInv
  <1> QED BY <1>1, TLInvariance, PTL

\* drainReadyDelayedTriggers: at the first step it waits for, once.
THEOREM StepsAreKept == TLSpec => []FiresAtItsStep
  <1>1. TLInv => FiresAtItsStep
    BY DEF TLInv
  <1> QED BY <1>1, TLInvariance, PTL

\* drainReadyEventDelayedTriggers and expireEventDelayedTriggers: at each event
\* in its window, or at the first; what happened while the next turn was chosen is
\* not in it.
THEOREM EventsAreKept == TLSpec => []FiresAtWhatItWatches
  <1>1. TLInv => FiresAtWhatItWatches
    BY DEF TLInv
  <1> QED BY <1>1, TLInvariance, PTL
=============================================================================
