---------------------------- MODULE StateTriggers ----------------------------
(***************************************************************************)
(* State triggers (CR 603.8): abilities that trigger because a condition   *)
(* holds and not because something happened ("When you control no          *)
(* artifacts, sacrifice this creature").  So as not to trigger again in    *)
(* every pass while the ability waits, detectStateTriggeredAbilities       *)
(* latches the source; whoever takes the ability off the stack releases    *)
(* the latch.  The module is about the two drifting apart.                 *)
(*                                                                         *)
(* One state-triggered ability per source.  Whether its condition holds is *)
(* left open at each pass.  Stack objects carry identities that grow, so   *)
(* the top of the stack is the greatest one.                               *)
(***************************************************************************)
EXTENDS Players, Integers

CONSTANTS
  Source,      \* permanents with a state-triggered ability
  MaxObjects,  \* bound: abilities and copies put on the stack
  MaxEffects   \* bound: copies, and changes of control or of abilities

ASSUME ObjectsAssumption == MaxObjects \in Nat /\ MaxEffects \in Nat

VARIABLES
  owner,       \* of each source
  controller,  \* effectiveController of each source
  where,       \* "active", "phasedOut" or "gone"
  lacks,       \* sources that have lost the ability
  latches,     \* g.StateTriggerLatches
  stack,       \* state-triggered abilities and copies of them on g.Stack
  ids,         \* g.IDGen: identities handed out
  effects,     \* effects so far, for the bound
  out,         \* players who have left the game
  orphaned,    \* history: latched sources whose last ability left with a player
  early        \* history: sources released while an ability of theirs waits

STvars == <<owner, controller, where, lacks, latches, stack, ids, effects, out,
          orphaned, early>>

\* `mine` is stackObjectOwner: who the object leaves the game with.
StackObject ==
  [id : 1..MaxObjects, source : Source, copy : BOOLEAN,
   controller : Player, mine : Player]

Active == {s \in Source : where[s] = "active"}
Waiting(s) == {o \in stack : o.source = s}
Originals(s) == {o \in Waiting(s) : ~o.copy}

\* The object on top of the stack.
Top(o) == o \in stack /\ \A other \in stack : other.id <= o.id

Effect == effects < MaxEffects /\ effects' = effects + 1

STInit ==
  /\ owner \in [Source -> Player]
  /\ controller = owner
  /\ where = [s \in Source |-> "active"]
  /\ lacks = {}
  /\ latches = {}
  /\ stack = {}
  /\ ids = 0
  /\ effects = 0
  /\ out = {}
  /\ orphaned = {}
  /\ early = {}

\* deleteStateTriggerLatch, when object o leaves the stack.  It goes by the
\* source: a copy releases it as the ability itself does.
Release(o) ==
  /\ latches' = latches \ {o.source}
  /\ orphaned' = orphaned \ {o.source}
  /\ early' = IF Waiting(o.source) = {o} THEN early \ {o.source}
              ELSE early \union {o.source}

\* On the battlefield without the ability, or not there at all.
SeenWithout == {s \in Source : where[s] = "gone" \/ (where[s] = "active" /\ s \in lacks)}

\* The latches detectStateTriggeredAbilities keeps: of sources that still have
\* the ability, or are phased out.
Kept_WhilePhasedIn == {s \in latches : s \in Active \ lacks}
Kept ==
  {s \in latches : s \in Active \ lacks \/ where[s] = "phasedOut"}

\* What triggers when the conditions of the sources in `holds` hold.
Triggered(holds) == (holds \intersect (Active \ lacks)) \ latches

\* prepareTriggeredAbility fails for the abilities of the sources in `dropped`
\* (no legal mode or target): their latches are released.
LatchesAfterPass(triggered, dropped) == (Kept \union triggered) \ dropped

\* putTriggeredAbilitiesOnStackWithChoices as far as state triggers go: detect
\* and latch, drop, and put the rest on the stack in some order.
PutOnStack ==
  \E holds \in SUBSET Source :
    LET triggered == Triggered(holds)
    IN \E dropped \in SUBSET triggered :
         LET placed == triggered \ dropped
         IN \E order \in [placed -> 1..MaxObjects] :
              /\ \A s \in placed : order[s] > ids
              /\ \A s, t \in placed : s # t => order[s] # order[t]
              /\ ids' \in ids..MaxObjects
              /\ \A s \in placed : order[s] <= ids'
              /\ \A n \in (ids + 1)..ids' : \E s \in placed : order[s] = n
              /\ stack' = stack \union
                   {[id |-> order[s], source |-> s, copy |-> FALSE,
                     controller |-> controller[s], mine |-> controller[s]] : s \in placed}
              /\ latches' = LatchesAfterPass(triggered, dropped)
              /\ orphaned' = orphaned \intersect latches'
              /\ early' = early \union {s \in latches \intersect SeenWithout : Waiting(s) # {}}
              /\ UNCHANGED <<owner, controller, where, lacks, effects, out>>

\* resolveTopOfStackWithChoices: the ability resolves, which may sacrifice its
\* source, and then releases the latch.
Resolve ==
  \E o \in stack :
    /\ Top(o)
    /\ stack' = stack \ {o}
    /\ Release(o)
    /\ where' \in {where, [where EXCEPT ![o.source] = "gone"]}
    /\ UNCHANGED <<owner, controller, lacks, ids, effects, out>>

CounterAbility_KeepsLatch(o) ==
  /\ stack' = stack \ {o}
  /\ UNCHANGED <<latches, orphaned, early>>
CounterAbility(o) ==
  /\ stack' = stack \ {o}
  /\ Release(o)

\* counterStackObjectWithDestination, of an ability or a copy anywhere.
Counter ==
  /\ Effect
  /\ \E o \in stack : CounterAbility(o)
  /\ UNCHANGED <<owner, controller, where, lacks, ids, out>>

\* copyStackObjectForPlayer: the copy is its new controller's.
Copy ==
  /\ Effect
  /\ ids < MaxObjects
  /\ ids' = ids + 1
  /\ \E o \in stack, p \in Player \ out :
       stack' = stack \union
         {[o EXCEPT !.id = ids', !.copy = TRUE, !.controller = p, !.mine = p]}
  /\ UNCHANGED <<owner, controller, where, lacks, latches, out, orphaned, early>>

\* handleChangeStackObjectController: the ability stays its owner's.
ChangeStackObjectController ==
  /\ Effect
  /\ \E o \in stack, p \in Player \ out :
       stack' = (stack \ {o}) \union {[o EXCEPT !.controller = p]}
  /\ UNCHANGED <<owner, controller, where, lacks, latches, ids, out, orphaned, early>>

\* A control effect on the source begins or ends.
ChangeControl ==
  /\ Effect
  /\ \E s \in Active, p \in Player \ out :
       /\ p # controller[s]
       /\ controller' = [controller EXCEPT ![s] = p]
  /\ UNCHANGED <<owner, where, lacks, latches, stack, ids, out, orphaned, early>>

\* The source loses its abilities, or has them back.
ChangeAbilities ==
  /\ Effect
  /\ \E s \in Active :
       lacks' = IF s \in lacks THEN lacks \ {s} ELSE lacks \union {s}
  /\ UNCHANGED <<owner, controller, where, latches, stack, ids, out, orphaned, early>>

\* The source leaves the battlefield (what comes back is a new object), phases
\* out or phases in.
Move ==
  /\ Effect
  /\ \E s \in Source :
       \/ /\ where[s] = "active"
          /\ where' \in {[where EXCEPT ![s] = w] : w \in {"gone", "phasedOut"}}
       \/ /\ where[s] = "phasedOut"
          /\ where' = [where EXCEPT ![s] = "active"]
  /\ UNCHANGED <<owner, controller, lacks, latches, stack, ids, out, orphaned, early>>

\* What leaveDepartedOwnedObjects and cleanupDepartedStackObjects leave of the
\* stack.
StackWithout(p) == {o \in stack : o.mine # p /\ o.controller # p}

\* cleanupEliminatedPlayer: p's permanents and abilities leave the game; what p
\* controlled of others' returns to its owner, or is exiled if nobody is left to
\* control it.  No latch is released.
Leave ==
  \E p \in Player \ out :
    /\ out' = out \union {p}
    /\ stack' = StackWithout(p)
    /\ where' = [s \in Source |-> IF owner[s] = p THEN "gone" ELSE where[s]]
    /\ controller' = [s \in Source |->
         IF controller[s] = p THEN owner[s] ELSE controller[s]]
    /\ LET silenced == {o.source : o \in stack} \ {o.source : o \in stack'}
       IN /\ orphaned' = orphaned \union (silenced \intersect latches)
          /\ early' = early \ silenced
    /\ UNCHANGED <<owner, lacks, latches, ids, effects>>

STNext ==
  \/ PutOnStack
  \/ Resolve
  \/ Counter
  \/ Copy
  \/ ChangeStackObjectController
  \/ ChangeControl
  \/ ChangeAbilities
  \/ Move
  \/ Leave

STSpec == STInit /\ [][STNext]_STvars

-------------------------------------------------------------------------------
STTypeOK ==
  /\ owner \in [Source -> Player]
  /\ controller \in [Source -> Player]
  /\ where \in [Source -> {"active", "phasedOut", "gone"}]
  /\ lacks \in SUBSET Source /\ latches \in SUBSET Source
  /\ stack \in SUBSET StackObject
  /\ ids \in 0..MaxObjects /\ effects \in 0..MaxEffects
  /\ out \in SUBSET Player
  /\ orphaned \in SUBSET Source /\ early \in SUBSET Source

\* Identities are handed out once and in order.
IdentitiesAreFresh ==
  /\ \A o \in stack : o.id <= ids
  /\ \A o, other \in stack : o.id = other.id => o = other

\* CR 603.8, "until the ability leaves the stack": a source is held back only by
\* an ability of its own that waits.  The one exception is an ability that left
\* with a player: it leaves its latch behind.
HeldBackByItsAbility ==
  \A s \in latches : Waiting(s) # {} \/ s \in orphaned

\* CR 603.8, "do not trigger again": a source whose ability waits is held back,
\* whatever happens to the source and to the other sources in the meantime.  The
\* exceptions are a copy of the ability that left the stack before it, and a
\* source seen without the ability.
WaitingHoldsBack ==
  \A s \in Source : Waiting(s) # {} => s \in latches \union early

\* And so it waits once, with those exceptions.
WaitsOnce ==
  \A s \in Source : \A o, other \in Originals(s) : o = other \/ s \in early

\* Nothing of a departed player is on the stack, and nobody who left controls
\* what is on the battlefield.
NothingOfTheDeparted ==
  /\ \A o \in stack : o.mine \notin out /\ o.controller \notin out
  /\ \A s \in Source : where[s] # "gone" => owner[s] \notin out /\ controller[s] \notin out

\* The inductive invariant of the safety proofs.
STInv ==
  /\ STTypeOK
  /\ IdentitiesAreFresh
  /\ HeldBackByItsAbility
  /\ WaitingHoldsBack
  /\ WaitsOnce
  /\ NothingOfTheDeparted

\* What the comment in detectStateTriggeredAbilities says: a latch is there until
\* the ability leaves the stack.  It outlives an ability that leaves with its
\* controller while the source stays with its owner.
LatchEndsWithTheAbility ==
  \A s \in latches \intersect (Active \ lacks) : Waiting(s) # {}

\* The same comment: no source triggers again before its ability leaves the stack.
\* It does once a copy of the ability has left the stack.
NeverTriggersTwice ==
  \A s \in Source : where[s] = "active" /\ lacks = {} =>
    \A o, other \in Originals(s) : o = other
=============================================================================
