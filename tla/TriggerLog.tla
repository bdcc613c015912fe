------------------------------ MODULE TriggerLog ------------------------------
(***************************************************************************)
(* The event log and the delayed triggered abilities that watch it (CR     *)
(* 603.7).  Whatever happens is appended to g.Events; the next pass over   *)
(* triggered abilities reads what is there beyond a cursor, fires what     *)
(* waits for it, and moves the cursor, before it puts anything on the      *)
(* stack, which appends to the log again.  The next turn moves the cursor  *)
(* too, without looking: what happened while it was chosen is overlooked.  *)
(*                                                                         *)
(* Events are of one kind that the delayed triggers of an instance watch   *)
(* for, and beginnings of steps.  Steps are added and skipped by effects   *)
(* (module Turn) and come in any order; the ending phase comes last.       *)
(***************************************************************************)
EXTENDS Players, Integers, Sequences

CONSTANTS
  Timings,      \* the fixed timings that effects of the instance use
  MaxEvents,    \* bound: length of the log
  MaxTriggers,  \* bound: delayed triggers scheduled
  MaxTurns      \* bound: turns

ASSUME PlayerAssumption == Player # {}
ASSUME BoundsAssumption == MaxEvents \in Nat /\ MaxTriggers \in Nat /\ MaxTurns \in Nat

\* DelayedTriggerTiming
ASSUME TimingsAssumption ==
  Timings \subseteq {"nextEndStep", "nextUpkeep", "nextMainPhase", "endOfCombat",
                     "yourNextEndStep", "yourNextUpkeep"}

\* What the rest of the trigger pass and of the turn may do is left open: see
\* PutTriggersOnStack.
VARIABLES
  log,       \* g.Events
  cursor,    \* g.TriggerEventCursor
  delayed,   \* g.DelayedTriggers
  turn,      \* g.Turn.TurnNumber
  active,    \* g.Turn.ActivePlayer
  departed,  \* the players who have left
  place,     \* "between" steps, "window", "ending", "cleanup" or "over"
  settled,   \* the last pass of the window has placed nothing: players act
  created,   \* history: every delayed trigger ever scheduled
  fired,     \* history: which trigger has fired at which event
  looks,     \* history: how many passes have looked at each event
  overlooked \* history: the events that happened while the next turn was chosen

TLvars == <<log, cursor, delayed, turn, active, departed, place, settled, created, fired, looks,
            overlooked>>

Steps == {"upkeep", "main", "endCombat", "end"}
Event == [kind : Steps \union {"match"}, turn : Nat, active : Player]

\* DelayedTrigger: a fixed timing, or "event" with a window.  `read` and `from`
\* are history: the cursor and the end of the log when it was scheduled.
DelayedTrigger ==
  [id : 1..MaxTriggers, timing : Timings \union {"event"}, controller : Player,
   oneShot : BOOLEAN, thisTurn : BOOLEAN, createdTurn : Nat, read : Nat, from : Nat]

End == Len(log)
Unread == (cursor + 1)..End
Happening(kind) == [kind |-> kind, turn |-> turn, active |-> active]
First(S) == {i \in S : \A j \in S : i <= j}
Boundaries(S) == {i \in S : log[i].kind \in Steps}
Matches(S) == {i \in S : log[i].kind = "match"}

TLInit ==
  /\ log = <<>>
  /\ cursor = 0
  /\ delayed = {}
  /\ turn = 1
  /\ active \in Player
  /\ departed = {}
  /\ place = "between"
  /\ settled = FALSE
  /\ created = {}
  /\ fired = {}
  /\ looks = [i \in 1..MaxEvents |-> 0]
  /\ overlooked = {}

\* The step whose beginning each timing waits for.
StepOf(timing) ==
  CASE timing \in {"nextUpkeep", "yourNextUpkeep"} -> "upkeep"
    [] timing = "nextMainPhase" -> "main"
    [] timing = "endOfCombat" -> "endCombat"
    [] OTHER -> "end"

\* delayedTriggerReadyAtBoundary, at the beginning of `step`.
Ready_OwnUpkeepToo(t, step) ==
  /\ t.timing # "event"
  /\ StepOf(t.timing) = step
  /\ t.timing \in {"nextMainPhase", "yourNextEndStep", "yourNextUpkeep"} => t.controller = active
Ready(t, step) ==
  /\ t.timing # "event"
  /\ StepOf(t.timing) = step
  /\ t.timing = "nextUpkeep" => t.createdTurn < turn
  /\ t.timing \in {"nextMainPhase", "yourNextEndStep", "yourNextUpkeep"} => t.controller = active

\* drainReadyDelayedTriggers: the first boundary among the new events decides.
FiringAtBoundary ==
  {pair \in delayed \X First(Boundaries(Unread)) : Ready(pair[1], log[pair[2]].kind)}

InWindow(t) == t.thisTurn => t.createdTurn = turn

\* drainReadyEventDelayedTriggers: once for each new event that matches, or once.
FiringEvents(t) ==
  IF t.timing = "event" /\ InWindow(t)
  THEN IF t.oneShot THEN First(Matches(Unread)) ELSE Matches(Unread)
  ELSE {}

\* What is left of the list.
Retained ==
  {t \in delayed :
    /\ \A pair \in FiringAtBoundary : pair[1] # t
    /\ t.timing = "event" => InWindow(t)
    /\ t.oneShot => FiringEvents(t) = {}}

\* Where the cursor is after a pass in which `placing` is appended.
CursorAfterPass_Placing(placing) == End + Len(placing)
CursorAfterPass(placing) == End

\* putTriggeredAbilitiesOnStackWithChoices.  Whether it places anything is left
\* open: abilities of permanents and state triggers may trigger, and what has
\* triggered may have no legal target.  What it places may be an event in turn.
\* After cleanup, players act if anything was placed or a state-based action
\* applied.
PutTriggersOnStack ==
  /\ place \in {"window", "ending", "cleanup"}
  /\ ~settled
  /\ \E placed \in BOOLEAN, placing \in {<<>>, <<Happening("match")>>} :
       /\ placing # <<>> => placed /\ End < MaxEvents
       /\ log' = log \o placing
       /\ cursor' = CursorAfterPass(placing)
       /\ IF place = "cleanup"
          THEN place' \in (IF placed THEN {"ending"} ELSE {"ending", "over"}) /\ settled' = FALSE
          ELSE place' = place /\ settled' = ~placed
  /\ fired' = fired \union {<<pair[1].id, pair[2]>> : pair \in FiringAtBoundary}
                    \union UNION {{<<t.id, i>> : i \in FiringEvents(t)} : t \in delayed}
  /\ delayed' = Retained
  /\ looks' = [i \in 1..MaxEvents |-> IF i \in Unread THEN looks[i] + 1 ELSE looks[i]]
  /\ UNCHANGED <<turn, active, departed, created, overlooked>>

\* An action, a state-based action or a turn-based one: something happens.
Happen ==
  /\ place # "over"
  /\ End < MaxEvents
  /\ log' = Append(log, Happening("match"))
  /\ settled' = FALSE
  /\ UNCHANGED <<cursor, delayed, turn, active, departed, place, created, fired, looks, overlooked>>

\* A player loses, perhaps the one whose turn it is, and the game goes on; in
\* cleanup, players act then.  What leaves with them happens on its own.
Depart ==
  /\ place \in {"window", "ending", "cleanup"}
  /\ \E p \in Player \ departed :
       /\ \E q, r \in Player \ (departed \union {p}) : q # r
       /\ departed' = departed \union {p}
  /\ place' = IF place = "cleanup" THEN "ending" ELSE place
  /\ settled' = FALSE
  /\ UNCHANGED <<log, cursor, delayed, turn, active, created, fired, looks, overlooked>>

\* scheduleDelayedTrigger: while an object resolves, after `before` has happened
\* in that resolution.  Identities grow.
ScheduleDelayedTrigger(timing, p, oneShot, thisTurn) ==
  /\ settled /\ p \notin departed
  /\ timing # "event" => ~oneShot /\ ~thisTurn
  /\ timing = "event" => oneShot \/ thisTurn
  /\ \E before \in {<<>>, <<Happening("match")>>}, new \in 1..MaxTriggers :
       /\ End + Len(before) <= MaxEvents
       /\ log' = log \o before
       /\ \A t \in created : t.id < new
       /\ LET trigger == [id |-> new, timing |-> timing, controller |-> p,
                          oneShot |-> oneShot, thisTurn |-> thisTurn, createdTurn |-> turn,
                          read |-> cursor, from |-> Len(log')]
          IN delayed' = delayed \union {trigger} /\ created' = created \union {trigger}
  /\ settled' = FALSE
  /\ UNCHANGED <<cursor, turn, active, departed, place, fired, looks, overlooked>>

\* emitBeginningOfStepEvent, and the window it opens.
BeginStep(step) ==
  /\ place = "between"
  /\ End < MaxEvents
  /\ log' = Append(log, Happening(step))
  /\ place' = IF step = "end" THEN "ending" ELSE "window"
  /\ settled' = FALSE
  /\ UNCHANGED <<cursor, delayed, turn, active, departed, created, fired, looks, overlooked>>

\* Everybody has passed: the step ends, the end step or a cleanup step by another
\* cleanup.
EndStep ==
  /\ place \in {"window", "ending"}
  /\ settled
  /\ place' = IF place = "ending" THEN "cleanup" ELSE "between"
  /\ settled' = FALSE
  /\ UNCHANGED <<log, cursor, delayed, turn, active, departed, created, fired, looks, overlooked>>

\* expireEventDelayedTriggers
Expired_Never(t) == FALSE
Expired(t) == t.timing = "event" /\ t.thisTurn

\* expireDepartedNextTurnDurations and settleDepartedControl: where the choice of
\* the next turn comes to that of a player who has left, what was to last until
\* then ends, and permanents that nobody is left to control are exiled.  Which
\* seats it comes to and what ends there are left open.
EndedWhileChoosing == IF departed = {} THEN {0} ELSE 0..(MaxEvents - End)

\* advanceToNextTurn: the next turn is chosen in the turn that ends, which is when
\* that happens; then "this turn" triggers expire, the turn begins, and
\* markCurrentTurnEventStart moves the cursor.
AdvanceToNextTurn ==
  /\ place = "over"
  /\ turn < MaxTurns
  /\ \E ended \in EndedWhileChoosing :
       /\ log' = log \o [i \in 1..ended |-> Happening("match")]
       /\ overlooked' = overlooked \union (End + 1)..(End + ended)
  /\ delayed' = {t \in delayed : ~Expired(t)}
  /\ turn' = turn + 1
  /\ active' \in Player \ departed
  /\ cursor' = End'
  /\ place' = "between"
  /\ UNCHANGED <<departed, settled, created, fired, looks>>

TLNext ==
  \/ PutTriggersOnStack
  \/ Happen
  \/ Depart
  \/ \E timing \in Timings \union {"event"}, p \in Player, oneShot, thisTurn \in BOOLEAN :
       ScheduleDelayedTrigger(timing, p, oneShot, thisTurn)
  \/ \E step \in Steps : BeginStep(step)
  \/ EndStep
  \/ AdvanceToNextTurn

TLSpec == TLInit /\ [][TLNext]_TLvars

-------------------------------------------------------------------------------
TLTypeOK ==
  /\ log \in Seq(Event) /\ End <= MaxEvents
  /\ cursor \in 0..End
  /\ delayed \subseteq created /\ created \subseteq DelayedTrigger
  /\ turn \in Nat /\ active \in Player /\ departed \subseteq Player
  /\ place \in {"between", "window", "ending", "cleanup", "over"}
  /\ settled \in BOOLEAN
  /\ fired \subseteq (1..MaxTriggers) \X Nat
  /\ looks \in [1..MaxEvents -> Nat]
  /\ overlooked \subseteq 1..cursor

\* CR 603.2: one pass looks at each event, and no event is stepped over by what a
\* pass appends while it places abilities.  The exception is what happened while
\* the next turn was chosen, where a player who has left would have had one: no
\* pass looks at that.
EveryEventIsLookedAtOnce ==
  /\ \A i \in 1..MaxEvents : looks[i] = IF i <= cursor /\ i \notin overlooked THEN 1 ELSE 0
  /\ overlooked # {} => departed # {}
  /\ \A i \in overlooked : log[i].turn < turn

\* What mtg/game/README.md:239 says of the cursor: "`Game.TriggerEventCursor`
\* records how far trigger detection has consumed the event stream."  It does not
\* hold of what is overlooked (TriggerLogOverlooked.cfg).
ConsumedUpToTheCursor == \A i \in 1..cursor : looks[i] > 0

FiredAt(t) == {i \in 1..End : <<t.id, i>> \in fired}

\* CR 603.7b and the comments of DelayedTriggerTiming: the events at which a
\* fixed timing is due, from the event alone.  "Next upkeep" is of a later turn.
Due(t, i) ==
  /\ i > t.from
  /\ log[i].kind = StepOf(t.timing)
  /\ t.timing = "nextUpkeep" => log[i].turn > t.createdTurn
  /\ t.timing \in {"nextMainPhase", "yourNextEndStep", "yourNextUpkeep"} =>
       log[i].active = t.controller

\* A trigger with a fixed timing fires at the first such event after it was
\* scheduled, never at one before it, and waits until then.
FiresAtItsStep ==
  \A t \in created : t.timing # "event" =>
    LET due == {i \in 1..cursor : Due(t, i)}
    IN FiredAt(t) = First(due) /\ (t \in delayed <=> due = {})

\* The events a trigger with a window has to fire at: those no pass had looked at
\* when it was scheduled, cleanup's too, until its turn is over, but for those that
\* happened while the next turn was chosen.
Watched(t) ==
  {i \in Matches(1..cursor) \ overlooked : i > t.read /\ (t.thisTurn => log[i].turn = t.createdTurn)}

\* It fires at each of them, or at the first if it fires once, and is forgotten
\* when it can fire no more.
FiresAtWhatItWatches ==
  \A t \in created : t.timing = "event" =>
    /\ FiredAt(t) = IF t.oneShot THEN First(Watched(t)) ELSE Watched(t)
    /\ (t \in delayed) <=> ((t.oneShot => Watched(t) = {}) /\ InWindow(t))

\* Players act, and the turn passes, only when everything has been looked at.
ReadBeforeActing ==
  /\ (settled \/ place = "over") => Unread = {}
  /\ settled => place \in {"window", "ending"}

\* What has not been looked at is of this turn.  At most one step has begun in
\* it, after every trigger was scheduled: as the comment of
\* delayedTriggerReadyAtBoundary says, a delayed trigger is always created after
\* the current step's beginning event has passed.
UnreadIsCurrent ==
  /\ \A i \in Unread : log[i].turn = turn /\ log[i].active = active
  /\ \A i, j \in Boundaries(Unread) : i = j
  /\ place = "between" => Boundaries(Unread) = {}
  /\ \A t \in created : \A i \in Boundaries(Unread) : i > t.from

\* Triggers are scheduled one at a time, not in the future.
SchedulesAreKept ==
  /\ \A t, u \in created : t.id = u.id => t = u
  /\ \A t \in created :
       /\ t.createdTurn <= turn
       /\ t.read <= cursor
       /\ t.from <= End
       /\ t.timing # "event" => ~t.oneShot /\ ~t.thisTurn
  /\ \A pair \in fired : pair[2] <= cursor /\ \E t \in created : t.id = pair[1]

\* The inductive invariant of the safety proofs.
TLInv ==
  /\ TLTypeOK
  /\ EveryEventIsLookedAtOnce
  /\ ReadBeforeActing
  /\ UnreadIsCurrent
  /\ SchedulesAreKept
  /\ FiresAtItsStep
  /\ FiresAtWhatItWatches
=============================================================================
