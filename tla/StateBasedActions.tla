------------------------- MODULE StateBasedActions -------------------------
(***************************************************************************)
(* State-based actions (CR 704) and what hangs on them: the cards that are *)
(* in exile until a permanent leaves (CR 610.3), the commanders that may   *)
(* go to the command zone (CR 903.9a), control that lasts while its source *)
(* is controlled, and the players who leave with everything they own.      *)
(* Passes repeat until one changes nothing.                                *)
(*                                                                         *)
(* Instructions move cards, exile them, seize them and do harm; each ends  *)
(* with the return of what it released.  Hand and library are one zone;    *)
(* lethal damage and the other causes of death are `dying`, the conditions *)
(* under which a player loses are `doomed`.  Names that other modules have *)
(* too start with SB.                                                      *)
(***************************************************************************)
EXTENDS Players, Integers, Sequences, FiniteSets

CONSTANTS
  Card,
  Owner,      \* of a card
  Commander,  \* cards that are commanders
  Namesake,   \* legendary cards, all of one name
  Jailer,     \* cards that exile others until they leave the battlefield
  Thief,      \* cards whose controller seizes others as long as they control them
  MaxPasses,  \* maxStateBasedActionPasses
  MaxEffects  \* bound: instructions

ASSUME StateBasedActionsAssumption ==
  /\ IsFiniteSet(Card)
  /\ Owner \in [Card -> Player]
  /\ Commander \union Namesake \union Jailer \union Thief \subseteq Card
  /\ MaxPasses \in Nat \ {0} /\ MaxEffects \in Nat

VARIABLES
  board,    \* the cards and what refers to them
  out,      \* players who have left the game
  doomed,   \* players who meet a condition to lose
  step,     \* "resolving", "checking" or "settled"
  passes,   \* of the present check
  effects,  \* instructions so far
  offers,   \* history: the arrivals of a commander its owner was asked about
  jailed    \* history: what was exiled until which permanent leaves

SBvars == <<board, out, doomed, step, passes, effects, offers, jailed>>

Public == {"graveyard", "exile"}
Zones == Public \union {"battlefield", "hand", "command", "gone"}

\* A card and its ZoneVersion: one object (CR 400.7).
Object == [card : Card, version : Nat]
\* made: the Timestamp of the effect, here the instruction's number.
Grant == [on : Object, source : Object, to : Player, made : Nat]
UntilSourceLeaves == [source : Object, held : SUBSET Object]

Board ==
  [zone     : [Card -> Zones],
   version  : [Card -> Nat],
   base     : [Card -> Player],
   grants   : SUBSET Grant,
   exiles   : SUBSET UntilSourceLeaves,
   arrivals : SUBSET Object,
   dying    : SUBSET Card]

Field(b) == {c \in Card : b.zone[c] = "battlefield"}
Now(b, c) == [card |-> c, version |-> b.version[c]]
Same(b, o) == b.version[o.card] = o.version
OnField(b, o) == Same(b, o) /\ o.card \in Field(b)

\* effectiveController, when the grants in sight are `seen`: the latest rules.
ControllerBy(b, seen, c) ==
  LET over == {g \in seen : g.on = Now(b, c)}
  IN IF over = {} THEN b.base[c] ELSE (CHOOSE g \in over : \A h \in over : h.made <= g.made).to

Controller(b, c) == ControllerBy(b, b.grants, c)

-----------------------------------------------------------------------------
(* Moves.                                                                  *)

\* Mutant: the damage stays on the card.
Send_KeepsTheDamage(b, cards, to) ==
  [b EXCEPT !.zone = [c \in Card |-> IF c \in cards THEN to ELSE @[c]],
            !.version = [c \in Card |-> IF c \in cards THEN @[c] + 1 ELSE @[c]],
            !.base = [c \in Card |-> IF c \in cards THEN Owner[c] ELSE @[c]]]

\* Each card becomes a new object there.  A commander in a public zone is an
\* event after CommanderEventCursor.
Send(b, cards, to) ==
  [b EXCEPT !.zone = [c \in Card |-> IF c \in cards THEN to ELSE @[c]],
            !.version = [c \in Card |-> IF c \in cards THEN @[c] + 1 ELSE @[c]],
            !.base = [c \in Card |-> IF c \in cards THEN Owner[c] ELSE @[c]],
            !.dying = @ \ cards,
            !.arrivals = @ \union
              {[card |-> c, version |-> b.version[c] + 1] :
                 c \in {d \in cards \intersect Commander : to \in Public}}]

\* A grant lasts while whom it gives control to controls its source.
Lasts(b, seen, grant) ==
  OnField(b, grant.source) /\ ControllerBy(b, seen, grant.source.card) = grant.to

\* The place of a grant in g.ContinuousEffects.
Position(grants, grant) == Cardinality({g \in grants : g.made <= grant.made})

\* filterContinuousEffects compacts the slice that effectiveController reads: at
\* the i-th grant those `kept` have overwritten as many places, from the first on.
KeptAfter(b, i, kept) ==
  LET seen == kept \union {g \in b.grants : Position(b.grants, g) > Cardinality(kept)}
  IN kept \union {g \in b.grants : Position(b.grants, g) = i /\ Lasts(b, seen, g)}

Filtered(b) ==
  LET kept[i \in 0..Cardinality(b.grants)] ==
        IF i = 0 THEN {} ELSE KeptAfter(b, i, kept[i - 1])
  IN [b EXCEPT !.grants = kept[Cardinality(b.grants)]]

\* What the departed are left in control of.
Orphans(b, departed) ==
  {c \in Field(b) : Owner[c] \notin departed /\ Controller(b, c) \in departed}

\* Grants expire until none does; then orphans go to exile.
Settle(b, departed) ==
  IF Filtered(b) # b THEN Filtered(b) ELSE Send(b, Orphans(b, departed), "exile")

\* Every step but the last drops a grant or a permanent, so that the limit of
\* settleDepartedControl is not reached.
Settled(b, departed) ==
  LET most == Cardinality(b.grants) + Cardinality(Field(b))
      after[i \in 0..most] == IF i = 0 THEN b ELSE Settle(after[i - 1], departed)
  IN after[most]

\* removeExpiredConditionalControlDurations
Expire(b) == Settled(b, {})

SettleDepartedControl(b, departed) ==
  IF departed = {} THEN b ELSE Settled(b, departed)

Released(b) == {r \in b.exiles : ~OnField(b, r.source)}

\* Mutant: the card, whichever object it is by now.
ReturnUntilSourceLeavesExiles_AnyObject(b) ==
  LET held == UNION {r.held : r \in Released(b)}
      back == {o.card : o \in {h \in held : b.zone[h.card] = "exile"}}
  IN Send([b EXCEPT !.exiles = @ \ Released(b)], back, "battlefield")

\* Once, under their owners' control, and only what is still the same object.
ReturnUntilSourceLeavesExiles(b) ==
  LET held == UNION {r.held : r \in Released(b)}
      back == {o.card : o \in {h \in held : Same(b, h) /\ b.zone[h.card] = "exile"}}
  IN Send([b EXCEPT !.exiles = @ \ Released(b)], back, "battlefield")

\* Mutant: the departed take along what is theirs and no more.
CleanupEliminated_OwnedOnly(b, departed) ==
  [Send(b, {c \in Card : Owner[c] \in departed /\ b.zone[c] # "gone"}, "gone")
     EXCEPT !.grants = {grant \in @ : grant.to \notin departed}]

\* cleanupEliminatedPlayer, for everybody who has left.
CleanupEliminated(b, departed) ==
  LET owned == {c \in Card : Owner[c] \in departed /\ b.zone[c] # "gone"}
      gone == Send(b, owned, "gone")
      freed == [gone EXCEPT !.grants = {grant \in @ : grant.to \notin departed}]
  IN SettleDepartedControl(freed, departed)

SBInit ==
  /\ \E zone \in [Card -> {"battlefield", "hand", "command"}] :
       /\ \A c \in Card : zone[c] = "command" => c \in Commander
       /\ \A c, d \in Namesake :
            zone[c] = "battlefield" /\ zone[d] = "battlefield" /\ Owner[c] = Owner[d] => c = d
       /\ board = [zone |-> zone, version |-> [c \in Card |-> 0], base |-> Owner,
                   grants |-> {}, exiles |-> {}, arrivals |-> {}, dying |-> {}]
  /\ out = {}
  /\ doomed = {}
  /\ step = "settled"
  /\ passes = 0
  /\ effects = 0
  /\ offers = [c \in Card |-> <<>>]
  /\ jailed = {}

-----------------------------------------------------------------------------
(* Instructions.                                                           *)

Instruction ==
  /\ step \in {"settled", "resolving"}
  /\ effects < MaxEffects
  /\ Cardinality(Player \ out) > 1
  /\ step' = "resolving"
  /\ effects' = effects + 1
  /\ UNCHANGED <<out, passes, offers>>

\* Whatever the instruction has released returns before the next one.
Finish(b) == board' = ReturnUntilSourceLeavesExiles(b)

\* What leaves the battlefield may end a grant.  The owner may send a commander
\* to the command zone instead of a hidden one (CR 903.9b).
Move(c) ==
  /\ Instruction
  /\ board.zone[c] # "gone"
  /\ \E to \in (Public \union {"hand", "command"}) \ {board.zone[c]} :
       /\ to = "command" => c \in Commander
       /\ LET after == Send(board, {c}, to)
          IN Finish(IF c \in Field(board) THEN SettleDepartedControl(after, out) ELSE after)
  /\ UNCHANGED <<doomed, jailed>>

\* A spell resolves, or a public card is put onto the battlefield by anybody.
Put(c, p) ==
  /\ Instruction
  /\ board.zone[c] \notin {"battlefield", "gone"}
  /\ p \notin out
  /\ board.zone[c] \notin Public => p = Owner[c]
  /\ Finish([Send(board, {c}, "battlefield") EXCEPT !.base[c] = p])
  /\ UNCHANGED <<doomed, jailed>>

\* "Exile ... until this leaves": nothing once it has left (CR 610.3a-b).  The
\* record is kept after the move, which may have taken the jailer as well.
Jail(j, cards) ==
  LET after == Send(board, cards, "exile")
      held == {Now(after, c) : c \in cards}
      record == [source |-> Now(board, j), held |-> held]
  IN /\ Instruction
     /\ board.zone[j] = "battlefield"
     /\ Finish([SettleDepartedControl(after, out) EXCEPT !.exiles = @ \union {record}])
     /\ jailed' = jailed \union {[source |-> record.source, object |-> o] : o \in held}
     /\ UNCHANGED doomed

\* applyTypedContinuousEffects, for as long as the thief is controlled.
Seize(t, c) ==
  LET grant == [on |-> Now(board, c), source |-> Now(board, t), to |-> Controller(board, t),
                made |-> effects]
  IN /\ Instruction
     /\ board.zone[t] = "battlefield"
     /\ Finish(SettleDepartedControl([board EXCEPT !.grants = @ \union {grant}], out))
     /\ UNCHANGED <<doomed, jailed>>

\* Damage, lost life, poison: what the next check will find.
Harm(cards, players) ==
  /\ Instruction
  /\ Finish([board EXCEPT !.dying = @ \union cards])
  /\ doomed' = doomed \union players
  /\ UNCHANGED jailed

BeginCheck ==
  /\ step = "resolving"
  /\ step' = "checking"
  /\ UNCHANGED <<board, out, doomed, passes, effects, offers, jailed>>

-----------------------------------------------------------------------------
(* The check.                                                              *)

\* Legend rule: everybody keeps one.
Keepers(b) ==
  LET legends == Namesake \intersect Field(b)
  IN {kept \in SUBSET legends :
        \A c \in legends : \E one \in legends :
          {d \in kept : Controller(b, d) = Controller(b, c)} = {one}}

\* Everything that leaves in this pass, as the board is before it.
Departures(b) ==
  {b.dying \union ((Namesake \intersect Field(b)) \ kept) : kept \in Keepers(b)}

\* Mutant: the cursor is not advanced.
ReadEvents_KeepsTheCursor(b) == b

\* pendingCommanderZoneActions advances CommanderEventCursor to the last event.
ReadEvents(b) == [b EXCEPT !.arrivals = {}]

\* Mutant: losses ask for no further pass.
Changed_ByMovesOnly(acted, losses) == acted # {}

\* Whether stateBasedActionPass.apply has changed anything.
Changed(acted, losses) == acted # {} \/ losses # {}

\* applyStateBasedActionsWithOutcome, one time around.  What the jailers that
\* left have held returns first; then the commanders' arrivals are taken from
\* the log, and grants expire.  The choices are made on that board; what has
\* moved again is not moved by them.  Departures, commanders, losses.
Pass ==
  LET returned == ReturnUntilSourceLeavesExiles(board)
      read == ReadEvents(returned)
      before == SettleDepartedControl(Expire(read), out)
      asked == {o \in returned.arrivals : Same(before, o) /\ Owner[o.card] \notin out}
      losses == doomed \ out
  IN /\ step = "checking"
     /\ passes < MaxPasses
     /\ \E accepted \in SUBSET asked, fallen \in Departures(before) :
          LET left == SettleDepartedControl(Send(before, fallen, "graveyard"), out)
              moved == {o.card : o \in {a \in accepted : Same(left, a)}}
              after == Send(left, moved, "command")
          IN /\ board' = IF losses = {} THEN after ELSE CleanupEliminated(after, out \union losses)
             /\ step' = IF \/ Changed(fallen \union moved, losses)
                           \/ before # read \/ Released(board) # {}
                        THEN "checking" ELSE "settled"
     /\ passes' = IF step' = "checking" THEN passes + 1 ELSE 0
     /\ out' = out \union losses
     /\ offers' = [c \in Card |-> IF \E o \in asked : o.card = c
                                   THEN Append(offers[c], before.version[c]) ELSE offers[c]]
     /\ UNCHANGED <<doomed, effects, jailed>>

SBNext ==
  \/ \E c \in Card : Move(c)
  \/ \E c \in Card, p \in Player : Put(c, p)
  \/ \E j \in Jailer, cards \in SUBSET Field(board) : Cardinality(cards) \in 1..2 /\ Jail(j, cards)
  \/ \E t \in Thief, c \in Field(board) : Seize(t, c)
  \/ \E cards \in SUBSET Field(board), players \in SUBSET (Player \ out) :
       Cardinality(cards) + Cardinality(players) \in 1..2 /\ Harm(cards, players)
  \/ BeginCheck
  \/ Pass

SBSpec == SBInit /\ [][SBNext]_SBvars

-----------------------------------------------------------------------------

SBTypeOK ==
  /\ board \in Board
  /\ out \subseteq Player /\ doomed \subseteq Player
  /\ step \in {"resolving", "checking", "settled"}
  /\ passes \in 0..MaxPasses /\ effects \in 0..MaxEffects
  /\ offers \in [Card -> Seq(Nat)]
  /\ jailed \subseteq [source : Object, object : Object]

\* What damage, grants and the log refer to: permanents, objects that were, and
\* commanders that are where they have come to or were there.
Sound(b) ==
  /\ IsFiniteSet(b.grants) /\ IsFiniteSet(b.exiles)
  /\ \A grant \in b.grants : grant.on.version <= b.version[grant.on.card]
  /\ b.dying \subseteq Field(b)
  /\ \A o \in b.arrivals :
       /\ o.card \in Commander
       /\ o.version <= b.version[o.card]
       /\ Same(b, o) => b.zone[o.card] \in Public

\* What was exiled until a permanent leaves and is still there, `told`, is what
\* the records of the game speak of.
Recalled(b, told) ==
  /\ \A r \in b.exiles : \A o \in r.held : [source |-> r.source, object |-> o] \in told
  /\ \A j \in told :
       /\ j.object.version <= b.version[j.object.card]
       /\ Same(b, j.object) /\ b.zone[j.object.card] = "exile" =>
            \E r \in b.exiles : r.source = j.source /\ j.object \in r.held

\* The arrivals that were offered are older than those in the log, and a
\* commander in a public zone is there by one or the other.
Noticed(b, offered) ==
  \A c \in Commander :
    LET last == Len(offered[c])
    IN /\ \A i, k \in 1..last : i < k => offered[c][i] < offered[c][k]
       /\ \A i \in 1..last : offered[c][i] <= b.version[c]
       /\ \A o \in b.arrivals : o.card = c => \A i \in 1..last : offered[c][i] < o.version
       /\ b.version[c] > 0 /\ b.zone[c] \in Public =>
            Now(b, c) \in b.arrivals \/ (last > 0 /\ offered[c][last] = b.version[c])

\* A commander that has come to a graveyard or to exile is offered to its owner
\* once, and nobody gets priority before it has been.  pendingCommanderZoneActions
\* reads arrivals from the log with a cursor, while cards go on moving.
EachArrivalIsOfferedOnce ==
  \A c \in Commander :
    /\ \A i, k \in DOMAIN offers[c] : i < k => offers[c][i] < offers[c][k]
    /\ step = "settled" /\ board.version[c] > 0 /\ board.zone[c] \in Public =>
         offers[c] # <<>> /\ offers[c][Len(offers[c])] = board.version[c]

\* When the check is over nothing is left to do: no card is still in exile for a
\* jailer that has left, nobody controls two namesakes, nothing that should have
\* died or lost is there.  Each part of a pass can make work for the parts
\* before it, and it is the flags of what changed that ask for another pass.
SettledIsSettled ==
  step = "settled" =>
    /\ \A j \in jailed :
         Same(board, j.object) /\ board.zone[j.object.card] = "exile" => OnField(board, j.source)
    /\ \A c, d \in Namesake \intersect Field(board) :
         Controller(board, c) = Controller(board, d) => c = d
    /\ board.dying = {}
    /\ doomed \subseteq out
    /\ \A grant \in board.grants : Lasts(board, board.grants, grant)

\* A departed player owns nothing that is left and controls nothing, whatever
\* ends control afterwards: a grant, or the departure of what it depends on.
NothingOfTheDeparted ==
  \A c \in Card :
    /\ Owner[c] \in out => board.zone[c] = "gone"
    /\ c \in Field(board) => Controller(board, c) \notin out

\* The inductive invariant of the proofs.
SBInv ==
  /\ SBTypeOK
  /\ Sound(board)
  /\ Recalled(board, jailed)
  /\ Noticed(board, offers)
  /\ NothingOfTheDeparted
  /\ SettledIsSettled
  /\ step = "settled" => board.arrivals = {}

\* A check takes a card out of exile only if it is still the object that a
\* permanent which has left has exiled; its owner gets it.
ComesBackAsItLeft ==
  [][Pass => \A c \in Card :
       board.zone[c] = "exile" /\ c \in Field(board)' =>
         /\ \E j \in jailed : j.object = Now(board, c) /\ ~OnField(board, j.source)
         /\ board'.base[c] = Owner[c]]_SBvars

\* The cards that a pass may still move, and what it may still do.
Around(b) == {c \in Card : b.zone[c] \in Public \union {"battlefield"}}
Remaining ==
  Cardinality(board.grants) + Cardinality(Field(board)) + Cardinality(Around(board))
    + (IF doomed \subseteq out THEN 0 ELSE 1)

\* The passes of a check come to an end, so that it does not panic at its limit:
\* one that asks for another has ended exiles, or left less to do and ended none.
\* What one pass undoes no later one does again.
PassesRunOut ==
  [][Pass /\ step' = "checking" =>
       \/ Cardinality(board'.exiles) < Cardinality(board.exiles)
       \/ board'.exiles = board.exiles /\ Remaining' < Remaining]_SBvars

=============================================================================
