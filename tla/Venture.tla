------------------------------ MODULE Venture ------------------------------
(***************************************************************************)
(* Venturing into dungeons (CR 309, 701.49) and the initiative (CR 720),   *)
(* which ventures on its own.  A venture moves the player into a room at   *)
(* once and queues the room's ability; the next pass over triggered        *)
(* abilities puts it on the stack, where it is copied, countered, stolen   *)
(* and resolved like any other.  Whatever takes the ability of a last room *)
(* off the stack completes the dungeon, which by then may be another one.  *)
(*                                                                         *)
(* Stack objects other than room abilities are left out: their             *)
(* instructions happen when they happen.  Identities of objects grow, so   *)
(* the top of the stack is the greatest one.                               *)
(***************************************************************************)
EXTENDS Dungeons, Sequences

CONSTANTS
  Player,
  Ordinary,    \* OrdinaryDungeons: those a venture offers
  Undercity,   \* the dungeon of the initiative
  Targeted,    \* <<dungeon, room>> whose ability may find no target
  MaxObjects,  \* bound: room abilities and copies put on the stack
  MaxEffects   \* bound: instructions

ASSUME VentureAssumption ==
  /\ Ordinary \subseteq Dungeon
  /\ Undercity \in Dungeon
  /\ MaxObjects \in Nat /\ MaxEffects \in Nat

VARIABLES
  alive,      \* players who have not left the game
  has,        \* players with HasInitiative
  ventures,   \* g.PendingInitiativeVentures
  dungeon,    \* player.Dungeon: none, or one DungeonState
  completed,  \* player.DungeonsCompleted
  pending,    \* g.PendingRoomAbilities
  stack,      \* room abilities and copies of them on g.Stack
  ids,        \* stack objects so far
  entries,    \* dungeons entered so far: the last ObjectID of a dungeon
  placing,    \* a pass over triggered abilities is under way
  effects,    \* instructions so far
  taken,      \* history: somebody has taken the initiative
  started,    \* history: how many dungeons each player has entered
  robbed      \* history: players whose last room's ability left with another

vars == <<alive, has, ventures, dungeon, completed, pending, stack, ids, entries,
          placing, effects, taken, started, robbed>>

DungeonState ==
  {s \in [entry : Nat, dungeon : Dungeon, room : AllRooms, visited : SUBSET AllRooms] :
     s.room \in Rooms(s.dungeon)}

\* RoomAbilityTrigger, and DungeonRoomMark when it is on the stack.
Mark == [owner : Player, entry : Nat, dungeon : Dungeon, room : AllRooms, final : BOOLEAN]

\* `mine` is stackObjectOwner: who the object leaves the game with.
StackObject == [id : 1..MaxObjects, mark : Mark, controller : Player, mine : Player]

Marks == pending \union {o.mark : o \in stack}
Top(o) == o \in stack /\ \A other \in stack : other.id <= o.id
Instruction == ~placing /\ effects < MaxEffects /\ effects' = effects + 1

Init ==
  /\ alive = Player
  /\ has = {}
  /\ ventures = <<>>
  /\ dungeon = [p \in Player |-> {}]
  /\ completed = [p \in Player |-> 0]
  /\ pending = {}
  /\ stack = {}
  /\ ids = 0
  /\ entries = 0
  /\ placing = FALSE
  /\ effects = 0
  /\ taken = FALSE
  /\ started = [p \in Player |-> 0]
  /\ robbed = {}

\* enterDungeonRoom: p is now at s.
EnterDungeonRoom(p, s) ==
  /\ dungeon' = [dungeon EXCEPT ![p] = {s}]
  /\ pending' = pending \union
       {[owner |-> p, entry |-> s.entry, dungeon |-> s.dungeon, room |-> s.room, final |-> Final(s)]}

EnterDungeon(p, d) ==
  /\ entries' = entries + 1
  /\ started' = [started EXCEPT ![p] = @ + 1]
  /\ \E r \in Entrances(d) :
       EnterDungeonRoom(p, [entry |-> entries', dungeon |-> d, room |-> r, visited |-> {r}])

\* advanceDungeon: from a last room it does nothing.
AdvanceDungeon(p, s) ==
  /\ \/ \E r \in Onward(s) :
          EnterDungeonRoom(p, [s EXCEPT !.room = r, !.visited = @ \union {r}])
     \/ Onward(s) = {} /\ UNCHANGED <<dungeon, pending>>
  /\ UNCHANGED <<entries, started>>

\* ventureIntoDungeon and ventureIntoUndercity.
VentureInto(p, offered) ==
  \/ dungeon[p] = {} /\ \E d \in offered : EnterDungeon(p, d)
  \/ \E s \in dungeon[p] : AdvanceDungeon(p, s)

\* handleVentureIntoDungeon, handleVentureIntoUndercity
Venture(p) ==
  /\ Instruction
  /\ p \in alive
  /\ \E offered \in {Ordinary, {Undercity}} : VentureInto(p, offered)
  /\ UNCHANGED <<alive, has, ventures, completed, stack, ids, placing, taken, robbed>>

\* setInitiative, by an instruction or by combat damage.  It queues a venture.
TakeInitiative(p) ==
  /\ Instruction
  /\ p \in alive
  /\ has' = {p}
  /\ taken' = TRUE
  /\ ventures' = Append(ventures, p)
  /\ UNCHANGED <<alive, dungeon, completed, pending, stack, ids, entries, placing, started, robbed>>

\* runUpkeepStep, in the turn of the player who has the initiative.
UpkeepVenture(p) ==
  /\ Instruction
  /\ pending = {} /\ ventures = <<>> /\ stack = {}
  /\ p \in has \intersect alive
  /\ ventures' = Append(ventures, p)
  /\ UNCHANGED <<alive, has, dungeon, completed, pending, stack, ids, entries, placing, taken, started, robbed>>

\* drainPendingInitiativeVentures, at the head of a trigger pass, one venture at
\* a time; departed players do not venture.
DrainInitiativeVenture ==
  /\ ventures # <<>>
  /\ LET p == Head(ventures)
     IN IF p \in alive THEN VentureInto(p, {Undercity})
        ELSE UNCHANGED <<dungeon, pending, entries, started>>
  /\ ventures' = Tail(ventures)
  /\ placing' = (ventures' # <<>> \/ pending' # {})
  /\ UNCHANGED <<alive, has, completed, stack, ids, effects, taken, robbed>>

\* The dungeons that completeDungeonForRoomMark completes for a mark.
Completes_AnyEntry(mark) ==
  mark.final /\ \E s \in dungeon[mark.owner] : s.room = mark.room
Completes_NoLongerThere(mark) ==
  mark.final
Completes(mark) ==
  mark.final /\ \E s \in dungeon[mark.owner] : s.entry = mark.entry /\ s.room = mark.room

CompleteDungeonForRoomMark(mark) ==
  IF Completes(mark)
  THEN /\ dungeon' = [dungeon EXCEPT ![mark.owner] = {}]
       /\ completed' = [completed EXCEPT ![mark.owner] = @ + 1]
  ELSE UNCHANGED <<dungeon, completed>>

DroppedCompletes(mark) == CompleteDungeonForRoomMark(mark)

\* The rest of the pass, one ability at a time: putTriggeredAbilitiesOnStack
\* drops the abilities of departed players and those without a legal target, and
\* puts the others on the stack.  A doubled ability stays for another time.
PlaceRoomAbility(mark) ==
  /\ ventures = <<>>
  /\ mark \in pending
  /\ \/ /\ mark.owner \notin alive
        /\ pending' = pending \ {mark}
        /\ UNCHANGED <<dungeon, completed, stack, ids>>
     \/ /\ mark.owner \in alive
        /\ <<mark.dungeon, mark.room>> \in Targeted
        /\ pending' = pending \ {mark}
        /\ DroppedCompletes(mark)
        /\ UNCHANGED <<stack, ids>>
     \/ /\ mark.owner \in alive
        /\ ids < MaxObjects
        /\ pending' \in {pending, pending \ {mark}}
        /\ ids' = ids + 1
        /\ stack' = stack \union
             {[id |-> ids', mark |-> mark, controller |-> mark.owner, mine |-> mark.owner]}
        /\ UNCHANGED <<dungeon, completed>>
  /\ placing' = (pending' # {})
  /\ UNCHANGED <<alive, has, ventures, entries, effects, taken, started, robbed>>

\* resolveTopOfStackWithChoices, once no ability waits to be put on the stack.
Resolve ==
  /\ ~placing /\ pending = {} /\ ventures = <<>>
  /\ \E o \in stack :
       /\ Top(o)
       /\ stack' = stack \ {o}
       /\ CompleteDungeonForRoomMark(o.mark)
  /\ UNCHANGED <<alive, has, ventures, pending, ids, entries, placing, effects, taken, started, robbed>>

\* counterStackObjectWithDestination
Counter ==
  /\ Instruction
  /\ \E o \in stack :
       /\ stack' = stack \ {o}
       /\ CompleteDungeonForRoomMark(o.mark)
  /\ UNCHANGED <<alive, has, ventures, pending, ids, entries, placing, taken, started, robbed>>

\* copyStackObjectForPlayer: the copy has the same mark.
Copy ==
  /\ Instruction
  /\ ids < MaxObjects
  /\ ids' = ids + 1
  /\ \E o \in stack, p \in alive :
       stack' = stack \union {[o EXCEPT !.id = ids', !.controller = p, !.mine = p]}
  /\ UNCHANGED <<alive, has, ventures, dungeon, completed, pending, entries, placing, taken, started, robbed>>

\* handleChangeStackObjectController: the ability stays its owner's.
ChangeStackObjectController ==
  /\ Instruction
  /\ \E o \in stack, p \in alive :
       stack' = (stack \ {o}) \union {[o EXCEPT !.controller = p]}
  /\ UNCHANGED <<alive, has, ventures, dungeon, completed, pending, ids, entries, placing, taken, started, robbed>>

\* nextLivingInitiativeHolder: the active player or the next one in turn order.
\* All the losers of a pass are marked before it is asked.
Successors_BeforeMarking(losers) == alive
Successors(losers) == alive \ losers

\* Players lose at once, or one leaves: the initiative passes on, and their
\* objects leave the stack with them.
Leave(losers) ==
  /\ ~placing
  /\ losers # {} /\ losers \subseteq alive
  /\ alive' = alive \ losers
  /\ IF has \intersect losers = {} THEN UNCHANGED <<has, ventures>>
     ELSE \/ \E p \in Successors(losers) :
               has' = (has \ losers) \union {p} /\ ventures' = Append(ventures, p)
          \/ Successors(losers) = {} /\ has' = has \ losers /\ UNCHANGED ventures
  /\ stack' = {o \in stack : o.controller \notin losers /\ o.mine \notin losers}
  /\ robbed' = robbed \union
       {p \in alive' : \E o \in stack \ stack' :
          /\ o.mark.owner = p /\ Completes(o.mark)
          /\ \A mark \in pending \union {other.mark : other \in stack'} : mark # o.mark}
  /\ UNCHANGED <<dungeon, completed, pending, ids, entries, placing, effects, taken, started>>

Next ==
  \/ \E p \in Player : Venture(p) \/ TakeInitiative(p) \/ UpkeepVenture(p)
  \/ DrainInitiativeVenture
  \/ \E mark \in pending : PlaceRoomAbility(mark)
  \/ Resolve
  \/ Counter
  \/ Copy
  \/ ChangeStackObjectController
  \/ \E losers \in SUBSET Player : Leave(losers)

Spec == Init /\ [][Next]_vars

-------------------------------------------------------------------------------
TypeOK ==
  /\ alive \subseteq Player /\ has \subseteq Player
  /\ ventures \in Seq(Player)
  /\ dungeon \in [Player -> SUBSET DungeonState]
  /\ completed \in [Player -> Nat] /\ started \in [Player -> Nat]
  /\ pending \subseteq Mark /\ stack \subseteq StackObject
  /\ ids \in 0..MaxObjects /\ entries \in Nat /\ effects \in 0..MaxEffects
  /\ placing \in BOOLEAN /\ taken \in BOOLEAN
  /\ robbed \subseteq Player

\* An ObjectID is that of one dungeon entered.
EntriesAreFresh ==
  /\ \A p \in Player : \A s \in dungeon[p] : s.entry <= entries
  /\ \A mark \in Marks : mark.entry <= entries

\* A final mark of the dungeon its owner is in: the owner is in that room, and
\* there is nowhere to go.
MarksAreTrue ==
  \A mark \in Marks : \A s \in dungeon[mark.owner] :
    mark.final /\ mark.entry = s.entry => mark.room = s.room /\ Final(s)

\* CR 309.7: each dungeon a player has entered is completed once, however many
\* copies of its last ability there are, or is the one the player is in.
EachIsCompletedOnce ==
  \A p \in Player :
    /\ \A s, t \in dungeon[p] : s = t
    /\ started[p] = IF dungeon[p] = {} THEN completed[p] ELSE completed[p] + 1

\* A player in a last room still has its ability ahead, and with it the end of
\* the dungeon: ventures do nothing for that player until then.
LastRoomsLeadOut ==
  \A p \in alive \ robbed : \A s \in dungeon[p] :
    Final(s) => \E mark \in Marks :
      mark.owner = p /\ mark.final /\ mark.entry = s.entry /\ mark.room = s.room

\* CR 720: from the first time it is taken one player in the game has the
\* initiative, whoever leaves at whatever time.
OneHasTheInitiative ==
  IF taken /\ alive # {} THEN \E p \in alive : has = {p} ELSE has = {}

\* The inductive invariant of the safety proofs.
Inv ==
  /\ TypeOK
  /\ EntriesAreFresh
  /\ MarksAreTrue
  /\ EachIsCompletedOnce
  /\ LastRoomsLeadOut
  /\ OneHasTheInitiative

\* Rooms, entrances and completions are those of the dungeon: whatever happens
\* to the abilities, the player's way through is the one the cards promise.
Crawl == INSTANCE DungeonCrawl WITH
  position <- [p \in Player |->
    {[dungeon |-> s.dungeon, room |-> s.room, visited |-> s.visited] : s \in dungeon[p]}]

WalksTheDungeon == Crawl!Spec

\* What chooseUnvisitedRoom says of itself, that a room is always left before a
\* dungeon of free traversal is completed: a venture there moves on.
AVentureMovesOn ==
  [][\A p \in Player :
       Venture(p) /\ (\E s \in dungeon[p] : s.dungeon \in Free) => dungeon'[p] # dungeon[p]]_vars

\* What the comment of DungeonRoomMark says: once the ability of the last room
\* has left the stack, the dungeon is completed.
LeavingCompletes ==
  \A p \in alive : \A s \in dungeon[p] :
    Final(s) => \E mark \in Marks : mark.owner = p /\ mark.final /\ mark.entry = s.entry
=============================================================================
