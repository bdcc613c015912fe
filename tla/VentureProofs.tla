---------------------------- MODULE VentureProofs ----------------------------
(***************************************************************************)
(* Venture's invariant is inductive, and venturing implements DungeonCrawl,*)
(* for every number of players and every set of dungeons.  What moves a    *)
(* player (a venture), what takes an ability off the stack, and what does  *)
(* neither are one lemma each; the actions cite them.                      *)
(***************************************************************************)
EXTENDS Venture, TLAPS

\* The part of the invariant about dungeons.
Walk == EntriesAreFresh /\ MarksAreTrue /\ EachIsCompletedOnce /\ LastRoomsLeadOut

\* Nobody moves and no ability is gone for good: the invariant is kept.
LEMMA NobodyMoves ==
  ASSUME Inv, UNCHANGED <<dungeon, completed, started, entries>>,
         Marks' \subseteq Marks,
         alive' \subseteq alive, robbed \subseteq robbed',
         \A m \in Marks : m \in Marks' \/ m.owner \notin alive' \ robbed' \/ ~Completes(m)
  PROVE  Walk'
  <1>1. EntriesAreFresh'
    BY DEF Inv, EntriesAreFresh
  <1>2. MarksAreTrue'
    BY DEF Inv, MarksAreTrue
  <1>3. EachIsCompletedOnce'
    BY DEF Inv, EachIsCompletedOnce
  <1>4. LastRoomsLeadOut'
    <2> SUFFICES ASSUME NEW p \in alive' \ robbed', NEW s \in dungeon[p], Final(s)
                 PROVE  \E m \in Marks' :
                          m.owner = p /\ m.final /\ m.entry = s.entry /\ m.room = s.room
      BY DEF LastRoomsLeadOut
    <2>1. PICK m \in Marks : m.owner = p /\ m.final /\ m.entry = s.entry /\ m.room = s.room
      BY DEF Inv, LastRoomsLeadOut
    <2>2. Completes(m)
      BY <2>1 DEF Completes
    <2> QED BY <2>1, <2>2
  <1> QED BY <1>1, <1>2, <1>3, <1>4 DEF Walk

\* The ability of `mark` is gone, or one of several: its dungeon is completed.
LEMMA AnAbilityLeaves ==
  ASSUME Inv, NEW mark \in Marks, mark.owner \in Player, CompleteDungeonForRoomMark(mark),
         UNCHANGED <<started, entries, alive, robbed>>,
         Marks' \subseteq Marks, \A m \in Marks : m \in Marks' \/ m = mark
  PROVE  dungeon' \in [Player -> SUBSET DungeonState] /\ completed' \in [Player -> Nat] /\ Walk'
  <1> USE DEF Inv, TypeOK
  <1>1. CASE ~Completes(mark)
    <2>1. UNCHANGED <<dungeon, completed>>
      BY <1>1 DEF CompleteDungeonForRoomMark
    <2> QED BY <1>1, <2>1, NobodyMoves
  <1>2. CASE Completes(mark)
    <2> DEFINE q == mark.owner
    <2>1. /\ dungeon' = [dungeon EXCEPT ![q] = {}]
          /\ completed' = [completed EXCEPT ![q] = @ + 1]
      BY <1>2 DEF CompleteDungeonForRoomMark
    <2>2. dungeon' \in [Player -> SUBSET DungeonState] /\ completed' \in [Player -> Nat]
      BY <2>1
    <2>3. dungeon[q] # {}
      BY <1>2 DEF Completes
    <2>4. dungeon'[q] = {} /\ \A p \in Player : p # q => dungeon'[p] = dungeon[p] /\ completed'[p] = completed[p]
      BY <2>1
    <2>5. completed'[q] = completed[q] + 1
      BY <2>1
    <2>6. EntriesAreFresh'
      BY <2>4 DEF EntriesAreFresh
    <2>7. MarksAreTrue'
      <3> SUFFICES ASSUME NEW m \in Marks', NEW s \in dungeon'[m.owner], m.final, m.entry = s.entry
                   PROVE  m.room = s.room /\ Final(s)
        BY DEF MarksAreTrue
      <3>1. s \in dungeon[m.owner]
        BY <2>1, <2>4
      <3> QED BY <3>1 DEF MarksAreTrue
    <2>8. EachIsCompletedOnce'
      BY <2>3, <2>4, <2>5 DEF EachIsCompletedOnce
    <2>9. LastRoomsLeadOut'
      <3> SUFFICES ASSUME NEW p \in alive \ robbed, NEW s \in dungeon'[p], Final(s)
                   PROVE  \E m \in Marks' :
                            m.owner = p /\ m.final /\ m.entry = s.entry /\ m.room = s.room
        BY DEF LastRoomsLeadOut
      <3>1. p # q /\ s \in dungeon[p]
        BY <2>4
      <3> QED BY <3>1 DEF LastRoomsLeadOut
    <2> QED BY <2>2, <2>6, <2>7, <2>8, <2>9 DEF Walk
  <1> QED BY <1>1, <1>2

\* p enters a room, of a new dungeon or further on in the same.
LEMMA EnteringARoom ==
  ASSUME Inv, NEW p \in Player, NEW s \in DungeonState, EnterDungeonRoom(p, s),
         UNCHANGED <<stack, completed, alive, robbed>>,
         \/ /\ dungeon[p] = {} /\ s.entry = entries + 1 /\ entries' = entries + 1
            /\ started' = [started EXCEPT ![p] = @ + 1]
         \/ /\ \E t \in dungeon[p] : s.entry = t.entry /\ ~Final(t)
            /\ UNCHANGED <<entries, started>>
  PROVE  /\ dungeon' \in [Player -> SUBSET DungeonState] /\ pending' \subseteq Mark
         /\ entries' \in Nat /\ started' \in [Player -> Nat]
         /\ Walk'
  <1> USE DEF Inv, TypeOK
  <1> DEFINE mark == [owner |-> p, entry |-> s.entry, dungeon |-> s.dungeon, room |-> s.room,
                      final |-> Final(s)]
  <1>1. dungeon' = [dungeon EXCEPT ![p] = {s}] /\ pending' = pending \union {mark}
    BY DEF EnterDungeonRoom
  <1>2. dungeon' \in [Player -> SUBSET DungeonState]
    BY <1>1
  <1>3. dungeon'[p] = {s} /\ \A q \in Player : q # p => dungeon'[q] = dungeon[q]
    BY <1>1
  <1>4. Final(s) \in BOOLEAN
    BY DEF Final
  <1>5. mark \in Mark
    BY <1>4 DEF DungeonState, Mark
  <1>6. /\ mark.owner = p /\ mark.entry = s.entry /\ mark.room = s.room /\ (mark.final <=> Final(s))
    BY <1>4
  <1> HIDE DEF mark
  <1>7. pending' \subseteq Mark
    BY <1>1, <1>5
  <1>8. Marks' = Marks \union {mark}
    BY <1>1 DEF Marks
  <1>9. /\ entries' \in Nat /\ started' \in [Player -> Nat] /\ entries <= entries'
        /\ s.entry \in Nat /\ s.entry <= entries'
    <2>1. CASE entries' = entries + 1 /\ s.entry = entries + 1 /\ started' = [started EXCEPT ![p] = @ + 1]
      BY <2>1
    <2>2. CASE (\E t \in dungeon[p] : s.entry = t.entry) /\ UNCHANGED <<entries, started>>
      <3>1. PICK t \in dungeon[p] : s.entry = t.entry
        BY <2>2
      <3>2. t.entry \in Nat /\ t.entry <= entries
        BY DEF EntriesAreFresh, DungeonState
      <3> QED BY <2>2, <3>1, <3>2
    <2> QED BY <2>1, <2>2
  <1>10. /\ \A q \in Player : \A t \in dungeon[q] : t.entry \in Nat
         /\ \A m \in Marks : m.entry \in Nat /\ m.owner \in Player
    BY DEF DungeonState, Marks, Mark, StackObject
  <1>11. EntriesAreFresh'
    <2>1. ASSUME NEW q \in Player, NEW t \in dungeon'[q]
          PROVE  t.entry <= entries'
      <3>1. CASE q = p
        BY <1>3, <1>9, <3>1
      <3>2. CASE q # p
        BY <1>3, <1>9, <1>10, <3>2 DEF EntriesAreFresh
      <3> QED BY <3>1, <3>2
    <2>2. \A m \in Marks' : m.entry <= entries'
      BY <1>6, <1>8, <1>9, <1>10 DEF EntriesAreFresh
    <2> QED BY <2>1, <2>2 DEF EntriesAreFresh
  <1>12. \A m \in Marks : m.owner = p /\ m.final => m.entry # s.entry
    <2> SUFFICES ASSUME NEW m \in Marks, m.owner = p, m.final, m.entry = s.entry
                 PROVE  FALSE
      OBVIOUS
    <2>1. CASE s.entry = entries + 1
      BY <1>10, <2>1 DEF EntriesAreFresh
    <2>2. CASE \E t \in dungeon[p] : s.entry = t.entry /\ ~Final(t)
      BY <2>2 DEF MarksAreTrue
    <2> QED BY <2>1, <2>2
  <1>13. MarksAreTrue'
    <2> SUFFICES ASSUME NEW m \in Marks', NEW t \in dungeon'[m.owner], m.final, m.entry = t.entry
                 PROVE  m.room = t.room /\ Final(t)
      BY DEF MarksAreTrue
    <2>1. CASE m = mark
      BY <1>3, <1>6, <2>1
    <2>2. CASE m \in Marks /\ m.owner = p
      BY <1>3, <1>12, <2>2
    <2>3. CASE m \in Marks /\ m.owner # p
      BY <1>3, <1>10, <2>3 DEF MarksAreTrue
    <2> QED BY <1>8, <2>1, <2>2, <2>3
  <1>14. EachIsCompletedOnce'
    <2>1. \A q \in Player : \A t, u \in dungeon'[q] : t = u
      BY <1>3 DEF EachIsCompletedOnce
    <2>2. \A q \in Player : q # p => started'[q] = started[q]
      OBVIOUS
    <2>3. started'[p] = completed[p] + 1
      BY DEF EachIsCompletedOnce
    <2> QED BY <1>3, <2>1, <2>2, <2>3 DEF EachIsCompletedOnce
  <1>15. LastRoomsLeadOut'
    <2> SUFFICES ASSUME NEW q \in alive \ robbed, NEW t \in dungeon'[q], Final(t)
                 PROVE  \E m \in Marks' :
                          m.owner = q /\ m.final /\ m.entry = t.entry /\ m.room = t.room
      BY DEF LastRoomsLeadOut
    <2>1. CASE q = p
      BY <1>3, <1>6, <1>8, <2>1
    <2>2. CASE q # p
      BY <1>3, <1>8, <2>2 DEF LastRoomsLeadOut
    <2> QED BY <2>1, <2>2
  <1> QED BY <1>2, <1>7, <1>9, <1>11, <1>13, <1>14, <1>15 DEF Walk

\* Where a venture leads is a room of the dungeon.
LEMMA OnwardIsInside ==
  ASSUME NEW s \in DungeonState, NEW r \in Onward(s)
  PROVE  [s EXCEPT !.room = r, !.visited = @ \union {r}] \in DungeonState
  <1>1. s.dungeon \in Dungeon /\ s.room \in Rooms(s.dungeon)
    BY DEF DungeonState
  <1>2. r \in Rooms(s.dungeon)
    BY <1>1, DungeonsAssumption DEF Onward, Rooms
  <1>3. r \in AllRooms
    BY <1>1, <1>2 DEF AllRooms
  <1> QED BY <1>1, <1>2, <1>3 DEF DungeonState

LEMMA EntranceIsInside ==
  ASSUME NEW d \in Dungeon, NEW r \in Entrances(d), NEW n \in Nat
  PROVE  [entry |-> n, dungeon |-> d, room |-> r, visited |-> {r}] \in DungeonState
  <1>1. r \in Rooms(d)
    BY DungeonsAssumption DEF Entrances, Rooms
  <1>2. r \in AllRooms
    BY <1>1 DEF AllRooms
  <1> QED BY <1>1, <1>2 DEF DungeonState

LEMMA Venturing ==
  ASSUME Inv, NEW p \in Player, NEW offered \in SUBSET Dungeon, VentureInto(p, offered),
         UNCHANGED <<stack, completed, alive, robbed>>
  PROVE  /\ dungeon' \in [Player -> SUBSET DungeonState] /\ pending' \subseteq Mark
         /\ entries' \in Nat /\ started' \in [Player -> Nat]
         /\ Walk'
  <1>1. CASE dungeon[p] = {} /\ \E d \in offered : EnterDungeon(p, d)
    <2>1. PICK d \in offered : EnterDungeon(p, d)
      BY <1>1
    <2>2. /\ entries' = entries + 1
          /\ started' = [started EXCEPT ![p] = @ + 1]
      BY <2>1 DEF EnterDungeon
    <2>3. PICK r \in Entrances(d) :
            EnterDungeonRoom(p, [entry |-> entries + 1, dungeon |-> d, room |-> r, visited |-> {r}])
      BY <2>1, <2>2 DEF EnterDungeon
    <2> DEFINE s == [entry |-> entries + 1, dungeon |-> d, room |-> r, visited |-> {r}]
    <2>4. s \in DungeonState /\ s.entry = entries + 1
      BY EntranceIsInside DEF Inv, TypeOK
    <2>5. EnterDungeonRoom(p, s)
      BY <2>3
    <2> HIDE DEF s
    <2> QED BY <1>1, <2>2, <2>4, <2>5, EnteringARoom
  <1>2. ASSUME NEW t \in dungeon[p], AdvanceDungeon(p, t)
        PROVE  /\ dungeon' \in [Player -> SUBSET DungeonState] /\ pending' \subseteq Mark
               /\ entries' \in Nat /\ started' \in [Player -> Nat]
               /\ Walk'
    <2>1. t \in DungeonState
      BY DEF Inv, TypeOK
    <2>2. UNCHANGED <<entries, started>>
      BY <1>2 DEF AdvanceDungeon
    <2>3. ASSUME NEW r \in Onward(t),
                 EnterDungeonRoom(p, [t EXCEPT !.room = r, !.visited = @ \union {r}])
          PROVE  /\ dungeon' \in [Player -> SUBSET DungeonState] /\ pending' \subseteq Mark
                 /\ entries' \in Nat /\ started' \in [Player -> Nat]
                 /\ Walk'
      <3> DEFINE s == [t EXCEPT !.room = r, !.visited = @ \union {r}]
      <3>1. s \in DungeonState
        BY <2>1, OnwardIsInside
      <3>2. s.entry = t.entry
        BY <2>1 DEF DungeonState
      <3>3. ~Final(t)
        BY <2>3 DEF Final
      <3>4. EnterDungeonRoom(p, s)
        BY <2>3
      <3> HIDE DEF s
      <3> QED BY <2>2, <3>1, <3>2, <3>3, <3>4, EnteringARoom
    <2>4. CASE UNCHANGED <<dungeon, pending>>
      <3>1. Marks' = Marks
        BY <2>4 DEF Marks
      <3>2. Walk'
        BY <2>2, <2>4, <3>1, NobodyMoves
      <3> QED BY <2>2, <2>4, <3>2 DEF Inv, TypeOK
    <2> QED BY <1>2, <2>3, <2>4 DEF AdvanceDungeon
  <1> QED BY <1>1, <1>2 DEF VentureInto

\* Type correctness of the rest, and the initiative.
LEMMA TheInitiativePasses ==
  ASSUME Inv, NEW losers \in SUBSET Player, Leave(losers)
  PROVE  OneHasTheInitiative' /\ has' \subseteq Player /\ ventures' \in Seq(Player)
  <1> USE DEF Inv, TypeOK
  <1>1. /\ alive' = alive \ losers /\ losers \subseteq alive /\ taken' = taken
    BY DEF Leave
  <1>2. CASE has \intersect losers = {}
    <2>1. UNCHANGED <<has, ventures>>
      BY <1>2 DEF Leave
    <2>2. CASE taken /\ alive # {}
      <3>1. PICK p \in alive : has = {p}
        BY <2>2 DEF OneHasTheInitiative
      <3>2. p \in alive'
        BY <1>1, <1>2, <3>1
      <3> QED BY <1>1, <2>1, <2>2, <3>1, <3>2 DEF OneHasTheInitiative
    <2>3. CASE ~(taken /\ alive # {})
      BY <1>1, <2>1, <2>3 DEF OneHasTheInitiative
    <2> QED BY <2>1, <2>2, <2>3
  <1>3. CASE has \intersect losers # {}
    <2>1. PICK h \in alive : has = {h} /\ taken
      BY <1>3 DEF OneHasTheInitiative
    <2>2. has \ losers = {}
      BY <1>3, <2>1
    <2>3. CASE \E p \in Successors(losers) :
                 has' = (has \ losers) \union {p} /\ ventures' = Append(ventures, p)
      <3>1. PICK p \in alive' : has' = {p} /\ ventures' = Append(ventures, p)
        BY <1>1, <2>2, <2>3 DEF Successors
      <3>2. p \in Player
        BY <1>1
      <3> QED BY <1>1, <2>1, <3>1, <3>2 DEF OneHasTheInitiative
    <2>4. CASE Successors(losers) = {} /\ has' = has \ losers /\ UNCHANGED ventures
      BY <1>1, <2>2, <2>4 DEF Successors, OneHasTheInitiative
    <2> QED BY <1>3, <2>3, <2>4 DEF Leave
  <1> QED BY <1>2, <1>3

LEMMA LeavingKeepsInv ==
  ASSUME Inv, NEW losers \in SUBSET Player, Leave(losers)
  PROVE  Inv'
  <1> USE DEF Inv, TypeOK
  <1>1. /\ alive' = alive \ losers
        /\ stack' = {o \in stack : o.controller \notin losers /\ o.mine \notin losers}
        /\ UNCHANGED <<dungeon, completed, pending, ids, entries, placing, effects, taken, started>>
    BY DEF Leave
  <1>2. robbed' = robbed \union
          {p \in alive' : \E o \in stack \ stack' :
             /\ o.mark.owner = p /\ Completes(o.mark)
             /\ \A mark \in pending \union {other.mark : other \in stack'} : mark # o.mark}
    BY DEF Leave
  <1>3. Marks' \subseteq Marks
    BY <1>1 DEF Marks
  <1>4. ASSUME NEW m \in Marks, m \notin Marks', m.owner \in alive', Completes(m)
        PROVE  m.owner \in robbed'
    <2>1. m \notin pending /\ \A other \in stack' : m # other.mark
      BY <1>1, <1>4 DEF Marks
    <2>2. PICK o \in stack : o.mark = m
      BY <2>1 DEF Marks
    <2>3. o \notin stack'
      BY <2>1, <2>2
    <2>4. \A mark \in pending \union {other.mark : other \in stack'} : mark # o.mark
      BY <2>1, <2>2
    <2> QED BY <1>2, <1>4, <2>2, <2>3, <2>4
  <1>5. Walk'
    <2>1. alive' \subseteq alive /\ robbed \subseteq robbed'
      BY <1>1, <1>2
    <2>2. \A m \in Marks : m \in Marks' \/ m.owner \notin alive' \ robbed' \/ ~Completes(m)
      BY <1>4
    <2> QED BY <1>1, <1>3, <2>1, <2>2, NobodyMoves
  <1>6. TypeOK'
    <2>1. robbed' \subseteq Player /\ alive' \subseteq Player /\ stack' \subseteq StackObject
      BY <1>1, <1>2
    <2> QED BY <1>1, <2>1, TheInitiativePasses
  <1> QED BY <1>5, <1>6, TheInitiativePasses DEF Walk

\* Steps that leave the players in the game and the initiative where it is.
LEMMA TheInitiativeStays ==
  ASSUME Inv, UNCHANGED <<alive, has, taken>>
  PROVE  OneHasTheInitiative'
  BY DEF Inv, OneHasTheInitiative

LEMMA VentureKeepsInv ==
  ASSUME Inv, NEW p \in Player, Venture(p)
  PROVE  Inv'
  <1>1. /\ UNCHANGED <<alive, has, ventures, completed, stack, ids, placing, taken, robbed>>
        /\ effects' \in 0..MaxEffects
    BY VentureAssumption DEF Venture, Instruction, Inv, TypeOK
  <1>2. PICK offered \in {Ordinary, {Undercity}} : VentureInto(p, offered)
    BY DEF Venture
  <1>3. offered \in SUBSET Dungeon
    BY VentureAssumption
  <1>4. /\ dungeon' \in [Player -> SUBSET DungeonState] /\ pending' \subseteq Mark
        /\ entries' \in Nat /\ started' \in [Player -> Nat]
        /\ Walk'
    BY <1>1, <1>2, <1>3, Venturing
  <1> QED BY <1>1, <1>4, TheInitiativeStays DEF Inv, TypeOK, Walk

LEMMA DrainKeepsInv ==
  ASSUME Inv, DrainInitiativeVenture
  PROVE  Inv'
  <1>1. /\ UNCHANGED <<alive, has, completed, stack, ids, effects, taken, robbed>>
        /\ ventures # <<>> /\ ventures' = Tail(ventures) /\ placing' \in BOOLEAN
    BY DEF DrainInitiativeVenture
  <1> DEFINE p == Head(ventures)
  <1>2. p \in Player /\ ventures' \in Seq(Player)
    BY <1>1 DEF Inv, TypeOK
  <1>3. CASE p \in alive
    <2>1. VentureInto(p, {Undercity})
      BY <1>3 DEF DrainInitiativeVenture
    <2>2. {Undercity} \in SUBSET Dungeon
      BY VentureAssumption
    <2>3. /\ dungeon' \in [Player -> SUBSET DungeonState] /\ pending' \subseteq Mark
          /\ entries' \in Nat /\ started' \in [Player -> Nat]
          /\ Walk'
      <3> HIDE DEF p
      <3> QED BY <1>1, <1>2, <2>1, <2>2, Venturing
    <2> QED BY <1>1, <1>2, <2>3, TheInitiativeStays DEF Inv, TypeOK, Walk
  <1>4. CASE p \notin alive
    <2>1. UNCHANGED <<dungeon, pending, entries, started>>
      BY <1>4 DEF DrainInitiativeVenture
    <2>2. Marks' = Marks
      BY <1>1, <2>1 DEF Marks
    <2>3. Walk'
      BY <1>1, <2>1, <2>2, NobodyMoves
    <2> QED BY <1>1, <1>2, <2>1, <2>3, TheInitiativeStays DEF Inv, TypeOK, Walk
  <1> QED BY <1>3, <1>4

LEMMA InitiativeKeepsInv ==
  ASSUME Inv, NEW p \in Player, TakeInitiative(p) \/ UpkeepVenture(p)
  PROVE  Inv'
  <1>1. /\ UNCHANGED <<alive, dungeon, completed, pending, stack, ids, entries, placing, started, robbed>>
        /\ effects' \in 0..MaxEffects /\ ventures' = Append(ventures, p)
    BY VentureAssumption DEF TakeInitiative, UpkeepVenture, Instruction, Inv, TypeOK
  <1>2. Walk'
    <2>1. Marks' = Marks
      BY <1>1 DEF Marks
    <2> QED BY <1>1, <2>1, NobodyMoves
  <1>3. OneHasTheInitiative' /\ has' \subseteq Player /\ taken' \in BOOLEAN
    <2>1. CASE TakeInitiative(p)
      BY <2>1 DEF TakeInitiative, OneHasTheInitiative
    <2>2. CASE UpkeepVenture(p)
      BY <2>2 DEF UpkeepVenture, OneHasTheInitiative, Inv, TypeOK
    <2> QED BY <2>1, <2>2
  <1>4. ventures' \in Seq(Player)
    BY <1>1 DEF Inv, TypeOK
  <1> QED BY <1>1, <1>2, <1>3, <1>4 DEF Inv, TypeOK, Walk

LEMMA PlacingKeepsInv ==
  ASSUME Inv, NEW mark \in pending, PlaceRoomAbility(mark)
  PROVE  Inv'
  <1> USE DEF Inv, TypeOK
  <1>1. /\ UNCHANGED <<alive, has, ventures, entries, effects, taken, started, robbed>>
        /\ placing' \in BOOLEAN
    BY DEF PlaceRoomAbility
  <1>2. mark \in Mark /\ mark \in Marks /\ mark.owner \in Player
    BY DEF Marks, Mark
  <1>3. CASE mark.owner \notin alive /\ pending' = pending \ {mark} /\ UNCHANGED <<dungeon, completed, stack, ids>>
    <2>1. Marks' \subseteq Marks /\ \A m \in Marks : m \in Marks' \/ m = mark
      BY <1>3 DEF Marks
    <2>2. Walk'
      BY <1>1, <1>3, <2>1, NobodyMoves
    <2> QED BY <1>1, <1>3, <2>2, TheInitiativeStays DEF Walk
  <1>4. CASE pending' = pending \ {mark} /\ DroppedCompletes(mark) /\ UNCHANGED <<stack, ids>>
    <2>1. Marks' \subseteq Marks /\ \A m \in Marks : m \in Marks' \/ m = mark
      BY <1>4 DEF Marks
    <2>2. dungeon' \in [Player -> SUBSET DungeonState] /\ completed' \in [Player -> Nat] /\ Walk'
      BY <1>1, <1>2, <1>4, <2>1, AnAbilityLeaves DEF DroppedCompletes
    <2> QED BY <1>1, <1>4, <2>2, TheInitiativeStays DEF Walk
  <1>5. CASE /\ mark.owner \in alive /\ ids < MaxObjects
             /\ pending' \in {pending, pending \ {mark}}
             /\ ids' = ids + 1
             /\ stack' = stack \union
                  {[id |-> ids', mark |-> mark, controller |-> mark.owner, mine |-> mark.owner]}
             /\ UNCHANGED <<dungeon, completed>>
    <2> DEFINE new == [id |-> ids', mark |-> mark, controller |-> mark.owner, mine |-> mark.owner]
    <2>1. ids' \in 1..MaxObjects
      BY <1>5, VentureAssumption
    <2>2. new \in StackObject /\ new.mark = mark
      BY <1>2, <2>1 DEF StackObject
    <2>3. stack' = stack \union {new}
      BY <1>5
    <2> HIDE DEF new
    <2>4. Marks' = Marks
      BY <1>2, <1>5, <2>2, <2>3 DEF Marks
    <2>5. Walk'
      BY <1>1, <1>5, <2>4, NobodyMoves
    <2>6. stack' \subseteq StackObject /\ pending' \subseteq Mark
      BY <1>5, <2>2, <2>3
    <2> QED BY <1>1, <1>5, <2>1, <2>5, <2>6, TheInitiativeStays DEF Walk
  <1> QED BY <1>3, <1>4, <1>5 DEF PlaceRoomAbility

LEMMA ResolvingKeepsInv ==
  ASSUME Inv, Resolve \/ Counter
  PROVE  Inv'
  <1> USE DEF Inv, TypeOK
  <1>1. /\ UNCHANGED <<alive, has, ventures, pending, ids, entries, placing, taken, started, robbed>>
        /\ effects' \in 0..MaxEffects
    BY VentureAssumption DEF Resolve, Counter, Instruction
  <1>2. PICK o \in stack : stack' = stack \ {o} /\ CompleteDungeonForRoomMark(o.mark)
    BY DEF Resolve, Counter
  <1>3. o.mark \in Marks /\ o.mark.owner \in Player
    BY DEF Marks, StackObject, Mark
  <1>4. Marks' \subseteq Marks /\ \A m \in Marks : m \in Marks' \/ m = o.mark
    BY <1>1, <1>2 DEF Marks
  <1>5. dungeon' \in [Player -> SUBSET DungeonState] /\ completed' \in [Player -> Nat] /\ Walk'
    BY <1>1, <1>2, <1>3, <1>4, AnAbilityLeaves
  <1> QED BY <1>1, <1>2, <1>5, TheInitiativeStays DEF Walk

LEMMA CopyingKeepsInv ==
  ASSUME Inv, Copy \/ ChangeStackObjectController
  PROVE  Inv'
  <1> USE DEF Inv, TypeOK
  <1>1. /\ UNCHANGED <<alive, has, ventures, dungeon, completed, pending, entries, placing, taken, started, robbed>>
        /\ effects' \in 0..MaxEffects
    <2>1. effects' = effects + 1 /\ effects < MaxEffects
      BY DEF Copy, ChangeStackObjectController, Instruction
    <2>2. effects' \in 0..MaxEffects
      BY <2>1, VentureAssumption
    <2> QED BY <2>2 DEF Copy, ChangeStackObjectController
  <1>2. CASE Copy
    <2>1. ids' \in 1..MaxObjects
      <3>1. ids' = ids + 1 /\ ids < MaxObjects
        BY <1>2 DEF Copy
      <3> QED BY <3>1, VentureAssumption
    <2>2. PICK o \in stack, p \in alive :
            stack' = stack \union {[o EXCEPT !.id = ids', !.controller = p, !.mine = p]}
      BY <1>2 DEF Copy
    <2> DEFINE new == [o EXCEPT !.id = ids', !.controller = p, !.mine = p]
    <2>3. new \in StackObject /\ new.mark = o.mark
      <3>1. o \in StackObject /\ p \in Player
        OBVIOUS
      <3> QED BY <2>1, <3>1 DEF StackObject
    <2>7. stack' = stack \union {new}
      BY <2>2
    <2> HIDE DEF new
    <2>4. Marks' = Marks
      BY <1>1, <2>3, <2>7 DEF Marks
    <2>5. Walk'
      BY <1>1, <2>4, NobodyMoves
    <2>6. stack' \subseteq StackObject
      BY <2>3, <2>7
    <2> QED BY <1>1, <2>1, <2>5, <2>6, TheInitiativeStays DEF Walk
  <1>3. CASE ChangeStackObjectController
    <2>1. PICK o \in stack, p \in alive : stack' = (stack \ {o}) \union {[o EXCEPT !.controller = p]}
      BY <1>3 DEF ChangeStackObjectController
    <2> DEFINE new == [o EXCEPT !.controller = p]
    <2>2. new \in StackObject /\ new.mark = o.mark
      BY DEF StackObject
    <2> HIDE DEF new
    <2>3. stack' = (stack \ {o}) \union {new}
      BY <2>1 DEF new
    <2>4. Marks' = Marks
      BY <1>1, <2>2, <2>3 DEF Marks
    <2>5. Walk'
      BY <1>1, <2>4, NobodyMoves
    <2>6. stack' \subseteq StackObject /\ ids' = ids
      BY <1>3, <2>2, <2>3 DEF ChangeStackObjectController
    <2> QED BY <1>1, <2>5, <2>6, TheInitiativeStays DEF Walk
  <1> QED BY <1>2, <1>3

LEMMA InitInv == Init => Inv
  <1> SUFFICES ASSUME Init PROVE Inv
    OBVIOUS
  <1> USE DEF Init
  <1>1. TypeOK
    <2>1. 0 \in 0..MaxObjects /\ 0 \in 0..MaxEffects /\ 0 \in Nat
      BY VentureAssumption
    <2>2. ventures \in Seq(Player)
      OBVIOUS
    <2>3. /\ dungeon \in [Player -> SUBSET DungeonState]
          /\ completed \in [Player -> Nat] /\ started \in [Player -> Nat]
      OBVIOUS
    <2> QED BY <2>1, <2>2, <2>3 DEF TypeOK
  <1>2. Marks = {}
    BY DEF Marks
  <1> QED BY <1>1, <1>2 DEF Inv, EntriesAreFresh, MarksAreTrue, EachIsCompletedOnce, LastRoomsLeadOut,
       OneHasTheInitiative

LEMMA NextInv == Inv /\ [Next]_vars => Inv'
  <1> SUFFICES ASSUME Inv, [Next]_vars PROVE Inv'
    OBVIOUS
  <1>1. ASSUME NEW p \in Player, Venture(p) PROVE Inv'
    BY <1>1, VentureKeepsInv
  <1>2. ASSUME NEW p \in Player, TakeInitiative(p) \/ UpkeepVenture(p) PROVE Inv'
    BY <1>2, InitiativeKeepsInv
  <1>3. CASE DrainInitiativeVenture
    BY <1>3, DrainKeepsInv
  <1>4. ASSUME NEW mark \in pending, PlaceRoomAbility(mark) PROVE Inv'
    BY <1>4, PlacingKeepsInv
  <1>5. CASE Resolve \/ Counter
    BY <1>5, ResolvingKeepsInv
  <1>6. CASE Copy \/ ChangeStackObjectController
    BY <1>6, CopyingKeepsInv
  <1>7. ASSUME NEW losers \in SUBSET Player, Leave(losers) PROVE Inv'
    BY <1>7, LeavingKeepsInv
  <1>8. CASE UNCHANGED vars
    <2>1. UNCHANGED <<dungeon, completed, started, entries, alive, robbed, has, taken>> /\ Marks' = Marks
      BY <1>8 DEF vars, Marks
    <2>2. Walk'
      BY <2>1, NobodyMoves
    <2>3. TypeOK'
      BY <1>8 DEF vars, Inv, TypeOK
    <2> QED BY <2>1, <2>2, <2>3, TheInitiativeStays DEF Inv, Walk
  <1> QED BY <1>1, <1>2, <1>3, <1>4, <1>5, <1>6, <1>7, <1>8 DEF Next

THEOREM AlwaysInv == Spec => []Inv
  <1> QED BY InitInv, NextInv, PTL DEF Spec

\* Copies and doubled abilities of a last room, in however many dungeons, count
\* one completion for each dungeon left.
THEOREM CompletedOnce == Spec => []EachIsCompletedOnce
  <1>1. Inv => EachIsCompletedOnce
    BY DEF Inv
  <1> QED BY <1>1, AlwaysInv, PTL

\* Nobody waits in a last room for an ability that is gone, except a player whose
\* ability left the game with someone else.
THEOREM NobodyIsStuck == Spec => []LastRoomsLeadOut
  <1>1. Inv => LastRoomsLeadOut
    BY DEF Inv
  <1> QED BY <1>1, AlwaysInv, PTL

\* The initiative is with one player in the game, once somebody has taken it.
THEOREM InitiativeIsKept == Spec => []OneHasTheInitiative
  <1>1. Inv => OneHasTheInitiative
    BY DEF Inv
  <1> QED BY <1>1, AlwaysInv, PTL

\* Where the abstract specification has player p.
Place(s) == [dungeon |-> s.dungeon, room |-> s.room, visited |-> s.visited]

\* Entering a room is a step of the dungeon's own.
LEMMA EnteringWalks ==
  ASSUME Inv, NEW p \in Player, NEW s \in DungeonState, EnterDungeonRoom(p, s), completed' = completed,
         \/ /\ dungeon[p] = {} /\ s.dungeon \in Dungeon
            /\ s.room \in Entrances(s.dungeon) /\ s.visited = {s.room}
         \/ \E t \in dungeon[p] : /\ s.dungeon = t.dungeon /\ s.room \in Onward(t)
                                  /\ s.visited = t.visited \union {s.room}
  PROVE  Crawl!Next
  <1> DEFINE position == [q \in Player |-> {Place(t) : t \in dungeon[q]}]
  <1>1. dungeon \in [Player -> SUBSET DungeonState] /\ dungeon' = [dungeon EXCEPT ![p] = {s}]
    BY DEF Inv, TypeOK, EnterDungeonRoom
  <1>2. position' = [position EXCEPT ![p] = {Place(s)}]
    BY <1>1
  <1>3. CASE /\ dungeon[p] = {} /\ s.dungeon \in Dungeon
             /\ s.room \in Entrances(s.dungeon) /\ s.visited = {s.room}
    <2>1. position[p] = {}
      BY <1>3
    <2>2. Place(s) = [dungeon |-> s.dungeon, room |-> s.room, visited |-> {s.room}]
      BY <1>3 DEF Place
    <2>3. Crawl!Enter(p)
      BY <1>2, <1>3, <2>1, <2>2 DEF Crawl!Enter, Place, Crawl!Entrances, Entrances, Crawl!Rooms, Rooms
    <2> QED BY <2>3 DEF Crawl!Next
  <1>4. CASE \E t \in dungeon[p] : /\ s.dungeon = t.dungeon /\ s.room \in Onward(t)
                                  /\ s.visited = t.visited \union {s.room}
    <2>1. PICK t \in dungeon[p] : /\ s.dungeon = t.dungeon /\ s.room \in Onward(t)
                                 /\ s.visited = t.visited \union {s.room}
      BY <1>4
    <2>2. Place(t) \in position[p]
      OBVIOUS
    <2>3. Place(s) = [dungeon |-> Place(t).dungeon, room |-> s.room,
                      visited |-> Place(t).visited \union {s.room}]
      BY <2>1 DEF Place
    <2>4. s.room \in Crawl!Onward(Place(t))
      BY <2>1 DEF Crawl!Onward, Onward, Crawl!Rooms, Rooms, Place
    <2>5. position' = [position EXCEPT ![p] =
            {[dungeon |-> Place(t).dungeon, room |-> s.room,
              visited |-> Place(t).visited \union {s.room}]}]
      BY <1>2, <2>3
    <2>6. \E u \in position[p] : \E r \in Crawl!Onward(u) :
            position' = [position EXCEPT ![p] =
              {[dungeon |-> u.dungeon, room |-> r, visited |-> u.visited \union {r}]}]
      <3> HIDE DEF position
      <3> QED BY <2>2, <2>4, <2>5
    <2>7. Crawl!Advance(p)
      BY <2>6 DEF Crawl!Advance, Place
    <2> QED BY <2>7 DEF Crawl!Next
  <1> QED BY <1>3, <1>4

LEMMA VenturingWalks ==
  ASSUME Inv, NEW p \in Player, NEW offered \in SUBSET Dungeon, VentureInto(p, offered), completed' = completed
  PROVE  [Crawl!Next]_Crawl!vars
  <1>1. CASE dungeon[p] = {} /\ \E d \in offered : EnterDungeon(p, d)
    <2>1. PICK d \in offered : EnterDungeon(p, d)
      BY <1>1
    <2>2. entries' = entries + 1
      BY <2>1 DEF EnterDungeon
    <2>3. PICK r \in Entrances(d) :
            EnterDungeonRoom(p, [entry |-> entries + 1, dungeon |-> d, room |-> r, visited |-> {r}])
      BY <2>1, <2>2 DEF EnterDungeon
    <2> DEFINE s == [entry |-> entries + 1, dungeon |-> d, room |-> r, visited |-> {r}]
    <2>4. s \in DungeonState /\ s.dungeon = d /\ s.room = r /\ s.visited = {r}
      BY EntranceIsInside DEF Inv, TypeOK
    <2>5. EnterDungeonRoom(p, s)
      BY <2>3
    <2> HIDE DEF s
    <2> QED BY <1>1, <2>4, <2>5, EnteringWalks
  <1>2. ASSUME NEW t \in dungeon[p], AdvanceDungeon(p, t)
        PROVE  [Crawl!Next]_Crawl!vars
    <2>1. t \in DungeonState
      BY DEF Inv, TypeOK
    <2>2. ASSUME NEW r \in Onward(t),
                 EnterDungeonRoom(p, [t EXCEPT !.room = r, !.visited = @ \union {r}])
          PROVE  [Crawl!Next]_Crawl!vars
      <3> DEFINE s == [t EXCEPT !.room = r, !.visited = @ \union {r}]
      <3>1. s \in DungeonState
        BY <2>1, OnwardIsInside
      <3>2. s.dungeon = t.dungeon /\ s.room = r /\ s.visited = t.visited \union {r}
        BY <2>1 DEF DungeonState
      <3>3. EnterDungeonRoom(p, s)
        BY <2>2
      <3> HIDE DEF s
      <3> QED BY <3>1, <3>2, <3>3, EnteringWalks
    <2>3. CASE UNCHANGED dungeon
      BY <2>3 DEF Crawl!vars
    <2> QED BY <1>2, <2>2, <2>3 DEF AdvanceDungeon
  <1> QED BY <1>1, <1>2 DEF VentureInto

\* Completing is one too: the mark says the player is in a last room.
LEMMA CompletingWalks ==
  ASSUME Inv, NEW mark \in Marks, mark.owner \in Player, CompleteDungeonForRoomMark(mark)
  PROVE  [Crawl!Next]_Crawl!vars
  <1> DEFINE q == mark.owner
             position == [p \in Player |-> {Place(t) : t \in dungeon[p]}]
  <1>1. CASE ~Completes(mark)
    BY <1>1 DEF CompleteDungeonForRoomMark, Crawl!vars
  <1>2. CASE Completes(mark)
    <2>1. /\ dungeon' = [dungeon EXCEPT ![q] = {}]
          /\ completed' = [completed EXCEPT ![q] = @ + 1]
      BY <1>2 DEF CompleteDungeonForRoomMark
    <2>2. dungeon \in [Player -> SUBSET DungeonState]
      BY DEF Inv, TypeOK
    <2>3. position' = [position EXCEPT ![q] = {}]
      BY <2>1, <2>2
    <2>4. PICK s \in dungeon[q] : s.entry = mark.entry /\ mark.final
      BY <1>2 DEF Completes
    <2>5. Final(s)
      BY <2>4 DEF Inv, MarksAreTrue
    <2>6. Crawl!Final(Place(s))
      BY <2>5 DEF Crawl!Final, Final, Crawl!Onward, Onward, Crawl!Rooms, Rooms, Place
    <2>7. Place(s) \in position[q]
      BY <2>4
    <2>8. Crawl!Complete(q)
      <3>1. \E t \in position[q] : Crawl!Final(t)
        <4> HIDE DEF position
        <4> QED BY <2>6, <2>7
      <3> QED BY <2>1, <2>3, <3>1 DEF Crawl!Complete, Place
    <2> QED BY <2>8 DEF Crawl!Next
  <1> QED BY <1>1, <1>2

LEMMA StepsWalk == Inv /\ [Next]_vars => [Crawl!Next]_Crawl!vars
  <1> SUFFICES ASSUME Inv, [Next]_vars PROVE [Crawl!Next]_Crawl!vars
    OBVIOUS
  <1>1. CASE UNCHANGED <<dungeon, completed>>
    BY <1>1 DEF Crawl!vars
  <1>2. ASSUME NEW p \in Player, Venture(p) PROVE [Crawl!Next]_Crawl!vars
    <2>1. PICK offered \in {Ordinary, {Undercity}} : VentureInto(p, offered)
      BY <1>2 DEF Venture
    <2>2. offered \in SUBSET Dungeon
      BY VentureAssumption
    <2> QED BY <1>2, <2>1, <2>2, VenturingWalks DEF Venture
  <1>3. CASE DrainInitiativeVenture
    <2> DEFINE p == Head(ventures)
    <2>1. p \in Player /\ completed' = completed
      BY <1>3 DEF DrainInitiativeVenture, Inv, TypeOK
    <2>2. CASE p \in alive
      <3>1. VentureInto(p, {Undercity})
        BY <1>3, <2>2 DEF DrainInitiativeVenture
      <3>2. {Undercity} \in SUBSET Dungeon
        BY VentureAssumption
      <3> HIDE DEF p
      <3> QED BY <2>1, <3>1, <3>2, VenturingWalks
    <2>3. CASE p \notin alive
      BY <1>1, <1>3, <2>3 DEF DrainInitiativeVenture
    <2> QED BY <2>2, <2>3
  <1>4. ASSUME NEW mark \in pending, PlaceRoomAbility(mark) PROVE [Crawl!Next]_Crawl!vars
    <2>1. mark \in Marks /\ mark.owner \in Player
      BY DEF Marks, Mark, Inv, TypeOK
    <2>2. CompleteDungeonForRoomMark(mark) \/ UNCHANGED <<dungeon, completed>>
      BY <1>4 DEF PlaceRoomAbility, DroppedCompletes
    <2> QED BY <1>1, <2>1, <2>2, CompletingWalks
  <1>5. CASE Resolve \/ Counter
    <2>1. PICK o \in stack : CompleteDungeonForRoomMark(o.mark)
      BY <1>5 DEF Resolve, Counter
    <2>2. o.mark \in Marks /\ o.mark.owner \in Player
      BY DEF Marks, StackObject, Mark, Inv, TypeOK
    <2> QED BY <2>1, <2>2, CompletingWalks
  <1>6. ASSUME \/ \E p \in Player : TakeInitiative(p) \/ UpkeepVenture(p)
               \/ Copy
               \/ ChangeStackObjectController
               \/ \E losers \in SUBSET Player : Leave(losers)
               \/ UNCHANGED vars
        PROVE  UNCHANGED <<dungeon, completed>>
    BY <1>6 DEF TakeInitiative, UpkeepVenture, Copy, ChangeStackObjectController, Leave, vars
  <1> QED BY <1>1, <1>2, <1>3, <1>4, <1>5, <1>6 DEF Next

LEMMA InitWalks == Init => Crawl!Init
  BY DEF Init, Crawl!Init

\* Venturing, with its queue, stack and initiative, implements the walk through
\* dungeons that DungeonCrawl specifies.
THEOREM VenturingImplementsTheCrawl == Spec => WalksTheDungeon
  <1> QED BY AlwaysInv, InitWalks, StepsWalk, PTL DEF Spec, WalksTheDungeon, Crawl!Spec

=============================================================================
