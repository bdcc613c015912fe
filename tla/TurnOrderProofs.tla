--------------------------- MODULE TurnOrderProofs ---------------------------
(***************************************************************************)
(* What the rotation of TurnOrder.tla returns, for any number of seats and *)
(* any set of players who have left.                                       *)
(***************************************************************************)
EXTENDS TurnOrder, FiniteSetTheorems, WellFoundedInduction, TLAPS

\* A nonempty set of natural numbers has a least element.
LEMMA Least ==
  ASSUME NEW S \in SUBSET Nat, S # {}
  PROVE  \E k \in S : \A j \in S : k <= j
<1> DEFINE R == OpToRel(<, Nat)
<1>1. \A j, k \in Nat : <<j, k>> \in R \/ k <= j
  BY DEF OpToRel
<1>2. IsWellFoundedOn(R, Nat)
  BY NatLessThanWellFounded
<1> HIDE DEF R
<1>3. PICK k \in S : \A j \in S : <<j, k>> \notin R
  BY <1>2, WFMin
<1>4. \A j \in S : k <= j
  BY <1>1, <1>3, Zenon
<1> QED BY <1>4

\* Counting the players left by subtraction, as ActivePlayerCount does, counts
\* the players left.
LEMMA CountOfTheLiving ==
  ASSUME NEW out \in SUBSET Player
  PROVE  /\ IsFiniteSet(Alive(out))
         /\ ActivePlayerCount(out) = Cardinality(Alive(out))
         /\ ActivePlayerCount(out) \in Nat
<1>1. IsFiniteSet(Player) /\ Cardinality(Player) = NumPlayers
  BY NumPlayersAssumption, FS_Interval DEF Player
<1>2. /\ IsFiniteSet(Player \ out)
      /\ Cardinality(Player \ out) = Cardinality(Player) - Cardinality(Player \cap out)
  BY <1>1, FS_Difference, FS_Subset
<1>3. Player \cap out = out
  OBVIOUS
<1>4. IsFiniteSet(out) /\ Cardinality(out) \in Nat /\ Cardinality(Player \ out) \in Nat
  BY <1>1, <1>2, FS_Subset, FS_CardinalityType
<1> QED BY <1>1, <1>2, <1>3, <1>4, NumPlayersAssumption DEF Alive, ActivePlayerCount

\* The seat an offset leads to is as far ahead as the offset says, and every
\* other seat is reached by the offset that is its distance.
LEMMA SeatAndDistance ==
  ASSUME NEW p \in Player
  PROVE  /\ \A k \in 1..NumPlayers :
              /\ SeatAfter(p, k) \in Player
              /\ Ahead(p, SeatAfter(p, k)) = IF k = NumPlayers THEN 0 ELSE k
         /\ \A q \in Player \ {p} :
              /\ Ahead(p, q) \in 1..(NumPlayers - 1)
              /\ SeatAfter(p, Ahead(p, q)) = q
BY NumPlayersAssumption DEF Player, SeatAfter, Ahead

\* NextActivePlayer returns a player still in the game whenever there is one,
\* and passes over nobody: every other such player is further ahead.  With
\* nobody left it returns the player it was given.
THEOREM NextIsTheNextAlive ==
  ASSUME NEW p \in Player, NEW out \in SUBSET Player
  PROVE  LET n == NextActivePlayer(p, out)
         IN  /\ n \in Player
             /\ Alive(out) # {} => n \in Alive(out)
             /\ \A q \in Alive(out) \ {p} : n # p /\ Ahead(p, n) <= Ahead(p, q)
<1> DEFINE Offsets == AliveOffsets(p, out)
           k == CHOOSE i \in Offsets : \A j \in Offsets : i <= j
<1>1. CASE Offsets = {}
  <2>1. NextActivePlayer(p, out) = p
    BY <1>1 DEF NextActivePlayer
  <2>2. Alive(out) \ {p} = {}
    BY <1>1, SeatAndDistance, NumPlayersAssumption DEF AliveOffsets, Alive
  <2>3. p \in out
    <3>1. SeatAfter(p, NumPlayers) = p /\ NumPlayers \in 1..NumPlayers
      BY NumPlayersAssumption DEF SeatAfter, Player
    <3> QED BY <1>1, <3>1 DEF AliveOffsets
  <2> QED BY <2>1, <2>2, <2>3 DEF Alive
<1>2. CASE Offsets # {}
  <2>1. Offsets \in SUBSET (1..NumPlayers)
    BY DEF AliveOffsets
  <2>2. k \in Offsets /\ \A j \in Offsets : k <= j
    <3>1. \E i \in Offsets : \A j \in Offsets : i <= j
      BY <1>2, <2>1, Least
    <3> QED BY <3>1
  <2>3. NextActivePlayer(p, out) = SeatAfter(p, k)
    BY <1>2 DEF NextActivePlayer
  <2> HIDE DEF k
  <2>4. SeatAfter(p, k) \in Player /\ SeatAfter(p, k) \notin out
    BY <2>1, <2>2, SeatAndDistance DEF AliveOffsets
  <2>5. ASSUME NEW q \in Alive(out) \ {p}
        PROVE  SeatAfter(p, k) # p /\ Ahead(p, SeatAfter(p, k)) <= Ahead(p, q)
    <3>1. q \in Player /\ Ahead(p, q) \in 1..(NumPlayers - 1) /\ SeatAfter(p, Ahead(p, q)) = q
      BY SeatAndDistance DEF Alive
    <3>2. Ahead(p, q) \in Offsets
      BY <3>1, NumPlayersAssumption DEF AliveOffsets, Alive
    <3>3. k <= Ahead(p, q) /\ k \in 1..NumPlayers
      BY <2>1, <2>2, <3>2
    <3>4. k < NumPlayers /\ Ahead(p, SeatAfter(p, k)) = k
      <4>1. k \in 1..NumPlayers /\ k # NumPlayers /\ k < NumPlayers
        BY <3>1, <3>3, NumPlayersAssumption
      <4> QED BY <4>1, SeatAndDistance
    <3>5. Ahead(p, p) = 0
      BY DEF Ahead, Player
    <3> QED BY <3>3, <3>4, <3>5
  <2> QED BY <2>3, <2>4, <2>5 DEF Alive
<1> QED BY <1>1, <1>2

\* Seen from the next player, everybody else still in the game is closer by the
\* same number of seats, and the player before comes after all of them.
THEOREM RotationKeepsTheOrder ==
  ASSUME NEW p \in Player, NEW out \in SUBSET Player
  PROVE  LET n == NextActivePlayer(p, out)
         IN  \A q \in Alive(out) \ {p} :
               /\ Ahead(n, q) = Ahead(p, q) - Ahead(p, n)
               /\ Ahead(n, q) < Ahead(n, p)
<1> DEFINE n == NextActivePlayer(p, out)
<1>1. n \in Player /\ \A q \in Alive(out) \ {p} : n # p /\ Ahead(p, n) <= Ahead(p, q)
  BY NextIsTheNextAlive
<1> HIDE DEF n
<1>2. ASSUME NEW q \in Alive(out) \ {p}
      PROVE  /\ Ahead(n, q) = Ahead(p, q) - Ahead(p, n)
             /\ Ahead(n, q) < Ahead(n, p)
  BY <1>1, NumPlayersAssumption DEF Ahead, Alive, Player
<1> QED BY <1>2 DEF n
==============================================================================
