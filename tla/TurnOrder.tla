------------------------------ MODULE TurnOrder ------------------------------
(***************************************************************************)
(* The seating of a game: who sits after whom, and who comes next once     *)
(* some players have left.  Translated from type TurnOrder of              *)
(* mtg/game/turn.go and from IsGameOver of mtg/game/game.go; every other   *)
(* module of the engine reaches the seats through these operators.         *)
(*                                                                         *)
(* Order is always the seat order 0, 1, ..., NumPlayers - 1, so a seat and *)
(* its index in Order are the same number.  Eliminated is the set `out`.   *)
(***************************************************************************)
EXTENDS Integers, FiniteSets, Sequences

CONSTANTS
  NumPlayers,   \* game.NumPlayers; 4 in the program
  Goldfish      \* RunModeGoldfish: seat 0 plays alone, the others left at once

ASSUME NumPlayersAssumption == NumPlayers \in Nat \ {0}
ASSUME GoldfishAssumption   == Goldfish \in BOOLEAN

Player == 0 .. NumPlayers - 1

\* Seats still in the game.
Alive(out) == Player \ out

\* Order[(p + k) % NumPlayers] for a seat p and an offset k in 0..NumPlayers.
SeatAfter(p, k) == IF p + k < NumPlayers THEN p + k ELSE p + k - NumPlayers

\* The offsets 1..NumPlayers at which a player still in the game sits after p;
\* the last offset is p itself.
AliveOffsets(p, out) == {k \in 1..NumPlayers : SeatAfter(p, k) \notin out}

NextActivePlayer_FromFirstSeat(p, out) ==
  IF Alive(out) = {} THEN p ELSE CHOOSE q \in Alive(out) : \A r \in Alive(out) : q <= r

\* NextActivePlayer: the first of those seats, or p when nobody is left.
\* NextPriority is the same function.
NextActivePlayer(p, out) ==
  IF AliveOffsets(p, out) = {}
  THEN p
  ELSE SeatAfter(p, CHOOSE k \in AliveOffsets(p, out) :
                      \A j \in AliveOffsets(p, out) : k <= j)

\* How many seats q is after p; 0 for p itself.
Ahead(p, q) == IF p <= q THEN q - p ELSE q - p + NumPlayers

ActivePlayerCount(out) == NumPlayers - Cardinality(out)

IsGameOver(out) == IF Goldfish THEN 0 \in out ELSE ActivePlayerCount(out) <= 1

\* triggerAPNAPPlayers lists the active player, then the others in turn order:
\* whether p is listed no later than q.
BeforeAPNAP(active, p, q) == Ahead(active, p) <= Ahead(active, q)
=============================================================================
