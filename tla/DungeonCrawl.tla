---------------------------- MODULE DungeonCrawl ----------------------------
(***************************************************************************)
(* What venturing promises a player (CR 309.4 to 309.7 and 701.49): one    *)
(* dungeon at a time, entered at its entrance, walked room by room along   *)
(* its paths, and completed from a last room and nowhere else, one         *)
(* completion for each dungeon left behind.                                *)
(***************************************************************************)
EXTENDS Dungeons

CONSTANTS Player

VARIABLES
  position,   \* of each player: none, or one
  completed   \* DungeonsCompleted

vars == <<position, completed>>

Init ==
  /\ position = [p \in Player |-> {}]
  /\ completed = [p \in Player |-> 0]

Enter(p) ==
  /\ position[p] = {}
  /\ \E d \in Dungeon : \E r \in Entrances(d) :
       position' = [position EXCEPT ![p] = {[dungeon |-> d, room |-> r, visited |-> {r}]}]
  /\ UNCHANGED completed

Advance(p) ==
  /\ \E s \in position[p] : \E r \in Onward(s) :
       position' = [position EXCEPT ![p] =
         {[dungeon |-> s.dungeon, room |-> r, visited |-> s.visited \union {r}]}]
  /\ UNCHANGED completed

Complete(p) ==
  /\ \E s \in position[p] : Final(s)
  /\ position' = [position EXCEPT ![p] = {}]
  /\ completed' = [completed EXCEPT ![p] = @ + 1]

Next == \E p \in Player : Enter(p) \/ Advance(p) \/ Complete(p)

Spec == Init /\ [][Next]_vars
=============================================================================
