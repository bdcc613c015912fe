-------------------------- MODULE MCPaymentRollback --------------------------
(***************************************************************************)
(* Seven mana abilities: a land, a filter that spends mana, one that makes *)
(* the others stronger, two that mill a card (one for mana, one only while *)
(* the land is tapped), and two that shuffle (one for mana).               *)
(***************************************************************************)
EXTENDS PaymentRollback, TLC

Abilities == {"land", "filter", "boost", "mill", "millForMana", "shuffle", "shuffleForMana"}
Costs == [s \in Abilities |-> IF s \in {"filter", "millForMana", "shuffleForMana"} THEN 1 ELSE 0]
Mana == [s \in Abilities |-> IF s = "filter" THEN 2 ELSE IF s = "boost" THEN 0 ELSE 1]
LibraryMoves ==
  [s \in Abilities |->
     CASE s \in {"mill", "millForMana"} -> "mill"
       [] s \in {"shuffle", "shuffleForMana"} -> "shuffle"
       [] OTHER -> "none"]
Dependencies == [s \in Abilities |-> IF s = "mill" THEN {"land"} ELSE {}]
=============================================================================
