--------------------------- MODULE MCCastAttempts ---------------------------
(***************************************************************************)
(* Four casts.  `bolt` has a Phyrexian cost, paid with mana or life, and   *)
(* two targets, one of which makes it too expensive for mana; `doom` is    *)
(* like it with more symbols than are filtered, and `swarm` with targets   *)
(* that are sampled; `blast` has one proposal and names its target.        *)
(***************************************************************************)
EXTENDS CastAttempts

Phyrexian == {"bolt", "doom", "swarm"}
AllProposals == [c \in Cast |-> IF c = "blast" THEN {"mana"} ELSE {"mana", "life"}]
AllTargets == [c \in Cast |-> {"t1", "t2"}]
CanBePaid ==
  UNION {{<<c, "life", "t1">>, <<c, "life", "t2">>, <<c, "mana", "t1">>} : c \in Phyrexian}
    \union {<<"blast", "mana", "t1">>, <<"blast", "mana", "t2">>}
Succeed ==
  UNION {{<<c, "life", "t2", "with">>, <<c, "mana", "t1", "with">>} : c \in Phyrexian}
    \union {<<"blast", "mana", "t2", "with">>}
DoomIsUnfiltered == {<<"doom", "mana">>, <<"doom", "life">>}
EachHand == {{"bolt", "blast"}, {"doom", "filter"}, {"swarm"}}
FilterPays == {<<"filter", "with">>}
=============================================================================
