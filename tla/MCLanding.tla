----------------------------- MODULE MCLanding -----------------------------
EXTENDS Landing

\* Contents are interchangeable: main starts with one of them.
MCInit == Init /\ main[1] = CHOOSE content \in Content : TRUE

MCSpec == MCInit /\ [][Next]_vars /\ Fairness
=============================================================================
