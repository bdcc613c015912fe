------------------------------ MODULE MCMatchup ------------------------------
\* Matchup on two seats, for TLC.
EXTENDS Matchup
=============================================================================
