------------------------------ MODULE MCPriority ------------------------------
(***************************************************************************)
(* Priority on small tables.  Turning the table changes nothing, so one    *)
(* active player stands for all of them.                                   *)
(***************************************************************************)
EXTENDS Priority

MCInit == Init /\ active = 0

MCSpec == MCInit /\ [][Next]_vars /\ WF_vars(Next)
===============================================================================
