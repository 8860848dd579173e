----------------------------- MODULE MCDashboard -----------------------------
(* Dashboard for TLC: one service that gets a result and one that comes and  *)
(* goes.                                                                     *)
EXTENDS Dashboard

CONSTANTS api, disk

OnApi == [n \in Name |-> IF n = api THEN 1 ELSE 0]
=============================================================================
