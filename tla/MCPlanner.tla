----------------------------- MODULE MCPlanner ------------------------------
(* A planner for TLC.                                                      *)
EXTENDS Planner

=============================================================================
