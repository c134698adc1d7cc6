--------------------------- MODULE MCMaintenance ---------------------------
(* A turn's job and two of one burst of external messages.                 *)
EXTENDS Maintenance
CONSTANTS j1, j2, j3, b
MCBatchOf == [j \in Jobs |-> IF j = j1 THEN NoBatch ELSE b]
MCPriority == [j \in Jobs |-> IF j = j1 THEN 10 ELSE 5]
MCPhases == <<"auto_memory", "current_cognition">>
=============================================================================
