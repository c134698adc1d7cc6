------------------------ MODULE MCInternalActivity ------------------------
(* The digest of small talk and a walk through a group.                    *)
EXTENDS InternalActivity
CONSTANTS digest, wander
MCRegistered == <<digest, wander>>
\* The owner has given the walk the higher priority.
MCPriority == (digest :> 40) @@ (wander :> 50)
MCInterval == (digest :> 3) @@ (wander :> 1)
MCNeeds == (digest :> {"llm"}) @@ (wander :> {"llm"})
MCResources == {"llm"}
MCTickLimit == [r \in MCResources |-> 1]
MCDayLimit == ("llm" :> 2)
MCDailyLimit == (digest :> 1) @@ (wander :> 2)
MCPolicy ==
    (digest :> [p \in Presences |-> IF p = "SEMI_ACTIVE" THEN "AUTO" ELSE "MANUAL_ONLY"]) @@
    (wander :> [p \in Presences |-> IF p = "SEMI_ACTIVE" THEN "AUTO" ELSE "DISABLED"])
=============================================================================
