-------------------------- MODULE PermissionPolicy --------------------------
(***************************************************************************)
(* The local, deterministic permission policy: what the gateway answers to *)
(* a tool call that no live grant covers.                                  *)
(*   permission/policy.py       DefaultPermissionPolicy                    *)
(*   decision/action_guard.py   guard_action                               *)
(*   permission/gateway.py      the overrides after policy.evaluate        *)
(*                                                                         *)
(* A user's sentence is abstracted to the set of markers it contains.      *)
(***************************************************************************)

Levels      == {"read", "write", "delete", "external_action", "dangerous"}
SideEffects == {"none", "local_state", "data_deletion", "external_communication",
                "system_change", "external_service_write"}
Statuses    == {"allow", "require_confirmation", "deny"}
ToolKinds   == {"remember_memory", "update_memory", "forget_memory", "other"}

\* What the policy tells apart in a user's text.  The same words may carry
\* several markers ("bu yong ji" forbids remembering and authorises forgetting).
Markers     == {"forbid_memory", "read_only", "remember", "forget"}

\* Three-valued setting passed by the executor: only WRITE tools have one.
ConfirmWrite == {"on", "off", "unset"}

\* A call, as far as the policy sees it.
CallKinds == [tool : ToolKinds, level : Levels, effects : SUBSET SideEffects,
              highImpact : BOOLEAN]

-----------------------------------------------------------------------------
IsMemoryWrite(call) ==
    call.tool \in {"remember_memory", "update_memory"} /\ call.level = "write"

ExplicitlyAuthorized(call, intent) ==
    \/ call.tool = "remember_memory" /\ "remember" \in intent
    \/ call.tool = "forget_memory" /\ "forget" \in intent

\* DefaultPermissionPolicy.evaluate: the first rule that applies decides.
PolicyEvaluate(policies, call, intent) ==
    CASE IsMemoryWrite(call) /\ "forbid_memory" \in intent ->
            [status |-> "deny", reason |-> "memory_forbidden_intent"]
      [] ~(IsMemoryWrite(call) /\ "forbid_memory" \in intent)
         /\ "read_only" \in intent /\ call.level # "read" ->
            [status |-> "deny", reason |-> "read_only_intent"]
      [] OTHER ->
            IF IsMemoryWrite(call)
            THEN IF policies["write"] = "deny"
                 THEN [status |-> "deny", reason |-> "default_deny"]
                 ELSE [status |-> "allow", reason |-> "memory_write_default_allow"]
            ELSE IF ExplicitlyAuthorized(call, intent)
            THEN [status |-> "allow", reason |-> "explicit_user_intent"]
            ELSE [status |-> policies[call.level], reason |-> "default"]

\* guard_action: the flags that make an action cross an execution boundary.
GuardFlags(call) ==
    IF call.level = "read" THEN {}
    ELSE { f \in {"dangerous_action", "irreversible_deletion", "external_action",
                  "system_change", "high_impact_action"} :
             \/ f = "dangerous_action" /\ call.level = "dangerous"
             \/ f = "irreversible_deletion"
                /\ (call.level = "delete" \/ "data_deletion" \in call.effects)
             \/ f = "external_action"
                /\ \/ call.level = "external_action"
                   \/ "external_communication" \in call.effects
                   \/ call.highImpact /\ "external_service_write" \in call.effects
             \/ f = "system_change" /\ "system_change" \in call.effects
             \/ f = "high_impact_action" /\ call.highImpact }

Guarded(call) == GuardFlags(call) # {}

\* The per-tool WRITE prompt: it can add a prompt or take one away, never
\* turn a denial into anything else.
OverrideWrite(call, confirmWrite, decision) ==
    IF call.level # "write" \/ decision.status = "deny" THEN decision
    ELSE CASE confirmWrite = "on"  -> [status |-> "require_confirmation",
                                       reason |-> "tool_write_confirmation_required"]
           [] confirmWrite = "off" -> [status |-> "allow",
                                       reason |-> "tool_write_confirmation_disabled"]
           [] OTHER -> decision

\* The execution boundary is applied last.
OverrideGuard(call, decision) ==
    IF /\ Guarded(call)
       /\ decision.status # "deny"
       /\ decision.reason # "explicit_user_intent"
    THEN [status |-> "require_confirmation", reason |-> "decision_action_guard"]
    ELSE decision

\* PermissionGateway.evaluate once no grant was consumed.
Decision(policies, call, intent, confirmWrite) ==
    OverrideGuard(call,
        OverrideWrite(call, confirmWrite, PolicyEvaluate(policies, call, intent)))

\* ToolExecutor.execute refuses a tool whose level contradicts its effects.
WellDeclared(call) == (call.level = "read") <=> (call.effects = {"none"})
=============================================================================
