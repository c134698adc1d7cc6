-------------------------- MODULE PermissionProofs --------------------------
(***************************************************************************)
(* Proofs about the permission policy, the gateway and the agent in front  *)
(* of it, for any number of confirmations, grants, invocations and calls,  *)
(* any settings, any policy and any list of calls in the model's response. *)
(*   - what the policy answers;                                            *)
(*   - of the gateway: that a grant starts one run, that nothing runs that *)
(*     was not approved or was taken back, and that it implements          *)
(*     Authorization;                                                      *)
(*   - of the agent: that every step of it is a step of the gateway or     *)
(*     none, so that what the gateway promises holds of the agent's turns, *)
(*     and that a call runs at most as often as the owner said yes to it.  *)
(***************************************************************************)
EXTENDS AgentBatch, WellFoundedInduction, TLAPS

-----------------------------------------------------------------------------
(* The policy: permission/policy.py and the overrides of the gateway.      *)

Settings == [Levels -> Statuses]

Strictness(status) == CASE status = "allow" -> 0
                        [] status = "require_confirmation" -> 1
                        [] OTHER -> 2

\* PolicyEvaluate and the overrides answer with one of the statuses.
LEMMA PolicyType ==
    ASSUME NEW policies \in Settings, NEW call \in CallKinds, NEW intent \in SUBSET Markers
    PROVE  /\ PolicyEvaluate(policies, call, intent).status \in Statuses
           /\ PolicyEvaluate(policies, call, intent).reason \in
                {"memory_forbidden_intent", "read_only_intent", "default_deny",
                 "memory_write_default_allow", "explicit_user_intent", "default"}
  BY DEF Settings, CallKinds, Levels, Statuses, Markers, PolicyEvaluate, IsMemoryWrite,
         ExplicitlyAuthorized

LEMMA DecisionType ==
    ASSUME NEW policies \in Settings, NEW call \in CallKinds, NEW intent \in SUBSET Markers,
           NEW confirmWrite \in ConfirmWrite
    PROVE  Decision(policies, call, intent, confirmWrite).status \in Statuses
  BY PolicyType DEF Decision, OverrideGuard, OverrideWrite, Statuses, ConfirmWrite

\* A user who says "read only" gets no change: nothing but READ calls is allowed
\* or even asked for, whatever the settings are.
THEOREM ReadOnlyIsBinding ==
    ASSUME NEW policies \in Settings, NEW call \in CallKinds, NEW intent \in SUBSET Markers,
           NEW confirmWrite \in ConfirmWrite,
           "read_only" \in intent, call.level # "read"
    PROVE  Decision(policies, call, intent, confirmWrite).status = "deny"
<1>1. PolicyEvaluate(policies, call, intent).status = "deny"
  BY DEF PolicyEvaluate
<1>2. QED
  BY <1>1 DEF Decision, OverrideWrite, OverrideGuard

\* A call that crosses an execution boundary runs unprompted only on the user's
\* explicit words for that very tool: no tool setting, level policy or default can
\* silence the boundary, because it is applied last.
THEOREM BoundaryNeverSilenced ==
    ASSUME NEW policies \in Settings, NEW call \in CallKinds, NEW intent \in SUBSET Markers,
           NEW confirmWrite \in ConfirmWrite,
           Guarded(call), Decision(policies, call, intent, confirmWrite).status = "allow"
    PROVE  ExplicitlyAuthorized(call, intent)
<1> DEFINE first  == PolicyEvaluate(policies, call, intent)
           second == OverrideWrite(call, confirmWrite, first)
<1>1. second.reason = "explicit_user_intent"
  <2>1. OverrideGuard(call, second).status = "allow"
    BY DEF Decision
  <2>2. QED
    BY <2>1 DEF OverrideGuard
<1>2. first.reason = "explicit_user_intent"
  BY <1>1 DEF OverrideWrite, ConfirmWrite
<1>3. QED
  BY <1>2 DEF PolicyEvaluate
\* Denials come out of the overrides as they went in.
LEMMA DenialStays ==
    ASSUME NEW policies \in Settings, NEW call \in CallKinds, NEW intent \in SUBSET Markers,
           NEW confirmWrite \in ConfirmWrite,
           PolicyEvaluate(policies, call, intent).status = "deny"
    PROVE  Decision(policies, call, intent, confirmWrite).status = "deny"
  BY DEF Decision, OverrideWrite, OverrideGuard

\* Saying more never loosens an answer: a restriction added to the same sentence
\* leaves every answer as it was, or denies.
THEOREM SayingMoreOnlyTightens ==
    ASSUME NEW policies \in Settings, NEW call \in CallKinds, NEW intent \in SUBSET Markers,
           NEW confirmWrite \in ConfirmWrite, NEW marker \in {"forbid_memory", "read_only"}
    PROVE  Strictness(Decision(policies, call, intent \cup {marker}, confirmWrite).status)
             >= Strictness(Decision(policies, call, intent, confirmWrite).status)
<1> DEFINE more == intent \cup {marker}
<1>1. more \in SUBSET Markers
  BY DEF Markers
<1>2. \/ PolicyEvaluate(policies, call, more).status = "deny"
      \/ PolicyEvaluate(policies, call, more) = PolicyEvaluate(policies, call, intent)
  <2>1. ExplicitlyAuthorized(call, more) = ExplicitlyAuthorized(call, intent)
    BY DEF ExplicitlyAuthorized
  <2>2. CASE /\ "read_only" \in more /\ call.level # "read"
    BY <2>2 DEF PolicyEvaluate
  <2>3. CASE /\ IsMemoryWrite(call) /\ "forbid_memory" \in more
    BY <2>3 DEF PolicyEvaluate
  <2>4. CASE /\ ~("read_only" \in more /\ call.level # "read")
             /\ ~(IsMemoryWrite(call) /\ "forbid_memory" \in more)
    <3>1. /\ ~("read_only" \in intent /\ call.level # "read")
          /\ ~(IsMemoryWrite(call) /\ "forbid_memory" \in intent)
      BY <2>4
    <3>2. QED
      BY <2>1, <2>4, <3>1 DEF PolicyEvaluate
  <2>5. QED
    BY <2>2, <2>3, <2>4
<1>3. \A status \in Statuses : Strictness(status) \in 0..2
  BY DEF Statuses, Strictness
<1>4. CASE PolicyEvaluate(policies, call, more).status = "deny"
  <2>1. Decision(policies, call, more, confirmWrite).status = "deny"
    BY <1>1, <1>4, DenialStays
  <2>2. Strictness("deny") = 2
    BY DEF Strictness
  <2>3. Decision(policies, call, intent, confirmWrite).status \in Statuses
    BY DecisionType
  <2>4. QED
    BY <1>3, <2>1, <2>2, <2>3
<1>5. CASE PolicyEvaluate(policies, call, more) = PolicyEvaluate(policies, call, intent)
  <2>1. Decision(policies, call, more, confirmWrite) = Decision(policies, call, intent, confirmWrite)
    BY <1>5 DEF Decision
  <2>2. Strictness(Decision(policies, call, intent, confirmWrite).status) \in 0..2
    BY <1>3, DecisionType
  <2>3. QED
    BY <2>1, <2>2
<1>6. QED
  BY <1>2, <1>4, <1>5

\* Switching the prompt of a tool on never loosens an answer: it adds a question,
\* and turns no denial into one.
THEOREM PromptOnlyTightens ==
    ASSUME NEW policies \in Settings, NEW call \in CallKinds, NEW intent \in SUBSET Markers
    PROVE  Strictness(Decision(policies, call, intent, "on").status)
             >= Strictness(Decision(policies, call, intent, "off").status)
<1> DEFINE first == PolicyEvaluate(policies, call, intent)
<1>1. Strictness("allow") = 0 /\ Strictness("require_confirmation") = 1 /\ Strictness("deny") = 2
  BY DEF Strictness
<1>2. /\ Decision(policies, call, intent, "on").status \in Statuses
      /\ Decision(policies, call, intent, "off").status \in Statuses
  BY DecisionType DEF ConfirmWrite
<1>3. CASE call.level # "write" \/ first.status = "deny"
  <2>1. Decision(policies, call, intent, "on") = Decision(policies, call, intent, "off")
    BY <1>3 DEF Decision, OverrideWrite
  <2>2. QED
    BY <1>1, <1>2, <2>1 DEF Statuses
<1>4. CASE call.level = "write" /\ first.status # "deny"
  <2>1. Decision(policies, call, intent, "on").status = "require_confirmation"
    BY <1>4 DEF Decision, OverrideWrite, OverrideGuard
  <2>2. Decision(policies, call, intent, "off").status \in {"allow", "require_confirmation"}
    BY <1>4 DEF Decision, OverrideWrite, OverrideGuard
  <2>3. QED
    BY <1>1, <2>1, <2>2
<1>5. QED
  BY <1>3, <1>4

-----------------------------------------------------------------------------
(* The gateway: one run for a grant.                                       *)

\* A grant that has been used, in memory and on disk.
Spent(g) == /\ grants[g] # None /\ grants[g].uses = 1
            /\ dgrants[g] # None /\ dgrants[g].uses = 1

\* A tool that has started on a grant left the used grant stored: this is what
\* a crash reloads.
RunIsStored == \A g \in Grants : runs[g] # 0 => runs[g] = 1 /\ Spent(g)

\* A grant record is written only after memory has it.
DiskFollowsMemory == \A g \in Grants : dgrants[g] # None => grants[g] # None

\* An id that was never handed out names no record.
UnissuedIsUnknown == \A g \in Grants \ issued : grants[g] = None /\ dgrants[g] = None

\* What the operation in progress has already done.
OperationInv ==
    /\ op.stage \in {"approve_pending", "approve_grant", "revoke_grant", "batch_grant"} =>
          op.grant \in Grants /\ grants[op.grant] # None
    /\ op.stage = "consume_grant" =>
          /\ op.grant \in Grants
          /\ grants[op.grant] # None /\ grants[op.grant].uses = 1
          /\ runs[op.grant] = 0
    /\ op.stage = "run" /\ op.grant # None => Spent(op.grant) /\ runs[op.grant] = 0
    /\ op.stage \in {"approve_pending", "deny_pending", "ask_pending"} =>
          op.conf \in Confirmations /\ pending[op.conf] # None
    /\ op.stage \in {"batch_grant", "batch_evaluate"} => op.req \in Requests

IInv == TypeOK /\ RunIsStored /\ DiskFollowsMemory /\ UnissuedIsUnknown /\ OperationInv

-----------------------------------------------------------------------------
\* Evaluating a request keeps the types of what it may change, whatever the
\* policy answers.
LEMMA EvaluateType ==
    ASSUME TypeOK, NEW req \in Requests, Evaluate(req)
    PROVE  /\ pending' \in [Confirmations -> PendingRecords \cup {None}]
           /\ grants' \in [Grants -> GrantRecords \cup {None}]
           /\ op' \in [stage : Stages, conf : Confirmations \cup {None},
                       grant : Grants \cup {None}, req : Requests \cup {None}]
           /\ issued' \subseteq Confirmations \cup Grants \cup BatchInvocations
<1>1. CASE Consume(req)
  <2>1. PICK g \in Grants :
           /\ Matches(g, req)
           /\ grants' = [grants EXCEPT ![g].uses = @ + 1]
           /\ Begin("consume_grant", grants[g].conf, g, req)
    BY <1>1 DEF Consume
  <2>2. grants[g] \in GrantRecords /\ grants[g].uses = 0
    BY <2>1 DEF Matches, Usable, TypeOK, GrantRecords
  <2>3. grants' \in [Grants -> GrantRecords \cup {None}]
    BY <2>1, <2>2 DEF TypeOK, GrantRecords
  <2>4. op' \in [stage : Stages, conf : Confirmations \cup {None},
                 grant : Grants \cup {None}, req : Requests \cup {None}]
    BY <2>1, <2>2 DEF Begin, Stages, GrantRecords
  <2> QED BY <1>1, <2>3, <2>4 DEF Consume, TypeOK
<1>2. CASE AllowedByPolicy(req)
  BY <1>2 DEF AllowedByPolicy, Begin, TypeOK, Stages
<1>3. CASE Ask(req)
  <2>1. PICK c \in Confirmations :
           /\ pending' = [pending EXCEPT ![c] = [request |-> req, resolved |-> FALSE,
                                                 approved |-> FALSE]]
           /\ issued' = issued \cup {c}
           /\ Begin("ask_pending", c, None, req)
    BY <1>3 DEF Ask
  <2>2. [request |-> req, resolved |-> FALSE, approved |-> FALSE] \in PendingRecords
    BY DEF PendingRecords
  <2> QED BY <1>3, <2>1, <2>2 DEF Ask, Begin, TypeOK, Stages
<1>4. CASE Refused(req)
  BY <1>4 DEF Refused, Idle, TypeOK, Stages
<1> QED BY <1>1, <1>2, <1>3, <1>4 DEF Evaluate

\* A grant made for a request is a grant record.
LEMMA NewGrantType ==
    ASSUME NEW c \in Confirmations, NEW req \in Requests
    PROVE  NewGrant(c, req) \in GrantRecords
BY DEF NewGrant, GrantRecords, Requests

\* Types are kept by every step.
LEMMA TypeStep == TypeOK /\ OperationInv /\ [Next]_vars => TypeOK'
<1> SUFFICES ASSUME TypeOK, OperationInv, [Next]_vars PROVE TypeOK'
  OBVIOUS
<1> USE ConstantsAssumption
<1>1. ASSUME NEW req \in Requests, Execute(req) PROVE TypeOK'
  BY <1>1, EvaluateType DEF Execute, TypeOK, disk, history
<1>2. ASSUME NEW c \in Confirmations, NEW req \in Requests, ExecuteBatchMember(c, req)
      PROVE TypeOK'
  <2>1. PICK g \in Grants :
           /\ grants' = [grants EXCEPT ![g] = NewGrant(c, req)]
           /\ issued' = issued \cup {g, req.inv}
           /\ Begin("batch_grant", c, g, req)
    BY <1>2 DEF ExecuteBatchMember
  <2>2. req.inv \in BatchInvocations
    BY <1>2 DEF ExecuteBatchMember
  <2> QED BY <1>2, <2>1, <2>2, NewGrantType
          DEF ExecuteBatchMember, Begin, TypeOK, Stages, disk, history
<1>3. ASSUME EvaluateBatchMember PROVE TypeOK'
  BY <1>3, EvaluateType DEF EvaluateBatchMember, OperationInv, TypeOK, disk, history
<1>4. ASSUME NEW c \in Confirmations, Approve(c) PROVE TypeOK'
  <2>1. pending[c] \in PendingRecords
    BY <1>4 DEF Approve, Live, TypeOK
  <2>2. pending[c].request \in Requests
    BY <2>1 DEF PendingRecords
  <2>3. CASE ~pending[c].resolved
    <3>1. PICK g \in Grants :
             /\ grants' = [grants EXCEPT ![g] = NewGrant(c, pending[c].request)]
             /\ issued' = issued \cup {g}
             /\ Begin("approve_pending", c, g, None)
      BY <1>4, <2>3 DEF Approve
    <3>2. pending' = [pending EXCEPT ![c].resolved = TRUE, ![c].approved = TRUE]
      BY <1>4, <2>3 DEF Approve
    <3>3. pending' \in [Confirmations -> PendingRecords \cup {None}]
      BY <3>2, <2>1 DEF TypeOK, PendingRecords
    <3> QED BY <1>4, <2>2, <3>1, <3>3, NewGrantType
            DEF Approve, Begin, TypeOK, Stages, disk, history
  <2>4. CASE pending[c].resolved
    BY <1>4, <2>4 DEF Approve, Begin, TypeOK, Stages, disk, history
  <2> QED BY <2>3, <2>4
<1>5. ASSUME NEW c \in Confirmations, Deny(c) PROVE TypeOK'
  <2>1. pending[c] \in PendingRecords
    BY <1>5 DEF Deny, TypeOK
  <2>2. pending' \in [Confirmations -> PendingRecords \cup {None}]
    BY <1>5, <2>1 DEF Deny, TypeOK, PendingRecords
  <2> QED BY <1>5, <2>2 DEF Deny, Begin, TypeOK, Stages, disk, history
<1>6. ASSUME NEW c \in Confirmations, Expire(c) PROVE TypeOK'
  BY <1>6 DEF Expire, TypeOK, memory, disk, history
<1>7. ASSUME NEW g \in Grants, Revoke(g) PROVE TypeOK'
  <2>1. grants[g] \in GrantRecords
    BY <1>7 DEF Revoke, TypeOK
  <2>2. grants' \in [Grants -> GrantRecords \cup {None}]
    BY <1>7, <2>1 DEF Revoke, TypeOK, GrantRecords
  <2>3. grants[g].conf \in Confirmations
    BY <2>1 DEF GrantRecords
  <2> QED BY <1>7, <2>2, <2>3 DEF Revoke, Begin, TypeOK, Stages, disk, history
<1>8. CASE PersistPending
  <2>1. dpending' \in [Confirmations -> PendingRecords \cup {None}]
    BY <1>8 DEF PersistPending, StoredPending, OperationInv, TypeOK
  <2>2. op' \in [stage : Stages, conf : Confirmations \cup {None},
                 grant : Grants \cup {None}, req : Requests \cup {None}]
    BY <1>8 DEF PersistPending, Idle, TypeOK, Stages
  <2>3. denied' \subseteq Confirmations
    BY <1>8 DEF PersistPending, OperationInv, TypeOK
  <2> QED BY <1>8, <2>1, <2>2, <2>3 DEF PersistPending, TypeOK, memory
<1>9. CASE PersistGrant
  <2>1. dgrants' \in [Grants -> GrantRecords \cup {None}]
    BY <1>9 DEF PersistGrant, StoredGrant, OperationInv, TypeOK
  <2>2. op' \in [stage : Stages, conf : Confirmations \cup {None},
                 grant : Grants \cup {None}, req : Requests \cup {None}]
    BY <1>9 DEF PersistGrant, Idle, TypeOK, Stages
  <2>3. revoked' \subseteq Grants
    BY <1>9 DEF PersistGrant, OperationInv, TypeOK
  <2> QED BY <1>9, <2>1, <2>2, <2>3 DEF PersistGrant, TypeOK, memory
<1>10. CASE WriteFails
  BY <1>10 DEF WriteFails, Idle, TypeOK, Stages, memory, disk, history
<1>11. CASE Run
  BY <1>11 DEF Run, Idle, TypeOK, Stages, memory, disk
<1>12. CASE CrashAndRestart
  <2>1. \A c \in Confirmations : AtStartup(dpending[c]) \in PendingRecords \cup {None}
    <3> TAKE c \in Confirmations
    <3>1. dpending[c] \in PendingRecords \cup {None}
      BY DEF TypeOK
    <3>2. ASSUME NEW rec \in PendingRecords
          PROVE  [rec EXCEPT !.resolved = TRUE, !.approved = FALSE] \in PendingRecords
      BY DEF PendingRecords
    <3>3. CASE dpending[c] = None
      BY <3>3 DEF AtStartup
    <3>4. CASE dpending[c] # None
      BY <3>1, <3>2, <3>4 DEF AtStartup
    <3> QED BY <3>3, <3>4
  <2> QED BY <1>12, <2>1 DEF CrashAndRestart, Idle, TypeOK, Stages
<1>13. CASE UNCHANGED vars
  BY <1>13 DEF vars, TypeOK
<1> QED
  BY <1>1, <1>2, <1>3, <1>4, <1>5, <1>6, <1>7, <1>8, <1>9, <1>10, <1>11, <1>12, <1>13
  DEF Next

-----------------------------------------------------------------------------
\* Evaluating a request keeps the invariant: a grant is marked used in memory
\* only if no tool ran on it yet.
LEMMA EvaluateInv ==
    ASSUME IInv, NEW req \in Requests, Evaluate(req),
           UNCHANGED <<disk, runs>>
    PROVE  (RunIsStored /\ DiskFollowsMemory /\ UnissuedIsUnknown /\ OperationInv)'
<1> USE ConstantsAssumption
<1>1. CASE Consume(req)
  <2>1. PICK g \in Grants :
           /\ Matches(g, req)
           /\ grants' = [grants EXCEPT ![g].uses = @ + 1]
           /\ Begin("consume_grant", grants[g].conf, g, req)
    BY <1>1 DEF Consume
  <2>2. grants[g] \in GrantRecords /\ grants[g].uses = 0
    BY <2>1 DEF Matches, Usable, IInv, TypeOK, GrantRecords
  <2>3. runs[g] = 0
    BY <2>2 DEF IInv, RunIsStored, Spent
  <2>4. /\ grants'[g] # None /\ grants'[g].uses = 1
        /\ \A h \in Grants : h # g => grants'[h] = grants[h]
    <3>1. grants'[g] = [grants[g] EXCEPT !.uses = 1]
      BY <2>1, <2>2 DEF IInv, TypeOK
    <3>2. grants'[g] \in GrantRecords /\ grants'[g].uses = 1
      BY <3>1, <2>2 DEF GrantRecords
    <3> QED BY <2>1, <3>2 DEF IInv, TypeOK
  <2>5. /\ op' = [stage |-> "consume_grant", conf |-> grants[g].conf,
                  grant |-> g, req |-> req]
        /\ UNCHANGED <<pending, issued, dpending, dgrants, runs>>
    BY <1>1, <2>1 DEF Begin, Consume, disk
  <2>6. RunIsStored' /\ DiskFollowsMemory'
    BY <2>3, <2>4, <2>5 DEF IInv, RunIsStored, Spent, DiskFollowsMemory
  <2>7. UnissuedIsUnknown'
    BY <2>2, <2>4, <2>5 DEF IInv, UnissuedIsUnknown, TypeOK
  <2>8. OperationInv'
    BY <2>3, <2>4, <2>5 DEF OperationInv
  <2> QED BY <2>6, <2>7, <2>8
<1>2. CASE AllowedByPolicy(req)
  BY <1>2 DEF AllowedByPolicy, Begin, disk, IInv, RunIsStored, Spent,
              DiskFollowsMemory, UnissuedIsUnknown, OperationInv
<1>3. CASE Ask(req)
  <2>1. PICK c \in Confirmations :
           /\ pending' = [pending EXCEPT ![c] = [request |-> req, resolved |-> FALSE,
                                                 approved |-> FALSE]]
           /\ issued' = issued \cup {c}
           /\ Begin("ask_pending", c, None, req)
    BY <1>3 DEF Ask
  <2>2. [request |-> req, resolved |-> FALSE, approved |-> FALSE] # None
    <3>1. [request |-> req, resolved |-> FALSE, approved |-> FALSE] \in PendingRecords
      BY DEF PendingRecords
    <3> QED BY <3>1
  <2> QED BY <1>3, <2>1, <2>2
          DEF Ask, Begin, disk, IInv, TypeOK, RunIsStored, Spent,
              DiskFollowsMemory, UnissuedIsUnknown, OperationInv
<1>4. CASE Refused(req)
  BY <1>4 DEF Refused, Idle, disk, IInv, RunIsStored, Spent,
              DiskFollowsMemory, UnissuedIsUnknown, OperationInv
<1> QED BY <1>1, <1>2, <1>3, <1>4 DEF Evaluate

\* Storing a new grant under an id that was never handed out.
LEMMA NewGrantInv ==
    ASSUME IInv, NEW g \in Grants, g \notin issued,
           NEW rec \in GrantRecords, grants' = [grants EXCEPT ![g] = rec],
           issued \subseteq issued', g \in issued',
           UNCHANGED <<dgrants, runs>>
    PROVE  /\ (RunIsStored /\ DiskFollowsMemory /\ UnissuedIsUnknown)'
           /\ grants'[g] # None
<1>1. runs[g] = 0 /\ dgrants[g] = None
  BY DEF IInv, UnissuedIsUnknown, RunIsStored, Spent
<1>2. grants'[g] = rec /\ \A h \in Grants : h # g => grants'[h] = grants[h]
  BY DEF IInv, TypeOK
<1>3. rec # None
  BY ConstantsAssumption
<1> QED BY <1>1, <1>2, <1>3
        DEF IInv, RunIsStored, Spent, DiskFollowsMemory, UnissuedIsUnknown

\* The invariant is kept by every step.
LEMMA InvStep == IInv /\ [Next]_vars => IInv'
<1> SUFFICES ASSUME IInv, [Next]_vars
             PROVE  (RunIsStored /\ DiskFollowsMemory /\ UnissuedIsUnknown /\ OperationInv)'
  BY TypeStep DEF IInv
<1> DEFINE Goal == (RunIsStored /\ DiskFollowsMemory /\ UnissuedIsUnknown /\ OperationInv)'
<1>1. ASSUME NEW req \in Requests, Execute(req) PROVE Goal
  BY <1>1, EvaluateInv DEF Execute, history
<1>2. ASSUME NEW c \in Confirmations, NEW req \in Requests, ExecuteBatchMember(c, req)
      PROVE Goal
  <2>1. PICK g \in Grants :
           /\ g \notin issued
           /\ grants' = [grants EXCEPT ![g] = NewGrant(c, req)]
           /\ issued' = issued \cup {g, req.inv}
           /\ op' = [stage |-> "batch_grant", conf |-> c, grant |-> g, req |-> req]
    BY <1>2 DEF ExecuteBatchMember, Begin, Fresh
  <2>2. UNCHANGED <<pending, dgrants, runs>>
    BY <1>2 DEF ExecuteBatchMember, disk, history
  <2>3. RunIsStored' /\ DiskFollowsMemory' /\ UnissuedIsUnknown' /\ grants'[g] # None
    BY <2>1, <2>2, NewGrantType, NewGrantInv
  <2> QED BY <2>1, <2>3 DEF OperationInv
<1>3. CASE EvaluateBatchMember
  BY <1>3, EvaluateInv DEF EvaluateBatchMember, IInv, OperationInv, history
<1>4. ASSUME NEW c \in Confirmations, Approve(c) PROVE Goal
  <2>1. pending[c] \in PendingRecords
    BY <1>4 DEF Approve, Live, IInv, TypeOK
  <2>2. pending[c].request \in Requests
    BY <2>1 DEF PendingRecords
  <2>3. CASE ~pending[c].resolved
    <3>1. PICK g \in Grants :
             /\ g \notin issued
             /\ grants' = [grants EXCEPT ![g] = NewGrant(c, pending[c].request)]
             /\ issued' = issued \cup {g}
             /\ op' = [stage |-> "approve_pending", conf |-> c, grant |-> g, req |-> None]
      BY <1>4, <2>3 DEF Approve, Begin, Fresh
    <3>2. UNCHANGED <<dgrants, runs>>
      BY <1>4 DEF Approve, disk, history
    <3>3. RunIsStored' /\ DiskFollowsMemory' /\ UnissuedIsUnknown' /\ grants'[g] # None
      BY <2>2, <3>1, <3>2, NewGrantType, NewGrantInv
    <3>4. pending'[c] \in PendingRecords
      <4>1. pending' = [pending EXCEPT ![c].resolved = TRUE, ![c].approved = TRUE]
        BY <1>4, <2>3 DEF Approve
      <4>2. pending'[c] = [[pending[c] EXCEPT !.resolved = TRUE] EXCEPT !.approved = TRUE]
        BY <4>1 DEF IInv, TypeOK
      <4> QED BY <4>2, <2>1 DEF PendingRecords
    <3> QED BY <3>1, <3>3, <3>4, ConstantsAssumption DEF OperationInv
  <2>4. CASE pending[c].resolved
    BY <1>4, <2>1, <2>4 DEF Approve, Live, Begin, disk, history, IInv, RunIsStored, Spent,
              DiskFollowsMemory, UnissuedIsUnknown, OperationInv
  <2> QED BY <2>3, <2>4
<1>5. ASSUME NEW c \in Confirmations, Deny(c) PROVE Goal
  <2>1. pending[c] \in PendingRecords
    BY <1>5 DEF Deny, IInv, TypeOK
  <2>2. pending'[c] \in PendingRecords
    BY <1>5, <2>1 DEF Deny, IInv, TypeOK, PendingRecords
  <2> QED BY <1>5, <2>2, ConstantsAssumption
          DEF Deny, Begin, disk, history, IInv, RunIsStored, Spent,
              DiskFollowsMemory, UnissuedIsUnknown, OperationInv
<1>6. ASSUME NEW c \in Confirmations, Expire(c) PROVE Goal
  BY <1>6 DEF Expire, memory, disk, history, IInv, RunIsStored, Spent,
              DiskFollowsMemory, UnissuedIsUnknown, OperationInv
<1>7. ASSUME NEW g \in Grants, Revoke(g) PROVE Goal
  <2>1. grants[g] \in GrantRecords
    BY <1>7 DEF Revoke, IInv, TypeOK
  <2>2. /\ grants'[g] \in GrantRecords /\ grants'[g].uses = grants[g].uses
        /\ \A h \in Grants : h # g => grants'[h] = grants[h]
    BY <1>7, <2>1 DEF Revoke, IInv, TypeOK, GrantRecords
  <2>3. grants'[g] # None
    BY <2>2, ConstantsAssumption
  <2>4. /\ op' = [stage |-> "revoke_grant", conf |-> grants[g].conf, grant |-> g, req |-> None]
        /\ UNCHANGED <<issued, dgrants, runs>>
    BY <1>7 DEF Revoke, Begin, disk, history
  <2> QED BY <1>7, <2>2, <2>3, <2>4
          DEF Revoke, IInv, RunIsStored, Spent, DiskFollowsMemory, UnissuedIsUnknown, OperationInv
<1>8. CASE PersistPending
  BY <1>8 DEF PersistPending, Idle, memory, IInv, TypeOK, RunIsStored, Spent,
              DiskFollowsMemory, UnissuedIsUnknown, OperationInv
<1>9. CASE PersistGrant
  <2>1. /\ op.grant \in Grants /\ grants[op.grant] # None
        /\ dgrants' = [dgrants EXCEPT ![op.grant] = grants[op.grant]]
        /\ UNCHANGED <<pending, grants, issued, runs>>
    BY <1>9 DEF PersistGrant, StoredGrant, memory, IInv, OperationInv
  <2>2. /\ dgrants'[op.grant] = grants[op.grant]
        /\ \A h \in Grants : h # op.grant => dgrants'[h] = dgrants[h]
    BY <2>1 DEF IInv, TypeOK
  <2>3. RunIsStored' /\ DiskFollowsMemory' /\ UnissuedIsUnknown'
    BY <2>1, <2>2 DEF IInv, RunIsStored, Spent, DiskFollowsMemory, UnissuedIsUnknown
  <2>4. OperationInv'
    <3>1. CASE op.stage = "batch_grant"
      BY <1>9, <2>1, <3>1 DEF PersistGrant, OperationInv, IInv, TypeOK
    <3>2. CASE op.stage = "consume_grant"
      BY <1>9, <2>1, <2>2, <3>2 DEF PersistGrant, OperationInv, IInv, TypeOK, Spent
    <3>3. CASE op.stage \notin {"batch_grant", "consume_grant"}
      BY <1>9, <3>3 DEF PersistGrant, OperationInv, Idle
    <3> QED BY <3>1, <3>2, <3>3
  <2> QED BY <2>3, <2>4
<1>10. CASE WriteFails
  BY <1>10 DEF WriteFails, Idle, memory, disk, history, IInv, RunIsStored, Spent,
              DiskFollowsMemory, UnissuedIsUnknown, OperationInv
<1>11. CASE Run
  <2>1. RunIsStored'
    BY <1>11 DEF Run, memory, disk, IInv, TypeOK, OperationInv, RunIsStored, Spent
  <2> QED BY <1>11, <2>1 DEF Run, Idle, memory, disk, IInv,
              DiskFollowsMemory, UnissuedIsUnknown, OperationInv
<1>12. CASE CrashAndRestart
  BY <1>12 DEF CrashAndRestart, Idle, IInv, RunIsStored, Spent,
              DiskFollowsMemory, UnissuedIsUnknown, OperationInv
<1>13. CASE UNCHANGED vars
  BY <1>13 DEF vars, IInv, RunIsStored, Spent, DiskFollowsMemory, UnissuedIsUnknown,
              OperationInv
<1> QED
  BY <1>1, <1>2, <1>3, <1>4, <1>5, <1>6, <1>7, <1>8, <1>9, <1>10, <1>11, <1>12, <1>13
  DEF Next

LEMMA IInvInit == Init => IInv
<1> SUFFICES ASSUME Init PROVE IInv
  OBVIOUS
<1>1. TypeOK
  BY DEF Init, Idle, TypeOK, Stages
<1>2. RunIsStored /\ DiskFollowsMemory /\ UnissuedIsUnknown
  BY DEF Init, RunIsStored, DiskFollowsMemory, UnissuedIsUnknown
<1>3. OperationInv
  BY DEF Init, Idle, OperationInv
<1> QED BY <1>1, <1>2, <1>3 DEF IInv

\* The invariant holds of every behaviour.
THEOREM Invariance == Spec => []IInv
BY IInvInit, InvStep, PTL DEF Spec

\* Every record the gateway keeps, in memory and on disk, is well formed.
THEOREM TypeCorrect == Spec => []TypeOK
<1>1. IInv => TypeOK
  BY DEF IInv
<1> QED BY <1>1, Invariance, PTL

\* However calls are resumed, writes fail and the process restarts, one grant
\* starts at most one tool run.
THEOREM AtMostOneRunPerGrant == Spec => []OneRunPerGrant
<1>1. IInv => OneRunPerGrant
  BY DEF IInv, TypeOK, RunIsStored, OneRunPerGrant
<1> QED BY <1>1, Invariance, PTL

-----------------------------------------------------------------------------
(* Revocation.                                                             *)

\* An answered revocation is in memory and on disk: a crash reloads it.
RevokedStays == \A g \in revoked : /\ grants[g] # None /\ grants[g].revoked
                                   /\ dgrants[g] # None /\ dgrants[g].revoked

\* The grant being stored as revoked is revoked in memory.
Revoking == op.stage = "revoke_grant" => grants[op.grant].revoked

\* The grant a tool is about to start on is not revoked.
Starting == op.stage \in {"consume_grant", "run"} /\ op.grant # None =>
                ~grants[op.grant].revoked

RevocationInv == RevokedStays /\ Revoking /\ Starting

\* An evaluation marks a grant used; it revokes none and brings none back.
LEMMA EvaluateRevocation ==
    ASSUME IInv, RevocationInv, NEW req \in Requests, Evaluate(req),
           UNCHANGED <<disk, revoked>>
    PROVE  RevocationInv'
<1> USE ConstantsAssumption
<1>1. CASE Consume(req)
  <2>1. PICK g \in Grants :
           /\ Matches(g, req)
           /\ grants' = [grants EXCEPT ![g].uses = @ + 1]
           /\ Begin("consume_grant", grants[g].conf, g, req)
    BY <1>1 DEF Consume
  <2>2. grants[g] \in GrantRecords /\ ~grants[g].revoked
    BY <2>1 DEF Matches, Usable, IInv, TypeOK
  <2>3. ~grants'[g].revoked /\ \A h \in Grants : h # g => grants'[h] = grants[h]
    BY <2>1, <2>2 DEF IInv, TypeOK, GrantRecords
  <2>4. g \notin revoked /\ revoked \subseteq Grants
    BY <2>2 DEF RevocationInv, RevokedStays, IInv, TypeOK
  <2> QED BY <2>1, <2>3, <2>4 DEF RevocationInv, RevokedStays, Revoking, Starting, Begin, disk
<1>2. CASE AllowedByPolicy(req) \/ Ask(req) \/ Refused(req)
  BY <1>2 DEF AllowedByPolicy, Ask, Refused, Begin, Idle, disk,
              RevocationInv, RevokedStays, Revoking, Starting
<1> QED BY <1>1, <1>2 DEF Evaluate

\* A grant stored under a fresh id is none of the revoked ones.
LEMMA NewGrantRevocation ==
    ASSUME IInv, RevocationInv, NEW g \in Grants \ issued, NEW rec,
           grants' = [grants EXCEPT ![g] = rec], UNCHANGED <<dgrants, revoked>>
    PROVE  RevokedStays'
<1>1. g \notin revoked /\ revoked \subseteq Grants
  BY DEF IInv, TypeOK, UnissuedIsUnknown, RevocationInv, RevokedStays
<1> QED BY <1>1 DEF IInv, TypeOK, RevocationInv, RevokedStays

\* Every step keeps what is known of revoked grants.
LEMMA RevocationStep == IInv /\ RevocationInv /\ [Next]_vars => RevocationInv'
<1> SUFFICES ASSUME IInv, RevocationInv, [Next]_vars PROVE RevocationInv'
  OBVIOUS
<1> USE ConstantsAssumption
<1>1. ASSUME NEW req \in Requests, Execute(req) PROVE RevocationInv'
  BY <1>1, EvaluateRevocation DEF Execute, history
<1>2. ASSUME NEW c \in Confirmations, NEW req \in Requests, ExecuteBatchMember(c, req)
      PROVE RevocationInv'
  <2>1. PICK g \in Grants \ issued :
           /\ grants' = [grants EXCEPT ![g] = NewGrant(c, req)]
           /\ Begin("batch_grant", c, g, req)
    BY <1>2 DEF ExecuteBatchMember, Fresh
  <2>2. UNCHANGED <<dgrants, revoked>>
    BY <1>2 DEF ExecuteBatchMember, disk, history
  <2>3. RevokedStays'
    BY <2>1, <2>2, NewGrantRevocation
  <2> QED BY <2>1, <2>3 DEF Begin, RevocationInv, Revoking, Starting
<1>3. CASE EvaluateBatchMember
  BY <1>3, EvaluateRevocation DEF EvaluateBatchMember, IInv, OperationInv, history
<1>4. ASSUME NEW c \in Confirmations, Approve(c) PROVE RevocationInv'
  <2>1. UNCHANGED <<dgrants, revoked>> /\ op'.stage = "approve_pending"
    BY <1>4 DEF Approve, Begin, disk, history
  <2>2. CASE ~pending[c].resolved
    <3>1. PICK g \in Grants \ issued :
             grants' = [grants EXCEPT ![g] = NewGrant(c, pending[c].request)]
      BY <1>4, <2>2 DEF Approve, Fresh
    <3>2. RevokedStays'
      BY <2>1, <3>1, NewGrantRevocation
    <3> QED BY <2>1, <3>2 DEF RevocationInv, Revoking, Starting
  <2>3. CASE pending[c].resolved
    BY <1>4, <2>1, <2>3 DEF Approve, RevocationInv, RevokedStays, Revoking, Starting
  <2> QED BY <2>2, <2>3
<1>5. ASSUME NEW c \in Confirmations, Deny(c) \/ Expire(c) PROVE RevocationInv'
  BY <1>5 DEF Deny, Expire, Begin, memory, disk, history,
              RevocationInv, RevokedStays, Revoking, Starting
<1>6. ASSUME NEW g \in Grants, Revoke(g) PROVE RevocationInv'
  <2>1. grants[g] \in GrantRecords
    BY <1>6 DEF Revoke, IInv, TypeOK
  <2>2. grants'[g] \in GrantRecords /\ grants'[g].revoked
    BY <1>6, <2>1 DEF Revoke, IInv, TypeOK, GrantRecords
  <2>3. \A h \in Grants : h # g => grants'[h] = grants[h]
    BY <1>6 DEF Revoke, IInv, TypeOK
  <2>4. /\ op' = [stage |-> "revoke_grant", conf |-> grants[g].conf, grant |-> g, req |-> None]
        /\ UNCHANGED <<dgrants, revoked>> /\ revoked \subseteq Grants
    BY <1>6 DEF Revoke, Begin, disk, history, IInv, TypeOK
  <2> QED BY <2>2, <2>3, <2>4 DEF RevocationInv, RevokedStays, Revoking, Starting
<1>7. CASE PersistPending
  BY <1>7 DEF PersistPending, Idle, memory, RevocationInv, RevokedStays, Revoking, Starting
<1>8. CASE PersistGrant
  <2>1. /\ op.grant \in Grants /\ grants[op.grant] # None
        /\ dgrants' = [dgrants EXCEPT ![op.grant] = grants[op.grant]]
        /\ UNCHANGED grants /\ revoked \subseteq Grants
    BY <1>8 DEF PersistGrant, StoredGrant, memory, IInv, TypeOK, OperationInv
  <2>2. RevokedStays'
    BY <1>8, <2>1 DEF PersistGrant, IInv, TypeOK, RevocationInv, RevokedStays, Revoking
  <2>3. Revoking' /\ Starting'
    <3>1. CASE op.stage \in {"batch_grant", "consume_grant"}
      BY <1>8, <2>1, <3>1 DEF PersistGrant, IInv, TypeOK, RevocationInv, Revoking, Starting
    <3>2. CASE op.stage \notin {"batch_grant", "consume_grant"}
      BY <1>8, <3>2 DEF PersistGrant, Idle, Revoking, Starting
    <3> QED BY <3>1, <3>2
  <2> QED BY <2>2, <2>3 DEF RevocationInv
<1>9. CASE WriteFails \/ Run
  BY <1>9 DEF WriteFails, Run, Idle, memory, disk, history,
              RevocationInv, RevokedStays, Revoking, Starting
<1>10. CASE CrashAndRestart
  BY <1>10 DEF CrashAndRestart, Idle, RevocationInv, RevokedStays, Revoking, Starting
<1>11. CASE UNCHANGED vars
  BY <1>11 DEF vars, RevocationInv, RevokedStays, Revoking, Starting
<1> QED
  BY <1>1, <1>2, <1>3, <1>4, <1>5, <1>6, <1>7, <1>8, <1>9, <1>10, <1>11 DEF Next

\* An answered revocation is in memory and on disk, and no step under way forgets it.
THEOREM RevocationInvariance == Spec => [](IInv /\ RevocationInv)
<1>1. Init => RevocationInv
  BY DEF Init, Idle, RevocationInv, RevokedStays, Revoking, Starting
<1> QED BY <1>1, Invariance, RevocationStep, PTL DEF Spec

\* Once a revocation is stored and answered, no tool starts on the grant, in
\* this process or after any number of restarts.
THEOREM NothingRunsAfterRevocation == Spec => NoRunAfterRevocation
<1>1. IInv /\ RevocationInv /\ [Next]_vars =>
          [\A g \in revoked : runs'[g] = runs[g]]_vars
  <2> SUFFICES ASSUME IInv, RevocationInv, [Next]_vars, NEW g \in revoked
               PROVE  runs'[g] = runs[g]
    OBVIOUS
  <2>1. CASE Run
    <3>1. op.grant # None => g # op.grant
      BY <2>1 DEF Run, RevocationInv, RevokedStays, Starting
    <3> QED BY <2>1, <3>1 DEF Run, IInv, TypeOK
  <2>2. CASE ~Run
    BY <2>2 DEF Next, vars, history, Execute, ExecuteBatchMember, EvaluateBatchMember,
                Approve, Deny, Expire, Revoke, PersistPending, PersistGrant, WriteFails,
                CrashAndRestart
  <2> QED BY <2>1, <2>2
<1> QED BY <1>1, RevocationInvariance, PTL DEF Spec, NoRunAfterRevocation

-----------------------------------------------------------------------------
(* What runs is what was approved.                                         *)

\* The stored answer covers the grant: the same tool and, when the call is one
\* its owner can resume, the very call.
Backs(rec, grant) ==
    /\ rec # None /\ rec.resolved /\ rec.approved
    /\ Tool[grant.call] = Tool[rec.request.call]
    /\ grant.inv \in Invocations => grant.call = rec.request.call

Unspent(grant) == grant # None /\ grant.uses = 0 /\ ~grant.revoked

\* A grant a resumed call could use is covered, in memory and after a reload.
\* Only there: when the write of an approval fails and the process then dies, a
\* batch member's grant on disk has outlived the answer it came from.
MemoryIsBacked ==
    \A g \in Grants : Unspent(grants[g]) /\ grants[g].inv \in Invocations =>
        Backs(pending[grants[g].conf], grants[g])
DiskIsBacked ==
    \A g \in Grants : Unspent(dgrants[g]) /\ dgrants[g].inv \in Invocations =>
        Backs(dpending[dgrants[g].conf], dgrants[g])

\* An answer on disk is the answer in memory; an id never handed out has none.
PendingAgrees ==
    /\ \A c \in Confirmations \ issued : pending[c] = None
    /\ \A c \in Confirmations : dpending[c] # None =>
          /\ pending[c] # None
          /\ dpending[c].resolved => pending[c] = dpending[c]

\* A batch member's id that uuid4 has yet to make is in no record.
BatchIdsAreFresh ==
    \A b \in BatchInvocations \ issued :
        /\ \A g \in Grants : /\ grants[g] # None => grants[g].inv # b
                             /\ dgrants[g] # None => dgrants[g].inv # b
        /\ \A c \in Confirmations : /\ pending[c] # None => pending[c].request.inv # b
                                    /\ dpending[c] # None => dpending[c].request.inv # b

\* An approval in progress has settled its confirmation, first in memory, then
\* on disk.
Approving ==
    op.stage \in {"approve_pending", "approve_grant"} =>
        /\ op.conf \in Confirmations /\ grants[op.grant].conf = op.conf
        /\ pending[op.conf] # None /\ pending[op.conf].resolved /\ pending[op.conf].approved
        /\ op.stage = "approve_grant" => dpending[op.conf] = pending[op.conf]

\* A batch member in progress: the only grant with its id is covered.
Batching ==
    op.stage \in {"batch_grant", "batch_evaluate"} =>
        /\ op.req.inv \in BatchInvocations \cap issued
        /\ op.stage = "batch_grant" => grants[op.grant].inv = op.req.inv
        /\ \A g \in Grants : grants[g] # None /\ grants[g].inv = op.req.inv =>
              Backs(pending[grants[g].conf], grants[g])

\* The tool about to start is the granted one, and the grant is covered.
Running ==
    op.stage \in {"consume_grant", "run"} /\ op.grant # None =>
        /\ op.req.call = grants[op.grant].call
        /\ Backs(pending[grants[op.grant].conf], grants[op.grant])
        /\ op.stage = "run" => dgrants[op.grant] = grants[op.grant]

Records == MemoryIsBacked /\ DiskIsBacked /\ PendingAgrees /\ BatchIdsAreFresh
Stands  == Approving /\ Batching /\ Running

ApprovalInv == Records /\ Stands

\* The whole of what is known when a step is taken.
AllInv == IInv /\ RevocationInv /\ ApprovalInv

\* A settled confirmation stays as it is until the process dies.
LEMMA SettledStays ==
    ASSUME AllInv, [Next]_vars, ~CrashAndRestart,
           NEW c \in Confirmations, pending[c] # None, pending[c].resolved
    PROVE  pending'[c] = pending[c]
<1> USE DEF AllInv, ApprovalInv, Records, IInv, TypeOK
<1>1. ASSUME NEW req \in Requests, Evaluate(req) PROVE pending'[c] = pending[c]
  <2>1. ASSUME NEW d \in Confirmations, Fresh(d) PROVE d # c
    BY <2>1 DEF Fresh, PendingAgrees
  <2> QED BY <1>1, <2>1 DEF Evaluate, Consume, AllowedByPolicy, Ask, Refused
<1>2. ASSUME NEW d \in Confirmations, Approve(d) PROVE pending'[c] = pending[c]
  BY <1>2 DEF Approve
<1>3. ASSUME NEW d \in Confirmations, Deny(d) PROVE pending'[c] = pending[c]
  BY <1>3 DEF Deny
<1>4. CASE EvaluateBatchMember
  BY <1>1, <1>4 DEF EvaluateBatchMember, OperationInv
<1> QED
  BY <1>1, <1>2, <1>3, <1>4 DEF Next, Execute, ExecuteBatchMember, Expire, Revoke,
     PersistPending, PersistGrant, WriteFails, Run, memory, vars

\* So what covers a grant goes on covering it.
LEMMA BackingStays ==
    ASSUME AllInv, [Next]_vars, ~CrashAndRestart,
           NEW c \in Confirmations, NEW grant, Backs(pending[c], grant)
    PROVE  Backs(pending'[c], grant)
BY SettledStays DEF Backs

\* An evaluation keeps the records covered, and what it starts is covered: by
\* the records when an owner resumes a call, by the operation in progress when
\* it is a batch member.
LEMMA EvaluateApproval ==
    ASSUME AllInv, [Next]_vars, ~CrashAndRestart, NEW req \in Requests, Evaluate(req),
           UNCHANGED disk,
           req.inv \in BatchInvocations => req.inv \in issued /\
              \A g \in Grants : grants[g] # None /\ grants[g].inv = req.inv =>
                 Backs(pending[grants[g].conf], grants[g])
    PROVE  ApprovalInv'
<1> USE ConstantsAssumption
<1>1. CASE Consume(req)
  <2>1. PICK g \in Grants :
           /\ Matches(g, req)
           /\ grants' = [grants EXCEPT ![g].uses = @ + 1]
           /\ op' = [stage |-> "consume_grant", conf |-> grants[g].conf,
                     grant |-> g, req |-> req]
    BY <1>1 DEF Consume, Begin
  <2>2. UNCHANGED <<pending, issued, dpending, dgrants>>
    BY <1>1 DEF Consume, disk
  <2>3. /\ grants[g] \in GrantRecords /\ Unspent(grants[g])
        /\ grants[g].inv = req.inv /\ grants[g].call = req.call
    BY <2>1 DEF Matches, Usable, Covers, AllInv, IInv, TypeOK, GrantRecords, Unspent
  <2>4. /\ grants'[g].conf = grants[g].conf /\ grants'[g].inv = grants[g].inv
        /\ grants'[g].call = grants[g].call /\ grants'[g].uses = 1
        /\ \A h \in Grants : h # g => grants'[h] = grants[h]
    <3>1. grants[g].uses = 0
      BY <2>3 DEF Unspent
    <3>2. /\ grants'[g] = [grants[g] EXCEPT !.uses = 1]
          /\ \A h \in Grants : h # g => grants'[h] = grants[h]
      BY <2>1, <3>1 DEF AllInv, IInv, TypeOK
    <3> QED BY <2>3, <3>2 DEF GrantRecords
  <2>5. Backs(pending[grants[g].conf], grants[g])
    BY <2>3 DEF AllInv, ApprovalInv, Records, MemoryIsBacked, Requests
  <2>6. Backs(pending'[grants'[g].conf], grants'[g])
    BY <2>2, <2>4, <2>5 DEF Backs
  <2>7. MemoryIsBacked' /\ DiskIsBacked' /\ PendingAgrees'
    BY <2>2, <2>4 DEF AllInv, ApprovalInv, Records, MemoryIsBacked, DiskIsBacked,
                      PendingAgrees, Unspent
  <2>8. BatchIdsAreFresh'
    BY <2>2, <2>3, <2>4 DEF AllInv, ApprovalInv, Records, BatchIdsAreFresh, Unspent
  <2>9. Stands'
    BY <2>1, <2>3, <2>4, <2>6 DEF Stands, Approving, Batching, Running
  <2> QED BY <2>7, <2>8, <2>9 DEF ApprovalInv, Records
<1>2. CASE AllowedByPolicy(req) \/ Refused(req)
  BY <1>2 DEF AllowedByPolicy, Refused, Begin, Idle, disk, AllInv, ApprovalInv, Records,
              MemoryIsBacked, DiskIsBacked, PendingAgrees, BatchIdsAreFresh,
              Stands, Approving, Batching, Running
<1>3. CASE Ask(req)
  <2> DEFINE rec == [request |-> req, resolved |-> FALSE, approved |-> FALSE]
  <2>1. PICK c \in Confirmations \ issued :
           /\ pending' = [pending EXCEPT ![c] = rec]
           /\ issued' = issued \cup {c}
           /\ op' = [stage |-> "ask_pending", conf |-> c, grant |-> None, req |-> req]
    BY <1>3 DEF Ask, Fresh, Begin
  <2>2. UNCHANGED <<grants, dpending, dgrants>>
    BY <1>3 DEF Ask, disk
  <2>3. rec # None
    <3>1. rec \in PendingRecords
      BY DEF PendingRecords
    <3> QED BY <3>1
  <2>4. pending'[c] = rec /\ \A d \in Confirmations : d # c => pending'[d] = pending[d]
    BY <2>1 DEF AllInv, IInv, TypeOK
  <2>5. pending[c] = None /\ dpending[c] = None
    BY <2>1 DEF AllInv, ApprovalInv, Records, PendingAgrees
  <2>6. MemoryIsBacked' /\ DiskIsBacked'
    BY <2>2, BackingStays DEF AllInv, ApprovalInv, Records, MemoryIsBacked, DiskIsBacked,
                               IInv, TypeOK, GrantRecords, Unspent
  <2>7. PendingAgrees'
    BY <2>1, <2>2, <2>3, <2>4, <2>5 DEF AllInv, ApprovalInv, Records, PendingAgrees
  <2>8. BatchIdsAreFresh'
    BY <2>1, <2>2, <2>4 DEF AllInv, ApprovalInv, Records, BatchIdsAreFresh, Requests
  <2>9. Stands'
    BY <2>1 DEF Stands, Approving, Batching, Running
  <2> QED BY <2>6, <2>7, <2>8, <2>9 DEF ApprovalInv, Records
<1> QED BY <1>1, <1>2, <1>3 DEF Evaluate

\* Storing a grant under a fresh id: the others stay as they are.
LEMMA NewGrantApproval ==
    ASSUME AllInv, [Next]_vars, ~CrashAndRestart,
           NEW g \in Grants \ issued, NEW rec \in GrantRecords,
           grants' = [grants EXCEPT ![g] = rec],
           issued \subseteq issued',
           rec.inv \in BatchInvocations => rec.inv \in issued',
           rec.inv \in Invocations => Backs(pending'[rec.conf], rec),
           \A c \in Confirmations : pending[c] # None =>
               pending'[c] # None /\ pending'[c].request = pending[c].request,
           \A c \in Confirmations : pending[c] = None => pending'[c] = None,
           UNCHANGED disk
    PROVE  Records' /\ grants'[g] = rec
<1> USE ConstantsAssumption
<1>1. grants'[g] = rec /\ \A h \in Grants : h # g => grants'[h] = grants[h]
  BY DEF AllInv, IInv, TypeOK
<1>2. \A h \in Grants : grants[h] # None => grants[h] \in GrantRecords
  BY DEF AllInv, IInv, TypeOK
<1>3. MemoryIsBacked'
  <2> SUFFICES ASSUME NEW h \in Grants, Unspent(grants'[h]), grants'[h].inv \in Invocations
               PROVE  Backs(pending'[grants'[h].conf], grants'[h])
    BY DEF MemoryIsBacked
  <2>1. CASE h # g
    <3>1. grants'[h] = grants[h] /\ grants[h].conf \in Confirmations
      BY <1>1, <1>2, <2>1 DEF Unspent, GrantRecords
    <3>2. Backs(pending[grants[h].conf], grants[h])
      BY <3>1 DEF AllInv, ApprovalInv, Records, MemoryIsBacked
    <3> QED BY <3>1, <3>2, BackingStays
  <2> QED BY <1>1, <2>1
<1>4. DiskIsBacked'
  BY DEF disk, AllInv, ApprovalInv, Records, DiskIsBacked
<1>5. PendingAgrees'
  <2>1. \A c \in Confirmations \ issued' : pending'[c] = None
    BY DEF AllInv, ApprovalInv, Records, PendingAgrees
  <2>2. ASSUME NEW c \in Confirmations, dpending[c] # None
        PROVE  pending'[c] # None /\ (dpending[c].resolved => pending'[c] = dpending[c])
    BY <2>2, SettledStays DEF AllInv, ApprovalInv, Records, PendingAgrees
  <2> QED BY <2>1, <2>2 DEF PendingAgrees, disk
<1>6. BatchIdsAreFresh'
  <2> SUFFICES ASSUME NEW b \in BatchInvocations \ issued'
               PROVE  /\ \A h \in Grants : /\ grants'[h] # None => grants'[h].inv # b
                                           /\ dgrants[h] # None => dgrants[h].inv # b
                      /\ \A c \in Confirmations :
                            /\ pending'[c] # None => pending'[c].request.inv # b
                            /\ dpending[c] # None => dpending[c].request.inv # b
    BY DEF BatchIdsAreFresh, disk
  <2>1. rec.inv # b /\ b \notin issued
    OBVIOUS
  <2> QED BY <1>1, <2>1 DEF AllInv, ApprovalInv, Records, BatchIdsAreFresh
<1> QED BY <1>1, <1>3, <1>4, <1>5, <1>6 DEF Records

\* A step that changes neither the grants nor the answers in memory.
LEMMA Elsewhere ==
    ASSUME AllInv, UNCHANGED <<pending, grants, dpending, dgrants, issued>>
    PROVE  Records'
BY DEF AllInv, ApprovalInv, Records, MemoryIsBacked, DiskIsBacked, PendingAgrees,
       BatchIdsAreFresh

\* Every step but a crash keeps the invariant.
LEMMA ApprovalStep == AllInv /\ [Next]_vars /\ ~CrashAndRestart => ApprovalInv'
<1> SUFFICES ASSUME AllInv, [Next]_vars, ~CrashAndRestart PROVE ApprovalInv'
  OBVIOUS
<1> USE ConstantsAssumption
<1>1. ASSUME NEW req \in Requests, Execute(req) PROVE ApprovalInv'
  BY <1>1, EvaluateApproval DEF Execute
<1>2. ASSUME NEW c \in Confirmations, NEW req \in Requests, ExecuteBatchMember(c, req)
      PROVE ApprovalInv'
  <2>1. PICK g \in Grants \ issued :
           /\ grants' = [grants EXCEPT ![g] = NewGrant(c, req)]
           /\ issued' = issued \cup {g, req.inv}
           /\ op' = [stage |-> "batch_grant", conf |-> c, grant |-> g, req |-> req]
    BY <1>2 DEF ExecuteBatchMember, Begin, Fresh
  <2>2. /\ pending[c] # None /\ pending[c].resolved /\ pending[c].approved
        /\ Tool[req.call] = Tool[pending[c].request.call]
        /\ req.inv \in BatchInvocations \ issued
        /\ UNCHANGED <<pending, dpending, dgrants>>
    BY <1>2 DEF ExecuteBatchMember, Live, Fresh, disk
  <2>3. Records' /\ grants'[g] = NewGrant(c, req)
    BY <2>1, <2>2, NewGrantType, NewGrantApproval DEF NewGrant, disk
  <2>4. Backs(pending'[c], NewGrant(c, req))
    BY <2>2 DEF Backs, NewGrant
  <2>5. \A h \in Grants : h # g /\ grants'[h] # None => grants'[h].inv # req.inv
    BY <2>1, <2>2 DEF AllInv, IInv, TypeOK, ApprovalInv, Records, BatchIdsAreFresh
  <2>6. Stands'
    BY <2>1, <2>2, <2>3, <2>4, <2>5 DEF Stands, Approving, Batching, Running, NewGrant
  <2> QED BY <2>3, <2>6 DEF ApprovalInv
<1>3. CASE EvaluateBatchMember
  <2>1. /\ op.req \in Requests /\ op.req.inv \in BatchInvocations \cap issued
        /\ \A g \in Grants : grants[g] # None /\ grants[g].inv = op.req.inv =>
              Backs(pending[grants[g].conf], grants[g])
    BY <1>3 DEF EvaluateBatchMember, AllInv, IInv, OperationInv, ApprovalInv, Stands, Batching
  <2> QED BY <1>3, <2>1, EvaluateApproval DEF EvaluateBatchMember
<1>4. ASSUME NEW c \in Confirmations, Approve(c) PROVE ApprovalInv'
  <2>1. pending[c] # None /\ pending[c] \in PendingRecords /\ pending[c].request \in Requests
    BY <1>4 DEF Approve, Live, AllInv, IInv, TypeOK, PendingRecords
  <2>2. UNCHANGED <<dpending, dgrants>>
    BY <1>4 DEF Approve, disk
  <2>3. CASE ~pending[c].resolved
    <3> DEFINE rec == NewGrant(c, pending[c].request)
    <3>1. PICK g \in Grants \ issued :
             /\ grants' = [grants EXCEPT ![g] = rec]
             /\ issued' = issued \cup {g}
             /\ op' = [stage |-> "approve_pending", conf |-> c, grant |-> g, req |-> None]
      BY <1>4, <2>3 DEF Approve, Begin, Fresh
    <3>2. /\ pending'[c] # None /\ pending'[c].resolved /\ pending'[c].approved
          /\ pending'[c].request = pending[c].request
          /\ \A d \in Confirmations : d # c => pending'[d] = pending[d]
      <4>1. pending' = [pending EXCEPT ![c].resolved = TRUE, ![c].approved = TRUE]
        BY <1>4, <2>3 DEF Approve
      <4>2. /\ pending'[c] = [[pending[c] EXCEPT !.resolved = TRUE] EXCEPT !.approved = TRUE]
            /\ \A d \in Confirmations : d # c => pending'[d] = pending[d]
        BY <4>1 DEF AllInv, IInv, TypeOK
      <4>3. pending'[c] \in PendingRecords
        BY <2>1, <4>2 DEF PendingRecords
      <4> QED BY <2>1, <4>2, <4>3 DEF PendingRecords
    <3>3. pending[c].request.inv \in BatchInvocations => pending[c].request.inv \in issued
      BY <2>1 DEF AllInv, ApprovalInv, Records, BatchIdsAreFresh
    <3>4. Backs(pending'[c], rec)
      BY <3>2 DEF Backs, NewGrant
    <3>5. rec.conf = c /\ rec.inv = pending[c].request.inv /\ rec \in GrantRecords
      BY <2>1, NewGrantType DEF NewGrant
    <3>6. Records' /\ grants'[g] = rec
      <4> HIDE DEF rec
      <4>1. /\ rec.inv \in Invocations => Backs(pending'[rec.conf], rec)
            /\ rec.inv \in BatchInvocations => rec.inv \in issued'
        BY <3>1, <3>3, <3>4, <3>5
      <4>2. \A d \in Confirmations : pending[d] # None =>
               pending'[d] # None /\ pending'[d].request = pending[d].request
        BY <3>2
      <4>3. \A d \in Confirmations : pending[d] = None => pending'[d] = None
        BY <2>1, <3>2
      <4>4. UNCHANGED disk /\ issued \subseteq issued'
        BY <2>2, <3>1 DEF disk
      <4> QED
        BY <3>1, <3>5, <4>1, <4>2, <4>3, <4>4, NewGrantApproval
    <3>7. Stands'
      BY <3>1, <3>2, <3>5, <3>6 DEF Stands, Approving, Batching, Running
    <3> QED BY <3>6, <3>7 DEF ApprovalInv
  <2>4. CASE pending[c].resolved
    <3>1. UNCHANGED <<pending, grants, issued>>
      BY <1>4, <2>4 DEF Approve
    <3>2. PICK g \in Grants :
             /\ grants[g].conf = c
             /\ op' = [stage |-> "approve_pending", conf |-> c, grant |-> g, req |-> None]
      BY <1>4, <2>4 DEF Approve, Begin
    <3>3. pending[c].approved
      BY <1>4, <2>4 DEF Approve
    <3> QED BY <2>1, <2>2, <2>4, <3>1, <3>2, <3>3, Elsewhere
            DEF ApprovalInv, Stands, Approving, Batching, Running
  <2> QED BY <2>3, <2>4
<1>5. ASSUME NEW c \in Confirmations, Deny(c) PROVE ApprovalInv'
  <2>1. pending[c] # None /\ pending[c] \in PendingRecords
    BY <1>5 DEF Deny, AllInv, IInv, TypeOK
  <2>2. /\ pending'[c] # None /\ pending'[c].request = pending[c].request
        /\ \A d \in Confirmations : d # c => pending'[d] = pending[d]
    <3>1. CASE pending[c].resolved
      BY <1>5, <2>1, <3>1 DEF Deny
    <3>2. CASE ~pending[c].resolved
      <4>1. /\ pending'[c] = [[pending[c] EXCEPT !.resolved = TRUE] EXCEPT !.approved = FALSE]
            /\ \A d \in Confirmations : d # c => pending'[d] = pending[d]
        BY <1>5, <3>2 DEF Deny, AllInv, IInv, TypeOK
      <4>2. pending'[c] \in PendingRecords /\ pending'[c].request = pending[c].request
        BY <2>1, <4>1 DEF PendingRecords
      <4> QED BY <4>1, <4>2
    <3> QED BY <3>1, <3>2
  <2>3. UNCHANGED <<grants, dpending, dgrants, issued>> /\ op'.stage = "deny_pending"
    BY <1>5 DEF Deny, Begin, disk
  <2>4. MemoryIsBacked' /\ DiskIsBacked'
    BY <2>3, BackingStays DEF AllInv, ApprovalInv, Records, MemoryIsBacked, DiskIsBacked,
                               IInv, TypeOK, GrantRecords, Unspent
  <2>5. PendingAgrees'
    BY <2>1, <2>2, <2>3, SettledStays DEF AllInv, ApprovalInv, Records, PendingAgrees
  <2>6. BatchIdsAreFresh'
    BY <2>1, <2>2, <2>3 DEF AllInv, ApprovalInv, Records, BatchIdsAreFresh
  <2>7. Stands'
    BY <2>3 DEF Stands, Approving, Batching, Running
  <2> QED BY <2>4, <2>5, <2>6, <2>7 DEF ApprovalInv, Records
<1>6. CASE \/ \E c \in Confirmations : Expire(c)
           \/ WriteFails \/ Run
           \/ UNCHANGED vars
  <2>1. UNCHANGED <<pending, grants, dpending, dgrants, issued>> /\ (op' = op \/ op' = Idle)
    BY <1>6 DEF Expire, WriteFails, Run, memory, disk, history, vars
  <2>2. Records'
    BY <2>1, Elsewhere
  <2>3. Stands'
    BY <2>1 DEF AllInv, ApprovalInv, Stands, Approving, Batching, Running, Idle
  <2> QED BY <2>2, <2>3 DEF ApprovalInv
<1>7. ASSUME NEW g \in Grants, Revoke(g) PROVE ApprovalInv'
  <2>1. grants[g] # None /\ grants[g] \in GrantRecords
    BY <1>7 DEF Revoke, AllInv, IInv, TypeOK
  <2>2. /\ grants'[g] = [grants[g] EXCEPT !.revoked = TRUE]
        /\ \A h \in Grants : h # g => grants'[h] = grants[h]
    BY <1>7 DEF Revoke, AllInv, IInv, TypeOK
  <2>3. grants'[g].revoked /\ grants'[g].inv = grants[g].inv
    BY <2>1, <2>2 DEF GrantRecords
  <2>4. UNCHANGED <<pending, dpending, dgrants, issued>> /\ op'.stage = "revoke_grant"
    BY <1>7 DEF Revoke, Begin, disk
  <2>5. MemoryIsBacked' /\ DiskIsBacked' /\ PendingAgrees'
    BY <2>2, <2>3, <2>4 DEF AllInv, ApprovalInv, Records, MemoryIsBacked, DiskIsBacked,
                            PendingAgrees, Unspent
  <2>6. BatchIdsAreFresh'
    <3>1. \A h \in Grants : grants'[h] # None =>
              grants[h] # None /\ grants'[h].inv = grants[h].inv
      BY <2>1, <2>2, <2>3
    <3> QED BY <2>4, <3>1 DEF AllInv, ApprovalInv, Records, BatchIdsAreFresh
  <2>7. Stands'
    BY <2>4 DEF Stands, Approving, Batching, Running
  <2> QED BY <2>5, <2>6, <2>7 DEF ApprovalInv, Records
<1>8. CASE PersistPending
  <2>1. /\ op.conf \in Confirmations /\ pending[op.conf] # None
        /\ dpending'[op.conf] = pending[op.conf]
        /\ \A c \in Confirmations : c # op.conf => dpending'[c] = dpending[c]
        /\ UNCHANGED <<pending, grants, dgrants, issued>>
    BY <1>8 DEF PersistPending, StoredPending, memory, AllInv, IInv, TypeOK, OperationInv
  <2>2. PendingAgrees'
    BY <2>1 DEF AllInv, ApprovalInv, Records, PendingAgrees
  <2>3. ASSUME NEW c \in Confirmations, NEW grant, Backs(dpending[c], grant)
        PROVE  Backs(dpending'[c], grant)
    BY <2>1, <2>3 DEF Backs, AllInv, ApprovalInv, Records, PendingAgrees
  <2>4. MemoryIsBacked' /\ DiskIsBacked'
    BY <2>1, <2>3 DEF AllInv, ApprovalInv, Records, MemoryIsBacked, DiskIsBacked,
                      IInv, TypeOK, GrantRecords, Unspent
  <2>5. BatchIdsAreFresh'
    BY <2>1 DEF AllInv, ApprovalInv, Records, BatchIdsAreFresh
  <2>6. Stands'
    <3>1. CASE op.stage = "approve_pending"
      <4>1. op' = [op EXCEPT !.stage = "approve_grant"]
        BY <1>8, <3>1 DEF PersistPending
      <4>2. op'.stage = "approve_grant" /\ op'.conf = op.conf /\ op'.grant = op.grant
        BY <4>1 DEF AllInv, IInv, TypeOK
      <4> QED BY <2>1, <3>1, <4>2
              DEF AllInv, ApprovalInv, Stands, Approving, Batching, Running
    <3>2. CASE op.stage # "approve_pending"
      BY <1>8, <3>2 DEF PersistPending, Idle, Stands, Approving, Batching, Running
    <3> QED BY <3>1, <3>2
  <2> QED BY <2>2, <2>4, <2>5, <2>6 DEF ApprovalInv, Records
<1>9. CASE PersistGrant
  <2>1. /\ op.grant \in Grants /\ grants[op.grant] # None
        /\ grants[op.grant] \in GrantRecords
        /\ dgrants'[op.grant] = grants[op.grant]
        /\ \A g \in Grants : g # op.grant => dgrants'[g] = dgrants[g]
        /\ UNCHANGED <<pending, grants, dpending, issued>>
    BY <1>9 DEF PersistGrant, StoredGrant, memory, AllInv, IInv, TypeOK, OperationInv
  <2>2. MemoryIsBacked' /\ PendingAgrees'
    BY <2>1 DEF AllInv, ApprovalInv, Records, MemoryIsBacked, PendingAgrees
  <2>3. BatchIdsAreFresh'
    BY <2>1 DEF AllInv, ApprovalInv, Records, BatchIdsAreFresh
  <2>4. Unspent(grants[op.grant]) /\ grants[op.grant].inv \in Invocations =>
            Backs(dpending[grants[op.grant].conf], grants[op.grant])
    <3>1. CASE op.stage = "approve_grant"
      BY <2>1, <3>1 DEF AllInv, ApprovalInv, Records, MemoryIsBacked, Stands, Approving
    <3>2. CASE op.stage = "revoke_grant"
      BY <3>2 DEF AllInv, RevocationInv, Revoking, Unspent
    <3>3. CASE op.stage = "batch_grant"
      BY <3>3 DEF AllInv, ApprovalInv, Stands, Batching
    <3>4. CASE op.stage = "consume_grant"
      BY <3>4 DEF AllInv, IInv, OperationInv, Unspent
    <3> QED BY <1>9, <3>1, <3>2, <3>3, <3>4 DEF PersistGrant
  <2>5. DiskIsBacked'
    BY <2>1, <2>4 DEF AllInv, ApprovalInv, Records, DiskIsBacked
  <2>6. Stands'
    <3>1. CASE op.stage = "batch_grant"
      <4>1. op' = [op EXCEPT !.stage = "batch_evaluate"]
        BY <1>9, <3>1 DEF PersistGrant
      <4>2. op'.stage = "batch_evaluate" /\ op'.req = op.req
        BY <4>1 DEF AllInv, IInv, TypeOK
      <4> QED BY <2>1, <3>1, <4>2
              DEF AllInv, ApprovalInv, Stands, Approving, Batching, Running
    <3>2. CASE op.stage = "consume_grant"
      <4>1. op' = [op EXCEPT !.stage = "run"]
        BY <1>9, <3>2 DEF PersistGrant
      <4>2. op'.stage = "run" /\ op'.req = op.req /\ op'.grant = op.grant
        BY <4>1 DEF AllInv, IInv, TypeOK
      <4>3. op.grant # None
        BY <2>1
      <4> QED BY <2>1, <3>2, <4>2, <4>3
              DEF AllInv, ApprovalInv, Stands, Approving, Batching, Running
    <3>3. CASE op.stage \notin {"batch_grant", "consume_grant"}
      BY <1>9, <3>3 DEF PersistGrant, Idle, Stands, Approving, Batching, Running
    <3> QED BY <3>1, <3>2, <3>3
  <2> QED BY <2>2, <2>3, <2>5, <2>6 DEF ApprovalInv, Records
<1> QED
  BY <1>1, <1>2, <1>3, <1>4, <1>5, <1>6, <1>7, <1>8, <1>9 DEF Next

\* A crash reloads what is on disk, which covers itself; the start-up denials
\* touch open waits only.
LEMMA CrashApproval == AllInv /\ CrashAndRestart => ApprovalInv'
<1> SUFFICES ASSUME AllInv, CrashAndRestart PROVE ApprovalInv'
  OBVIOUS
<1> USE ConstantsAssumption
<1>1. /\ \A c \in Confirmations : pending'[c] = AtStartup(dpending[c])
      /\ pending' = dpending' /\ grants' = dgrants /\ op' = Idle
      /\ UNCHANGED <<dgrants, issued>>
  BY DEF CrashAndRestart
<1>2. ASSUME NEW c \in Confirmations
      PROVE  /\ dpending[c] = None => pending'[c] = None
             /\ dpending[c] # None => /\ pending'[c] # None
                                      /\ pending'[c].request = dpending[c].request
             /\ dpending[c] # None /\ dpending[c].resolved => pending'[c] = dpending[c]
  <2>1. dpending[c] # None => dpending[c] \in PendingRecords
    BY DEF AllInv, IInv, TypeOK
  <2>2. ASSUME NEW rec \in PendingRecords
        PROVE  /\ [rec EXCEPT !.resolved = TRUE, !.approved = FALSE] \in PendingRecords
               /\ [rec EXCEPT !.resolved = TRUE, !.approved = FALSE].request = rec.request
    BY DEF PendingRecords
  <2> QED BY <1>1, <2>1, <2>2 DEF AtStartup
<1>3. MemoryIsBacked' /\ DiskIsBacked'
  BY <1>1, <1>2 DEF AllInv, ApprovalInv, Records, DiskIsBacked, MemoryIsBacked, Backs,
                    Unspent, IInv, TypeOK, GrantRecords
<1>4. PendingAgrees'
  BY <1>1, <1>2 DEF AllInv, ApprovalInv, Records, PendingAgrees
<1>5. BatchIdsAreFresh'
  BY <1>1, <1>2 DEF AllInv, ApprovalInv, Records, BatchIdsAreFresh
<1>6. Stands'
  BY <1>1 DEF Idle, Stands, Approving, Batching, Running
<1> QED BY <1>3, <1>4, <1>5, <1>6 DEF ApprovalInv, Records

\* The whole invariant is inductive, for this module and for the modules that
\* compose the gateway with its callers.
LEMMA InvInit == Init => AllInv
<1>1. Init => RevocationInv
  BY DEF Init, Idle, RevocationInv, RevokedStays, Revoking, Starting
<1>2. Init => ApprovalInv
  BY DEF Init, Idle, ApprovalInv, Records, MemoryIsBacked, DiskIsBacked, PendingAgrees,
         BatchIdsAreFresh, Unspent, Stands, Approving, Batching, Running
<1> QED
  BY <1>1, <1>2, IInvInit DEF AllInv

LEMMA AllStep == AllInv /\ [Next]_vars => AllInv'
<1>1. AllInv /\ [Next]_vars => IInv' /\ RevocationInv'
  BY InvStep, RevocationStep DEF AllInv
<1>2. AllInv /\ [Next]_vars => ApprovalInv'
  BY ApprovalStep, CrashApproval
<1> QED
  BY <1>1, <1>2 DEF AllInv

\* Behind every grant, in memory and on disk, is a question that was said yes to.
THEOREM ApprovalInvariance == Spec => []AllInv
BY InvInit, AllStep, PTL DEF Spec

\* A tool that starts on a grant is one the user was asked about and approved:
\* the same tool for a member of a batch, the very call otherwise.  No resumed
\* call, failed write, repeated approval or crash makes it run another.
THEOREM RunsOnlyWhatWasApproved == Spec => RunsWhatWasApproved
<1> DEFINE Approved(g) ==
       LET asked == pending[dgrants[g].conf] IN
       /\ asked # None /\ asked.resolved /\ asked.approved
       /\ Tool[op.req.call] = Tool[asked.request.call]
       /\ dgrants[g].inv \in Invocations => op.req.call = asked.request.call
<1>1. AllInv /\ [Next]_vars => [\A g \in Grants : runs'[g] # runs[g] => Approved(g)]_vars
  <2> SUFFICES ASSUME AllInv, [Next]_vars, NEW g \in Grants, runs'[g] # runs[g]
               PROVE  Approved(g)
    OBVIOUS
  <2>1. CASE Run
    <3>1. g = op.grant /\ op.grant # None /\ op.stage = "run"
      BY <2>1 DEF Run, AllInv, IInv, TypeOK
    <3>2. /\ op.req.call = grants[g].call /\ dgrants[g] = grants[g]
          /\ Backs(pending[grants[g].conf], grants[g])
      BY <3>1 DEF AllInv, ApprovalInv, Stands, Running
    <3> QED BY <3>2 DEF Backs
  <2>2. CASE ~Run
    BY <2>2 DEF Next, vars, history, Execute, ExecuteBatchMember, EvaluateBatchMember,
                Approve, Deny, Expire, Revoke, PersistPending, PersistGrant, WriteFails,
                CrashAndRestart
  <2> QED BY <2>1, <2>2
<1> QED BY <1>1, ApprovalInvariance, PTL DEF Spec, RunsWhatWasApproved

-----------------------------------------------------------------------------
(* The gateway implements Authorization.                                   *)

\* A refusal that was announced is on disk.
DeniedStays == \A c \in denied : /\ dpending[c] # None
                                 /\ dpending[c].resolved /\ ~dpending[c].approved

\* The confirmation being stored as denied is settled in memory.
Denying == op.stage = "deny_pending" => pending[op.conf].resolved

\* A grant belongs to the same confirmation in memory and on disk.
OwnersAgree == \A g \in Grants : dgrants[g] # None => dgrants[g].conf = grants[g].conf

PromiseInv == DeniedStays /\ Denying /\ OwnersAgree

-----------------------------------------------------------------------------
(* The invariant.                                                          *)

\* An evaluation changes the owner of no grant.
LEMMA EvaluateOwners ==
    ASSUME AllInv, NEW req \in Requests, Evaluate(req)
    PROVE  \A g \in Grants : (grants'[g] = None <=> grants[g] = None)
                          /\ (grants[g] # None => grants'[g].conf = grants[g].conf)
<1> USE ConstantsAssumption DEF AllInv, IInv, TypeOK
<1>1. CASE Consume(req)
  <2>1. PICK g \in Grants : /\ Matches(g, req)
                            /\ grants' = [grants EXCEPT ![g].uses = @ + 1]
    BY <1>1 DEF Consume
  <2>2. grants[g] \in GrantRecords
    BY <2>1 DEF Matches, Usable
  <2>3. grants'[g].conf = grants[g].conf /\ grants'[g] \in GrantRecords
    BY <2>1, <2>2 DEF Matches, Usable, GrantRecords
  <2> QED BY <2>1, <2>2, <2>3
<1>2. CASE ~Consume(req)
  BY <1>2 DEF Evaluate, AllowedByPolicy, Ask, Refused
<1> QED BY <1>1, <1>2

\* A refusal that is announced has been stored, and stays stored.
LEMMA DenialStep ==
    ASSUME AllInv, PromiseInv, [Next]_vars
    PROVE  DeniedStays' /\ Denying'
<1> USE ConstantsAssumption DEF AllInv, IInv, TypeOK, PromiseInv
<1>1. CASE PersistPending
  <2>1. ASSUME NEW c \in denied' PROVE /\ dpending'[c] # None
                                       /\ dpending'[c].resolved /\ ~dpending'[c].approved
    <3>1. op.conf \in Confirmations /\ pending[op.conf] # None
      BY <1>1 DEF PersistPending, OperationInv
    <3>2. dpending' = [dpending EXCEPT ![op.conf] = pending[op.conf]]
      BY <1>1 DEF PersistPending, StoredPending
    <3>3. CASE c \in denied
      BY <3>1, <3>2, <3>3 DEF DeniedStays, ApprovalInv, Records, PendingAgrees
    <3>4. CASE c \notin denied
      BY <1>1, <3>1, <3>2, <3>4 DEF PersistPending, Denying
    <3> QED BY <3>3, <3>4
  <2>2. Denying'
    BY <1>1 DEF PersistPending, Idle, Denying
  <2> QED BY <2>1, <2>2 DEF DeniedStays
<1>2. CASE CrashAndRestart
  <2>1. ASSUME NEW c \in Confirmations
        PROVE  \/ dpending'[c] = dpending[c]
               \/ dpending'[c] # None /\ dpending'[c].resolved /\ ~dpending'[c].approved
    <3>1. dpending[c] # None => dpending[c] \in PendingRecords
      OBVIOUS
    <3>2. ASSUME NEW rec \in PendingRecords \cup {None}
          PROVE  \/ AtStartup(rec) = rec
                 \/ /\ AtStartup(rec) \in PendingRecords
                    /\ AtStartup(rec).resolved /\ ~AtStartup(rec).approved
      BY DEF AtStartup, PendingRecords
    <3>3. dpending'[c] = AtStartup(dpending[c])
      BY <1>2 DEF CrashAndRestart
    <3> HIDE DEF AllInv, PromiseInv
    <3> QED BY <3>1, <3>2, <3>3
  <2>2. denied' = denied \cup { c \in Confirmations : dpending'[c] # dpending[c] }
    BY <1>2 DEF CrashAndRestart
  <2>3. DeniedStays'
    BY <2>1, <2>2 DEF DeniedStays
  <2>4. Denying'
    BY <1>2 DEF CrashAndRestart, Idle, Denying
  <2> QED BY <2>3, <2>4
<1>3. CASE ~PersistPending /\ ~CrashAndRestart
  <2>1. UNCHANGED <<dpending, denied>>
    BY <1>3 DEF Next, vars, disk, history, Execute, ExecuteBatchMember, EvaluateBatchMember,
                Approve, Deny, Expire, Revoke, PersistGrant, WriteFails, Run
  <2>2. Denying'
    <3>1. ASSUME NEW c \in Confirmations, Deny(c) PROVE Denying'
      <4>1. pending[c] \in PendingRecords
        BY <3>1 DEF Deny
      <4>2. pending'[c].resolved
        BY <3>1, <4>1 DEF Deny, PendingRecords
      <4> QED BY <3>1, <4>2 DEF Deny, Begin, Denying
    <3>2. ASSUME NEW req \in Requests, Evaluate(req) PROVE Denying'
      BY <3>2 DEF Evaluate, Consume, AllowedByPolicy, Ask, Refused, Begin, Idle, Denying
    <3>3. ASSUME NEW c \in Confirmations, Approve(c) PROVE Denying'
      BY <3>3 DEF Approve, Begin, Denying
    <3>4. CASE EvaluateBatchMember
      BY <3>2, <3>4 DEF EvaluateBatchMember, OperationInv
    <3> QED
      BY <1>3, <3>1, <3>2, <3>3, <3>4 DEF Next, vars, Execute, ExecuteBatchMember, Expire, Revoke,
         PersistGrant, WriteFails, Run, Begin, Idle, memory, Denying
  <2> QED BY <2>1, <2>2 DEF DeniedStays
<1> QED BY <1>1, <1>2, <1>3

\* What is stored of a grant names the confirmation it was given on.
LEMMA OwnersStep ==
    ASSUME AllInv, PromiseInv, [Next]_vars
    PROVE  OwnersAgree'
<1> USE ConstantsAssumption DEF AllInv, IInv, TypeOK, PromiseInv
<1>1. ASSUME NEW g \in Grants \ issued, NEW rec,
             grants' = [grants EXCEPT ![g] = rec], UNCHANGED dgrants
      PROVE  OwnersAgree'
  BY <1>1 DEF OwnersAgree, UnissuedIsUnknown
<1>2. ASSUME NEW req \in Requests, Evaluate(req), UNCHANGED dgrants PROVE OwnersAgree'
  BY <1>2, EvaluateOwners DEF OwnersAgree, DiskFollowsMemory
<1>3. ASSUME NEW req \in Requests, Execute(req) PROVE OwnersAgree'
  BY <1>2, <1>3 DEF Execute, disk
<1>4. ASSUME NEW c \in Confirmations, NEW req \in Requests, ExecuteBatchMember(c, req)
      PROVE OwnersAgree'
  BY <1>1, <1>4 DEF ExecuteBatchMember, Fresh, disk
<1>5. CASE EvaluateBatchMember
  BY <1>2, <1>5 DEF EvaluateBatchMember, OperationInv, disk
<1>6. ASSUME NEW c \in Confirmations, Approve(c) PROVE OwnersAgree'
  BY <1>1, <1>6 DEF Approve, Fresh, disk, OwnersAgree
<1>7. ASSUME NEW g \in Grants, Revoke(g) PROVE OwnersAgree'
  <2>1. grants[g] \in GrantRecords
    BY <1>7 DEF Revoke
  <2>2. grants'[g].conf = grants[g].conf
    BY <1>7, <2>1 DEF Revoke, GrantRecords
  <2> QED BY <1>7, <2>2 DEF Revoke, disk, OwnersAgree
<1>8. CASE PersistGrant
  BY <1>8 DEF PersistGrant, StoredGrant, memory, OwnersAgree, OperationInv
<1>9. CASE CrashAndRestart
  BY <1>9 DEF CrashAndRestart, OwnersAgree
<1>10. CASE UNCHANGED <<grants, dgrants>>
  BY <1>10 DEF OwnersAgree
<1> QED
  BY <1>3, <1>4, <1>5, <1>6, <1>7, <1>8, <1>9, <1>10 DEF Next, Deny, Expire, PersistPending,
     WriteFails, Run, vars, memory, disk

\* What the owner was told of a refusal, and who owns a grant, agrees in memory and on
\* disk.
THEOREM PromiseInvariance == Spec => [](AllInv /\ PromiseInv)
<1>1. Init => PromiseInv
  BY DEF Init, Idle, PromiseInv, DeniedStays, Denying, OwnersAgree
<1>2. AllInv /\ PromiseInv /\ [Next]_vars => PromiseInv'
  BY DenialStep, OwnersStep DEF PromiseInv
<1> QED BY <1>1, <1>2, ApprovalInvariance, PTL DEF Spec

-----------------------------------------------------------------------------
(* Each step, as Authorization sees it.                                    *)

OwnerOf(g) == IF grants[g] = None THEN None ELSE grants[g].conf

\* The answers and owners Authorization sees.
StatusMap == [c \in Confirmations |-> StatusOf(c)]
OwnerMap  == [g \in Grants |-> OwnerOf(g)]
SpentSet  == { g \in Grants : runs[g] > 0 }

\* A step in which the answers in memory stay the same.
LEMMA SameAnswers ==
    ASSUME UNCHANGED pending, \A c \in Confirmations : c \in issued' <=> c \in issued
    PROVE  UNCHANGED StatusMap
BY DEF StatusMap, StatusOf, Fresh

\* A step in which one confirmation's answer changes.
LEMMA OneAnswer ==
    ASSUME AllInv, NEW c \in Confirmations, NEW rec,
           pending' = [pending EXCEPT ![c] = rec],
           \A d \in Confirmations \ {c} : d \in issued' <=> d \in issued
    PROVE  StatusMap' = [StatusMap EXCEPT ![c] = StatusOf(c)']
BY DEF StatusMap, StatusOf, Fresh, AllInv, IInv, TypeOK

\* A step in which one grant is created.
LEMMA OneOwner ==
    ASSUME AllInv, NEW g \in Grants, NEW rec \in GrantRecords,
           grants' = [grants EXCEPT ![g] = rec]
    PROVE  OwnerMap' = [OwnerMap EXCEPT ![g] = rec.conf]
BY ConstantsAssumption DEF OwnerMap, OwnerOf, AllInv, IInv, TypeOK

LEMMA SameOwners ==
    ASSUME \A g \in Grants : (grants'[g] = None <=> grants[g] = None)
                          /\ (grants[g] # None => grants'[g].conf = grants[g].conf)
    PROVE  UNCHANGED OwnerMap
BY DEF OwnerMap, OwnerOf

\* A grant nobody has been given has started nothing.
LEMMA UnissuedIsUnspent ==
    ASSUME AllInv, NEW g \in Grants \ issued
    PROVE  grants[g] = None /\ g \notin SpentSet
BY DEF AllInv, IInv, TypeOK, UnissuedIsUnknown, RunIsStored, Spent, SpentSet

-----------------------------------------------------------------------------
(* The steps of Authorization, in the terms of the gateway.                *)

LEMMA Stutters ==
    ASSUME UNCHANGED <<StatusMap, OwnerMap, SpentSet, denied>>
    PROVE  UNCHANGED Promise!vars
BY DEF Promise!vars, StatusMap, OwnerMap, OwnerOf, SpentSet

LEMMA Asks ==
    ASSUME NEW c \in Confirmations, StatusOf(c) = "new",
           StatusMap' = [StatusMap EXCEPT ![c] = "open"],
           UNCHANGED <<OwnerMap, SpentSet, denied>>
    PROVE  Promise!Next
<1>1. Promise!Ask(c)
  BY DEF Promise!Ask, StatusMap, OwnerMap, OwnerOf, SpentSet
<1> QED BY <1>1 DEF Promise!Next

LEMMA Approves ==
    ASSUME NEW c \in Confirmations, NEW g \in Grants \ SpentSet,
           StatusOf(c) = "open", OwnerOf(g) = None,
           StatusMap' = [StatusMap EXCEPT ![c] = "approved"],
           OwnerMap' = [OwnerMap EXCEPT ![g] = c],
           UNCHANGED <<SpentSet, denied>>
    PROVE  Promise!Next
<1>1. Promise!Approve(c, g)
  BY DEF Promise!Approve, StatusMap, OwnerMap, OwnerOf, SpentSet
<1> QED BY <1>1 DEF Promise!Next

LEMMA Shares ==
    ASSUME NEW c \in Confirmations, NEW g \in Grants \ SpentSet,
           StatusOf(c) = "approved", OwnerOf(g) = None,
           OwnerMap' = [OwnerMap EXCEPT ![g] = c],
           UNCHANGED <<StatusMap, SpentSet, denied>>
    PROVE  Promise!Next
<1>1. Promise!Share(c, g)
  BY DEF Promise!Share, StatusMap, OwnerMap, OwnerOf, SpentSet
<1> QED BY <1>1 DEF Promise!Next

LEMMA Refuses ==
    ASSUME NEW c \in Confirmations, StatusOf(c) = "open",
           StatusMap' = [StatusMap EXCEPT ![c] = "refused"],
           UNCHANGED <<OwnerMap, SpentSet, denied>>
    PROVE  Promise!Next
<1>1. Promise!Refuse(c)
  BY DEF Promise!Refuse, StatusMap, OwnerMap, OwnerOf, SpentSet
<1> QED BY <1>1 DEF Promise!Next

LEMMA Tells ==
    ASSUME NEW c \in Confirmations, StatusOf(c) = "refused",
           denied' = denied \cup {c},
           UNCHANGED <<StatusMap, OwnerMap, SpentSet>>
    PROVE  Promise!Next
<1>1. Promise!TellRefusal(c)
  BY DEF Promise!TellRefusal, StatusMap, OwnerMap, OwnerOf, SpentSet
<1> QED BY <1>1 DEF Promise!Next

LEMMA Spends ==
    ASSUME NEW g \in Grants \ SpentSet,
           OwnerOf(g) \in Confirmations, OwnerOf(g) # None, StatusOf(OwnerOf(g)) = "approved",
           SpentSet' = SpentSet \cup {g},
           UNCHANGED <<StatusMap, OwnerMap, denied>>
    PROVE  Promise!Next
<1>1. Promise!Spend(g)
  BY DEF Promise!Spend, StatusMap, OwnerMap, OwnerOf, SpentSet
<1> QED BY <1>1 DEF Promise!Next

LEMMA Restarts ==
    ASSUME \A c \in Confirmations : StatusOf(c)' \in Promise!Reload(StatusOf(c)),
           \A g \in Grants : OwnerOf(g)' \in {OwnerOf(g), None},
           \A c \in Confirmations : StatusOf(c)' \in Promise!Status,
           \A g \in Grants : OwnerOf(g)' \in Confirmations \cup {None},
           denied \subseteq denied', denied' \subseteq Confirmations,
           \A c \in denied' : StatusOf(c)' = "refused",
           UNCHANGED SpentSet
    PROVE  Promise!Next
<1>1. Promise!Restart
  BY DEF Promise!Restart, StatusMap, OwnerMap, OwnerOf, SpentSet
<1> QED BY <1>1 DEF Promise!Next

-----------------------------------------------------------------------------
(* Every step of the gateway is one of them.                               *)

PromiseStep == [Promise!Next]_(Promise!vars)

\* An evaluation that asks opens a confirmation, any other shows nothing.
LEMMA EvaluateKeeps ==
    ASSUME AllInv, NEW req \in Requests, Evaluate(req), UNCHANGED <<runs, denied>>
    PROVE  PromiseStep
<1>1. UNCHANGED <<OwnerMap, SpentSet>>
  BY EvaluateOwners, SameOwners DEF SpentSet
<1>2. CASE Ask(req)
  <2>1. PICK c \in Confirmations :
           /\ Fresh(c)
           /\ pending' = [pending EXCEPT ![c] = [request |-> req, resolved |-> FALSE,
                                                 approved |-> FALSE]]
           /\ issued' = issued \cup {c}
    BY <1>2 DEF Ask
  <2>2. pending[c] = None
    BY <2>1 DEF Fresh, AllInv, ApprovalInv, Records, PendingAgrees
  <2>3. StatusOf(c) = "new"
    BY <2>1, <2>2 DEF StatusOf
  <2>4. StatusMap' = [StatusMap EXCEPT ![c] = StatusOf(c)']
    BY <2>1, OneAnswer
  <2>5. StatusOf(c)' = "open"
    <3>1. pending'[c] = [request |-> req, resolved |-> FALSE, approved |-> FALSE]
      BY <2>1 DEF AllInv, IInv, TypeOK
    <3>2. pending'[c] \in PendingRecords /\ ~pending'[c].resolved
      BY <3>1 DEF PendingRecords
    <3> QED BY <3>2, ConstantsAssumption DEF StatusOf
  <2> QED BY <1>1, <2>3, <2>4, <2>5, Asks DEF PromiseStep
<1>3. CASE Consume(req) \/ AllowedByPolicy(req) \/ Refused(req)
  <2>1. UNCHANGED <<pending, issued>>
    BY <1>3 DEF Consume, AllowedByPolicy, Refused
  <2>2. UNCHANGED StatusMap
    BY <2>1, SameAnswers
  <2> QED BY <1>1, <2>2, Stutters DEF PromiseStep
<1> QED BY <1>2, <1>3 DEF Evaluate

\* A batch member's grant is one more of an approved confirmation.
LEMMA BatchKeeps ==
    ASSUME AllInv, NEW c \in Confirmations, NEW req \in Requests, ExecuteBatchMember(c, req)
    PROVE  PromiseStep
<1> USE ConstantsAssumption, IdsAssumption
<1>1. PICK g \in Grants \ issued :
         /\ grants' = [grants EXCEPT ![g] = NewGrant(c, req)]
         /\ issued' = issued \cup {g, req.inv}
  BY DEF ExecuteBatchMember, Fresh
<1>2. req.inv \in BatchInvocations /\ UNCHANGED <<pending, runs, denied>>
  BY DEF ExecuteBatchMember, history
<1>3. UNCHANGED StatusMap
  BY <1>1, <1>2, SameAnswers
<1>4. NewGrant(c, req) \in GrantRecords /\ NewGrant(c, req).conf = c
  BY DEF NewGrant, GrantRecords, Requests
<1>5. OwnerMap' = [OwnerMap EXCEPT ![g] = c]
  BY <1>1, <1>4, OneOwner
<1>6. g \in Grants \ SpentSet /\ OwnerOf(g) = None
  BY <1>1, UnissuedIsUnspent DEF OwnerOf
<1>7. StatusOf(c) = "approved"
  BY DEF ExecuteBatchMember, Live, StatusOf
<1>8. UNCHANGED SpentSet
  BY <1>2 DEF SpentSet
<1> QED BY <1>2, <1>3, <1>5, <1>6, <1>7, <1>8, Shares DEF PromiseStep

\* The first approval is the answer, a repeated one says nothing new.
LEMMA ApproveKeeps ==
    ASSUME AllInv, NEW c \in Confirmations, Approve(c)
    PROVE  PromiseStep
<1> USE ConstantsAssumption, IdsAssumption
<1>1. UNCHANGED <<SpentSet, denied>>
  BY DEF Approve, history, SpentSet
<1>2. CASE ~pending[c].resolved
  <2>1. PICK g \in Grants \ issued :
           /\ grants' = [grants EXCEPT ![g] = NewGrant(c, pending[c].request)]
           /\ issued' = issued \cup {g}
    BY <1>2 DEF Approve, Fresh
  <2>2. pending[c] \in PendingRecords
    BY DEF Approve, Live, AllInv, IInv, TypeOK
  <2>3. /\ NewGrant(c, pending[c].request) \in GrantRecords
        /\ NewGrant(c, pending[c].request).conf = c
    BY <2>2 DEF NewGrant, GrantRecords, PendingRecords, Requests
  <2>4. OwnerMap' = [OwnerMap EXCEPT ![g] = c]
    BY <2>1, <2>3, OneOwner
  <2>5. pending' = [pending EXCEPT ![c] = [pending[c] EXCEPT !.resolved = TRUE, !.approved = TRUE]]
    BY <1>2 DEF Approve
  <2>6. StatusMap' = [StatusMap EXCEPT ![c] = StatusOf(c)']
    BY <2>1, <2>5, OneAnswer
  <2>7. StatusOf(c)' = "approved"
    <3>1. pending'[c] = [pending[c] EXCEPT !.resolved = TRUE, !.approved = TRUE]
      BY <2>5 DEF AllInv, IInv, TypeOK
    <3>2. pending'[c] \in PendingRecords /\ pending'[c].resolved /\ pending'[c].approved
      BY <2>2, <3>1 DEF PendingRecords
    <3> QED BY <3>2 DEF StatusOf
  <2>8. StatusOf(c) = "open"
    BY <1>2, <2>2 DEF StatusOf
  <2>9. g \in Grants \ SpentSet /\ OwnerOf(g) = None
    BY <2>1, UnissuedIsUnspent DEF OwnerOf
  <2> QED BY <1>1, <2>4, <2>6, <2>7, <2>8, <2>9, Approves DEF PromiseStep
<1>3. CASE pending[c].resolved
  <2>1. UNCHANGED <<pending, grants, issued>>
    BY <1>3 DEF Approve
  <2>2. UNCHANGED <<StatusMap, OwnerMap>>
    BY <2>1, SameAnswers, SameOwners
  <2> QED BY <1>1, <2>2, Stutters DEF PromiseStep
<1> QED BY <1>2, <1>3

\* A denial answers an open question; of a settled one it changes nothing.
LEMMA DenyKeeps ==
    ASSUME AllInv, NEW c \in Confirmations, Deny(c)
    PROVE  PromiseStep
<1> USE ConstantsAssumption
<1>1. UNCHANGED <<SpentSet, denied, grants, issued>>
  BY DEF Deny, history, SpentSet
<1>2. UNCHANGED OwnerMap
  BY <1>1, SameOwners
<1>3. CASE ~pending[c].resolved
  <2>1. pending[c] \in PendingRecords
    BY DEF Deny, AllInv, IInv, TypeOK
  <2>2. pending' = [pending EXCEPT ![c] = [pending[c] EXCEPT !.resolved = TRUE, !.approved = FALSE]]
    BY <1>3 DEF Deny
  <2>3. StatusMap' = [StatusMap EXCEPT ![c] = StatusOf(c)']
    BY <1>1, <2>2, OneAnswer
  <2>4. StatusOf(c)' = "refused"
    <3>1. pending'[c] = [pending[c] EXCEPT !.resolved = TRUE, !.approved = FALSE]
      BY <2>2 DEF AllInv, IInv, TypeOK
    <3>2. pending'[c] \in PendingRecords /\ pending'[c].resolved /\ ~pending'[c].approved
      BY <2>1, <3>1 DEF PendingRecords
    <3> QED BY <3>2 DEF StatusOf
  <2>5. StatusOf(c) = "open"
    BY <1>3, <2>1 DEF StatusOf
  <2> QED BY <1>1, <1>2, <2>3, <2>4, <2>5, Refuses DEF PromiseStep
<1>4. CASE pending[c].resolved
  <2>1. UNCHANGED StatusMap
    BY <1>1, <1>4, SameAnswers DEF Deny
  <2> QED BY <1>1, <1>2, <2>1, Stutters DEF PromiseStep
<1> QED BY <1>3, <1>4

\* A stored denial is told.
LEMMA StoreKeeps ==
    ASSUME AllInv, PromiseInv, PersistPending
    PROVE  PromiseStep
<1>1. UNCHANGED <<SpentSet, StatusMap, OwnerMap>>
  BY SameAnswers, SameOwners DEF PersistPending, memory, SpentSet
<1>2. CASE op.stage = "deny_pending" /\ ~pending[op.conf].approved
  <2>1. op.conf \in Confirmations /\ pending[op.conf] # None /\ pending[op.conf].resolved
    BY <1>2 DEF AllInv, IInv, OperationInv, PromiseInv, Denying
  <2>2. StatusOf(op.conf) = "refused"
    BY <1>2, <2>1 DEF StatusOf
  <2>3. denied' = denied \cup {op.conf}
    BY <1>2 DEF PersistPending
  <2> QED BY <1>1, <2>1, <2>2, <2>3, Tells DEF PromiseStep
<1>3. CASE ~(op.stage = "deny_pending" /\ ~pending[op.conf].approved)
  BY <1>1, <1>3, Stutters DEF PersistPending, PromiseStep
<1> QED BY <1>2, <1>3

\* A tool starts on a grant that has started none, under a confirmation that
\* is approved.
LEMMA RunKeeps ==
    ASSUME AllInv, Run
    PROVE  PromiseStep
<1> USE ConstantsAssumption DEF AllInv, IInv, TypeOK
<1>1. UNCHANGED <<StatusMap, OwnerMap, denied>>
  BY SameAnswers, SameOwners DEF Run, memory
<1>2. CASE op.grant = None
  BY <1>1, <1>2, Stutters DEF Run, SpentSet, PromiseStep
<1>3. CASE op.grant # None
  <2> DEFINE g == op.grant
  <2>1. g \in Grants /\ runs[g] = 0 /\ grants[g] \in GrantRecords /\ grants[g] # None
    BY <1>3 DEF Run, OperationInv, Spent
  <2>2. Backs(pending[grants[g].conf], grants[g])
    BY <1>3 DEF Run, ApprovalInv, Stands, Running
  <2>3. OwnerOf(g) = grants[g].conf /\ OwnerOf(g) \in Confirmations
    BY <2>1 DEF OwnerOf, GrantRecords
  <2>4. StatusOf(OwnerOf(g)) = "approved"
    BY <2>2, <2>3 DEF Backs, StatusOf
  <2>5. runs' = [runs EXCEPT ![g] = 1]
    BY <1>3, <2>1 DEF Run
  <2>6. SpentSet' = SpentSet \cup {g}
    BY <2>1, <2>5 DEF SpentSet
  <2>7. g \in Grants \ SpentSet /\ OwnerOf(g) # None
    BY <2>1, <2>3 DEF SpentSet
  <2> HIDE DEF g, AllInv, IInv, TypeOK
  <2> QED BY <1>1, <2>3, <2>4, <2>6, <2>7, Spends DEF PromiseStep
<1> QED BY <1>2, <1>3

\* What a crash reloads is what a restart may make of each answer.
LEMMA CrashKeeps ==
    ASSUME AllInv, PromiseInv, CrashAndRestart
    PROVE  PromiseStep
<1> USE ConstantsAssumption
<1>1. /\ pending' = [c \in Confirmations |-> AtStartup(dpending[c])]
      /\ grants' = dgrants /\ UNCHANGED <<issued, runs, dgrants>>
      /\ denied' = denied \cup { c \in Confirmations : pending'[c] # dpending[c] }
  BY DEF CrashAndRestart
<1>2. ASSUME NEW c \in Confirmations
      PROVE  /\ dpending[c] = None => pending'[c] = None
             /\ dpending[c] # None => pending'[c] # None
             /\ dpending[c] # None /\ dpending[c].resolved => pending'[c] = dpending[c]
             /\ dpending[c] # None /\ ~dpending[c].resolved =>
                   \/ pending'[c] = dpending[c]
                   \/ pending'[c].resolved /\ ~pending'[c].approved
  <2>1. dpending[c] # None => dpending[c] \in PendingRecords
    BY DEF AllInv, IInv, TypeOK
  <2>2. ASSUME NEW rec \in PendingRecords
        PROVE  LET off == [rec EXCEPT !.resolved = TRUE, !.approved = FALSE]
               IN  off \in PendingRecords /\ off.resolved /\ ~off.approved
    BY DEF PendingRecords
  <2> QED BY <1>1, <2>1, <2>2 DEF AtStartup
<1>3. ASSUME NEW c \in Confirmations PROVE StatusOf(c)' \in Promise!Reload(StatusOf(c))
  <2>1. /\ c \notin issued => pending[c] = None
        /\ dpending[c] # None => pending[c] # None
        /\ dpending[c] # None /\ dpending[c].resolved => pending[c] = dpending[c]
    BY DEF AllInv, ApprovalInv, Records, PendingAgrees
  <2>2. CASE pending[c] = None
    BY <1>1, <1>2, <2>1, <2>2 DEF StatusOf, Fresh, Promise!Reload
  <2>3. CASE pending[c] # None
    <3>1. c \in issued'
      BY <1>1, <2>1, <2>3
    <3>2. CASE dpending[c] = None
      BY <1>2, <2>3, <3>1, <3>2 DEF StatusOf, Fresh, Promise!Reload
    <3>3. CASE dpending[c] # None /\ dpending[c].resolved
      BY <1>2, <2>1, <2>3, <3>3 DEF StatusOf, Promise!Reload
    <3>4. CASE dpending[c] # None /\ ~dpending[c].resolved
      BY <1>2, <2>3, <3>4 DEF StatusOf, Promise!Reload
    <3> QED BY <3>2, <3>3, <3>4
  <2> QED BY <2>2, <2>3
<1>4. ASSUME NEW c \in Confirmations PROVE StatusOf(c)' \in Promise!Status
  BY DEF StatusOf, Promise!Status
<1>5. ASSUME NEW g \in Grants
      PROVE  /\ OwnerOf(g)' \in {OwnerOf(g), None}
             /\ OwnerOf(g)' \in Confirmations \cup {None}
  BY <1>1 DEF OwnerOf, PromiseInv, OwnersAgree, AllInv, IInv, TypeOK, DiskFollowsMemory,
              GrantRecords
<1>6. ASSUME NEW c \in denied' PROVE c \in Confirmations /\ StatusOf(c)' = "refused"
  <2>1. c \in Confirmations
    BY <1>1, <1>6 DEF AllInv, IInv, TypeOK
  <2>2. pending'[c] # None /\ pending'[c].resolved /\ ~pending'[c].approved
    BY <1>1, <1>2, <1>6, <2>1 DEF PromiseInv, DeniedStays
  <2> QED BY <2>1, <2>2 DEF StatusOf
<1>7. denied \subseteq denied' /\ denied' \subseteq Confirmations
  BY <1>1, <1>6
<1>8. UNCHANGED SpentSet
  BY <1>1 DEF SpentSet
<1> QED BY <1>3, <1>4, <1>5, <1>6, <1>7, <1>8, Restarts DEF PromiseStep

LEMMA StepKeeps == AllInv /\ PromiseInv /\ [Next]_vars => PromiseStep
<1> SUFFICES ASSUME AllInv, PromiseInv, [Next]_vars PROVE PromiseStep
  OBVIOUS
<1>1. ASSUME NEW req \in Requests, Execute(req) PROVE PromiseStep
  BY <1>1, EvaluateKeeps DEF Execute, history
<1>2. CASE EvaluateBatchMember
  BY <1>2, EvaluateKeeps DEF EvaluateBatchMember, AllInv, IInv, OperationInv, history
<1>3. ASSUME NEW g \in Grants, Revoke(g) PROVE PromiseStep
  <2>1. grants[g] \in GrantRecords /\ grants[g] # None
    BY <1>3 DEF Revoke, AllInv, IInv, TypeOK
  <2>2. UNCHANGED OwnerMap
    <3>1. grants'[g] \in GrantRecords /\ grants'[g].conf = grants[g].conf
      BY <1>3, <2>1 DEF Revoke, GrantRecords, AllInv, IInv, TypeOK
    <3>2. \A h \in Grants : h # g => grants'[h] = grants[h]
      BY <1>3 DEF Revoke, AllInv, IInv, TypeOK
    <3> QED BY <2>1, <3>1, <3>2, SameOwners, ConstantsAssumption
  <2>3. UNCHANGED <<StatusMap, SpentSet, denied>>
    BY <1>3, SameAnswers DEF Revoke, history, SpentSet
  <2> QED BY <2>2, <2>3, Stutters DEF PromiseStep
<1>4. CASE UNCHANGED <<pending, grants, issued, runs, denied>>
  BY <1>4, SameAnswers, SameOwners, Stutters DEF SpentSet, PromiseStep
<1> QED
  BY <1>1, <1>2, <1>3, <1>4, BatchKeeps, ApproveKeeps, DenyKeeps, StoreKeeps, RunKeeps,
     CrashKeeps
  DEF Next, vars, Expire, PersistGrant, WriteFails, memory, history

\* The gateway implements Authorization: whatever calls, answers, failed writes
\* and crashes do, a question is answered once, a refusal that was told stays,
\* and each grant starts one tool run at most, while the answer is "yes".
THEOREM GatewayKeepsPromise == Spec => KeepsPromise
<1>1. Init => Promise!Init
  BY ConstantsAssumption DEF Init, Promise!Init, StatusOf, Fresh
<1>2. AllInv /\ PromiseInv /\ [Next]_vars => [Promise!Next]_(Promise!vars)
  BY StepKeeps DEF PromiseStep
<1> QED BY <1>1, <1>2, PromiseInvariance, PTL DEF Spec, KeepsPromise, Promise!Spec

-----------------------------------------------------------------------------
(* The agent's batches: the response and its waits.                        *)

\* Where the coroutine and the waits may stand.
AgentTypeOK ==
    /\ task \in [kind : {"none", "turn", "batch"}, conf : Confirmations \cup {None},
                 pos : Nat, approved : SUBSET Positions, forced : BOOLEAN]
    /\ waits \in [Confirmations -> [first : Positions, last : Positions, inv : Invocations]
                                   \cup {None}]
    /\ task.kind = "batch" => task.conf \in Confirmations /\ waits[task.conf] # None
    /\ ran \in [Positions -> Nat] /\ chosen \in [Positions -> Nat]

\* What is under way for a call.
Handled ==
    /\ op.stage \notin {"idle", "approve_pending", "approve_grant", "deny_pending", "revoke_grant"} =>
          /\ task.kind \in {"turn", "batch"} /\ task.pos \in Positions
          /\ op.req \in Requests /\ op.req.call = Response[task.pos] /\ op.req.origin = "agent"
    /\ op.stage = "ask_pending" /\ task.kind = "turn" => op.req.inv \in Invocations
    /\ op.stage = "ask_pending" => op.conf \in Confirmations

\* A grant is for the call its confirmation was asked for: an id an owner saved
\* leads from the one to the other, before and after a reload.
Named(grant) ==
    grant # None =>
        /\ grant.conf \in issued
        /\ grant.inv \in Invocations /\ pending[grant.conf] # None =>
              pending[grant.conf].request.inv = grant.inv
OwnIds ==
    /\ \A g \in Grants : Named(grants[g]) /\ Named(dgrants[g])
    /\ \A c \in Confirmations : dpending[c] # None => dpending[c].request = pending[c].request

\* A tool is about to start, or a step of the gateway leads there.
Starts == op.stage \in {"consume_grant", "run", "batch_grant", "batch_evaluate"}

\* What starts was chosen, or the policy lets it through.
Chosen ==
    Starts =>
        \/ task.kind = "batch" /\ task.pos \in task.approved
        \/ task.kind = "turn" /\ op.stage = "run" /\ MayRunUnasked(task.pos)

\* A choice that is still to be carried out.
Due(p) == task.kind = "batch" /\ p \in task.approved /\ task.pos <= p

\* Runs, and the one that is due, are covered by the choices.
Owed ==
    \A p \in Positions : MayRunUnasked(p) \/ ran[p] + (IF Due(p) THEN 1 ELSE 0) <= chosen[p]

ClicksOK == clicks \in Seq([conf : Confirmations, yes : BOOLEAN])

AgentInv == AgentTypeOK /\ Handled /\ Chosen /\ Owed

LEMMA ResponseIs ==
    /\ Positions = 1..Len(Response) /\ Len(Response) \in Nat
    /\ \A p \in Positions : Response[p] \in Calls
BY ResponseAssumption DEF Positions

LEMMA RequestIs ==
    ASSUME NEW inv \in Invocations \cup BatchInvocations, NEW p \in Positions
    PROVE  /\ AgentRequest(inv, p) \in Requests
           /\ AgentRequest(inv, p).inv = inv /\ AgentRequest(inv, p).call = Response[p]
           /\ AgentRequest(inv, p).origin = "agent"
BY ResponseAssumption, ResponseIs DEF AgentRequest, Requests

LEMMA GreatestIs ==
    ASSUME NEW n \in Nat, NEW S, S \subseteq 0..n, S # {}
    PROVE  Max(S) \in S /\ \A x \in S : x <= Max(S)
<1> DEFINE T == { n - x : x \in S }
<1>1. T \subseteq Nat /\ T # {}
  <2>1. \A x \in S : x \in Nat /\ n - x \in Nat
    OBVIOUS
  <2> QED
    BY <2>1
<1>2. PICK m \in T : \A y \in T : ~ (<<y, m>> \in OpToRel(<, Nat))
  BY <1>1, NatLessThanWellFounded, WFMin, Zenon
<1>3. \A y \in T : m <= y
  <2> TAKE y \in T
  <2>1. <<y, m>> \in Nat \X Nat
    BY <1>1
  <2>2. ~ (y < m)
    BY <1>2, <2>1, Zenon DEF OpToRel
  <2> QED
    BY <1>1, <2>2
<1>4. PICK z \in S : m = n - z
  OBVIOUS
<1>5. \A x \in S : z >= x
  <2> TAKE x \in S
  <2>1. m <= n - x
    BY <1>3
  <2> QED
    BY <1>4, <2>1
<1> QED
  BY <1>5 DEF Max

LEMMA BatchEndIs ==
    ASSUME NEW p \in Positions
    PROVE  BatchEnd(p) \in Positions /\ p <= BatchEnd(p)
<1> DEFINE S == { q \in p..Len(Response) : \A r \in p..q : Tool[Response[r]] = Tool[Response[p]] }
<1>1. p \in S /\ S \subseteq 0..Len(Response)
  BY ResponseIs
<1>2. Max(S) \in S
  BY <1>1, ResponseIs, GreatestIs
<1>3. \A q \in S : q \in Positions /\ p <= q
  BY ResponseIs
<1>4. BatchEnd(p) = Max(S)
  BY DEF BatchEnd
<1> HIDE DEF S
<1> QED
  BY <1>2, <1>3, <1>4

-----------------------------------------------------------------------------
(* Grants and the confirmations they come from.                            *)

\* A record keeps its request, a new one has a new id.
RequestsKept ==
    \A c \in Confirmations :
        pending'[c] # None =>
            c \notin issued \/ (pending[c] # None /\ pending'[c].request = pending[c].request)

LEMMA NamedStays ==
    ASSUME issued \subseteq issued', RequestsKept, NEW grant \in GrantRecords \cup {None}, Named(grant)
    PROVE  grant # None =>
              /\ grant.conf \in issued'
              /\ grant.inv \in Invocations /\ pending'[grant.conf] # None =>
                    pending'[grant.conf].request.inv = grant.inv
BY DEF RequestsKept, Named, GrantRecords

\* The grants of a step: old ones, used or taken back, and one that is named.
LEMMA OwnIdsKept ==
    ASSUME AllInv, OwnIds, issued \subseteq issued', RequestsKept,
           \A g \in Grants : \/ grants'[g] \in {grants[g], None}
                             \/ grants[g] # None /\ grants'[g].conf = grants[g].conf
                                /\ grants'[g].inv = grants[g].inv
                             \/ Named(grants[g])',
           \A g \in Grants : dgrants'[g] \in {dgrants[g], grants[g]},
           \A c \in Confirmations : dpending'[c] # None => dpending'[c].request = pending'[c].request
    PROVE  OwnIds'
<1>1. \A g \in Grants : grants[g] \in GrantRecords \cup {None} /\ dgrants[g] \in GrantRecords \cup {None}
  BY DEF AllInv, IInv, TypeOK
<1>2. ASSUME NEW g \in Grants PROVE Named(dgrants[g])'
  BY <1>1, NamedStays DEF OwnIds, Named
<1>3. ASSUME NEW g \in Grants PROVE Named(grants[g])'
  BY <1>1, NamedStays DEF OwnIds, Named
<1> QED
  BY <1>2, <1>3 DEF OwnIds

LEMMA EvaluateOwnIds ==
    ASSUME AllInv, OwnIds, NEW req \in Requests, Evaluate(req), UNCHANGED disk
    PROVE  OwnIds'
<1> USE ConstantsAssumption
<1>1. CASE Consume(req)
  <2>1. PICK g \in Grants : Matches(g, req) /\ grants' = [grants EXCEPT ![g].uses = @ + 1]
    BY <1>1 DEF Consume
  <2>2. grants[g] \in GrantRecords /\ UNCHANGED <<pending, issued, dpending, dgrants>>
    BY <1>1, <2>1 DEF Consume, Matches, Usable, AllInv, IInv, TypeOK, disk
  <2>3. grants'[g] = [grants[g] EXCEPT !.uses = @ + 1]
        /\ \A h \in Grants : h # g => grants'[h] = grants[h]
    BY <2>1 DEF AllInv, IInv, TypeOK
  <2>4. grants'[g].conf = grants[g].conf /\ grants'[g].inv = grants[g].inv /\ grants[g] # None
    BY <2>2, <2>3 DEF GrantRecords
  <2> QED
    BY <2>2, <2>3, <2>4, OwnIdsKept DEF RequestsKept, OwnIds
<1>2. CASE Ask(req)
  <2>1. PICK c \in Confirmations \ issued :
           /\ pending' = [pending EXCEPT ![c] = [request |-> req, resolved |-> FALSE,
                                                 approved |-> FALSE]]
           /\ issued' = issued \cup {c}
    BY <1>2 DEF Ask, Fresh
  <2>2. UNCHANGED <<grants, dpending, dgrants>>
    BY <1>2 DEF Ask, disk
  <2>3. \A d \in Confirmations : d # c => pending'[d] = pending[d]
    BY <2>1 DEF AllInv, IInv, TypeOK
  <2>4. dpending[c] = None
    BY <2>1 DEF AllInv, ApprovalInv, Records, PendingAgrees
  <2> QED
    BY <2>1, <2>2, <2>3, <2>4, OwnIdsKept DEF RequestsKept, OwnIds
<1>3. CASE AllowedByPolicy(req) \/ Refused(req)
  <2>1. UNCHANGED <<pending, grants, issued, dpending, dgrants>>
    BY <1>3 DEF AllowedByPolicy, Refused, disk
  <2> QED
    BY <2>1, OwnIdsKept DEF RequestsKept, OwnIds
<1> QED
  BY <1>1, <1>2, <1>3 DEF Evaluate

LEMMA OwnIdsStep == ASSUME AllInv, OwnIds, [Next]_vars PROVE OwnIds'
<1> USE ConstantsAssumption
<1>1. ASSUME NEW req \in Requests, Execute(req) PROVE OwnIds'
  BY <1>1, EvaluateOwnIds DEF Execute
<1>2. ASSUME NEW c \in Confirmations, NEW req \in Requests, ExecuteBatchMember(c, req) PROVE OwnIds'
  <2>1. PICK g \in Grants \ issued : /\ grants' = [grants EXCEPT ![g] = NewGrant(c, req)]
                                     /\ issued' = issued \cup {g, req.inv}
    BY <1>2 DEF ExecuteBatchMember, Fresh
  <2>2. /\ pending[c] # None /\ c \in issued /\ req.inv \in BatchInvocations
        /\ UNCHANGED <<pending, dpending, dgrants>>
    BY <1>2 DEF ExecuteBatchMember, Live, disk, AllInv, ApprovalInv, Records, PendingAgrees
  <2>3. grants'[g] = NewGrant(c, req) /\ \A h \in Grants : h # g => grants'[h] = grants[h]
    BY <2>1 DEF AllInv, IInv, TypeOK
  <2>4. Named(grants[g])'
    BY <2>1, <2>2, <2>3 DEF Named, NewGrant
  <2> QED
    BY <2>1, <2>2, <2>3, <2>4, OwnIdsKept DEF RequestsKept, OwnIds
<1>3. CASE EvaluateBatchMember
  BY <1>3, EvaluateOwnIds DEF EvaluateBatchMember, AllInv, IInv, OperationInv
<1>4. ASSUME NEW c \in Confirmations, Approve(c) PROVE OwnIds'
  <2>1. /\ pending[c] \in PendingRecords /\ pending[c] # None /\ c \in issued
        /\ UNCHANGED <<dpending, dgrants>>
    BY <1>4 DEF Approve, Live, disk, AllInv, IInv, TypeOK, ApprovalInv, Records, PendingAgrees
  <2>2. CASE ~pending[c].resolved
    <3>1. PICK g \in Grants \ issued :
             /\ grants' = [grants EXCEPT ![g] = NewGrant(c, pending[c].request)]
             /\ issued' = issued \cup {g}
      BY <1>4, <2>2 DEF Approve, Fresh
    <3>2. pending' = [pending EXCEPT ![c].resolved = TRUE, ![c].approved = TRUE]
      BY <1>4, <2>2 DEF Approve
    <3>3. /\ pending'[c] = [[pending[c] EXCEPT !.resolved = TRUE] EXCEPT !.approved = TRUE]
          /\ \A d \in Confirmations : d # c => pending'[d] = pending[d]
      BY <3>2 DEF AllInv, IInv, TypeOK
    <3>4. pending'[c].request = pending[c].request
      BY <2>1, <3>3 DEF PendingRecords
    <3>5. /\ grants'[g] = NewGrant(c, pending[c].request)
          /\ \A h \in Grants : h # g => grants'[h] = grants[h]
      BY <3>1 DEF AllInv, IInv, TypeOK
    <3>6. Named(grants[g])'
      BY <2>1, <3>1, <3>4, <3>5 DEF Named, NewGrant
    <3> QED
      BY <2>1, <3>1, <3>3, <3>4, <3>5, <3>6, OwnIdsKept DEF RequestsKept, OwnIds
  <2>3. CASE pending[c].resolved
    <3>1. UNCHANGED <<pending, grants, issued>>
      BY <1>4, <2>3 DEF Approve
    <3> QED
      BY <2>1, <3>1, OwnIdsKept DEF RequestsKept, OwnIds
  <2> QED
    BY <2>2, <2>3
<1>5. ASSUME NEW c \in Confirmations, Deny(c) PROVE OwnIds'
  <2>1. /\ pending[c] \in PendingRecords /\ pending[c] # None
        /\ UNCHANGED <<grants, issued, dpending, dgrants>>
    BY <1>5 DEF Deny, disk, AllInv, IInv, TypeOK
  <2>2. \A d \in Confirmations :
           pending'[d] = pending[d] \/ (pending[d] # None /\ pending'[d].request = pending[d].request)
    <3>1. CASE pending[c].resolved
      BY <1>5, <3>1 DEF Deny
    <3>2. CASE ~pending[c].resolved
      <4>1. pending' = [pending EXCEPT ![c].resolved = TRUE, ![c].approved = FALSE]
        BY <1>5, <3>2 DEF Deny
      <4>2. /\ pending'[c] = [[pending[c] EXCEPT !.resolved = TRUE] EXCEPT !.approved = FALSE]
            /\ \A d \in Confirmations : d # c => pending'[d] = pending[d]
        BY <4>1 DEF AllInv, IInv, TypeOK
      <4>3. pending'[c].request = pending[c].request
        BY <2>1, <4>2 DEF PendingRecords
      <4> QED
        BY <2>1, <4>2, <4>3
    <3> QED
      BY <3>1, <3>2
  <2> QED
    BY <2>1, <2>2, OwnIdsKept DEF RequestsKept, OwnIds
<1>6. ASSUME NEW g \in Grants, Revoke(g) PROVE OwnIds'
  <2>1. /\ grants[g] \in GrantRecords /\ grants[g] # None
        /\ UNCHANGED <<pending, issued, dpending, dgrants>>
        /\ grants' = [grants EXCEPT ![g].revoked = TRUE]
    BY <1>6 DEF Revoke, disk, AllInv, IInv, TypeOK
  <2>2. /\ grants'[g] = [grants[g] EXCEPT !.revoked = TRUE]
        /\ \A h \in Grants : h # g => grants'[h] = grants[h]
    BY <2>1 DEF AllInv, IInv, TypeOK
  <2>3. grants'[g].conf = grants[g].conf /\ grants'[g].inv = grants[g].inv
    BY <2>1, <2>2 DEF GrantRecords
  <2> QED
    BY <2>1, <2>2, <2>3, OwnIdsKept DEF RequestsKept, OwnIds
<1>7. CASE PersistPending
  <2>1. UNCHANGED <<pending, grants, dgrants, issued>>
        /\ dpending' = [dpending EXCEPT ![op.conf] = pending[op.conf]]
    BY <1>7 DEF PersistPending, StoredPending, memory
  <2>2. \A c \in Confirmations : dpending'[c] \in {dpending[c], pending[c]}
    BY <2>1 DEF AllInv, IInv, TypeOK
  <2> QED
    BY <2>1, <2>2, OwnIdsKept DEF RequestsKept, OwnIds
<1>8. CASE PersistGrant
  <2>1. UNCHANGED <<pending, grants, dpending, issued>>
        /\ dgrants' = [dgrants EXCEPT ![op.grant] = grants[op.grant]]
    BY <1>8 DEF PersistGrant, StoredGrant, memory
  <2>2. \A g \in Grants : dgrants'[g] \in {dgrants[g], grants[g]}
    BY <2>1 DEF AllInv, IInv, TypeOK
  <2> QED
    BY <2>1, <2>2, OwnIdsKept DEF RequestsKept, OwnIds
<1>9. CASE CrashAndRestart
  <2>1. /\ UNCHANGED <<dgrants, issued>> /\ grants' = dgrants /\ pending' = dpending'
        /\ dpending' = [c \in Confirmations |-> AtStartup(dpending[c])]
    BY <1>9 DEF CrashAndRestart
  <2>2. \A c \in Confirmations : dpending[c] \in PendingRecords \cup {None}
    BY DEF AllInv, IInv, TypeOK
  <2>3. ASSUME NEW c \in Confirmations
        PROVE  /\ dpending[c] # None =>
                    pending'[c] # None /\ pending'[c].request = dpending[c].request
               /\ dpending[c] = None => pending'[c] = None
    BY <2>1, <2>2 DEF AtStartup, PendingRecords
  <2>4. RequestsKept
    BY <2>3 DEF RequestsKept, OwnIds, AllInv, ApprovalInv, Records, PendingAgrees
  <2>5. \A g \in Grants : Named(dgrants[g])'
    <3>1. \A g \in Grants : dgrants[g] \in GrantRecords \cup {None} /\ Named(dgrants[g])
      BY DEF AllInv, IInv, TypeOK, OwnIds
    <3> QED
      BY <2>1, <2>4, <3>1, NamedStays DEF Named
  <2>6. \A g \in Grants : Named(grants[g])'
    BY <2>1, <2>5 DEF Named
  <2> QED
    BY <2>1, <2>5, <2>6 DEF OwnIds
<1>10. CASE UNCHANGED <<pending, grants, dpending, dgrants, issued>>
  BY <1>10, OwnIdsKept DEF RequestsKept, OwnIds
<1> QED
  BY <1>1, <1>2, <1>3, <1>4, <1>5, <1>6, <1>7, <1>8, <1>9, <1>10
     DEF Next, Expire, WriteFails, Run, memory, disk, vars

LEMMA OwnIdsInit == ASSUME Init PROVE OwnIds
BY DEF Init, OwnIds, Named

-----------------------------------------------------------------------------
(* Steps of the composition.                                               *)

AgentAll == AllInv /\ OwnIds /\ AgentInv /\ ClicksOK

\* Where an evaluation leaves the gateway.
LEMMA EvaluateOp ==
    ASSUME NEW req \in Requests, Evaluate(req)
    PROVE  \/ op' = Idle
           \/ /\ op'.req = req
              /\ \/ op'.stage = "ask_pending" /\ op'.conf \in Confirmations
                 \/ op'.stage = "run"
                    /\ \E intent \in Intents, confirmWrite \in {"on", "off"} :
                          Decision(Policies, Kind[req.call], intent, confirmWrite).status = "allow"
                 \/ op'.stage = "consume_grant" /\ \E g \in Grants : Matches(g, req)
BY DEF Evaluate, Consume, Ask, Refused, AllowedByPolicy, Begin

\* Nothing is under way between two calls.
LEMMA IdleIs ==
    op' = Idle => op'.stage = "idle" /\ (Handled /\ Chosen)'
BY DEF Idle, Handled, Chosen, Starts

\* The coroutine goes to the next call or is gone: nothing more becomes due.
LEMMA OwedStays ==
    ASSUME AgentInv, UNCHANGED <<ran, chosen>>,
           \/ task'.kind # "batch"
           \/ task' = task
           \/ task' = [task EXCEPT !.pos = @ + 1]
    PROVE  Owed'
<1> SUFFICES ASSUME NEW p \in Positions
             PROVE  MayRunUnasked(p) \/ ran[p] + (IF Due(p)' THEN 1 ELSE 0) <= chosen[p]
  BY DEF Owed, MayRunUnasked
<1>1. MayRunUnasked(p) \/ ran[p] + (IF Due(p) THEN 1 ELSE 0) <= chosen[p]
  BY DEF AgentInv, Owed
<1>2. p \in Nat /\ task.pos \in Nat /\ ran[p] \in Nat /\ chosen[p] \in Nat
  BY ResponseIs DEF AgentInv, AgentTypeOK
<1>3. Due(p)' => Due(p)
  <2>1. CASE task'.kind # "batch"
    BY <2>1 DEF Due
  <2>2. CASE task' = task
    BY <2>2 DEF Due
  <2>3. CASE task' = [task EXCEPT !.pos = @ + 1]
    <3>1. task'.kind = task.kind /\ task'.approved = task.approved /\ task'.pos = task.pos + 1
      BY <2>3 DEF AgentInv, AgentTypeOK
    <3> QED
      BY <1>2, <3>1 DEF Due
  <2> QED
    BY <2>1, <2>2, <2>3
<1> QED
  BY <1>1, <1>2, <1>3

\* The types of the coroutine when it goes on or ends.
LEMMA TaskStays ==
    ASSUME AgentTypeOK, UNCHANGED <<waits, chosen, ran>>,
           \/ task' = NoTask
           \/ task' = task
           \/ task' = [task EXCEPT !.pos = @ + 1]
    PROVE  AgentTypeOK'
<1>1. CASE task' = NoTask
  BY <1>1 DEF NoTask, AgentTypeOK
<1>2. CASE task' = task
  BY <1>2 DEF AgentTypeOK
<1>3. CASE task' = [task EXCEPT !.pos = @ + 1]
  BY <1>3 DEF AgentTypeOK
<1> QED
  BY <1>1, <1>2, <1>3

\* No grant is for an id no record has.
LEMMA UnusedIsUngranted ==
    ASSUME AgentAll, NEW inv \in UnusedInvocations, NEW req \in Requests, req.inv = inv,
           NEW g \in Grants
    PROVE  ~Matches(g, req)
<1> SUFFICES ASSUME Matches(g, req) PROVE FALSE
  OBVIOUS
<1>1. grants[g] \in GrantRecords /\ grants[g].inv = inv /\ Unspent(grants[g])
  BY DEF Matches, Usable, Unspent, AgentAll, AllInv, IInv, TypeOK, GrantRecords, Covers
<1>2. grants[g].conf \in Confirmations /\ inv \in Invocations
  BY <1>1 DEF GrantRecords, UnusedInvocations
<1>3. pending[grants[g].conf] # None
  BY <1>1, <1>2 DEF AgentAll, AllInv, ApprovalInv, Records, MemoryIsBacked, Backs
<1>4. pending[grants[g].conf].request.inv = inv
  BY <1>1, <1>2, <1>3 DEF AgentAll, OwnIds, Named, Unspent
<1> QED
  BY <1>2, <1>3, <1>4 DEF UnusedInvocations

\* A call of the response is evaluated under an id no record has: no grant is
\* for it, so what runs is what the policy lets through.
LEMMA CallNextKeeps == ASSUME AgentAll, CallNext PROVE [Next]_vars /\ AgentInv'
<1> USE ConstantsAssumption
<1>1. PICK inv \in UnusedInvocations : Execute(AgentRequest(inv, task.pos))
  BY DEF CallNext
<1> DEFINE req == AgentRequest(inv, task.pos)
<1>2. /\ task.kind = "turn" /\ task.pos \in Positions /\ UNCHANGED <<waits, ran, chosen>>
      /\ inv \in Invocations
      /\ task' = IF op' = Idle THEN [task EXCEPT !.pos = @ + 1] ELSE task
  BY DEF CallNext, UnusedInvocations
<1>3. req \in Requests /\ req.inv = inv /\ req.call = Response[task.pos] /\ req.origin = "agent"
  BY <1>2, RequestIs
<1> HIDE DEF req
<1>4. Execute(req) /\ Evaluate(req)
  BY <1>1 DEF Execute, req
<1>5. \A g \in Grants : ~Matches(g, req)
  BY <1>1, <1>3, UnusedIsUngranted
<1>6. \/ op' = Idle
      \/ /\ op'.req = req
         /\ \/ op'.stage = "ask_pending" /\ op'.conf \in Confirmations
            \/ op'.stage = "run" /\ MayRunUnasked(task.pos)
  BY <1>3, <1>4, <1>5, EvaluateOp DEF MayRunUnasked
<1>7. AgentTypeOK' /\ Owed'
  BY <1>2, TaskStays, OwedStays DEF AgentAll, AgentInv
<1>8. (Handled /\ Chosen)'
  <2>1. CASE op' = Idle
    BY <2>1, IdleIs
  <2>2. CASE op' # Idle
    BY <1>2, <1>3, <1>6, <2>2 DEF Handled, Chosen, Starts, MayRunUnasked
  <2> QED
    BY <2>1, <2>2
<1> QED
  BY <1>3, <1>4, <1>7, <1>8 DEF Next, AgentInv

\* A step of the coroutine the gateway has no part in.
LEMMA AsideKeeps ==
    ASSUME AgentAll, UNCHANGED <<vars, waits, ran, chosen>>, op = Idle,
           task' = NoTask \/ task' = task \/ task' = [task EXCEPT !.pos = @ + 1]
    PROVE  [Next]_vars /\ AgentInv'
<1>1. AgentTypeOK' /\ Owed'
  BY TaskStays, OwedStays DEF AgentAll, AgentInv, NoTask
<1>2. op' = Idle
  BY DEF vars
<1> QED
  BY <1>1, <1>2, IdleIs DEF AgentInv, vars

LEMMA WaitIs ==
    ASSUME AgentTypeOK, NEW c \in Confirmations, waits[c] # None
    PROVE  /\ waits[c].first \in Positions /\ waits[c].last \in Positions /\ waits[c].inv \in Invocations
           /\ Members(c) \subseteq Positions
<1>1. /\ waits[c].first \in Positions /\ waits[c].last \in Positions /\ waits[c].inv \in Invocations
  BY DEF AgentTypeOK
<1> QED
  BY <1>1, ResponseIs DEF Members

LEMMA AnswerKeeps ==
    ASSUME AgentAll, NEW c \in Confirmations, NEW s \in SUBSET Members(c), Answer(c, s)
    PROVE  [Next]_vars /\ AgentInv'
<1>1. /\ task.kind = "none" /\ op = Idle /\ waits[c] # None /\ UNCHANGED <<waits, ran>>
      /\ task' = [kind |-> "batch", conf |-> c, pos |-> waits[c].first, approved |-> s,
                  forced |-> FALSE]
      /\ chosen' = [p \in Positions |-> chosen[p] + IF p \in s THEN 1 ELSE 0]
      /\ Approve(c) \/ Deny(c)
  BY DEF Answer
<1>2. waits[c].first \in Nat /\ s \subseteq Positions
  BY <1>1, WaitIs, ResponseIs DEF AgentAll, AgentInv
<1>3. chosen' \in [Positions -> Nat]
  BY <1>1 DEF AgentAll, AgentInv, AgentTypeOK
<1>4. AgentTypeOK'
  <2>1. task' \in [kind : {"none", "turn", "batch"}, conf : Confirmations \cup {None},
                   pos : Nat, approved : SUBSET Positions, forced : BOOLEAN]
    BY <1>1, <1>2
  <2>2. task'.conf = c /\ waits'[c] # None
    BY <1>1
  <2> QED
    BY <1>1, <1>3, <2>1, <2>2 DEF AgentAll, AgentInv, AgentTypeOK
<1>5. Owed'
  <2> SUFFICES ASSUME NEW p \in Positions
               PROVE  MayRunUnasked(p) \/ ran[p] + (IF Due(p)' THEN 1 ELSE 0) <= chosen'[p]
    BY <1>1 DEF Owed, MayRunUnasked
  <2>1. MayRunUnasked(p) \/ ran[p] <= chosen[p]
    <3>1. ran[p] \in Nat
      BY DEF AgentAll, AgentInv, AgentTypeOK
    <3>2. ~Due(p)
      BY <1>1 DEF Due
    <3> QED
      BY <3>1, <3>2 DEF AgentAll, AgentInv, Owed
  <2>2. ran[p] \in Nat /\ chosen[p] \in Nat
    BY DEF AgentAll, AgentInv, AgentTypeOK
  <2>3. Due(p)' => p \in s
    BY <1>1 DEF Due
  <2>4. chosen'[p] = chosen[p] + IF p \in s THEN 1 ELSE 0
    BY <1>1
  <2> QED
    BY <2>1, <2>2, <2>3, <2>4
<1>6. op'.stage \in {"approve_pending", "deny_pending"}
  BY <1>1 DEF Approve, Deny, Begin
<1>7. (Handled /\ Chosen)'
  BY <1>6 DEF Handled, Chosen, Starts
<1> QED
  BY <1>1, <1>4, <1>5, <1>7 DEF Next, AgentInv

LEMMA FirstMemberKeeps == ASSUME AgentAll, FirstMember PROVE [Next]_vars /\ AgentInv'
<1> DEFINE req == AgentRequest(waits[task.conf].inv, task.pos)
<1>1. /\ task.kind = "batch" /\ task.pos \in Members(task.conf) /\ task.pos \in task.approved
      /\ Execute(req) /\ UNCHANGED <<waits, ran, chosen>>
      /\ task' = IF op' = Idle THEN [task EXCEPT !.pos = @ + 1] ELSE task
  BY DEF FirstMember, AtMember
<1>2. task.pos \in Positions /\ waits[task.conf].inv \in Invocations
  BY <1>1, WaitIs DEF AgentAll, AgentInv, AgentTypeOK
<1>3. req \in Requests /\ req.inv \in Invocations /\ req.call = Response[task.pos] /\ req.origin = "agent"
  BY <1>2, RequestIs
<1> HIDE DEF req
<1>4. \/ op' = Idle
      \/ /\ op'.req = req
         /\ \/ op'.stage = "ask_pending" /\ op'.conf \in Confirmations
            \/ op'.stage \in {"run", "consume_grant"}
  BY <1>1, <1>3, EvaluateOp DEF Execute
<1>5. AgentTypeOK' /\ Owed'
  BY <1>1, TaskStays, OwedStays DEF AgentAll, AgentInv
<1>6. (Handled /\ Chosen)'
  <2>1. CASE op' = Idle
    BY <2>1, IdleIs
  <2>2. CASE op' # Idle
    BY <1>1, <1>2, <1>3, <1>4, <2>2 DEF Handled, Chosen, Starts
  <2> QED
    BY <2>1, <2>2
<1> QED
  BY <1>1, <1>3, <1>5, <1>6 DEF Next, AgentInv

LEMMA LaterMemberKeeps == ASSUME AgentAll, LaterMember PROVE [Next]_vars /\ AgentInv'
<1>1. PICK inv \in BatchInvocations : ExecuteBatchMember(task.conf, AgentRequest(inv, task.pos))
  BY DEF LaterMember
<1> DEFINE req == AgentRequest(inv, task.pos)
<1>2. /\ task.kind = "batch" /\ task.pos \in Members(task.conf) /\ task.pos \in task.approved
      /\ UNCHANGED <<task, waits, ran, chosen>>
  BY DEF LaterMember, AtMember
<1>3. task.pos \in Positions /\ task.conf \in Confirmations
  BY <1>2, WaitIs DEF AgentAll, AgentInv, AgentTypeOK
<1>4. req \in Requests /\ req.call = Response[task.pos] /\ req.origin = "agent"
  BY <1>3, RequestIs
<1> HIDE DEF req
<1>5. op'.stage = "batch_grant" /\ op'.req = req
  BY <1>1 DEF ExecuteBatchMember, Begin, req
<1>6. AgentTypeOK' /\ Owed'
  BY <1>2, TaskStays, OwedStays DEF AgentAll, AgentInv
<1>7. (Handled /\ Chosen)'
  BY <1>2, <1>3, <1>4, <1>5 DEF Handled, Chosen, Starts
<1> QED
  BY <1>1, <1>3, <1>4, <1>6, <1>7 DEF Next, AgentInv, req

LEMMA BatchEndsKeeps == ASSUME AgentAll, BatchEnds PROVE [Next]_vars /\ AgentInv'
<1>1. /\ op = Idle /\ UNCHANGED <<vars, ran, chosen>>
      /\ waits' = [waits EXCEPT ![task.conf] = None]
      /\ task' = [NoTask EXCEPT !.kind = "turn", !.pos = task.pos,
                                !.forced = task.approved # Members(task.conf)]
  BY DEF BatchEnds
<1>2. PICK b \in BOOLEAN : b = (task.approved # Members(task.conf))
  OBVIOUS
<1>3. AgentTypeOK'
  <2>1. task' = [kind |-> "turn", conf |-> None, pos |-> task.pos, approved |-> {}, forced |-> b]
    BY <1>1, <1>2 DEF NoTask
  <2>2. task.pos \in Nat
    BY DEF AgentAll, AgentInv, AgentTypeOK
  <2>3. task' \in [kind : {"none", "turn", "batch"}, conf : Confirmations \cup {None},
                   pos : Nat, approved : SUBSET Positions, forced : BOOLEAN]
        /\ task'.kind = "turn"
    BY <2>1, <2>2
  <2>4. waits' \in [Confirmations -> [first : Positions, last : Positions, inv : Invocations]
                                     \cup {None}]
    BY <1>1 DEF AgentAll, AgentInv, AgentTypeOK
  <2> QED
    BY <1>1, <2>3, <2>4 DEF AgentAll, AgentInv, AgentTypeOK
<1>4. Owed' /\ op' = Idle
  BY <1>1, <1>2, OwedStays DEF AgentAll, vars
<1> QED
  BY <1>1, <1>3, <1>4, IdleIs DEF AgentInv, vars

LEMMA StoreQuestionKeeps == ASSUME AgentAll, StoreQuestion PROVE [Next]_vars /\ AgentInv'
<1>1. /\ op.stage = "ask_pending" /\ PersistPending /\ UNCHANGED <<ran, chosen>> /\ task' = NoTask
      /\ waits' = IF task.kind = "turn"
                  THEN [waits EXCEPT ![op.conf] = [first |-> task.pos,
                                                   last  |-> BatchEnd(task.pos),
                                                   inv   |-> op.req.inv]]
                  ELSE waits
  BY DEF StoreQuestion
<1>2. /\ task.pos \in Positions /\ op.conf \in Confirmations
      /\ task.kind = "turn" => op.req.inv \in Invocations
  BY <1>1 DEF AgentAll, AgentInv, Handled
<1>3. waits' \in [Confirmations -> [first : Positions, last : Positions, inv : Invocations]
                                   \cup {None}]
  BY <1>1, <1>2, BatchEndIs DEF AgentAll, AgentInv, AgentTypeOK
<1>4. AgentTypeOK'
  <2>1. task' \in [kind : {"none", "turn", "batch"}, conf : Confirmations \cup {None},
                   pos : Nat, approved : SUBSET Positions, forced : BOOLEAN]
        /\ task'.kind = "none"
    BY <1>1 DEF NoTask
  <2> QED
    BY <1>1, <1>3, <2>1 DEF AgentAll, AgentInv, AgentTypeOK
<1>5. Owed' /\ op' = Idle
  BY <1>1, OwedStays DEF AgentAll, PersistPending, NoTask
<1> QED
  BY <1>1, <1>4, <1>5, IdleIs DEF AgentInv, Next

LEMMA StoreRecordKeeps == ASSUME AgentAll, StoreRecord PROVE [Next]_vars /\ AgentInv'
<1>1. /\ op.stage # "ask_pending"
      /\ PersistPending \/ PersistGrant
      /\ UNCHANGED <<task, waits, ran, chosen>>
  BY DEF StoreRecord, agentVars
<1>2. AgentTypeOK' /\ Owed'
  BY <1>1, TaskStays, OwedStays DEF AgentAll, AgentInv
<1>3. \/ op' = Idle
      \/ op.stage = "approve_pending" /\ op' = [op EXCEPT !.stage = "approve_grant"]
      \/ op.stage = "batch_grant" /\ op' = [op EXCEPT !.stage = "batch_evaluate"]
      \/ op.stage = "consume_grant" /\ op' = [op EXCEPT !.stage = "run"]
  BY <1>1 DEF PersistPending, PersistGrant
<1>4. (Handled /\ Chosen)'
  <2>1. CASE op' = Idle
    BY <2>1, IdleIs
  <2>2. CASE op.stage = "approve_pending" /\ op' = [op EXCEPT !.stage = "approve_grant"]
    <3>1. op'.stage = "approve_grant"
      BY <2>2 DEF AgentAll, AllInv, IInv, TypeOK
    <3> QED
      BY <3>1 DEF Handled, Chosen, Starts
  <2>3. CASE op.stage = "batch_grant" /\ op' = [op EXCEPT !.stage = "batch_evaluate"]
    <3>1. op'.stage = "batch_evaluate" /\ op'.req = op.req
      BY <2>3 DEF AgentAll, AllInv, IInv, TypeOK
    <3> QED
      BY <1>1, <2>3, <3>1 DEF AgentAll, AgentInv, Handled, Chosen, Starts
  <2>4. CASE op.stage = "consume_grant" /\ op' = [op EXCEPT !.stage = "run"]
    <3>1. op'.stage = "run" /\ op'.req = op.req
      BY <2>4 DEF AgentAll, AllInv, IInv, TypeOK
    <3> QED
      BY <1>1, <2>4, <3>1 DEF AgentAll, AgentInv, Handled, Chosen, Starts
  <2> QED
    BY <1>3, <2>1, <2>2, <2>3, <2>4
<1> QED
  BY <1>1, <1>2, <1>4 DEF AgentInv, Next

LEMMA BatchEvaluateKeeps == ASSUME AgentAll, BatchEvaluate PROVE [Next]_vars /\ AgentInv'
<1>1. /\ op.stage = "batch_evaluate" /\ Evaluate(op.req) /\ UNCHANGED <<waits, ran, chosen>>
      /\ task' = IF op' = Idle THEN [task EXCEPT !.pos = @ + 1] ELSE task
      /\ EvaluateBatchMember
  BY DEF BatchEvaluate, EvaluateBatchMember
<1>2. /\ task.kind = "batch" /\ task.pos \in task.approved /\ task.pos \in Positions
      /\ op.req \in Requests /\ op.req.call = Response[task.pos] /\ op.req.origin = "agent"
  BY <1>1 DEF AgentAll, AgentInv, Handled, Chosen, Starts
<1>3. \/ op' = Idle
      \/ /\ op'.req = op.req
         /\ \/ op'.stage = "ask_pending" /\ op'.conf \in Confirmations
            \/ op'.stage \in {"run", "consume_grant"}
  BY <1>1, <1>2, EvaluateOp
<1>4. AgentTypeOK' /\ Owed'
  BY <1>1, TaskStays, OwedStays DEF AgentAll, AgentInv
<1>5. (Handled /\ Chosen)'
  <2>1. CASE op' = Idle
    BY <2>1, IdleIs
  <2>2. CASE op' # Idle
    BY <1>1, <1>2, <1>3, <2>2 DEF Handled, Chosen, Starts
  <2> QED
    BY <2>1, <2>2
<1> QED
  BY <1>1, <1>4, <1>5 DEF AgentInv, Next

\* The run that was due is done.
LEMMA RunToolKeeps == ASSUME AgentAll, RunTool PROVE [Next]_vars /\ AgentInv'
<1>1. /\ op.stage = "run" /\ Run /\ op' = Idle /\ UNCHANGED <<waits, chosen>>
      /\ ran' = [ran EXCEPT ![task.pos] = @ + 1]
      /\ task' = [task EXCEPT !.pos = @ + 1] \/ task' = NoTask
  BY DEF RunTool, Run
<1>2. /\ task.pos \in Positions
      /\ (task.kind = "batch" /\ task.pos \in task.approved)
         \/ (task.kind = "turn" /\ MayRunUnasked(task.pos))
  BY <1>1 DEF AgentAll, AgentInv, Handled, Chosen, Starts
<1>3. ran' \in [Positions -> Nat] /\ ran'[task.pos] = ran[task.pos] + 1
      /\ \A p \in Positions : p # task.pos => ran'[p] = ran[p]
  BY <1>1, <1>2 DEF AgentAll, AgentInv, AgentTypeOK
<1>4. AgentTypeOK'
  <2>1. task.pos + 1 \in Nat /\ ran' \in [Positions -> Nat]
    BY <1>3 DEF AgentAll, AgentInv, AgentTypeOK
  <2>2. CASE task' = NoTask
    BY <1>1, <2>1, <2>2 DEF AgentAll, AgentInv, AgentTypeOK, NoTask
  <2>3. CASE task' = [task EXCEPT !.pos = @ + 1]
    BY <1>1, <2>1, <2>3 DEF AgentAll, AgentInv, AgentTypeOK
  <2> QED
    BY <1>1, <2>2, <2>3
<1>5. Owed'
  <2> SUFFICES ASSUME NEW p \in Positions
               PROVE  MayRunUnasked(p) \/ ran'[p] + (IF Due(p)' THEN 1 ELSE 0) <= chosen[p]
    BY <1>1 DEF Owed, MayRunUnasked
  <2>1. MayRunUnasked(p) \/ ran[p] + (IF Due(p) THEN 1 ELSE 0) <= chosen[p]
    BY DEF AgentAll, AgentInv, Owed
  <2>2. p \in Nat /\ task.pos \in Nat /\ ran[p] \in Nat /\ chosen[p] \in Nat
    BY ResponseIs DEF AgentAll, AgentInv, AgentTypeOK
  <2>3. Due(p)' => Due(p) /\ p # task.pos
    <3>1. CASE task' = NoTask
      BY <3>1 DEF Due, NoTask
    <3>2. CASE task' = [task EXCEPT !.pos = @ + 1]
      <4>1. task'.kind = task.kind /\ task'.approved = task.approved /\ task'.pos = task.pos + 1
        BY <3>2 DEF AgentAll, AgentInv, AgentTypeOK
      <4> QED
        BY <2>2, <4>1 DEF Due
    <3> QED
      BY <1>1, <3>1, <3>2
  <2>4. CASE p = task.pos
    <3>1. MayRunUnasked(p) \/ Due(p)
      BY <1>2, <2>2, <2>4 DEF Due
    <3> QED
      BY <1>3, <2>1, <2>2, <2>3, <2>4, <3>1
  <2>5. CASE p # task.pos
    BY <1>3, <2>1, <2>2, <2>3, <2>5
  <2> QED
    BY <2>4, <2>5
<1> QED
  BY <1>1, <1>4, <1>5, IdleIs DEF AgentInv, Next

LEMMA StoreFailsKeeps == ASSUME AgentAll, StoreFails PROVE [Next]_vars /\ AgentInv'
<1>1. WriteFails /\ task' = NoTask /\ UNCHANGED <<waits, ran, chosen>> /\ op' = Idle
  BY DEF StoreFails, WriteFails
<1>2. AgentTypeOK' /\ Owed'
  BY <1>1, TaskStays, OwedStays DEF AgentAll, AgentInv, NoTask
<1> QED
  BY <1>1, <1>2, IdleIs DEF AgentInv, Next

LEMMA OthersKeep == ASSUME AgentAll, Expires \/ Revokes PROVE [Next]_vars /\ AgentInv'
<1>1. UNCHANGED <<task, waits, ran, chosen>>
  BY DEF Expires, Revokes, agentVars
<1>2. AgentTypeOK' /\ Owed'
  BY <1>1, TaskStays, OwedStays DEF AgentAll, AgentInv
<1>3. UNCHANGED op \/ op'.stage = "revoke_grant"
  BY DEF Expires, Expire, Revokes, Revoke, Begin
<1>4. (Handled /\ Chosen)'
  <2>1. CASE UNCHANGED op
    BY <1>1, <2>1 DEF AgentAll, AgentInv, Handled, Chosen, Starts, MayRunUnasked
  <2>2. CASE op'.stage = "revoke_grant"
    BY <2>2 DEF Handled, Chosen, Starts
  <2> QED
    BY <1>3, <2>1, <2>2
<1>5. Next
  BY DEF Expires, Revokes, Next
<1> QED
  BY <1>2, <1>4, <1>5 DEF AgentInv

LEMMA RestartKeeps == ASSUME AgentAll, Restart PROVE [Next]_vars /\ AgentInv'
<1>1. /\ CrashAndRestart /\ waits' = [c \in Confirmations |-> None] /\ task' = NoTask
      /\ UNCHANGED <<ran, chosen>> /\ op' = Idle
  BY DEF Restart, CrashAndRestart
<1>2. AgentTypeOK' /\ Owed'
  BY <1>1, OwedStays DEF AgentAll, AgentInv, AgentTypeOK, NoTask
<1> QED
  BY <1>1, <1>2, IdleIs DEF AgentInv, Next

LEMMA HeadIs ==
    ASSUME NEW S, NEW q \in Seq(S), q # << >> PROVE Head(q) \in S /\ Tail(q) \in Seq(S)
OBVIOUS

LEMMA ClicksStep == ASSUME AgentAll, AgentNext PROVE ClicksOK'
<1> DEFINE Answers == [conf : Confirmations, yes : BOOLEAN]
<1>1. clicks \in Seq(Answers)
  BY DEF AgentAll, ClicksOK
<1>2. CASE Click
  <2>1. PICK click \in Answers : clicks' = Append(clicks, click)
    BY <1>2 DEF Click
  <2> HIDE DEF Answers
  <2>2. clicks' \in Seq(Answers)
    BY <1>1, <2>1
  <2> QED
    BY <2>2 DEF ClicksOK, Answers
<1>3. CASE AnswerByButton \/ ClickInVain
  <2>1. clicks # << >> /\ clicks' = Tail(clicks)
    BY <1>3 DEF AnswerByButton, ClickInVain
  <2> QED
    BY <1>1, <2>1, HeadIs DEF ClicksOK
<1>4. CASE Restart
  BY <1>4 DEF Restart, ClicksOK
<1>5. CASE UNCHANGED clicks
  BY <1>1, <1>5 DEF ClicksOK
<1> QED
  BY <1>2, <1>3, <1>4, <1>5
     DEF AgentNext, CallNext, SkipNext, TurnEnds, AnswerByText, SkipMember, FirstMember, LaterMember,
         LaterMemberExpired, BatchEnds, StoreQuestion, StoreRecord, BatchEvaluate, RunTool,
         StoreFails, Expires, Revokes, agentVars

\* Whatever the agent does, the gateway does a step of its own, or none.
LEMMA AgentStep == ASSUME AgentAll, AgentNext PROVE [Next]_vars /\ AgentInv'
<1>1. CASE SkipNext \/ TurnEnds \/ Click \/ ClickInVain \/ SkipMember \/ LaterMemberExpired
  <2>1. UNCHANGED <<vars, waits, ran, chosen>>
        /\ (task' = NoTask \/ task' = task \/ task' = [task EXCEPT !.pos = @ + 1])
    BY <1>1 DEF SkipNext, TurnEnds, Click, ClickInVain, SkipMember, LaterMemberExpired
  <2>2. CASE op = Idle
    BY <2>1, <2>2, AsideKeeps
  <2>3. CASE op # Idle
    <3>1. Click
      BY <1>1, <2>3 DEF SkipNext, TurnEnds, ClickInVain, SkipMember, LaterMemberExpired, AtMember
    <3>2. UNCHANGED <<vars, task, waits, ran, chosen>>
      BY <3>1 DEF Click
    <3>3. AgentInv'
      BY <3>2 DEF AgentAll, AgentInv, AgentTypeOK, Handled, Chosen, Starts, Owed, Due, MayRunUnasked, vars
    <3> QED
      BY <3>2, <3>3
  <2> QED
    BY <2>2, <2>3
<1>2. CASE AnswerByText
  BY <1>2, AnswerKeeps DEF AnswerByText
<1>3. CASE AnswerByButton
  <2>1. /\ waits[Head(clicks).conf] # None
        /\ Answer(Head(clicks).conf, IF Head(clicks).yes THEN Members(Head(clicks).conf) ELSE {})
    BY <1>3 DEF AnswerByButton, Answer
  <2>2. Head(clicks).conf \in Confirmations
    <3>1. Head(clicks) \in [conf : Confirmations, yes : BOOLEAN]
      BY <1>3, HeadIs DEF AgentAll, ClicksOK, AnswerByButton
    <3> QED
      BY <3>1
  <2> QED
    BY <2>1, <2>2, AnswerKeeps
<1> QED
  BY <1>1, <1>2, <1>3, CallNextKeeps, FirstMemberKeeps, LaterMemberKeeps, BatchEndsKeeps,
     StoreQuestionKeeps, StoreRecordKeeps, BatchEvaluateKeeps, RunToolKeeps, StoreFailsKeeps,
     OthersKeep, RestartKeeps DEF AgentNext

LEMMA AgentInitIs == ASSUME AgentInit PROVE AgentInv /\ ClicksOK
<1>1. task = [kind |-> "turn", conf |-> None, pos |-> 1, approved |-> {}, forced |-> FALSE]
  BY DEF AgentInit, NoTask
<1>2. AgentTypeOK
  <2>1. waits \in [Confirmations -> [first : Positions, last : Positions, inv : Invocations]
                                    \cup {None}]
        /\ ran \in [Positions -> Nat] /\ chosen \in [Positions -> Nat]
    BY DEF AgentInit
  <2>2. task \in [kind : {"none", "turn", "batch"}, conf : Confirmations \cup {None},
                  pos : Nat, approved : SUBSET Positions, forced : BOOLEAN]
        /\ task.kind = "turn"
    BY <1>1
  <2> QED
    BY <2>1, <2>2 DEF AgentTypeOK
<1>3. Handled /\ Chosen
  BY DEF AgentInit, Init, Idle, Handled, Chosen, Starts
<1>4. Owed
  BY <1>1 DEF AgentInit, Owed, Due
<1>5. ClicksOK
  BY DEF AgentInit, ClicksOK
<1> QED
  BY <1>2, <1>3, <1>4, <1>5 DEF AgentInv

LEMMA AgentStutter == ASSUME AgentInv, ClicksOK, UNCHANGED allVars PROVE AgentInv' /\ ClicksOK' /\ UNCHANGED vars
BY DEF AgentInv, AgentTypeOK, Handled, Chosen, Starts, Owed, Due, MayRunUnasked, ClicksOK,
       allVars, agentVars, vars

\* The agent drives the gateway by the gateway's own operations: every step of
\* the composition is a step of the gateway or leaves it alone, so what is
\* proved of the gateway holds of it, and the agent's own invariant with it.
THEOREM AgentInvariance == AgentSpec => Spec /\ []AgentAll
<1>1. AgentInit => Init /\ AgentInv /\ ClicksOK /\ OwnIds /\ AllInv
  <2>1. Init => AllInv
    BY InvInit DEF AllInv
  <2> QED
    BY <2>1, AgentInitIs, OwnIdsInit DEF AgentInit
<1>2. AgentAll /\ [AgentNext]_allVars => [Next]_vars /\ AgentInv' /\ ClicksOK'
  BY AgentStep, ClicksStep, AgentStutter DEF AgentAll
<1>3. AllInv /\ [Next]_vars => AllInv'
  BY AllStep
<1>4. AgentAll /\ [AgentNext]_allVars => AgentAll'
  BY <1>2, <1>3, OwnIdsStep DEF AgentAll
<1>5. AgentInit => AgentAll
  BY <1>1 DEF AgentAll
<1> QED
  BY <1>1, <1>2, <1>4, <1>5, PTL DEF AgentSpec, Spec

\* A call the user is always asked about is started at most as often as the
\* user chose it, whatever members of a batch are selected, refused or cut off,
\* and however often an answer is given again.
THEOREM RunsAreApproved == AgentSpec => []RunsBoundedByApprovals
<1>1. AgentAll => RunsBoundedByApprovals
  <2> SUFFICES ASSUME AgentAll, NEW p \in Positions PROVE MayRunUnasked(p) \/ ran[p] <= chosen[p]
    BY DEF RunsBoundedByApprovals
  <2>1. ran[p] \in Nat /\ chosen[p] \in Nat
    BY DEF AgentAll, AgentInv, AgentTypeOK
  <2> QED
    BY <2>1 DEF AgentAll, AgentInv, Owed
<1> QED
  BY <1>1, AgentInvariance, PTL

\* In the agent's hands, too, a grant starts one run at most.
THEOREM AgentRunsOnce == AgentSpec => []OneRunPerGrant
BY AgentInvariance, AtMostOneRunPerGrant, PTL

\* In the agent's hands, too, the gateway implements Authorization.
THEOREM AgentKeepsPromise == AgentSpec => KeepsPromise
BY AgentInvariance, GatewayKeepsPromise, PTL
-----------------------------------------------------------------------------
(* The agent's open questions.                                             *)

\* Nothing has gone wrong since the process started, and no answer was repeated.
Undisturbed ==
    /\ ~faulty /\ expired = {}
    /\ \A g \in Grants : grants[g] # None => ~grants[g].revoked
    /\ \A p \in Positions : chosen[p] <= 1

\* After a restart the response is gone, and what was open has been denied.
Restarted ==
    /\ task.kind = "none" /\ \A c \in Confirmations : waits[c] = None
    /\ \A c \in Confirmations : pending[c] # None => pending[c].resolved
    /\ op.stage \in {"idle", "revoke_grant"}

AgentsOnly == \A c \in Confirmations : pending[c] # None => pending[c].request.origin = "agent"

\* A question belongs to the call its wait is for, under an id of its own.
Filed ==
    /\ \A c \in Confirmations : waits[c] # None =>
          /\ pending[c] # None /\ pending[c].request.inv = waits[c].inv
          /\ pending[c].request.call = Response[waits[c].first]
    /\ \A c \in Confirmations : pending[c] # None => pending[c].request.inv \in Invocations
    /\ \A c, d \in Confirmations :
          pending[c] # None /\ pending[d] # None /\ pending[c].request.inv = pending[d].request.inv
          => c = d

\* Only the question under way has no wait yet; the loop over the response asked it.
Asking ==
    /\ \A c \in Confirmations : pending[c] # None /\ ~pending[c].resolved =>
          waits[c] # None \/ (op.stage = "ask_pending" /\ op.conf = c)
    /\ op.stage = "ask_pending" =>
          /\ task.kind = "turn" /\ pending[op.conf].request = op.req
          /\ ~pending[op.conf].resolved

\* A batch is resumed by an answer, and an approval is of members that were chosen.
Resuming ==
    task.kind = "batch" =>
        /\ pending[task.conf] # None /\ pending[task.conf].resolved
        /\ task.approved # {} => pending[task.conf].approved
        /\ task.pos >= waits[task.conf].first
        /\ \A p \in task.approved : chosen[p] >= 1

\* The first member is about to be executed.
Before == {"idle", "approve_pending", "approve_grant", "deny_pending", "revoke_grant"}
FirstDue(c) ==
    /\ task.kind = "batch" /\ task.conf = c
    /\ task.pos = waits[c].first /\ task.pos \in task.approved
    /\ op.stage \in Before

\* An approved question has the grant it was asked for, which nothing but its first member
\* uses; and that is executed once for each choice.
OwnGrant(c, g) ==
    /\ grants[g] # None /\ grants[g].conf = c
    /\ grants[g].inv = pending[c].request.inv /\ grants[g].call = pending[c].request.call
    /\ grants[g].uses = 0 \/ (chosen[waits[c].first] >= 1 /\ ~FirstDue(c))
Granted ==
    \A c \in Confirmations :
        pending[c] # None /\ pending[c].resolved /\ pending[c].approved /\ waits[c] # None
        => \E g \in Grants : OwnGrant(c, g)

\* The grant of a later member waits for its call.
Deriving ==
    op.stage \in {"batch_grant", "batch_evaluate"} =>
        /\ op.grant \in Grants /\ grants[op.grant] # None /\ grants[op.grant].uses = 0
        /\ grants[op.grant].inv = op.req.inv /\ grants[op.grant].call = op.req.call

Orderly == Filed /\ Asking /\ Resuming /\ Granted /\ Deriving

QuestionInv == AgentsOnly /\ (Restarted \/ (Undisturbed => Orderly))

\* Where the coroutine is after a step that goes on to the next call or ends.
LEMMA TaskGoes ==
    ASSUME AgentAll, task' = NoTask \/ task' = task \/ task' = [task EXCEPT !.pos = @ + 1]
    PROVE  \/ task'.kind = "none"
           \/ /\ task'.kind = task.kind /\ task'.conf = task.conf /\ task'.approved = task.approved
              /\ task.pos \in Nat /\ task'.pos \in {task.pos, task.pos + 1}
              /\ task' = task \/ task'.pos = task.pos + 1
<1>1. task \in [kind : {"none", "turn", "batch"}, conf : Confirmations \cup {None},
                pos : Nat, approved : SUBSET Positions, forced : BOOLEAN]
  BY DEF AgentAll, AgentInv, AgentTypeOK
<1>2. CASE task' = NoTask
  BY <1>2 DEF NoTask
<1>3. CASE task' = task
  BY <1>1, <1>3
<1>4. CASE task' = [task EXCEPT !.pos = @ + 1]
  BY <1>1, <1>4
<1> QED
  BY <1>2, <1>3, <1>4

\* What waits for its first member.
LEMMA WaitFirst ==
    ASSUME AgentAll, NEW c \in Confirmations, waits[c] # None
    PROVE  waits[c].first \in Nat /\ waits[c].first \in Positions
<1>1. waits[c].first \in Positions
  BY WaitIs DEF AgentAll, AgentInv
<1> QED
  BY <1>1, ResponseIs

\* A step that leaves the records and the waits alone, and starts nothing.
LEMMA CalmKeeps ==
    ASSUME AgentAll, Orderly, UNCHANGED <<pending, grants, waits, chosen>>,
           task' = NoTask \/ task' = task \/ task' = [task EXCEPT !.pos = @ + 1],
           task' = task /\ op'.stage \in Before => op.stage \in Before,
           "ask_pending" \in {op.stage, op'.stage} => UNCHANGED <<op, task>>,
           op'.stage \in {"batch_grant", "batch_evaluate"} =>
               /\ op.stage \in {"batch_grant", "batch_evaluate"}
               /\ op'.grant = op.grant /\ op'.req = op.req
    PROVE  Orderly'
<1>1. Filed'
  BY DEF Orderly, Filed
<1>2. Asking'
  BY DEF Orderly, Asking
<1>3. Resuming'
  <2> SUFFICES ASSUME task'.kind = "batch"
               PROVE  /\ pending[task'.conf] # None /\ pending[task'.conf].resolved
                      /\ task'.approved # {} => pending[task'.conf].approved
                      /\ task'.pos >= waits[task'.conf].first
                      /\ \A p \in task'.approved : chosen[p] >= 1
    BY DEF Resuming
  <2>1. /\ task'.kind = task.kind /\ task'.conf = task.conf /\ task'.approved = task.approved
        /\ task.pos \in Nat /\ task'.pos \in {task.pos, task.pos + 1}
    BY TaskGoes
  <2>2. task.conf \in Confirmations /\ waits[task.conf] # None
    BY <2>1 DEF AgentAll, AgentInv, AgentTypeOK
  <2>3. waits[task.conf].first \in Nat
    BY <2>2, WaitFirst
  <2>4. task'.pos >= waits[task'.conf].first
    BY <2>1, <2>3 DEF Orderly, Resuming
  <2> QED
    BY <2>1, <2>4 DEF Orderly, Resuming
<1>4. Granted'
  <2>1. ASSUME NEW c \in Confirmations, waits[c] # None, FirstDue(c)' PROVE FirstDue(c)
    <3>1. task'.kind = "batch" /\ task'.conf = c /\ task'.pos = waits[c].first
      BY <2>1 DEF FirstDue
    <3>2. task' = task \/ task'.pos = task.pos + 1
      BY <3>1, TaskGoes
    <3>3. task.kind = "batch" /\ task.conf = c /\ task.pos \in Nat
      BY <3>1, TaskGoes
    <3>4. task.pos >= waits[c].first /\ waits[c].first \in Nat
      BY <2>1, <3>3, WaitFirst DEF Orderly, Resuming
    <3>5. task' = task
      BY <3>1, <3>2, <3>3, <3>4
    <3> QED
      BY <2>1, <3>5 DEF FirstDue
  <2>2. ASSUME NEW c \in Confirmations, waits[c] # None, NEW g \in Grants, OwnGrant(c, g)
        PROVE  OwnGrant(c, g)'
    BY <2>1, <2>2 DEF OwnGrant
  <2> QED
    BY <2>2 DEF Orderly, Granted
<1>5. Deriving'
  BY DEF Orderly, Deriving
<1> QED
  BY <1>1, <1>2, <1>3, <1>4, <1>5 DEF Orderly

LEMMA AsideOrder ==
    ASSUME AgentAll, Orderly,
           SkipNext \/ TurnEnds \/ Click \/ ClickInVain \/ SkipMember \/ LaterMemberExpired
    PROVE  Orderly'
<1>1. UNCHANGED <<pending, grants, waits, chosen, op>>
  BY DEF SkipNext, TurnEnds, Click, ClickInVain, SkipMember, LaterMemberExpired, vars
<1>2. CASE Click
  BY <1>1, <1>2, CalmKeeps DEF Click
<1>3. CASE ~Click
  <2>1. op = Idle /\ (task' = NoTask \/ task' = task \/ task' = [task EXCEPT !.pos = @ + 1])
    BY <1>3 DEF SkipNext, TurnEnds, ClickInVain, SkipMember, LaterMemberExpired, AtMember
  <2>2. op.stage = "idle"
    BY <2>1 DEF Idle
  <2> QED
    BY <1>1, <2>1, <2>2, CalmKeeps DEF Before
<1> QED
  BY <1>2, <1>3

LEMMA RunOrder == ASSUME AgentAll, Orderly, RunTool PROVE Orderly'
<1>1. /\ UNCHANGED <<pending, grants, waits, chosen>> /\ op.stage = "run" /\ op'.stage = "idle"
      /\ task' = NoTask \/ task' = [task EXCEPT !.pos = @ + 1]
  BY DEF RunTool, Run, memory, Idle
<1>2. task' # task
  <2>1. task.kind \in {"turn", "batch"}
    BY <1>1 DEF AgentAll, AgentInv, Handled
  <2>2. task'.kind = "none" \/ (task.pos \in Nat /\ task'.pos = task.pos + 1)
    BY <1>1 DEF AgentAll, AgentInv, AgentTypeOK, NoTask
  <2> QED
    BY <2>1, <2>2
<1> QED
  BY <1>1, <1>2, CalmKeeps

LEMMA RecordOrder == ASSUME AgentAll, Orderly, StoreRecord PROVE Orderly'
<1>1. /\ op.stage # "ask_pending" /\ UNCHANGED <<pending, grants, task, waits, chosen>>
      /\ PersistPending \/ PersistGrant
  BY DEF StoreRecord, agentVars, PersistPending, PersistGrant, memory
<1>2. \/ op.stage \in Before /\ op'.stage \in {"idle", "approve_grant"}
      \/ op.stage = "batch_grant" /\ op' = [op EXCEPT !.stage = "batch_evaluate"]
      \/ op.stage = "consume_grant" /\ op'.stage = "run"
  <2>1. op \in [stage : Stages, conf : Confirmations \cup {None}, grant : Grants \cup {None},
                req : Requests \cup {None}]
    BY DEF AgentAll, AllInv, IInv, TypeOK
  <2> QED
    BY <1>1, <2>1 DEF PersistPending, PersistGrant, Before, Idle
<1>3. CASE op.stage = "batch_grant" /\ op' = [op EXCEPT !.stage = "batch_evaluate"]
  <2>1. op'.stage = "batch_evaluate" /\ op'.grant = op.grant /\ op'.req = op.req
    BY <1>3 DEF AgentAll, AllInv, IInv, TypeOK
  <2> QED
    BY <1>1, <1>3, <2>1, CalmKeeps DEF Before
<1>4. CASE op.stage \in Before /\ op'.stage \in {"idle", "approve_grant"}
  BY <1>1, <1>4, CalmKeeps DEF Before
<1>5. CASE op.stage = "consume_grant" /\ op'.stage = "run"
  BY <1>1, <1>5, CalmKeeps DEF Before
<1> QED
  BY <1>2, <1>3, <1>4, <1>5

LEMMA BatchEndsOrder == ASSUME AgentAll, Orderly, BatchEnds PROVE Orderly'
<1>1. /\ op = Idle /\ UNCHANGED <<pending, grants, chosen, op>> /\ task.kind = "batch"
      /\ waits' = [waits EXCEPT ![task.conf] = None] /\ task'.kind = "turn"
  BY DEF BatchEnds, vars, NoTask
<1>2. op.stage = "idle"
  BY <1>1 DEF Idle
<1>3. task.conf \in Confirmations /\ waits'[task.conf] = None
      /\ \A c \in Confirmations : c # task.conf => waits'[c] = waits[c]
  BY <1>1 DEF AgentAll, AgentInv, AgentTypeOK
<1>4. Filed'
  BY <1>1, <1>3 DEF Orderly, Filed
<1>5. Asking'
  BY <1>1, <1>2, <1>3 DEF Orderly, Asking, Resuming
<1>6. Resuming' /\ Deriving'
  BY <1>1, <1>2 DEF Resuming, Deriving
<1>7. Granted'
  <2>1. ASSUME NEW c \in Confirmations, waits'[c] # None, NEW g \in Grants, OwnGrant(c, g)
        PROVE  OwnGrant(c, g)'
    BY <1>1, <1>3, <2>1 DEF OwnGrant, FirstDue
  <2>2. \A c \in Confirmations : waits'[c] # None => waits[c] # None
    BY <1>3
  <2> QED
    BY <1>1, <2>1, <2>2 DEF Orderly, Granted
<1> QED
  BY <1>4, <1>5, <1>6, <1>7 DEF Orderly

\* The question of the response gets its wait.
LEMMA QuestionOrder == ASSUME AgentAll, Orderly, StoreQuestion PROVE Orderly'
<1>1. /\ op.stage = "ask_pending" /\ UNCHANGED <<pending, grants, chosen>>
      /\ op'.stage = "idle" /\ task'.kind = "none" /\ task.kind = "turn"
      /\ waits' = [waits EXCEPT ![op.conf] = [first |-> task.pos, last |-> BatchEnd(task.pos),
                                             inv |-> op.req.inv]]
  BY DEF StoreQuestion, PersistPending, memory, Idle, NoTask, Orderly, Asking
<1>2. /\ op.conf \in Confirmations /\ pending[op.conf] # None /\ pending[op.conf].request = op.req
      /\ ~pending[op.conf].resolved /\ op.req.call = Response[task.pos] /\ task.pos \in Positions
  BY <1>1 DEF AgentAll, AllInv, IInv, OperationInv, AgentInv, Handled, Orderly, Asking
<1>3. PICK wait \in [first : Positions, last : Positions, inv : Invocations] :
         wait = [first |-> task.pos, last |-> BatchEnd(task.pos), inv |-> op.req.inv]
  BY <1>1, <1>2, BatchEndIs DEF AgentAll, AgentInv, Handled
<1>4. waits'[op.conf] = wait /\ waits' \in [Confirmations ->
                [first : Positions, last : Positions, inv : Invocations] \cup {None}]
  BY <1>1, <1>2, <1>3 DEF AgentAll, AgentInv, AgentTypeOK
<1>5. \A c \in Confirmations : c # op.conf => waits'[c] = waits[c]
  BY <1>1 DEF AgentAll, AgentInv, AgentTypeOK
<1>6. wait.first = task.pos /\ wait.inv = op.req.inv /\ wait # None
  BY <1>3, ResponseAssumption DEF Positions
<1>7. Filed'
  BY <1>1, <1>2, <1>4, <1>5, <1>6 DEF Orderly, Filed
<1>8. Asking'
  BY <1>1, <1>4, <1>5, <1>6 DEF Orderly, Asking
<1>9. Resuming' /\ Deriving'
  BY <1>1 DEF Resuming, Deriving
<1>10. Granted'
  <2>1. ASSUME NEW c \in Confirmations, c # op.conf, NEW g \in Grants, OwnGrant(c, g)
        PROVE  OwnGrant(c, g)'
    BY <1>1, <1>5, <2>1 DEF OwnGrant, FirstDue
  <2> QED
    BY <1>1, <1>2, <1>5, <2>1 DEF Orderly, Granted
<1> QED
  BY <1>7, <1>8, <1>9, <1>10 DEF Orderly
-----------------------------------------------------------------------------
(* What the gateway does to the grants in the agent's steps.               *)

\* A step after which nothing has gone wrong started where nothing had.
LEMMA CalmBefore ==
    ASSUME Undisturbed', UNCHANGED <<expired, faulty>>, AgentAll, chosen' \in [Positions -> Nat],
           \A p \in Positions : chosen[p] <= chosen'[p],
           \A g \in Grants : grants[g] # None =>
               grants'[g] # None /\ grants'[g].revoked = grants[g].revoked
    PROVE  Undisturbed
<1>1. \A p \in Positions : chosen[p] \in Nat /\ chosen'[p] \in Nat
  BY DEF AgentAll, AgentInv, AgentTypeOK
<1>2. \A p \in Positions : chosen[p] <= 1
  BY <1>1 DEF Undisturbed
<1> QED
  BY <1>2 DEF Undisturbed

\* A new grant takes no other's place.
LEMMA GrantIsNew ==
    ASSUME AgentAll, NEW g \in Grants, Fresh(g), NEW grant, grants' = [grants EXCEPT ![g] = grant]
    PROVE  grants'[g] = grant /\ \A h \in Grants : grants[h] # None => h # g /\ grants'[h] = grants[h]
BY DEF Fresh, AgentAll, AllInv, IInv, UnissuedIsUnknown, TypeOK

\* A grant that is used stays the grant it is.
LEMMA ConsumeIs ==
    ASSUME AgentAll, NEW req \in Requests, Consume(req)
    PROVE  /\ op'.stage = "consume_grant" /\ UNCHANGED pending
           /\ \E g \in Grants :
                 /\ Covers(g, req) /\ grants[g] # None /\ grants'[g] # None
                 /\ grants'[g].conf = grants[g].conf /\ grants'[g].inv = grants[g].inv
                 /\ grants'[g].call = grants[g].call /\ grants'[g].revoked = grants[g].revoked
                 /\ \A h \in Grants : h # g => grants'[h] = grants[h]
<1>1. PICK g \in Grants : /\ Matches(g, req) /\ grants' = [grants EXCEPT ![g].uses = @ + 1]
                          /\ Begin("consume_grant", grants[g].conf, g, req)
  BY DEF Consume
<1>2. grants[g] \in GrantRecords /\ grants[g] # None /\ grants[g].uses < 1
  BY <1>1 DEF Matches, Usable, AgentAll, AllInv, IInv, TypeOK
<1>3. grants'[g] = [grants[g] EXCEPT !.uses = @ + 1] /\ \A h \in Grants : h # g => grants'[h] = grants[h]
  BY <1>1 DEF AgentAll, AllInv, IInv, TypeOK
<1>4. grants[g].uses \in {0, 1}
  BY <1>2 DEF GrantRecords
<1>5. grants'[g] = [conf |-> grants[g].conf, inv |-> grants[g].inv, call |-> grants[g].call,
                    uses |-> 1, revoked |-> grants[g].revoked]
  BY <1>2, <1>3, <1>4 DEF GrantRecords
<1>6. grants'[g] \in GrantRecords
  BY <1>2, <1>5 DEF GrantRecords
<1>7. grants'[g] # None
  BY <1>6, ConstantsAssumption
<1> QED
  BY <1>1, <1>2, <1>3, <1>5, <1>7 DEF Consume, Matches, Begin

\* A grant that matches is used: the policy is not asked.
LEMMA MatchedIsConsumed ==
    ASSUME NEW req, Evaluate(req), req.origin = "agent", NEW g \in Grants, Matches(g, req)
    PROVE  Consume(req)
BY DEF Evaluate

-----------------------------------------------------------------------------
(* The answer and what it resumes.                                         *)

\* The records after an answer: one is settled, the others are as they were.
LEMMA AnswerRecords ==
    ASSUME AgentAll, NEW c \in Confirmations, Approve(c) \/ Deny(c)
    PROVE  /\ pending[c] # None /\ pending'[c] # None /\ pending'[c].resolved
           /\ pending'[c].request = pending[c].request
           /\ \A d \in Confirmations : d # c => pending'[d] = pending[d]
           /\ pending[c].resolved => pending' = pending
           /\ ~pending[c].resolved => (pending'[c].approved <=> Approve(c))
<1> USE ConstantsAssumption
<1>1. /\ pending \in [Confirmations -> PendingRecords \cup {None}]
      /\ pending[c] \in PendingRecords /\ pending[c] # None
  BY DEF Approve, Deny, Live, AgentAll, AllInv, IInv, TypeOK
<1>2. CASE pending[c].resolved
  <2>1. pending' = pending
    BY <1>2 DEF Approve, Deny
  <2> QED
    BY <1>1, <1>2, <2>1
<1>3. CASE ~pending[c].resolved
  <2>1. PICK b \in BOOLEAN :
           /\ pending' = [pending EXCEPT ![c].resolved = TRUE, ![c].approved = b]
           /\ b <=> Approve(c)
    <3>1. CASE Approve(c)
      BY <1>3, <3>1 DEF Approve
    <3>2. CASE ~Approve(c)
      BY <1>3, <3>2 DEF Deny
    <3> QED
      BY <3>1, <3>2
  <2>2. /\ pending'[c] = [[pending[c] EXCEPT !.resolved = TRUE] EXCEPT !.approved = b]
        /\ \A d \in Confirmations : d # c => pending'[d] = pending[d]
    BY <1>1, <2>1
  <2>3. pending'[c] = [request |-> pending[c].request, resolved |-> TRUE, approved |-> b]
    BY <1>1, <2>2 DEF PendingRecords
  <2>4. pending'[c] \in PendingRecords
    BY <1>1, <2>3 DEF PendingRecords
  <2> QED
    BY <1>1, <1>3, <2>1, <2>2, <2>3, <2>4
<1> QED
  BY <1>2, <1>3
LEMMA AnswerOrder ==
    ASSUME AgentAll, Undisturbed', Undisturbed => Orderly,
           NEW c \in Confirmations, NEW s \in SUBSET Members(c), Answer(c, s)
    PROVE  Orderly'
<1>1. /\ task.kind = "none" /\ op.stage = "idle" /\ waits[c] # None /\ UNCHANGED waits
      /\ task' = [kind |-> "batch", conf |-> c, pos |-> waits[c].first, approved |-> s,
                  forced |-> FALSE]
      /\ chosen' = [p \in Positions |-> chosen[p] + IF p \in s THEN 1 ELSE 0]
      /\ IF s # {} THEN Approve(c) ELSE Deny(c)
      /\ UNCHANGED <<expired, faulty>>
  BY DEF Answer, Idle, Approve, Deny
<1>2. s \subseteq Positions /\ waits[c].first \in Nat /\ waits[c].first \in Positions
  BY <1>1, WaitIs, WaitFirst DEF AgentAll, AgentInv
<1>3. \A p \in Positions : /\ chosen[p] \in Nat /\ chosen'[p] \in Nat /\ chosen[p] <= chosen'[p]
                           /\ p \in s => chosen'[p] = chosen[p] + 1
  BY <1>1 DEF AgentAll, AgentInv, AgentTypeOK
<1>4. chosen' \in [Positions -> Nat]
  BY <1>1, <1>3
<1>5. /\ pending[c] # None /\ pending'[c] # None /\ pending'[c].resolved
      /\ pending'[c].request = pending[c].request
      /\ \A d \in Confirmations : d # c => pending'[d] = pending[d]
      /\ pending[c].resolved => pending' = pending
      /\ ~pending[c].resolved => (pending'[c].approved <=> Approve(c))
  BY <1>1, AnswerRecords
<1>6. op'.stage \in {"approve_pending", "deny_pending"}
  BY <1>1 DEF Approve, Deny, Begin
<1>7. \A g \in Grants : grants[g] # None => grants'[g] = grants[g]
  <2>1. CASE Approve(c) /\ ~pending[c].resolved
    BY <2>1, GrantIsNew DEF Approve
  <2>2. CASE ~Approve(c) \/ pending[c].resolved
    BY <1>1, <2>2 DEF Approve, Deny
  <2> QED
    BY <2>1, <2>2
<1>8. Undisturbed
  BY <1>1, <1>3, <1>4, <1>7, CalmBefore
<1>9. Orderly
  BY <1>8
<1>10. Filed'
  BY <1>1, <1>5, <1>9 DEF Orderly, Filed
<1>11. Asking'
  BY <1>1, <1>5, <1>6, <1>9 DEF Orderly, Asking
<1>12. Resuming'
  <2>1. s # {} => pending'[c].approved
    BY <1>1, <1>5 DEF Approve
  <2>2. task'.conf = c /\ task'.approved = s /\ task'.pos = waits[c].first
    BY <1>1
  <2> QED
    BY <1>1, <1>2, <1>3, <1>5, <2>1, <2>2 DEF Resuming
<1>13. Granted'
  <2>1. ASSUME NEW d \in Confirmations, NEW g \in Grants, waits[d] # None, OwnGrant(d, g)
        PROVE  OwnGrant(d, g)'
    <3>1. /\ grants'[g] # None /\ grants'[g].conf = d
          /\ grants'[g].inv = pending'[d].request.inv /\ grants'[g].call = pending'[d].request.call
      BY <1>5, <1>7, <2>1 DEF OwnGrant
    <3>2. grants'[g].uses = 0 \/ (chosen'[waits'[d].first] >= 1 /\ ~FirstDue(d)')
      <4>1. CASE grants[g].uses = 0
        BY <1>7, <2>1, <4>1 DEF OwnGrant
      <4>2. CASE chosen[waits[d].first] >= 1
        <5>1. waits[d].first \in Positions
          BY <2>1, WaitFirst
        <5>2. chosen'[waits[d].first] >= 1
          BY <1>3, <4>2, <5>1
        <5>3. waits[d].first \in s => chosen'[waits[d].first] >= 2
          BY <1>3, <4>2, <5>1
        <5>4. waits[d].first \notin s
          BY <1>3, <5>1, <5>3 DEF Undisturbed
        <5>5. ~FirstDue(d)'
          BY <1>1, <5>4 DEF FirstDue
        <5> QED
          BY <1>1, <5>2, <5>5
      <4> QED
        BY <2>1, <4>1, <4>2 DEF OwnGrant
    <3> QED
      BY <3>1, <3>2 DEF OwnGrant
  <2>2. ASSUME Approve(c), ~pending[c].resolved PROVE \E g \in Grants : OwnGrant(c, g)'
    <3>1. PICK g \in Grants : /\ Fresh(g)
                              /\ grants' = [grants EXCEPT ![g] = NewGrant(c, pending[c].request)]
      BY <2>2 DEF Approve
    <3>2. grants'[g] = NewGrant(c, pending[c].request)
      BY <3>1, GrantIsNew
    <3>3. grants'[g] # None
      <4>1. pending[c] \in PendingRecords
        BY <1>5 DEF AgentAll, AllInv, IInv, TypeOK
      <4>2. grants'[g] \in GrantRecords
        BY <3>2, <4>1 DEF NewGrant, GrantRecords, PendingRecords, Requests
      <4> QED
        BY <4>2, ConstantsAssumption
    <3> QED
      BY <1>5, <3>2, <3>3 DEF NewGrant, OwnGrant
  <2> SUFFICES ASSUME NEW d \in Confirmations,
                      pending'[d] # None, pending'[d].resolved, pending'[d].approved, waits[d] # None
               PROVE  \E g \in Grants : OwnGrant(d, g)'
    BY <1>1 DEF Granted
  <2>3. CASE d = c /\ ~pending[c].resolved
    BY <1>5, <2>2, <2>3
  <2>4. CASE d # c \/ pending[c].resolved
    <3>1. pending'[d] = pending[d]
      BY <1>5, <2>4
    <3> QED
      BY <1>9, <2>1, <3>1 DEF Orderly, Granted
  <2> QED
    BY <2>3, <2>4
<1>14. Deriving'
  BY <1>6 DEF Deriving
<1> QED
  BY <1>10, <1>11, <1>12, <1>13, <1>14 DEF Orderly

LEMMA LaterMemberOrder ==
    ASSUME AgentAll, Undisturbed', Undisturbed => Orderly, LaterMember
    PROVE  Orderly'
<1>1. PICK inv \in BatchInvocations : ExecuteBatchMember(task.conf, AgentRequest(inv, task.pos))
  BY DEF LaterMember
<1> DEFINE req == AgentRequest(inv, task.pos)
<1>2. /\ op.stage = "idle" /\ UNCHANGED <<pending, task, waits, chosen, expired, faulty>>
  BY <1>1 DEF LaterMember, ExecuteBatchMember, Idle
<1>3. task.pos \in Positions /\ task.conf \in Confirmations
  BY WaitIs DEF LaterMember, AtMember, AgentAll, AgentInv, AgentTypeOK
<1>4. req \in Requests
  BY <1>3, RequestIs
<1> HIDE DEF req
<1>5. PICK g \in Grants : /\ Fresh(g) /\ grants' = [grants EXCEPT ![g] = NewGrant(task.conf, req)]
                          /\ Begin("batch_grant", task.conf, g, req)
  BY <1>1 DEF ExecuteBatchMember, req
<1>6. grants'[g] = NewGrant(task.conf, req)
      /\ \A h \in Grants : grants[h] # None => grants'[h] = grants[h]
  BY <1>5, GrantIsNew
<1>7. Undisturbed
  <2>1. \A p \in Positions : chosen[p] \in Nat
    BY DEF AgentAll, AgentInv, AgentTypeOK
  <2>2. chosen' \in [Positions -> Nat]
    BY <1>2 DEF AgentAll, AgentInv, AgentTypeOK
  <2> QED
    BY <1>2, <1>6, <2>1, <2>2, CalmBefore
<1>8. Orderly /\ op'.stage = "batch_grant" /\ op'.grant = g /\ op'.req = req
  BY <1>5, <1>7 DEF Begin
<1>9. Filed'
  BY <1>2, <1>8 DEF Orderly, Filed
<1>10. Asking'
  BY <1>2, <1>8 DEF Orderly, Asking
<1>11. Resuming'
  BY <1>2, <1>8 DEF Orderly, Resuming
<1>12. Granted'
  <2>1. ASSUME NEW d \in Confirmations, NEW h \in Grants, OwnGrant(d, h) PROVE OwnGrant(d, h)'
    BY <1>2, <1>6, <1>8, <2>1 DEF OwnGrant, FirstDue, Before
  <2> QED
    BY <1>2, <1>8, <2>1 DEF Orderly, Granted
<1>13. Deriving'
  <2>1. grants'[g] \in GrantRecords
    BY <1>3, <1>4, <1>6 DEF NewGrant, GrantRecords, Requests
  <2>2. grants'[g] # None
    BY <2>1, ConstantsAssumption
  <2> QED
    BY <1>6, <1>8, <2>2 DEF Deriving, NewGrant
<1> QED
  BY <1>9, <1>10, <1>11, <1>12, <1>13 DEF Orderly
\* Using a grant no question counts on: what was orderly stays so.
LEMMA UsedElsewhere ==
    ASSUME AgentAll, Orderly, UNCHANGED <<pending, task, waits, chosen>>, op.stage # "ask_pending",
           op'.stage = "consume_grant", NEW g \in Grants, grants'[g] # None,
           grants'[g].conf = grants[g].conf, grants'[g].inv = grants[g].inv,
           grants'[g].call = grants[g].call,
           \A h \in Grants : h # g => grants'[h] = grants[h],
           \A d \in Confirmations : pending[d] # None /\ waits[d] # None
                                    /\ pending[d].request.inv = grants[g].inv =>
               chosen[waits[d].first] >= 1
    PROVE  Orderly'
<1>1. Filed'
  BY DEF Orderly, Filed
<1>2. Asking'
  BY DEF Orderly, Asking
<1>3. Resuming' /\ Deriving'
  BY DEF Orderly, Resuming, Deriving
<1>4. Granted'
  <2>1. ASSUME NEW d \in Confirmations, NEW h \in Grants, pending[d] # None, waits[d] # None,
               OwnGrant(d, h)
        PROVE  OwnGrant(d, h)'
    <3>1. ~FirstDue(d)'
      BY DEF FirstDue, Before
    <3>2. CASE h # g
      BY <2>1, <3>1, <3>2 DEF OwnGrant, FirstDue, Before
    <3>3. CASE h = g
      BY <2>1, <3>1, <3>3 DEF OwnGrant
    <3> QED
      BY <3>2, <3>3
  <2> QED
    BY <2>1 DEF Orderly, Granted
<1> QED
  BY <1>1, <1>2, <1>3, <1>4 DEF Orderly

\* The first member uses the grant of its question.
LEMMA FirstMemberOrder ==
    ASSUME AgentAll, Undisturbed', Undisturbed => Orderly, FirstMember
    PROVE  Orderly'
<1> DEFINE c   == task.conf
           req == AgentRequest(waits[c].inv, task.pos)
<1>1. /\ task.kind = "batch" /\ task.pos = waits[c].first /\ task.pos \in task.approved
      /\ op.stage = "idle" /\ Execute(req) /\ UNCHANGED <<waits, chosen, expired, faulty>>
      /\ task' = IF op' = Idle THEN [task EXCEPT !.pos = @ + 1] ELSE task
  BY DEF FirstMember, AtMember, Execute, Idle
<1>2. /\ c \in Confirmations /\ waits[c] # None /\ task.pos \in Positions
      /\ waits[c].inv \in Invocations
  BY <1>1, WaitIs DEF AgentAll, AgentInv, AgentTypeOK
<1>3. /\ req \in Requests /\ req.inv = waits[c].inv /\ req.call = Response[task.pos]
      /\ req.origin = "agent"
  BY <1>2, RequestIs
<1>4. Evaluate(req)
  BY <1>1 DEF Execute
<1> HIDE DEF c, req
<1>5. \A p \in Positions : chosen[p] \in Nat
  BY DEF AgentAll, AgentInv, AgentTypeOK
<1>6. CASE Consume(req)
  <2>1. PICK g \in Grants :
           /\ Covers(g, req) /\ grants[g] # None /\ grants'[g] # None
           /\ grants'[g].conf = grants[g].conf /\ grants'[g].inv = grants[g].inv
           /\ grants'[g].call = grants[g].call /\ grants'[g].revoked = grants[g].revoked
           /\ \A h \in Grants : h # g => grants'[h] = grants[h]
    BY <1>3, <1>6, ConsumeIs
  <2>2. op'.stage = "consume_grant" /\ UNCHANGED pending
    BY <1>3, <1>6, ConsumeIs
  <2>3. Orderly
    <3>1. \A h \in Grants : grants[h] # None => grants'[h] # None /\ grants'[h].revoked = grants[h].revoked
      BY <2>1
    <3>2. chosen' \in [Positions -> Nat]
      BY <1>1 DEF AgentAll, AgentInv, AgentTypeOK
    <3> QED
      BY <1>1, <1>5, <3>1, <3>2, CalmBefore
  <2>4. pending[c] # None /\ pending[c].request.inv = waits[c].inv
    BY <1>2, <2>3 DEF Orderly, Filed
  <2>5. chosen[waits[c].first] >= 1
    BY <1>1, <2>3 DEF Orderly, Resuming
  <2>6. grants[g].inv = waits[c].inv
    BY <1>3, <2>1 DEF Covers
  <2>7. \A d \in Confirmations : pending[d] # None /\ pending[d].request.inv = grants[g].inv => d = c
    BY <1>2, <2>3, <2>4, <2>6 DEF Orderly, Filed
  <2>8. UNCHANGED task
    BY <1>1, <2>2 DEF Idle
  <2> QED
    BY <1>1, <2>1, <2>2, <2>3, <2>5, <2>7, <2>8, UsedElsewhere
<1>7. CASE ~Consume(req)
  <2>1. UNCHANGED grants
    BY <1>4, <1>7 DEF Evaluate, Ask, AllowedByPolicy, Refused
  <2>2. Orderly /\ Undisturbed
    <3>1. chosen' \in [Positions -> Nat]
      BY <1>1 DEF AgentAll, AgentInv, AgentTypeOK
    <3> QED
      BY <1>1, <1>5, <2>1, <3>1, CalmBefore
  <2>3. /\ pending[c] # None /\ pending[c].request.inv = waits[c].inv
        /\ pending[c].request.call = Response[task.pos]
    BY <1>1, <1>2, <2>2 DEF Orderly, Filed
  <2>4. pending[c].resolved /\ pending[c].approved
    BY <1>1, <2>2 DEF Orderly, Resuming, c
  <2>5. PICK g \in Grants : OwnGrant(c, g)
    BY <1>2, <2>2, <2>3, <2>4 DEF Orderly, Granted
  <2>6. FirstDue(c)
    BY <1>1 DEF FirstDue, Before, c
  <2>7. Matches(g, req)
    BY <1>3, <2>2, <2>3, <2>5, <2>6 DEF OwnGrant, Matches, Usable, Covers, Undisturbed
  <2> QED
    BY <1>3, <1>4, <1>7, <2>7, MatchedIsConsumed
<1> QED
  BY <1>6, <1>7

\* A later member uses the grant derived for it.
LEMMA BatchEvaluateOrder ==
    ASSUME AgentAll, Undisturbed', Undisturbed => Orderly, BatchEvaluate
    PROVE  Orderly'
<1> DEFINE req == op.req
<1>1. /\ op.stage = "batch_evaluate" /\ Evaluate(req) /\ UNCHANGED <<waits, chosen, expired, faulty>>
      /\ task' = IF op' = Idle THEN [task EXCEPT !.pos = @ + 1] ELSE task
  BY DEF BatchEvaluate, EvaluateBatchMember
<1>2. req \in Requests /\ req.origin = "agent" /\ req.inv \in BatchInvocations
  BY <1>1 DEF AgentAll, AgentInv, Handled, AllInv, ApprovalInv, Stands, Batching
<1>3. \A p \in Positions : chosen[p] \in Nat
  BY DEF AgentAll, AgentInv, AgentTypeOK
<1>4. CASE Consume(req)
  <2> HIDE DEF req
  <2>1. PICK g \in Grants :
           /\ Covers(g, req) /\ grants[g] # None /\ grants'[g] # None
           /\ grants'[g].conf = grants[g].conf /\ grants'[g].inv = grants[g].inv
           /\ grants'[g].call = grants[g].call /\ grants'[g].revoked = grants[g].revoked
           /\ \A h \in Grants : h # g => grants'[h] = grants[h]
    BY <1>2, <1>4, ConsumeIs
  <2>2. op'.stage = "consume_grant" /\ UNCHANGED pending
    BY <1>2, <1>4, ConsumeIs
  <2>3. Orderly
    <3>1. \A h \in Grants : grants[h] # None => grants'[h] # None /\ grants'[h].revoked = grants[h].revoked
      BY <2>1
    <3>2. chosen' \in [Positions -> Nat]
      BY <1>1 DEF AgentAll, AgentInv, AgentTypeOK
    <3> QED
      BY <1>1, <1>3, <3>1, <3>2, CalmBefore
  <2>4. \A d \in Confirmations : pending[d] # None => pending[d].request.inv # grants[g].inv
    <3>1. grants[g].inv \in BatchInvocations
      BY <1>2, <2>1 DEF Covers
    <3> QED
      BY <2>3, <3>1, ConstantsAssumption DEF Orderly, Filed
  <2>5. UNCHANGED task
    BY <1>1, <2>2 DEF Idle
  <2> QED
    BY <1>1, <2>1, <2>2, <2>3, <2>4, <2>5, UsedElsewhere
<1>5. CASE ~Consume(req)
  <2>1. UNCHANGED grants
    BY <1>1, <1>5 DEF Evaluate, Ask, AllowedByPolicy, Refused
  <2>2. Orderly /\ Undisturbed
    <3>1. chosen' \in [Positions -> Nat]
      BY <1>1 DEF AgentAll, AgentInv, AgentTypeOK
    <3> QED
      BY <1>1, <1>3, <2>1, <3>1, CalmBefore
  <2>3. op.grant \in Grants /\ Matches(op.grant, req)
    BY <1>1, <2>2 DEF Orderly, Deriving, Matches, Usable, Covers, Undisturbed
  <2> QED
    BY <1>1, <1>2, <1>5, <2>3, MatchedIsConsumed
<1> QED
  BY <1>4, <1>5
-----------------------------------------------------------------------------
(* The loop over the response.                                             *)

\* A call of the loop is asked about under an id of its own.
LEMMA CallNextOrder ==
    ASSUME AgentAll, Undisturbed', Undisturbed => Orderly, CallNext
    PROVE  Orderly'
<1> USE ConstantsAssumption
<1>1. PICK inv \in UnusedInvocations : Execute(AgentRequest(inv, task.pos))
  BY DEF CallNext
<1> DEFINE req == AgentRequest(inv, task.pos)
<1>2. /\ task.kind = "turn" /\ task.pos \in Positions /\ UNCHANGED <<waits, chosen, expired, faulty>>
      /\ inv \in Invocations /\ op.stage = "idle"
      /\ \A d \in Confirmations : pending[d] # None => pending[d].request.inv # inv
      /\ task' = IF op' = Idle THEN [task EXCEPT !.pos = @ + 1] ELSE task
  BY <1>1 DEF CallNext, UnusedInvocations, Execute, Idle
<1>3. req \in Requests /\ req.inv = inv /\ req.call = Response[task.pos] /\ req.origin = "agent"
  BY <1>2, RequestIs
<1> HIDE DEF req
<1>4. Evaluate(req)
  BY <1>1 DEF Execute, req
<1>5. ~Consume(req)
  BY <1>1, <1>3, UnusedIsUngranted DEF Consume
<1>6. UNCHANGED grants /\ (AllowedByPolicy(req) \/ Ask(req) \/ Refused(req))
  BY <1>4, <1>5 DEF Evaluate, Ask, AllowedByPolicy, Refused
<1>7. Orderly
  <2>1. chosen' \in [Positions -> Nat] /\ \A p \in Positions : chosen[p] \in Nat
    BY <1>2 DEF AgentAll, AgentInv, AgentTypeOK
  <2> QED
    BY <1>2, <1>6, <2>1, CalmBefore
<1>8. CASE AllowedByPolicy(req)
  <2>1. op'.stage = "run" /\ UNCHANGED <<pending, task>>
    BY <1>2, <1>8 DEF AllowedByPolicy, Begin, Idle
  <2> QED
    BY <1>2, <1>6, <1>7, <2>1, CalmKeeps DEF Before
<1>9. CASE Refused(req)
  <2>1. op'.stage = "idle" /\ UNCHANGED pending /\ task' = [task EXCEPT !.pos = @ + 1]
    BY <1>2, <1>9 DEF Refused, Idle
  <2> QED
    BY <1>2, <1>6, <1>7, <2>1, CalmKeeps DEF Before
<1>10. CASE Ask(req)
  <2>1. PICK c \in Confirmations :
           /\ Fresh(c) /\ Begin("ask_pending", c, None, req)
           /\ pending' = [pending EXCEPT ![c] = [request |-> req, resolved |-> FALSE,
                                                 approved |-> FALSE]]
    BY <1>10 DEF Ask
  <2>2. /\ op'.stage = "ask_pending" /\ op'.conf = c /\ op'.req = req /\ UNCHANGED task
    BY <1>2, <2>1 DEF Begin, Idle
  <2>3. pending[c] = None /\ waits[c] = None
    BY <1>7, <2>1 DEF Fresh, AgentAll, AllInv, ApprovalInv, Records, PendingAgrees, Orderly, Filed
  <2>4. /\ pending'[c] = [request |-> req, resolved |-> FALSE, approved |-> FALSE]
        /\ \A d \in Confirmations : d # c => pending'[d] = pending[d]
    BY <2>1 DEF AgentAll, AllInv, IInv, TypeOK
  <2>5. /\ pending'[c] # None
        /\ pending'[c].request = req /\ ~pending'[c].resolved
    <3>1. pending'[c] \in PendingRecords
      BY <1>3, <2>4 DEF PendingRecords
    <3>2. pending'[c] # None
      BY <3>1
    <3>3. pending'[c].request = req /\ pending'[c].resolved = FALSE
      BY <2>4
    <3> QED
      BY <3>2, <3>3
  <2>6. Filed'
    BY <1>2, <1>3, <1>7, <2>3, <2>4, <2>5 DEF Orderly, Filed
  <2>7. Asking'
    BY <1>2, <1>7, <2>2, <2>4, <2>5 DEF Orderly, Asking
  <2>8. Resuming' /\ Deriving'
    BY <1>2, <2>2 DEF Resuming, Deriving
  <2>9. Granted'
    <3>1. ASSUME NEW d \in Confirmations, d # c, NEW g \in Grants, OwnGrant(d, g)
          PROVE  OwnGrant(d, g)'
      BY <1>2, <1>6, <2>2, <2>4, <3>1 DEF OwnGrant, FirstDue
    <3> QED
      BY <1>2, <1>7, <2>4, <2>5, <3>1 DEF Orderly, Granted
  <2> QED
    BY <2>6, <2>7, <2>8, <2>9 DEF Orderly
<1> QED
  BY <1>6, <1>8, <1>9, <1>10

\* What goes wrong shows.
LEMMA TroubleShows ==
    ASSUME AgentAll, StoreFails \/ Expires \/ Revokes
    PROVE  ~Undisturbed'
<1>1. CASE StoreFails
  BY <1>1 DEF StoreFails, WriteFails, Undisturbed
<1>2. CASE Expires
  BY <1>2 DEF Expires, Expire, Undisturbed
<1>3. CASE Revokes
  <2>1. PICK g \in Grants : grants[g] # None /\ grants' = [grants EXCEPT ![g].revoked = TRUE]
    BY <1>3 DEF Revokes, Revoke
  <2>2. grants[g] \in GrantRecords /\ grants'[g] = [grants[g] EXCEPT !.revoked = TRUE]
    BY <2>1 DEF AgentAll, AllInv, IInv, TypeOK
  <2>3. grants'[g] \in GrantRecords /\ grants'[g].revoked
    BY <2>2 DEF GrantRecords
  <2>4. grants'[g] # None
    BY <2>3, ConstantsAssumption
  <2> QED
    BY <2>3, <2>4 DEF Undisturbed
<1> QED
  BY <1>1, <1>2, <1>3

\* Every step before a restart.
LEMMA OrderStep ==
    ASSUME AgentAll, Undisturbed => Orderly, AgentNext, ~Restart, Undisturbed'
    PROVE  Orderly'
<1>1. ASSUME UNCHANGED <<chosen, grants, expired, faulty>> PROVE Orderly
  <2>1. chosen' \in [Positions -> Nat] /\ \A p \in Positions : chosen[p] \in Nat
    BY <1>1 DEF AgentAll, AgentInv, AgentTypeOK
  <2> QED
    BY <1>1, <2>1, CalmBefore
<1>2. CASE SkipNext \/ TurnEnds \/ Click \/ ClickInVain \/ SkipMember \/ LaterMemberExpired
  <2>1. UNCHANGED <<chosen, grants, expired, faulty>>
    BY <1>2 DEF SkipNext, TurnEnds, Click, ClickInVain, SkipMember, LaterMemberExpired, vars
  <2> QED
    BY <1>1, <1>2, <2>1, AsideOrder
<1>3. CASE BatchEnds \/ StoreQuestion \/ StoreRecord \/ RunTool
  <2>1. UNCHANGED <<chosen, grants, expired, faulty>>
    BY <1>3 DEF BatchEnds, StoreQuestion, StoreRecord, RunTool, Run, PersistPending, PersistGrant,
                agentVars, memory, vars
  <2> QED
    BY <1>1, <1>3, <2>1, BatchEndsOrder, QuestionOrder, RecordOrder, RunOrder
<1>4. CASE AnswerByText
  BY <1>4, AnswerOrder DEF AnswerByText
<1>5. CASE AnswerByButton
  <2>1. Head(clicks) \in [conf : Confirmations, yes : BOOLEAN]
    BY <1>5, HeadIs DEF AgentAll, ClicksOK, AnswerByButton
  <2>2. /\ Head(clicks).conf \in Confirmations
        /\ Answer(Head(clicks).conf, IF Head(clicks).yes THEN Members(Head(clicks).conf) ELSE {})
    BY <1>5, <2>1 DEF AnswerByButton
  <2> QED
    BY <2>2, AnswerOrder
<1> QED
  BY <1>2, <1>3, <1>4, <1>5, CallNextOrder, FirstMemberOrder, LaterMemberOrder, BatchEvaluateOrder,
     TroubleShows DEF AgentNext
-----------------------------------------------------------------------------
(* All steps together.                                                     *)

\* Only the agent asks here.
LEMMA AgentsOnlyStep == ASSUME AgentAll, AgentsOnly, AgentNext PROVE AgentsOnly'
<1> USE ConstantsAssumption
<1>1. ASSUME NEW req \in Requests, req.origin = "agent", Evaluate(req) PROVE AgentsOnly'
  <2>1. CASE Ask(req)
    <3>1. PICK c \in Confirmations :
             pending' = [pending EXCEPT ![c] = [request |-> req, resolved |-> FALSE,
                                                approved |-> FALSE]]
      BY <2>1 DEF Ask
    <3>2. /\ pending'[c].request = req
          /\ \A d \in Confirmations : d # c => pending'[d] = pending[d]
      BY <3>1 DEF AgentAll, AllInv, IInv, TypeOK
    <3> QED
      BY <1>1, <3>2 DEF AgentsOnly
  <2>2. CASE ~Ask(req)
    BY <1>1, <2>2 DEF Evaluate, Consume, AllowedByPolicy, Refused, AgentsOnly
  <2> QED
    BY <2>1, <2>2
<1>2. ASSUME NEW c \in Confirmations, Approve(c) \/ Deny(c) PROVE AgentsOnly'
  BY <1>2, AnswerRecords DEF AgentsOnly
<1>3. ASSUME NEW c \in Confirmations, NEW s, Answer(c, s) PROVE AgentsOnly'
  BY <1>2, <1>3 DEF Answer
<1>4. CASE AnswerByText
  BY <1>3, <1>4 DEF AnswerByText
<1>5. CASE AnswerByButton
  <2>1. Head(clicks) \in [conf : Confirmations, yes : BOOLEAN]
    BY <1>5, HeadIs DEF AgentAll, ClicksOK, AnswerByButton
  <2>2. /\ Head(clicks).conf \in Confirmations
        /\ Answer(Head(clicks).conf, IF Head(clicks).yes THEN Members(Head(clicks).conf) ELSE {})
    BY <1>5, <2>1 DEF AnswerByButton
  <2> QED
    BY <1>3, <2>2
<1>6. CASE CallNext
  <2>1. PICK inv \in Invocations : Evaluate(AgentRequest(inv, task.pos)) /\ task.pos \in Positions
    BY <1>6 DEF CallNext, UnusedInvocations, Execute
  <2> QED
    BY <1>1, <2>1, RequestIs
<1>7. CASE FirstMember
  <2>1. /\ Evaluate(AgentRequest(waits[task.conf].inv, task.pos))
        /\ waits[task.conf].inv \in Invocations /\ task.pos \in Positions
    BY <1>7, WaitIs DEF FirstMember, AtMember, Execute, AgentAll, AgentInv, AgentTypeOK
  <2> QED
    BY <1>1, <2>1, RequestIs
<1>8. CASE BatchEvaluate
  <2>1. Evaluate(op.req) /\ op.req \in Requests /\ op.req.origin = "agent"
    BY <1>8 DEF BatchEvaluate, EvaluateBatchMember, AgentAll, AgentInv, Handled
  <2> QED
    BY <1>1, <2>1
<1>9. CASE Restart
  <2>1. /\ pending' = dpending' /\ dpending' = [c \in Confirmations |-> AtStartup(dpending[c])]
    BY <1>9 DEF Restart, CrashAndRestart
  <2>2. ASSUME NEW c \in Confirmations, pending'[c] # None PROVE pending'[c].request.origin = "agent"
    <3>1. /\ dpending[c] # None /\ dpending[c] \in PendingRecords
          /\ pending'[c].request = dpending[c].request
      <4>1. pending'[c] = AtStartup(dpending[c])
        BY <2>1
      <4>2. dpending[c] # None /\ dpending[c] \in PendingRecords
        BY <2>2, <4>1 DEF AtStartup, AgentAll, AllInv, IInv, TypeOK
      <4> QED
        BY <4>1, <4>2 DEF AtStartup, PendingRecords
    <3>2. pending[c] # None /\ dpending[c].request = pending[c].request
      BY <3>1 DEF AgentAll, AllInv, ApprovalInv, Records, PendingAgrees, OwnIds
    <3> QED
      BY <3>1, <3>2 DEF AgentsOnly
  <2> QED
    BY <2>2 DEF AgentsOnly
<1>10. CASE UNCHANGED pending
  BY <1>10 DEF AgentsOnly
<1> QED
  BY <1>4, <1>5, <1>6, <1>7, <1>8, <1>9, <1>10
     DEF AgentNext, SkipNext, TurnEnds, Click, ClickInVain, SkipMember, LaterMember, ExecuteBatchMember,
         LaterMemberExpired, BatchEnds, StoreQuestion, StoreRecord, RunTool, Run, StoreFails,
         WriteFails, PersistPending, PersistGrant, Expires, Expire, Revokes, Revoke, memory, vars

\* The start-up denies what was open.
LEMMA RestartSettles == ASSUME AgentAll, AgentsOnly, Restart PROVE Restarted'
<1>1. /\ pending' = dpending' /\ dpending' = [c \in Confirmations |-> AtStartup(dpending[c])]
      /\ waits' = [c \in Confirmations |-> None] /\ task'.kind = "none" /\ op'.stage = "idle"
  BY DEF Restart, CrashAndRestart, NoTask, Idle
<1>2. ASSUME NEW c \in Confirmations, pending'[c] # None PROVE pending'[c].resolved
  <2>1. dpending[c] # None /\ dpending[c] \in PendingRecords
    BY <1>1, <1>2 DEF AtStartup, AgentAll, AllInv, IInv, TypeOK
  <2>2. pending[c] # None /\ dpending[c].request = pending[c].request
    BY <2>1 DEF AgentAll, AllInv, ApprovalInv, Records, PendingAgrees, OwnIds
  <2>3. dpending[c].request.origin = "agent"
    BY <2>2 DEF AgentsOnly
  <2> QED
    BY <1>1, <2>1, <2>3 DEF AtStartup, PendingRecords
<1> QED
  BY <1>1, <1>2 DEF Restarted

\* Nothing is asked any more afterwards.
LEMMA SettledStep == ASSUME AgentAll, Restarted, AgentNext, ~Restart PROVE Restarted'
<1>1. ~CallNext /\ ~SkipNext /\ ~TurnEnds /\ ~SkipMember /\ ~FirstMember /\ ~LaterMember
      /\ ~LaterMemberExpired /\ ~BatchEnds
  BY DEF Restarted, CallNext, SkipNext, TurnEnds, SkipMember, FirstMember, LaterMember,
         LaterMemberExpired, BatchEnds, AtMember
<1>2. ~AnswerByText /\ ~AnswerByButton
  <2>1. ASSUME AnswerByButton PROVE FALSE
    <3>1. Head(clicks) \in [conf : Confirmations, yes : BOOLEAN]
      BY <2>1, HeadIs DEF AgentAll, ClicksOK, AnswerByButton
    <3>2. Head(clicks).conf \in Confirmations /\ waits[Head(clicks).conf] # None
      BY <2>1, <3>1 DEF AnswerByButton, Answer
    <3> QED
      BY <3>2 DEF Restarted
  <2> QED
    BY <2>1 DEF Restarted, AnswerByText, Answer
<1>3. ~Click /\ ~StoreQuestion /\ ~BatchEvaluate /\ ~RunTool
  BY DEF Restarted, Click, StoreQuestion, BatchEvaluate, EvaluateBatchMember, RunTool, Run
<1>4. CASE ClickInVain
  BY <1>4 DEF ClickInVain, Restarted, vars
<1>5. CASE StoreRecord
  BY <1>5 DEF StoreRecord, PersistPending, PersistGrant, Restarted, Idle, agentVars, memory
<1>6. CASE StoreFails
  BY <1>6 DEF StoreFails, WriteFails, Restarted, Idle, NoTask, memory
<1>7. CASE Expires \/ Revokes
  BY <1>7 DEF Expires, Expire, Revokes, Revoke, Begin, Restarted, agentVars, memory
<1> QED
  BY <1>1, <1>2, <1>3, <1>4, <1>5, <1>6, <1>7 DEF AgentNext

\* Until a restart the questions are in order, unless something went wrong or an
\* answer was repeated; a restart leaves none open.
THEOREM QuestionInvariance == AgentSpec => []QuestionInv
<1>1. AgentInit => QuestionInv
  <2> SUFFICES ASSUME AgentInit PROVE QuestionInv
    OBVIOUS
  <2>1. /\ \A c \in Confirmations : pending[c] = None /\ waits[c] = None
        /\ op.stage = "idle" /\ task.kind = "turn"
    BY DEF AgentInit, Init, Idle, NoTask
  <2>2. AgentsOnly /\ Filed
    BY <2>1 DEF AgentsOnly, Filed
  <2>3. Asking /\ Resuming /\ Granted /\ Deriving
    BY <2>1 DEF Asking, Resuming, Granted, Deriving
  <2> QED
    BY <2>2, <2>3 DEF QuestionInv, Orderly
<1>2. AgentAll /\ QuestionInv /\ AgentNext => QuestionInv'
  BY AgentsOnlyStep, RestartSettles, SettledStep, OrderStep DEF QuestionInv
<1>3. QuestionInv /\ UNCHANGED allVars => QuestionInv'
  <2> SUFFICES ASSUME QuestionInv,
                      UNCHANGED <<pending, grants, expired, op, faulty, task, waits, chosen>>
               PROVE  QuestionInv'
    BY DEF allVars, agentVars, vars
  <2>1. (AgentsOnly <=> AgentsOnly') /\ (Restarted <=> Restarted') /\ (Undisturbed <=> Undisturbed')
    BY DEF AgentsOnly, Restarted, Undisturbed
  <2>2. (Filed <=> Filed') /\ (Asking <=> Asking') /\ (Resuming <=> Resuming')
    BY DEF Filed, Asking, Resuming
  <2>3. (Granted <=> Granted') /\ (Deriving <=> Deriving')
    BY DEF Granted, OwnGrant, FirstDue, Deriving
  <2> QED
    BY <2>1, <2>2, <2>3 DEF QuestionInv, Orderly
<1>4. AgentAll /\ QuestionInv /\ [AgentNext]_allVars => QuestionInv'
  BY <1>2, <1>3
<1> QED
  BY <1>1, <1>4, AgentInvariance, PTL DEF AgentSpec

\* A question of the agent that is open between two operations has the wait that
\* resumes its call, while no write failed, nothing expired or was revoked and no
\* answer was given twice: an approved call finds the grant it was asked for, so
\* a resumed batch asks nothing again.
THEOREM EveryQuestionCanBeAnswered == AgentSpec => []OpenQuestionHasAWait
<1>1. QuestionInv => OpenQuestionHasAWait
  <2> SUFFICES ASSUME QuestionInv, op = Idle, Undisturbed,
                      NEW c \in Confirmations, pending[c] # None, ~pending[c].resolved
               PROVE  waits[c] # None
    BY DEF OpenQuestionHasAWait, Undisturbed
  <2>1. op.stage = "idle"
    BY DEF Idle
  <2> QED
    BY <2>1 DEF QuestionInv, Restarted, Orderly, Asking
<1> QED
  BY <1>1, QuestionInvariance, PTL
=============================================================================
