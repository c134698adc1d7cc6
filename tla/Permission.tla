----------------------------- MODULE Permission -----------------------------
(***************************************************************************)
(* The permission gateway with its SQLite store, as the tool executor and  *)
(* the owners of paused work (agent, planner, workflow, CLI) drive it.     *)
(*   permission/gateway.py   PermissionGateway                             *)
(*   permission/store.py     InMemoryPermissionStore                       *)
(*   permission/sqlite.py    SQLitePermissionStore                         *)
(*   permission/executor.py  ToolExecutor.execute                          *)
(*                                                                         *)
(* The store mutates memory first and writes the record to disk in one or  *)
(* two separate transactions; the code between two transactions is         *)
(* synchronous, so while `op' is not idle only the next write, an error of *)
(* that write, or a crash can happen.                                      *)
(*                                                                         *)
(* A tool call (name, argument digest, resource scope) is one element of   *)
(* Calls; an origin stands for the pair (origin, goal_id).  Time is the    *)
(* set of confirmations whose expires_at has passed: a grant inherits the  *)
(* expiry of its confirmation.                                             *)
(***************************************************************************)
EXTENDS Naturals, FiniteSets, PermissionPolicy

CONSTANTS
    Confirmations,  \* confirmation ids (uuid4)
    Grants,         \* grant ids (uuid4)
    Invocations,    \* invocation ids of calls an owner can save and resume
    BatchInvocations, \* ids uuid4 makes for batch members: never saved
    Calls,          \* tool calls: name + argument digest + resource scope
    Tool,           \* [Calls -> tool names]
    Kind,           \* [Calls -> CallKinds], what the policy sees of a call
    Policies,       \* the configured status of each level
    Intents,        \* the marker sets of the users' sentences
    Origins,        \* the origins that occur
    None            \* no such record

AllOrigins == {"agent", "planner", "workflow", "external"}

Requests == [inv : Invocations \cup BatchInvocations, call : Calls, origin : Origins]

PendingRecords == [request : Requests, resolved : BOOLEAN, approved : BOOLEAN]

GrantRecords == [conf : Confirmations, inv : Invocations \cup BatchInvocations,
                 call : Calls, uses : {0, 1}, revoked : BOOLEAN]

ASSUME ConstantsAssumption ==
    /\ Kind \in [Calls -> CallKinds]
    /\ \A c \in Calls : WellDeclared(Kind[c])
    /\ Origins \subseteq AllOrigins
    /\ Policies \in [Levels -> Statuses]
    /\ Intents \subseteq SUBSET Markers
    /\ Invocations \cap BatchInvocations = {}
    /\ None \notin PendingRecords \cup GrantRecords \cup Requests
    /\ None \notin Confirmations \cup Grants

\* A grant's or a member's id is no confirmation's.
ASSUME IdsAssumption == Confirmations \cap (Grants \cup BatchInvocations) = {}

\* Where a synchronous gateway operation stands: the write it does next.
Stages == {"idle",
           "approve_pending", "approve_grant",   \* SQLitePermissionStore.approve
           "deny_pending", "revoke_grant",
           "ask_pending",                        \* save_pending
           "batch_grant", "batch_evaluate",      \* save_grant, then evaluate
           "consume_grant",                      \* consume_matching
           "run"}                                \* tool.run is about to start

VARIABLES
    pending,   \* store.pending
    grants,    \* store.grants
    dpending,  \* table permission_pending
    dgrants,   \* table permission_grants
    expired,   \* confirmations past their expires_at
    op,        \* the synchronous operation in progress
    issued,    \* ids uuid4 has handed out
    faulty,    \* a write has failed since the process started
    runs,      \* history: tool runs started on each grant
    denied,    \* history: confirmations whose denial was stored and answered
    revoked    \* history: grants whose revocation was stored and answered

vars == <<pending, grants, dpending, dgrants, expired, op, issued, faulty,
          runs, denied, revoked>>

memory  == <<pending, grants>>
disk    == <<dpending, dgrants>>
history == <<runs, denied, revoked>>

Idle == [stage |-> "idle", conf |-> None, grant |-> None, req |-> None]

-----------------------------------------------------------------------------
Fresh(id) == id \notin issued

\* InMemoryPermissionStore.require_pending
Live(c) == pending[c] # None /\ c \notin expired

\* A grant record of the given confirmation and request.
NewGrant(c, req) == [conf |-> c, inv |-> req.inv, call |-> req.call,
                     uses |-> 0, revoked |-> FALSE]

Usable(g) ==
    /\ grants[g] # None
    /\ ~grants[g].revoked
    /\ grants[g].uses < 1
    /\ grants[g].conf \notin expired

Covers(g, req) == grants[g].inv = req.inv /\ grants[g].call = req.call

Matches(g, req) == Usable(g) /\ Covers(g, req)

Begin(stage, c, g, req) ==
    op' = [stage |-> stage, conf |-> c, grant |-> g, req |-> req]

Init ==
    /\ pending = [c \in Confirmations |-> None]
    /\ grants = [g \in Grants |-> None]
    /\ dpending = pending
    /\ dgrants = grants
    /\ expired = {}
    /\ op = Idle
    /\ issued = {}
    /\ faulty = FALSE
    /\ runs = [g \in Grants |-> 0]
    /\ denied = {}
    /\ revoked = {}

-----------------------------------------------------------------------------
(* PermissionGateway.evaluate: external origins are refused; a matching    *)
(* grant is consumed in memory and the tool will run once that is stored;  *)
(* otherwise the policy decides.                                           *)

\* Mutant: the use of the grant is not counted.
ConsumeUncounted(req) ==
    /\ req.origin # "external"
    /\ \E g \in Grants : Matches(g, req) /\ Begin("consume_grant", grants[g].conf, g, req)
    /\ UNCHANGED <<pending, grants, issued>>

Consume(req) ==
    /\ req.origin # "external"
    /\ \E g \in Grants :
          /\ Matches(g, req)
          /\ grants' = [grants EXCEPT ![g].uses = @ + 1]
          /\ Begin("consume_grant", grants[g].conf, g, req)
    /\ UNCHANGED <<pending, issued>>

AllowedByPolicy(req) ==
    /\ Begin("run", None, None, req)
    /\ UNCHANGED <<pending, grants, issued>>

Ask(req) ==
    /\ \E c \in Confirmations :
          /\ Fresh(c)
          /\ pending' = [pending EXCEPT ![c] = [request |-> req, resolved |-> FALSE,
                                                approved |-> FALSE]]
          /\ issued' = issued \cup {c}
          /\ Begin("ask_pending", c, None, req)
    /\ UNCHANGED grants

Refused(req) ==
    /\ op' = Idle
    /\ UNCHANGED <<pending, grants, issued>>

Evaluate(req) ==
    \/ Consume(req)
    \/ /\ req.origin # "external"
       /\ \A g \in Grants : ~Matches(g, req)
       /\ \E intent \in Intents, confirmWrite \in {"on", "off"} :
             LET status == Decision(Policies, Kind[req.call], intent, confirmWrite).status
             IN  \/ status = "allow" /\ AllowedByPolicy(req)
                 \/ status = "require_confirmation" /\ Ask(req)
                 \/ status = "deny" /\ Refused(req)
    \/ req.origin = "external" /\ Refused(req)

\* ToolExecutor.execute of an ordinary call.  An owner passes a new invocation
\* id or the one it saved when the call was paused.
Execute(req) ==
    /\ op = Idle
    /\ req.inv \in Invocations
    /\ Evaluate(req)
    /\ UNCHANGED <<disk, expired, faulty, history>>

\* ToolExecutor.execute of a later member of an approved batch: the gateway
\* first derives a one-use grant for it (grant_batch_member) and stores it.
ExecuteBatchMember(c, req) ==
    /\ op = Idle
    /\ Live(c)
    /\ pending[c].resolved /\ pending[c].approved
    /\ Tool[req.call] = Tool[pending[c].request.call]
    /\ Kind[req.call].level = Kind[pending[c].request.call].level
    /\ req.origin = pending[c].request.origin
    /\ req.inv \in BatchInvocations /\ Fresh(req.inv)
    /\ \E g \in Grants :
          /\ Fresh(g)
          /\ grants' = [grants EXCEPT ![g] = NewGrant(c, req)]
          /\ issued' = issued \cup {g, req.inv}
          /\ Begin("batch_grant", c, g, req)
    /\ UNCHANGED <<pending, disk, expired, faulty, history>>

EvaluateBatchMember ==
    /\ op.stage = "batch_evaluate"
    /\ Evaluate(op.req)
    /\ UNCHANGED <<disk, expired, faulty, history>>

-----------------------------------------------------------------------------
(* The user's side: approve, deny, revoke.                                 *)

\* The first approval creates the grant; a repeated one returns the grant that
\* exists and stores both records again.  An expired or unknown confirmation,
\* a denied one, or one approved without a grant, raises an error.
Approve(c) ==
    /\ op = Idle
    /\ Live(c)
    /\ \/ /\ ~pending[c].resolved
          /\ pending' = [pending EXCEPT ![c].resolved = TRUE, ![c].approved = TRUE]
          /\ \E g \in Grants :
                /\ Fresh(g)
                /\ grants' = [grants EXCEPT ![g] = NewGrant(c, pending[c].request)]
                /\ issued' = issued \cup {g}
                /\ Begin("approve_pending", c, g, None)
       \/ /\ pending[c].resolved /\ pending[c].approved
          /\ \E g \in Grants :
                /\ grants[g] # None /\ grants[g].conf = c
                /\ Begin("approve_pending", c, g, None)
          /\ UNCHANGED <<pending, grants, issued>>
    /\ UNCHANGED <<disk, expired, faulty, history>>

\* Mutant: a denial overrides the approval that was given.
DenyAnyway(c) ==
    /\ op = Idle
    /\ pending[c] # None
    /\ pending' = [pending EXCEPT ![c].resolved = TRUE, ![c].approved = FALSE]
    /\ Begin("deny_pending", c, None, None)
    /\ UNCHANGED <<grants, disk, expired, issued, faulty, history>>

Deny(c) ==
    /\ op = Idle
    /\ pending[c] # None
    /\ pending' = IF pending[c].resolved THEN pending
                  ELSE [pending EXCEPT ![c].resolved = TRUE, ![c].approved = FALSE]
    /\ Begin("deny_pending", c, None, None)
    /\ UNCHANGED <<grants, disk, expired, issued, faulty, history>>

Revoke(g) ==
    /\ op = Idle
    /\ grants[g] # None
    /\ grants' = [grants EXCEPT ![g].revoked = TRUE]
    /\ Begin("revoke_grant", grants[g].conf, g, None)
    /\ UNCHANGED <<pending, disk, expired, issued, faulty, history>>

-----------------------------------------------------------------------------
(* The store's transactions, one per record.                               *)

\* The rows written so far.
StoredPending == [dpending EXCEPT ![op.conf] = pending[op.conf]]
StoredGrant   == [dgrants EXCEPT ![op.grant] = grants[op.grant]]

\* _persist_pending
PersistPending ==
    /\ op.stage \in {"approve_pending", "deny_pending", "ask_pending"}
    /\ dpending' = StoredPending
    /\ op' = IF op.stage = "approve_pending" THEN [op EXCEPT !.stage = "approve_grant"]
             ELSE Idle
    /\ denied' = IF op.stage = "deny_pending" /\ ~pending[op.conf].approved
                 THEN denied \cup {op.conf} ELSE denied
    /\ UNCHANGED <<memory, dgrants, expired, issued, faulty, runs, revoked>>

\* _persist_grant
PersistGrant ==
    /\ op.stage \in {"approve_grant", "revoke_grant", "batch_grant", "consume_grant"}
    /\ dgrants' = StoredGrant
    /\ op' = CASE op.stage = "batch_grant"   -> [op EXCEPT !.stage = "batch_evaluate"]
               [] op.stage = "consume_grant" -> [op EXCEPT !.stage = "run"]
               [] OTHER                      -> Idle
    /\ revoked' = IF op.stage = "revoke_grant" THEN revoked \cup {op.grant} ELSE revoked
    /\ UNCHANGED <<memory, dpending, expired, issued, faulty, runs, denied>>

\* The transaction raises (database locked, disk full): the exception leaves
\* the operation, the record in memory stays changed.
WriteFails ==
    /\ op.stage \notin {"idle", "batch_evaluate", "run"}
    /\ op' = Idle
    /\ faulty' = TRUE
    /\ UNCHANGED <<memory, disk, expired, issued, history>>

\* ToolExecutor.execute reaches `await tool.run(arguments)`.
Run ==
    /\ op.stage = "run"
    /\ runs' = IF op.grant = None THEN runs ELSE [runs EXCEPT ![op.grant] = @ + 1]
    /\ op' = Idle
    /\ UNCHANGED <<memory, disk, expired, issued, faulty, denied, revoked>>

-----------------------------------------------------------------------------
(* The environment.                                                        *)

Expire(c) ==
    /\ c \in issued \ expired
    /\ expired' = expired \cup {c}
    /\ UNCHANGED <<memory, disk, op, issued, faulty, history>>

\* A record as the runtime leaves it at start-up: a wait of an ad-hoc agent
\* turn is denied, planner and workflow waits are kept.
AtStartup(rec) ==
    IF rec # None /\ ~rec.resolved /\ rec.request.origin = "agent"
    THEN [rec EXCEPT !.resolved = TRUE, !.approved = FALSE] ELSE rec

\* The process dies and starts again: _load, then the start-up denials.
CrashAndRestart ==
    /\ dpending' = [c \in Confirmations |-> AtStartup(dpending[c])]
    /\ pending' = dpending'
    /\ grants' = dgrants
    /\ denied' = denied \cup { c \in Confirmations : dpending'[c] # dpending[c] }
    /\ op' = Idle
    /\ faulty' = FALSE
    /\ UNCHANGED <<dgrants, expired, issued, runs, revoked>>

Next ==
    \/ \E req \in Requests : Execute(req)
    \/ \E c \in Confirmations, req \in Requests : ExecuteBatchMember(c, req)
    \/ EvaluateBatchMember
    \/ \E c \in Confirmations : Approve(c) \/ Deny(c) \/ Expire(c)
    \/ \E g \in Grants : Revoke(g)
    \/ PersistPending \/ PersistGrant \/ WriteFails \/ Run
    \/ CrashAndRestart

Spec == Init /\ [][Next]_vars

-----------------------------------------------------------------------------
(* Properties.                                                             *)

\* The state has its type: every record is well formed, in memory and on disk.
TypeOK ==
    /\ pending \in [Confirmations -> PendingRecords \cup {None}]
    /\ dpending \in [Confirmations -> PendingRecords \cup {None}]
    /\ grants \in [Grants -> GrantRecords \cup {None}]
    /\ dgrants \in [Grants -> GrantRecords \cup {None}]
    /\ expired \subseteq Confirmations
    /\ op \in [stage : Stages, conf : Confirmations \cup {None},
               grant : Grants \cup {None}, req : Requests \cup {None}]
    /\ issued \subseteq Confirmations \cup Grants \cup BatchInvocations
    /\ faulty \in BOOLEAN
    /\ runs \in [Grants -> Nat]
    /\ denied \subseteq Confirmations
    /\ revoked \subseteq Grants

\* A grant is one-use: no sequence of resumed calls, failed writes and crashes
\* starts the tool twice on the same grant (max_uses = 1, stored before the
\* tool runs).
OneRunPerGrant == \A g \in Grants : runs[g] <= 1

\* Once a revocation has been stored and answered, the grant starts no tool.
NoRunAfterRevocation ==
    [][\A g \in revoked : runs'[g] = runs[g]]_vars

\* What runs on a grant is what the user was asked: the same tool and level,
\* and for the first member the very call.
RunsWhatWasApproved ==
    [][\A g \in Grants : runs'[g] # runs[g] =>
         LET asked == pending[dgrants[g].conf] IN
         /\ asked # None /\ asked.resolved /\ asked.approved
         /\ Tool[op.req.call] = Tool[asked.request.call]
         /\ dgrants[g].inv \in Invocations => op.req.call = asked.request.call]_vars

-----------------------------------------------------------------------------
(* The gateway keeps the promise stated in Authorization.                  *)

\* A confirmation as its asker sees it; an id whose record was lost in a crash
\* is never handed out again.
StatusOf(c) ==
    CASE pending[c] = None /\ Fresh(c)  -> "new"
      [] pending[c] = None /\ ~Fresh(c) -> "lost"
      [] pending[c] # None /\ ~pending[c].resolved -> "open"
      [] pending[c] # None /\ pending[c].resolved /\ pending[c].approved  -> "approved"
      [] pending[c] # None /\ pending[c].resolved /\ ~pending[c].approved -> "refused"

Promise == INSTANCE Authorization WITH
    status <- [c \in Confirmations |-> StatusOf(c)],
    owner  <- [g \in Grants |-> IF grants[g] = None THEN None ELSE grants[g].conf],
    spent  <- { g \in Grants : runs[g] > 0 },
    told   <- denied

\* Every step of the gateway, its store, a failed write and a crash is a step of
\* the abstract specification, or changes nothing it speaks about.
KeepsPromise == Promise!Spec
=============================================================================
