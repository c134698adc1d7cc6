------------------------------ MODULE Workflow ------------------------------
(***************************************************************************)
(* One workflow run: the deterministic step machine, its record in the     *)
(* store, and the permission questions its tool steps ask.                 *)
(*   workflow/runtime.py   WorkflowRuntime                                 *)
(*   workflow/registry.py  WorkflowRegistry._validate                      *)
(*   workflow/sqlite.py    SQLiteWorkflowStore                             *)
(*                                                                         *)
(* An operation loads the run, works on its copy and suspends at a save or *)
(* while a tool runs; there a timeout may cut it short or the process may  *)
(* die.  One operation runs at a time.  The questions are the gateway's    *)
(* (module Permission): in its database, or in memory with the store that  *)
(* the executor has by default.                                            *)
(***************************************************************************)
EXTENDS Integers, Sequences, FiniteSets

CONSTANTS
    Setups,      \* definitions, each with the gateway's store, see SetupAssumption
    MaxSteps,    \* WorkflowRuntime.max_steps
    MaxCalls     \* bound: executions of a step's tool and approvals of its
                 \* questions in the behaviours explored

NoStep == 0
Policies == {"allow", "confirm", "deny"}

\* The edges _validate_acyclic follows in the steps f of a definition.
Declared(f, i) == {f[i].next, f[i].onTrue, f[i].onFalse, f[i].onFailure} \ {NoStep}

\* The steps reached from a set of steps by declared edges.
Reached(f, from) ==
    LET Grow[n \in 0..Len(f)] ==
            IF n = 0 THEN from
            ELSE Grow[n - 1] \cup UNION { Declared(f, i) : i \in Grow[n - 1] }
    IN  Grow[Len(f)]

\* WorkflowRegistry._validate accepts the definition.
Accepted(f) ==
    /\ \E i \in DOMAIN f : f[i].type = "end"
    /\ \A i \in DOMAIN f : i \notin Reached(f, Declared(f, i))
    /\ Reached(f, {1}) = DOMAIN f

ASSUME SetupAssumption ==
    /\ MaxSteps \in Nat /\ MaxCalls \in Nat
    /\ \A d \in Setups :
          LET Ids == DOMAIN d.flow \cup {NoStep}
          IN  /\ d.persisted \in BOOLEAN   \* the gateway has its SQLite store
              /\ Len(d.flow) \in Nat \ {0} /\ DOMAIN d.flow = 1..Len(d.flow)
              /\ Accepted(d.flow)
              /\ \A i \in DOMAIN d.flow :
                    d.flow[i] \in [type : {"tool", "condition", "ask", "set", "end"},
                                   next : Ids, onTrue : Ids, onFalse : Ids, onFailure : Ids,
                                   attempts : 1..10, policies : SUBSET Policies \ {{}}]

VARIABLES
    setup,      \* the definition that runs and the gateway's store; never changes
    db,         \* the run in the store
    run,        \* the copy the current operation works on
    pc,         \* where that operation is suspended, and what follows a save
    count,      \* _advance's count
    policy,     \* what the permission policy says of a tool step now
    question,   \* the gateway's view of the step's latest question
    calls,      \* history: executions of the step's tool
    asked,      \* history: executions let through by a grant
    approvals   \* history: questions approved

vars == <<setup, db, run, pc, count, policy, question, calls, asked, approvals>>

history == <<calls, asked, approvals>>

Flow == setup.flow
Steps == DOMAIN Flow
Ids == Steps \cup {NoStep}

Terminal == {"completed", "failed", "cancelled"}

NewStep == [status |-> "pending", attempts |-> 0]

NewRun == [status |-> "pending", current |-> NoStep, steps |-> [s \in Steps |-> NewStep]]

Idle == [at |-> "idle", then |-> "return"]
At(place) == [at |-> place, then |-> "return"]

Init ==
    /\ setup \in Setups
    /\ db = NewRun /\ run = NewRun
    /\ pc = Idle /\ count = 0
    /\ policy \in { p \in [Steps -> Policies] : \A s \in Steps : p[s] \in Flow[s].policies }
    /\ question = [s \in Steps |-> "none"]
    /\ calls = [s \in Steps |-> 0]
    /\ asked = [s \in Steps |-> 0]
    /\ approvals = [s \in Steps |-> 0]

-----------------------------------------------------------------------------
(* Helpers.                                                                *)

\* _next_id: without a declared successor the following step of the list.
NextId(s) ==
    IF Flow[s].next # NoStep THEN Flow[s].next ELSE IF s < Len(Flow) THEN s + 1 ELSE NoStep

SetStep(r, s, status) == [r EXCEPT !.steps[s].status = status]

\* The copy is dropped when the operation ends.
Ended == pc' = Idle /\ run' = NewRun /\ count' = 0

\* _save, and where the operation goes when the write has returned.
Save(r, then) == run' = r /\ pc' = [at |-> "save", then |-> then]

Finish(r, status) == Save([r EXCEPT !.status = status], "return")

Stored == run

Written ==
    /\ pc.at = "save"
    /\ db' = Stored
    /\ IF pc.then = "return" THEN Ended ELSE pc' = At(pc.then) /\ UNCHANGED <<run, count>>
    /\ UNCHANGED <<setup, policy, question, history>>

-----------------------------------------------------------------------------
(* _advance, one iteration at a time.                                      *)

Current == run.current

\* Mutant: a completed step is entered like any other.
NeverSkipped(s) == FALSE

Skipped(s) == run.steps[s].status = "completed"

InLoop ==
    /\ pc.at = "advance"
    /\ run.status = "running" /\ Current # NoStep /\ count < MaxSteps

\* The loop goes on with a step that is not completed.
Entering(types) == InLoop /\ Flow[Current].type \in types /\ ~Skipped(Current)

Unaffected == UNCHANGED <<db, setup, policy, question, history>>

SkipCompleted ==
    /\ InLoop /\ Skipped(Current)
    /\ run' = [run EXCEPT !.current = NextId(Current)]
    /\ count' = count + 1
    /\ UNCHANGED pc /\ Unaffected

\* The step's execution calls _advance anew.
ToToolStep ==
    /\ Entering({"tool"})
    /\ pc' = At("call")
    /\ count' = 0
    /\ UNCHANGED run /\ Unaffected

\* A condition or a set step.
PlainStep ==
    /\ Entering({"condition", "set"})
    /\ \E to \in IF Flow[Current].type = "set" THEN {NextId(Current)}
                 ELSE {Flow[Current].onTrue, Flow[Current].onFalse} :
          Save([SetStep(run, Current, "completed") EXCEPT !.current = to], "advance")
    /\ count' = count + 1
    /\ Unaffected

\* Reading a variable that is not there.
StepRaises ==
    /\ Entering({"condition", "set", "end"})
    /\ LET failed == SetStep(run, Current, "failed")
       IN  IF Flow[Current].onFailure # NoStep
           THEN run' = [failed EXCEPT !.current = Flow[Current].onFailure] /\ UNCHANGED pc
           ELSE Finish(failed, "failed")
    /\ count' = count + 1
    /\ Unaffected

AskStep ==
    /\ Entering({"ask"})
    /\ \/ Save([SetStep(run, Current, "waiting") EXCEPT !.status = "waiting_for_input"], "return")
       \/ Save([SetStep(run, Current, "completed") EXCEPT !.current = NextId(Current)], "advance")
    /\ count' = count + 1
    /\ Unaffected

EndStep ==
    /\ Entering({"end"})
    /\ Finish(SetStep(run, Current, "completed"), "completed")
    /\ count' = count + 1
    /\ Unaffected

\* Out of steps, or behind the last one.
AdvanceStops ==
    /\ pc.at = "advance"
    /\ run.status = "running"
    /\ Current = NoStep \/ count = MaxSteps
    /\ Finish(run, "failed")
    /\ UNCHANGED count /\ Unaffected

-----------------------------------------------------------------------------
(* _execute_tool_step.                                                     *)

InCall == pc.at = "call"

Called(r, s) == [SetStep(r, s, "running") EXCEPT !.steps[s].attempts = @ + 1]

\* The gateway lets the call through, on a grant or by policy.
Passes(s) == question[s] = "granted" \/ policy[s] = "allow"

\* Mutant: a grant serves again.
GrantKept(s) == question

GrantUsed(s) == [question EXCEPT ![s] = IF @ = "granted" THEN "spent" ELSE @]

Executed(s) ==
    /\ Passes(s)
    /\ calls[s] < MaxCalls
    /\ calls' = [calls EXCEPT ![s] = @ + 1]
    /\ asked' = [asked EXCEPT ![s] = @ + IF question[s] = "granted" THEN 1 ELSE 0]
    /\ question' = GrantUsed(s)
    /\ UNCHANGED <<approvals, setup, policy>>

Succeeded(r, s) == [SetStep(r, s, "completed") EXCEPT !.current = NextId(s), !.status = "running"]

ToolSucceeds ==
    /\ InCall /\ Executed(Current)
    /\ Save(Succeeded(Called(run, Current), Current), "advance")
    /\ UNCHANGED <<db, count>>

\* Mutant: the run stays on the step that failed.
FailedStays(r, s) ==
    IF Flow[s].onFailure # NoStep
    THEN Save([SetStep(r, s, "failed") EXCEPT !.status = "running"], "advance")
    ELSE Finish(SetStep(r, s, "failed"), "failed")

\* _tool_failed
ToolFailed(r, s) ==
    IF Flow[s].onFailure # NoStep
    THEN Save([SetStep(r, s, "failed") EXCEPT !.status = "running",
                                              !.current = Flow[s].onFailure], "advance")
    ELSE Finish(SetStep(r, s, "failed"), "failed")

MayRetry(r, s) == r.steps[s].attempts < Flow[s].attempts

\* The tool fails, or its result lacks what the step maps; a failure the tool
\* declares transient is tried again as a new invocation.
ToolFails ==
    /\ InCall /\ Executed(Current)
    /\ \/ ToolFailed(Called(run, Current), Current)
       \/ /\ MayRetry(Called(run, Current), Current)
          /\ Save(SetStep(Called(run, Current), Current, "pending"), "call")
    /\ UNCHANGED <<db, count>>

\* Arguments that cannot be resolved, or a policy that denies.
CallRefused ==
    /\ InCall
    /\ \/ ToolFailed(run, Current)
       \/ ~Passes(Current) /\ policy[Current] = "deny" /\ ToolFailed(Called(run, Current), Current)
    /\ UNCHANGED <<db, count, setup, policy, question, history>>

ToolAsks ==
    /\ InCall /\ ~Passes(Current) /\ policy[Current] = "confirm"
    /\ question' = [question EXCEPT ![Current] = "open"]
    /\ Save([SetStep(Called(run, Current), Current, "waiting")
               EXCEPT !.status = "waiting_for_permission"], "return")
    /\ UNCHANGED <<db, count, setup, policy, history>>

-----------------------------------------------------------------------------
(* The operations.  Each loads the run from the store.                     *)

Idling == pc.at = "idle"

\* Bound: no operation begins once a tool was executed, or its execution
\* approved, MaxCalls times.
Begins ==
    /\ Idling
    /\ \A s \in Steps : calls[s] < MaxCalls /\ approvals[s] < MaxCalls
    /\ count' = 0

\* The run is given its inputs at the start; a required one may be missing.
Start ==
    /\ Begins /\ db = NewRun
    /\ \/ Save([NewRun EXCEPT !.status = "waiting_for_input"], "return")
       \/ Save([NewRun EXCEPT !.status = "running", !.current = 1], "advance")
    /\ UNCHANGED <<db, setup, policy, question, history>>

InputTaken(r) ==
    IF r.current = NoStep THEN [r EXCEPT !.current = 1]
    ELSE IF r.steps[r.current].status = "waiting"
         THEN [SetStep(r, r.current, "completed") EXCEPT !.current = NextId(r.current)]
         ELSE r

ProvideInput ==
    /\ Begins /\ db.status = "waiting_for_input"
    /\ \/ Save(db, "return")
       \/ Save([InputTaken(db) EXCEPT !.status = "running"], "advance")
    /\ UNCHANGED <<db, setup, policy, question, history>>

WaitsForPermission == db.status = "waiting_for_permission" /\ db.current # NoStep

Asked == db.current

\* gateway.approve: an approved question answers with its grant again.
Approvable(s) == question[s] \in {"open", "granted", "spent"}

Approve ==
    /\ Begins /\ WaitsForPermission /\ Approvable(Asked)
    /\ question' = [question EXCEPT ![Asked] = IF @ = "open" THEN "granted" ELSE @]
    /\ approvals' = [approvals EXCEPT ![Asked] = @ + IF question[Asked] = "open" THEN 1 ELSE 0]
    /\ Save([db EXCEPT !.status = "running"], "call")
    /\ UNCHANGED <<db, setup, policy, calls, asked>>

\* The gateway does not know the question: it is asked anew and approved at
\* once.
ApproveRecreated ==
    /\ Begins /\ WaitsForPermission /\ question[Asked] = "none" /\ policy[Asked] = "confirm"
    /\ question' = [question EXCEPT ![Asked] = "granted"]
    /\ approvals' = [approvals EXCEPT ![Asked] = @ + 1]
    /\ Save([db EXCEPT !.status = "running"], "call")
    /\ UNCHANGED <<db, setup, policy, calls, asked>>

\* The process ends between the two writes of an approval: the question is
\* approved and has no grant.
ApproveTorn ==
    /\ setup.persisted /\ Idling /\ WaitsForPermission /\ question[Asked] = "open"
    /\ question' = [question EXCEPT ![Asked] = "torn"]
    /\ UNCHANGED <<db, run, pc, count, setup, policy, history>>

\* The policy no longer asks: the call that should ask executes the tool, and
\* approve raises.
ApproveRuns ==
    /\ Idling /\ WaitsForPermission /\ question[Asked] = "none" /\ policy[Asked] = "allow"
    /\ Executed(Asked)
    /\ UNCHANGED <<db, run, pc, count>>

Denied(s) == [question EXCEPT ![s] = IF @ \in {"open", "expired"} THEN "denied" ELSE @]

Deny ==
    /\ Begins /\ WaitsForPermission
    /\ question' = Denied(Asked)
    /\ ToolFailed(db, Asked)
    /\ UNCHANGED <<db, setup, policy, history>>

Pause ==
    /\ Begins /\ db.status = "running"
    /\ Save([db EXCEPT !.status = "paused"], "return")
    /\ UNCHANGED <<db, setup, policy, question, history>>

Resume ==
    /\ Begins /\ db.status = "paused"
    /\ Save([db EXCEPT !.status = "running"], "advance")
    /\ UNCHANGED <<db, setup, policy, question, history>>

Cancellable == db.status \notin Terminal /\ db # NewRun

Cancel ==
    /\ Begins /\ Cancellable
    /\ question' = IF WaitsForPermission THEN Denied(Asked) ELSE question
    /\ Finish([db EXCEPT !.steps = [s \in Steps |->
                  IF db.steps[s].status \in {"pending", "waiting"}
                  THEN [db.steps[s] EXCEPT !.status = "cancelled"] ELSE db.steps[s]]],
              "cancelled")
    /\ UNCHANGED <<db, setup, policy, history>>

-----------------------------------------------------------------------------
(* What happens around the operations.                                     *)

\* The confirmation's time runs out, and its grant's with it.
Expire(s) ==
    /\ question[s] \in {"open", "granted", "spent"}
    /\ question' = [question EXCEPT ![s] = "expired"]
    /\ UNCHANGED <<db, run, pc, count, setup, policy, history>>

\* The owner changes what asks for confirmation.
PolicyChanges(s) ==
    /\ Idling
    /\ \E p \in Flow[s].policies \ {policy[s]} : policy' = [policy EXCEPT ![s] = p]
    /\ UNCHANGED <<setup, db, run, pc, count, question, history>>

\* A timeout, or the owner interrupts: the write in progress may or may not
\* reach the store, the tool may or may not have run.
CutShort ==
    /\ pc.at \in {"save", "call"}
    /\ Ended
    /\ \/ pc.at = "save" /\ db' = run /\ UNCHANGED <<question, history, setup, policy>>
       \/ db' = db /\ UNCHANGED <<question, history, setup, policy>>
       \/ pc.at = "call" /\ db' = db /\ Executed(Current)

\* The process ends, wherever it is, and starts again.
Restart ==
    /\ Ended
    /\ db' \in IF pc.at = "save" THEN {db, run} ELSE {db}
    /\ question' = IF setup.persisted THEN question ELSE [s \in Steps |-> "none"]
    /\ UNCHANGED <<setup, policy, history>>

Advance ==
    \/ SkipCompleted \/ ToToolStep \/ PlainStep \/ StepRaises
    \/ AskStep \/ EndStep \/ AdvanceStops

Call == ToolSucceeds \/ ToolFails \/ CallRefused \/ ToolAsks

Operation ==
    \/ Start \/ ProvideInput \/ Approve \/ ApproveRecreated \/ ApproveTorn \/ ApproveRuns
    \/ Deny \/ Pause \/ Resume \/ Cancel

Next ==
    \/ Written \/ Advance \/ Call
    \/ Operation
    \/ \E s \in Steps : Expire(s) \/ PolicyChanges(s)
    \/ CutShort \/ Restart

\* The event loop runs an operation that was begun to its next suspension, a
\* write returns, and a tool answers or is cut off by its timeout.
Spec == Init /\ [][Next]_vars /\ WF_vars(Written) /\ WF_vars(Advance) /\ WF_vars(Call)

-----------------------------------------------------------------------------
(* Properties.                                                             *)

StepStates == {"pending", "running", "waiting", "completed", "failed", "cancelled"}
RunStates == {"pending", "running", "waiting_for_input", "waiting_for_permission", "paused"}
             \cup Terminal

Run == [status : RunStates, current : Ids,
        steps : [Steps -> [status : StepStates, attempts : Nat]]]

\* A step whose completion reached the store is never executed again, neither
\* by a resumed nor by a restarted run, nor by a loop of the definition.
CompletedStepNotRerun ==
    [][\A s \in Steps : db.steps[s].status = "completed" => calls'[s] = calls[s]]_vars

\* Executions on a grant never outnumber the questions the owner approved: an
\* approval repeated after a timeout or a restart buys no second execution.
EffectNeedsApproval == \A s \in Steps : asked[s] <= approvals[s]

\* Nothing relies on the fall-through to the next step of the list.
Explicit == \A i \in Steps : Flow[i].next = NoStep => Flow[i].type \in {"condition", "end"}

\* Every operation that begins ends: in a definition that names its successors,
\* no chain of steps, retries and branches goes on for ever.
OperationsEnd == Explicit => [](~Idling => <>Idling)

=============================================================================
