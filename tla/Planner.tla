------------------------------ MODULE Planner -------------------------------
(***************************************************************************)
(* One goal of the planner: the loop of model rounds and calls, its record *)
(* in the store, its waits for the user and for a permission, and a        *)
(* cancellation that may come at any time.                                 *)
(*   planner/runtime.py   PlannerRuntime                                   *)
(*   planner/models.py    Goal, Plan, PlanStep and their transitions       *)
(*   planner/sqlite.py    SQLitePlanStore                                  *)
(*                                                                         *)
(* The runner (run, resume, approve_permission, deny_permission) works on  *)
(* its own copy of the goal and suspends at a load, a save, a model call   *)
(* and a tool; cancel works on another copy.  What the model calls, what   *)
(* tools return and how the budget goes is left open.                      *)
(***************************************************************************)
EXTENDS Integers, Sequences, FiniteSets

CONSTANTS
    Tools,        \* tools the model may call
    Confirmed,    \* those whose calls must be confirmed
    MaxRounds,    \* PlannerRuntime.max_steps
    MaxReplans,   \* PlannerRuntime.max_replans
    MaxAttempts,  \* PlannerRuntime.max_attempts_per_step
    MaxPlan,      \* bound: steps of a plan
    MaxResponse,  \* bound: calls in one response of the model
    MaxPauses     \* bound: answers the owner gives to waits
None == "none"

ASSUME PlannerAssumption ==
    /\ Confirmed \subseteq Tools /\ None \notin Tools
    /\ {MaxRounds, MaxReplans, MaxAttempts, MaxPlan, MaxResponse, MaxPauses} \subseteq Nat
    /\ MaxPlan > 0 /\ MaxResponse > 0

VARIABLES
    db,        \* the goal in the store
    goal,      \* the runner's copy
    pc,        \* where the runner is suspended, what follows, the tool and step
    rounds,    \* action_index of _execute
    left,      \* calls of the response still to handle
    flag,      \* the goal is in _cancelled
    pend,      \* the goal's entry in _pending_permissions, or NoEntry
    question,  \* the gateway's view of the entry's confirmation
    cancelling,\* the canceller and its copy
    pauses,    \* history: waits answered
    runs,      \* history: executions, by step of the current plan and tool
    lost       \* history: calls were handled that no stored goal tells of

vars == <<db, goal, pc, rounds, left, flag, pend, question, cancelling, pauses, runs, lost>>

history == <<runs, lost>>

Terminal == {"completed", "failed", "cancelled"}

NewStep == [status |-> "pending", tries |-> [t \in Tools |-> 0]]
NewPlan(n) == [i \in 1..n |-> NewStep]

\* wait is the tool whose confirmation the goal record carries.
NewGoal == [status |-> "pending", plan |-> << >>, replans |-> 0, wait |-> None]

At(place) == [at |-> place, then |-> "return", tool |-> None, step |-> 0]
Idle == At("idle")
Quiet == [at |-> "idle", goal |-> NewGoal]

\* The tool asked for, and the step, known by its plan's revision and its place.
Entry(t, g, i) == [tool |-> t, plan |-> g.replans, step |-> i]
NoEntry == [tool |-> None, plan |-> 0, step |-> 0]

NoRuns == [i \in 1..MaxPlan |-> [t \in Tools |-> 0]]

Init ==
    /\ db = NewGoal /\ goal = NewGoal
    /\ pc = Idle /\ rounds = 0 /\ left = 0
    /\ flag = FALSE /\ pend = NoEntry /\ question = None
    /\ cancelling = Quiet
    /\ pauses = 0 /\ runs = NoRuns /\ lost = FALSE

-----------------------------------------------------------------------------
(* The goal.                                                               *)

\* GOAL_TRANSITIONS
Successors(status) ==
    CASE status = "pending"  -> {"planning", "cancelled"}
      [] status = "planning" -> {"running", "waiting_for_user", "waiting_for_permission",
                                 "failed", "cancelled"}
      [] status = "running"  -> {"planning", "waiting_for_user", "waiting_for_permission",
                                 "completed", "failed", "cancelled"}
      [] status = "waiting_for_user"       -> {"planning", "running", "cancelled"}
      [] status = "waiting_for_permission" -> {"running", "failed", "cancelled"}
      [] OTHER -> {}

MayBecome(g, status) == status = g.status \/ status \in Successors(g.status)

Done(step) == step.status \in {"completed", "skipped"}

Remaining(g) == { i \in DOMAIN g.plan : ~Done(g.plan[i]) }

\* _current_step
CurrentStep(g) == CHOOSE i \in Remaining(g) : \A j \in Remaining(g) : i <= j

SetStep(g, i, status) == [g EXCEPT !.plan[i].status = status]

-----------------------------------------------------------------------------
(* Suspension of the runner.                                               *)

Environment == UNCHANGED <<flag, pend, question, cancelling, pauses, history>>

\* The call returns or raises: its copy of the goal is dropped.
Ended ==
    /\ pc' = Idle /\ goal' = NewGoal
    /\ rounds' = 0 /\ left' = 0

Save(g, then) == goal' = g /\ pc' = [At("save") EXCEPT !.then = then]

Written ==
    /\ pc.at = "save"
    /\ db' = goal
    /\ IF pc.then \in {"return", "end"} THEN Ended
       ELSE pc' = At(pc.then) /\ UNCHANGED <<goal, rounds, left>>
    /\ Environment

\* An exception inside _execute; _fail_if_active follows.
Raises == pc' = At("fail") /\ UNCHANGED <<db, goal, rounds>> /\ left' = 0

\* _fail_if_active, and the end of the rounds in _execute.
Fail ==
    /\ pc.at = "fail"
    /\ IF db.status \notin Terminal /\ MayBecome(db, "failed")
       THEN Save([db EXCEPT !.status = "failed"], "end") /\ UNCHANGED <<rounds, left>>
       ELSE Ended
    /\ UNCHANGED db /\ Environment

-----------------------------------------------------------------------------
(* _execute: a round.                                                      *)

\* run saves the goal before _execute does; its planning state follows.
Plan ==
    /\ pc.at = "start"
    /\ Save([goal EXCEPT !.status = "planning"], "round")
    /\ UNCHANGED <<db, rounds, left>> /\ Environment

\* Mutant: nobody looks at the signal.
NeverCancelled == FALSE

\* _check_cancelled
Cancelled == flag

NextRound == rounds' = rounds + 1

BeginRound ==
    /\ pc.at \in {"round", "enter"}
    /\ IF Cancelled THEN Ended
       ELSE IF rounds = MaxRounds THEN pc' = At("fail") /\ UNCHANGED <<goal, rounds, left>>
       ELSE NextRound /\ pc' = At("model") /\ UNCHANGED <<goal, left>>
    /\ UNCHANGED db /\ Environment

InModel == pc.at = "model"
Finalizing == goal.plan # << >> /\ Remaining(goal) = {}

\* _emergency_final: the budget is gone or in danger, or calls came where only
\* the reply was due.
Emergency ==
    /\ pc.at \in {"model", "calls", "finish"}
    /\ MayBecome(goal, "failed")
    /\ Save([goal EXCEPT !.status = "failed"], "return")
    /\ UNCHANGED <<db, rounds>> /\ left' = 0 /\ Environment

ProviderFails == InModel /\ Raises /\ Environment

MayFinish(g) == Remaining(g) = {}

\* _finish_result
FinishResult(g) ==
    IF MayBecome(g, "completed")
    THEN Save([g EXCEPT !.status = "completed"], "return") /\ UNCHANGED <<rounds, db>> /\ left' = 0
    ELSE Raises

Reply ==
    /\ InModel
    /\ IF Cancelled THEN Ended /\ UNCHANGED db
       ELSE IF goal.plan # << >> /\ MayFinish(goal) THEN FinishResult(goal)
       ELSE pc' = At("round") /\ UNCHANGED <<db, goal, rounds, left>>
    /\ Environment

\* A response with calls; when finalizing only finish_task is let through.
Respond ==
    /\ InModel
    /\ IF Cancelled THEN Ended
       ELSE \E n \in 1..MaxResponse :
               /\ left' = n
               /\ pc' = At(IF Finalizing THEN "finish" ELSE "calls")
               /\ UNCHANGED <<goal, rounds>>
    /\ UNCHANGED db /\ Environment

-----------------------------------------------------------------------------
(* One call of the response.                                               *)

InCalls == pc.at = "calls"

\* The call is answered; after the last one the goal is saved.
Answered(g) ==
    /\ left' = left - 1
    /\ IF left = 1 THEN Save(g, "round") ELSE goal' = g /\ pc' = At("calls")
    /\ UNCHANGED <<db, rounds>>

\* Invalid arguments, an extension of the budget, a call without a plan or
\* without an open step.
NothingDone == InCalls /\ Answered(goal) /\ Environment

CreatePlan ==
    /\ InCalls /\ goal.plan = << >>
    /\ \E n \in 1..MaxPlan : Answered([goal EXCEPT !.plan = NewPlan(n), !.status = "running"])
    /\ Environment

Revised(n) == [goal EXCEPT !.plan = NewPlan(n), !.replans = @ + 1]

Replan ==
    /\ InCalls /\ goal.plan # << >> /\ goal.replans < MaxReplans
    /\ \E n \in 1..MaxPlan : Answered(Revised(n))
    /\ runs' = NoRuns
    /\ UNCHANGED <<flag, pend, question, cancelling, pauses, lost>>

AskUser ==
    /\ InCalls
    /\ Save([goal EXCEPT !.status = "waiting_for_user"], "return")
    /\ UNCHANGED <<db, rounds>> /\ left' = 0 /\ Environment

FinishTask ==
    /\ InCalls \/ pc.at = "finish"
    /\ IF MayFinish(goal) THEN FinishResult(goal) ELSE Answered(goal)
    /\ Environment

\* Mutant: a step that failed starts with fresh attempts.
StartedAfresh(g, i) ==
    IF g.plan[i].status = "failed" THEN [g EXCEPT !.plan[i] = [NewStep EXCEPT !.status = "running"]]
    ELSE SetStep(g, i, "running")

\* The step is the current one, whatever it was: failed, pending or running.
Started(g, i) == SetStep(g, i, "running")

MayTry(g, i, t) == g.plan[i].tries[t] < MaxAttempts

\* One attempt of a tool on a step.  A confirmed tool is not executed; the goal
\* waits.
Attempt(g, i, t) ==
    IF Cancelled THEN Ended /\ UNCHANGED <<db, flag, pend, question, cancelling, pauses, history>>
    ELSE LET tried == [g EXCEPT !.plan[i].tries[t] = @ + 1]
         IN  IF t \in Confirmed
             THEN /\ Save([tried EXCEPT !.status = "waiting_for_permission", !.wait = t], "return")
                  /\ pend' = Entry(t, g, i) /\ question' = "open"
                  /\ left' = 0
                  /\ UNCHANGED <<db, rounds, flag, cancelling, pauses, history>>
             ELSE /\ goal' = tried
                  /\ pc' = [At("tool") EXCEPT !.tool = t]
                  /\ runs' = [runs EXCEPT ![i][t] = @ + 1]
                  /\ UNCHANGED <<db, rounds, left, flag, pend, question, cancelling, pauses, lost>>

CallTool(t) ==
    /\ InCalls /\ Remaining(goal) # {}
    /\ LET i == CurrentStep(goal)
           g == [Started(goal, i) EXCEPT !.status = "running"]
       IN  IF MayTry(g, i, t) THEN Attempt(g, i, t)
           ELSE Answered(g) /\ Environment

InTool == pc.at = "tool"

ToolEnds ==
    /\ InTool
    /\ \E status \in {"completed", "failed"} :
          Answered(SetStep(goal, CurrentStep(goal), status))
    /\ Environment

\* A transient failure, or the step's timeout, which may have cut the tool off
\* after its effect; the last attempt fails the step.
ToolRetries ==
    /\ InTool
    /\ LET i == CurrentStep(goal)
       IN  IF MayTry(goal, i, pc.tool)
           THEN /\ ~Cancelled
                /\ goal' = [goal EXCEPT !.plan[i].tries[pc.tool] = @ + 1]
                /\ runs' = [runs EXCEPT ![i][pc.tool] = @ + 1]
                /\ UNCHANGED <<db, pc, rounds, left, flag, pend, question, cancelling, pauses, lost>>
           ELSE Answered(SetStep(goal, i, "failed")) /\ Environment

ToolRetryCancelled == InTool /\ Cancelled /\ Ended /\ UNCHANGED db /\ Environment

-----------------------------------------------------------------------------
(* The operations that lead into _execute.                                 *)

Idling == pc.at = "idle"

Run ==
    /\ Idling /\ db = NewGoal /\ ~flag /\ cancelling = Quiet
    /\ Save(NewGoal, "start")
    /\ UNCHANGED <<db, rounds, left>> /\ Environment

\* The step of the entry in the goal that is loaded, 0 if it is not there.
StepOf(g) ==
    IF g.replans = pend.plan /\ pend.step \in DOMAIN g.plan THEN pend.step ELSE 0

\* An answer of the owner; the goal is loaded first.
Answer(how, entry) ==
    /\ Idling /\ pauses < MaxPauses
    /\ pauses' = pauses + 1
    /\ goal' = db
    /\ pc' = [At(how) EXCEPT !.tool = pend.tool, !.step = StepOf(db)]
    /\ pend' = entry
    /\ UNCHANGED <<db, rounds, left, flag, question, cancelling, history>>

ResumeLoads  == db.status # "pending" /\ Answer("resume", pend)
ApproveLoads == pend # NoEntry /\ Answer("approve", pend)
DenyLoads    == pend # NoEntry /\ Answer("deny", NoEntry)

Resume ==
    /\ pc.at = "resume"
    /\ IF goal.status = "waiting_for_user"
       THEN /\ Save([goal EXCEPT !.status = IF goal.plan = << >> THEN "planning" ELSE "running"],
                    "enter")
            /\ UNCHANGED <<rounds, left>>
       ELSE Ended
    /\ UNCHANGED db /\ Environment

\* approve_permission: the grant is used by the execution that follows it.  Of
\* a question approved before, the gateway asks anew, and the call raises.
Approve ==
    /\ pc.at = "approve"
    /\ IF goal.status = "waiting_for_permission" /\ question = "open"
       THEN /\ question' = "spent"
            /\ runs' = [runs EXCEPT ![pc.step][pc.tool] = @ + 1]
            /\ pc' = [pc EXCEPT !.at = "approved"]
            /\ UNCHANGED <<goal, rounds, left>>
       ELSE Ended /\ UNCHANGED <<question, runs>>
    /\ UNCHANGED <<db, flag, pend, cancelling, pauses, lost>>

\* The tool has answered; the entry is gone if the goal was cancelled.
ApprovedEnds ==
    /\ pc.at = "approved"
    /\ IF pend = NoEntry THEN Ended
       ELSE \E status \in {"completed", "failed"} :
               /\ Save([SetStep(goal, pc.step, status) EXCEPT !.status = "running",
                                                          !.wait = None], "enter")
               /\ UNCHANGED <<rounds, left>>
    /\ pend' = NoEntry
    /\ UNCHANGED <<db, flag, question, cancelling, pauses, history>>

Refused == IF question \in {"open", "expired"} THEN "denied" ELSE question

Deny ==
    /\ pc.at = "deny"
    /\ question' = Refused
    /\ IF /\ pc.step # 0 /\ MayBecome(goal, "running")
          /\ goal.plan[pc.step].status \in {"running", "failed"}
       THEN /\ Save([SetStep(goal, pc.step, "failed") EXCEPT !.status = "running",
                                                                      !.wait = None], "enter")
            /\ UNCHANGED <<rounds, left>>
       ELSE Ended
    /\ UNCHANGED <<db, flag, pend, cancelling, pauses, history>>

-----------------------------------------------------------------------------
(* cancel.                                                                 *)

Runner == UNCHANGED <<goal, pc, rounds, left, pauses, history>>

CancelLoads ==
    /\ cancelling = Quiet /\ ~flag /\ db.status # "pending"
    /\ cancelling' = [at |-> "loaded", goal |-> db]
    /\ UNCHANGED <<db, flag, pend, question>> /\ Runner

CancelledGoal(g) ==
    [g EXCEPT !.status = "cancelled", !.wait = None,
              !.plan = [i \in DOMAIN g.plan |->
                          IF Done(g.plan[i]) THEN g.plan[i]
                          ELSE [g.plan[i] EXCEPT !.status = "cancelled"]]]

Cancel ==
    /\ cancelling.at = "loaded"
    /\ IF cancelling.goal.status \in Terminal
       THEN cancelling' = Quiet /\ UNCHANGED <<flag, pend, question>>
       ELSE /\ flag' = TRUE
            /\ question' = IF pend # NoEntry THEN Refused ELSE question
            /\ pend' = NoEntry
            /\ cancelling' = [at |-> "save", goal |-> CancelledGoal(cancelling.goal)]
    /\ UNCHANGED db /\ Runner

CancelWritten ==
    /\ cancelling.at = "save"
    /\ db' = cancelling.goal
    /\ cancelling' = Quiet
    /\ UNCHANGED <<flag, pend, question>> /\ Runner

-----------------------------------------------------------------------------
(* Timeouts, interruptions, restarts.                                      *)

\* The write in progress may or may not have reached the store.
MaybeWritten == db' \in IF pc.at = "save" THEN {db, goal} ELSE {db}

\* The stored goal does not tell of calls that were handled.
Forgets == lost' = (lost \/ (~Idling /\ goal.plan # db'.plan))

\* The total timeout of _execute.
TotalTimeout ==
    /\ \/ pc.at \in {"model", "tool"}
       \/ pc.at = "save" /\ pc.then \in {"round", "return"}
    /\ pc' = At("fail") /\ left' = 0
    /\ MaybeWritten /\ Forgets
    /\ UNCHANGED <<goal, rounds, flag, pend, question, cancelling, pauses, runs>>

\* The request around the call is cancelled.
CutShort ==
    /\ ~Idling
    /\ Ended /\ MaybeWritten /\ Forgets
    /\ UNCHANGED <<flag, pend, question, cancelling, pauses, runs>>

Expire ==
    /\ question = "open"
    /\ question' = "expired"
    /\ UNCHANGED <<db, flag, pend, cancelling>> /\ Runner

\* The process ends and starts again: _restore_pending_permissions.
Restart ==
    /\ Ended
    /\ db' \in {db} \cup (IF pc.at = "save" THEN {goal} ELSE {})
                   \cup (IF cancelling.at = "save" THEN {cancelling.goal} ELSE {})
    /\ flag' = FALSE /\ cancelling' = Quiet
    /\ pend' = IF db'.status = "waiting_for_permission" 
              THEN Entry(db'.wait, db', CurrentStep(db')) ELSE NoEntry
    /\ Forgets
    /\ UNCHANGED <<question, pauses, runs>>

Round ==
    \/ Plan \/ BeginRound \/ Reply \/ Respond \/ ProviderFails \/ Emergency
    \/ NothingDone \/ CreatePlan \/ Replan \/ AskUser \/ FinishTask
    \/ \E t \in Tools : CallTool(t)
    \/ ToolEnds \/ ToolRetries \/ ToolRetryCancelled

Operation ==
    \/ Run \/ ResumeLoads \/ Resume \/ ApproveLoads \/ Approve \/ ApprovedEnds
    \/ DenyLoads \/ Deny

Next ==
    \/ Written \/ Fail \/ Round \/ Operation
    \/ CancelLoads \/ Cancel \/ CancelWritten
    \/ TotalTimeout \/ CutShort \/ Expire \/ Restart

Spec == Init /\ [][Next]_vars

-----------------------------------------------------------------------------
(* Properties.                                                             *)

\* For each step a tool is executed at most as often as attempts are allowed,
\* whatever mix of retries, waits, denials and restarts leads there; only a cut
\* within a response of several calls makes the goal forget attempts.
AttemptsBounded ==
    lost \/ \A i \in 1..MaxPlan, t \in Tools : runs[i][t] <= MaxAttempts

\* Once cancel has raised its signal no further tool is executed, not even the
\* one whose confirmation was being approved.
NothingRunsOnceCancelled == [][flag => \A i \in 1..MaxPlan, t \in Tools : runs'[i][t] <= runs[i][t]]_vars

=============================================================================
