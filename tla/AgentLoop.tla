----------------------------- MODULE AgentLoop -----------------------------
(***************************************************************************)
(* The agent's loop over model rounds and tool rounds for one request, and *)
(* the request-local limits that make it stop.                             *)
(*   core/agent.py        _run_loop, _recover_missing_reply,               *)
(*                        _deterministic_final, resolve_permission_batch,  *)
(*                        _execute_remaining_calls, resume_current_turn    *)
(*   core/loop_safety.py  LoopSafety                                       *)
(*   tools/discovery.py   ToolDiscoveryState.execute_control, request      *)
(*                                                                         *)
(* What the model answers, what a tool returns and how fast the budget is  *)
(* used up are choices of the environment.  The confirmations themselves   *)
(* are modelled in Permission and AgentBatch, the budget in ModelCalls.    *)
(***************************************************************************)
EXTENDS Integers, Sequences, FiniteSets

CONSTANTS
    Tools,           \* business tools the model may call
    MaxSteps,        \* agent.max_steps
    ModelLimit,      \* standard_model_round_limit
    ToolLimit,       \* standard_tool_round_limit
    RepairLimit,     \* standard_repair_round_limit
    DiscoveryLimit,  \* LoopSafety.discovery_limit
    Responses        \* bound: the call lists a model may answer with

Controls == {"expand", "look"}   \* request_tool_group, inspect_tool_catalog

ASSUME LimitAssumption ==
    /\ MaxSteps \in Nat \ {0} /\ ModelLimit \in 1..MaxSteps
    /\ ToolLimit \in Nat /\ RepairLimit \in Nat /\ DiscoveryLimit \in Nat
    /\ Tools \cap Controls = {}
    /\ Responses \subseteq Seq(Tools \cup Controls) \ {<<>>}

\* BudgetState, from good to bad.
Normal == 0   Warning == 1   Danger == 2   Exhausted == 3

VARIABLES
    at,         \* where the coroutine stands
    turn,       \* local variables of _run_loop
    safety,     \* discovery.safety: the LoopSafety object
    discovery,  \* the rest of ToolDiscoveryState
    outcomes,   \* safety.outcomes
    batch,      \* the tool calls being worked on
    budget,     \* state of the current call budget
    result,     \* how the request ended
    runs        \* history: <<tool, number of outcomes before it>> of each execution

vars == <<at, turn, safety, discovery, outcomes, batch, budget, result, runs>>

NoBatch  == [calls |-> <<>>, members |-> 0, declined |-> FALSE,
             business |-> FALSE, expanded |-> FALSE, tail |-> FALSE]
NoResult == [status |-> "none", by |-> "nobody"]

\* _run_loop starts: must = require_tool_call, light = the unified reply with
\* control objects, noTools = a restricted channel.
FreshTurn(must, light, noTools, called) ==
    [step |-> 0, must |-> must, light |-> light, noTools |-> noTools, called |-> called,
     prepared |-> {}, recovered |-> "no", nudged |-> {}, finalOnly |-> FALSE]

\* _safety_state for a new request.
FreshSafety ==
    [model |-> 0, limit |-> ModelLimit, tool |-> 0, repair |-> 0, replyRepair |-> 0,
     discovery |-> 0, stale |-> 0, progress |-> FALSE, forced |-> FALSE, locked |-> {}]

Init ==
    /\ at = "top"
    /\ \E must, light, noTools \in BOOLEAN : turn = FreshTurn(must, light, noTools, FALSE)
    /\ safety = FreshSafety
    /\ discovery = [expansions |-> 0, stalled |-> 0, seen |-> FALSE]
    /\ outcomes = <<>>
    /\ batch = NoBatch
    /\ budget = Normal
    /\ result = NoResult
    /\ runs = {}

-----------------------------------------------------------------------------
(* LoopSafety.                                                             *)

\* model_limit_reached
\* Mutant: the repaired reply is not given a round of its own.
LimitReachedEarly(s) == s.model >= s.limit + s.discovery

LimitReached(s) == s.model >= s.limit + s.discovery + s.replyRepair

\* "invalid": the arguments; "unsafe": an unknown outcome or a denied permission, not
\* to be repeated by the runtime; "broken": any other failure.
Faults == {"invalid", "broken", "unsafe"}

\* failed_tools: outcomes that were executed and failed.
Failures(t) == { i \in DOMAIN outcomes : outcomes[i].tool = t /\ outcomes[i].kind \in Faults }

Outcome(t, k) == [tool |-> t, kind |-> k, resolved |-> FALSE]

\* A success resolves the tool's last validation error.
\* Mutant: it resolves whatever failed before.
ResolveAny(t) ==
    [i \in DOMAIN outcomes |->
        IF outcomes[i].tool = t THEN [outcomes[i] EXCEPT !.resolved = TRUE] ELSE outcomes[i]]

Resolve(t) ==
    LET invalid == { i \in DOMAIN outcomes :
                        outcomes[i].tool = t /\ outcomes[i].kind = "invalid" }
    IN  [i \in DOMAIN outcomes |->
            IF i \in invalid /\ \A j \in invalid : j <= i
            THEN [outcomes[i] EXCEPT !.resolved = TRUE] ELSE outcomes[i]]

\* observe: an error fingerprint contains the tool's name, so a repeated error is
\* always a second failure of the tool as well.
\* Mutant: only a second failure locks the tool.
StopsToolRepeated(t, k) == k \in Faults /\ Failures(t) # {}

StopsTool(t, k) == k \in Faults /\ (k = "unsafe" \/ Failures(t) # {})

Observe(t, k) ==
    /\ outcomes' = Append(IF k = "ok" THEN Resolve(t) ELSE outcomes, Outcome(t, k))
    /\ \E new \in IF k = "ok" THEN BOOLEAN ELSE {FALSE} :
          safety' = [safety EXCEPT !.progress = @ \/ new,
                                   !.locked = IF StopsTool(t, k) THEN @ \cup {t} ELSE @,
                                   !.forced = @ \/ StopsTool(t, k)]

\* A call that is stopped is remembered as not executed.
Skip(t, kind) ==
    /\ outcomes' = Append(outcomes, Outcome(t, kind))
    /\ UNCHANGED safety

Succeeded == \E i \in DOMAIN outcomes : outcomes[i].kind = "ok"
Failed    == \E i \in DOMAIN outcomes : outcomes[i].kind # "ok" /\ ~outcomes[i].resolved

\* result_status
ResultStatus(missing) ==
    IF Succeeded /\ (Failed \/ missing) THEN "partial_success"
    ELSE IF Failed \/ missing THEN "failed" ELSE "completed"

-----------------------------------------------------------------------------
(* The ways out.                                                           *)

End(status, by) ==
    /\ at' = "ended"
    /\ result' = [status |-> status, by |-> by]
    /\ batch' = NoBatch
    /\ UNCHANGED <<discovery, outcomes, runs>>

\* _deterministic_final: the fixed report of what was done.
DeterministicFinal(by) ==
    /\ End(CASE by = "budget" -> "budget_exhausted"
             [] by # "budget" /\ Succeeded -> "partial_success"
             [] OTHER -> "failed", by)
    /\ safety' = [safety EXCEPT !.forced = TRUE]
    /\ UNCHANGED turn

\* A degraded answer lists what was executed; with nothing executed the request
\* may have nothing to say and fails.
Degrade ==
    /\ \E status \in IF outcomes # <<>> THEN {"failed"}
                     ELSE IF turn.called THEN {"failed", "error"} ELSE {"error"} :
          End(status, "recovery")
    /\ UNCHANGED <<turn, safety>>

\* _recover_missing_reply
Repair(s) == [s EXCEPT !.repair = @ + 1, !.replyRepair = @ + 1]

MayRecover ==
    /\ turn.recovered = "no" /\ turn.step < MaxSteps
    /\ safety.repair < RepairLimit /\ budget' # Exhausted

MayRecoverAction ==
    /\ ~turn.called /\ outcomes = <<>> /\ ~turn.finalOnly /\ ~safety.forced
    /\ turn.step + 2 <= MaxSteps /\ safety.tool < ToolLimit
    /\ budget' \in {Normal, Warning}

Recover(recoverAction) ==
    IF MayRecover
    THEN \E mode \in {"reply"} \cup (IF recoverAction /\ MayRecoverAction THEN {"action"} ELSE {}) :
            /\ safety' = [Repair(safety) EXCEPT !.forced = @ \/ mode = "reply"]
            /\ turn' = [turn EXCEPT !.recovered = mode]
            /\ at' = "top"
            /\ UNCHANGED <<discovery, outcomes, batch, result, runs>>
    ELSE Degrade

RecoverAction == turn.must /\ ~turn.noTools

-----------------------------------------------------------------------------
(* A model round.                                                          *)

\* Model calls, and tools that call models, use up the budget.
Charge == budget' \in budget..Exhausted

\* What makes a round a closing one, for good.
NothingButReply(s, step) ==
    budget >= Danger \/ s.forced \/ LimitReached(s) \/ step = MaxSteps \/ s.tool >= ToolLimit

RoundsLeft == turn.step < MaxSteps /\ ~LimitReached(safety)
MayBegin   == RoundsLeft /\ budget # Exhausted

BeginRound ==
    /\ at = "top" /\ MayBegin
    /\ LET step == turn.step + 1
           begun == [safety EXCEPT !.model = @ + 1, !.progress = FALSE]
           last == NothingButReply(begun, step)
       IN  /\ safety' = [begun EXCEPT !.forced = @ \/ last]
           /\ \E late \in BOOLEAN :      \* three quarters of the time are gone
                 turn' = [turn EXCEPT !.step = step,
                                      !.finalOnly = \/ last
                                                    \/ discovery.stalled >= 2
                                                    \/ turn.called /\ late]
    /\ at' = "model"
    /\ UNCHANGED <<discovery, outcomes, batch, budget, result, runs>>

\* Without a round, or the budget for one, what was done is reported.
NoRound ==
    /\ at = "top" /\ ~MayBegin
    /\ DeterministicFinal(IF RoundsLeft THEN "budget" ELSE "rounds")
    /\ UNCHANGED budget

\* The call of the model raises.
ProviderFails ==
    /\ at = "model" /\ Charge
    /\ \/ DeterministicFinal("budget")     \* the budget refused the call
       \/ Degrade                          \* timeout, transport, HTTP
       \/ Recover(RecoverAction)           \* answer or arguments not readable

\* The answer breaks the reply protocol.
BadReply ==
    /\ at = "model" /\ Charge
    /\ Recover(RecoverAction)

\* execute_control: a result seen before is no progress; a group is loaded at most
\* twice.
Control(new, loaded) ==
    /\ loaded => new /\ discovery.expansions < 2
    /\ new \/ discovery.seen
    /\ discovery' = [expansions |-> discovery.expansions + IF loaded THEN 1 ELSE 0,
                     stalled |-> CASE new -> 0
                                   [] ~new /\ discovery.stalled < 2 -> discovery.stalled + 1
                                   [] OTHER -> 2,
                     seen |-> TRUE]

Credit(s, expanded, business) ==
    IF expanded /\ ~business /\ s.tool = 0 /\ s.discovery < DiscoveryLimit
    THEN [s EXCEPT !.discovery = @ + 1] ELSE s

\* A control object in place of a reply asks for a capability: for the decision
\* context, a recollection or a group of tools, which may turn out unavailable.
Escalate ==
    /\ at = "model" /\ Charge
    /\ turn.light /\ ~turn.finalOnly
    /\ \/ /\ \E need \in {"decision", "recall"} :
                /\ need = "decision" => need \notin turn.prepared
                /\ turn' = [turn EXCEPT !.prepared = @ \cup {need}]
          /\ UNCHANGED discovery
       \/ /\ \E new, loaded \in BOOLEAN : Control(new, loaded)
          /\ UNCHANGED turn
    /\ safety' = Credit(safety, TRUE, FALSE)
    /\ at' = "top"
    /\ UNCHANGED <<outcomes, batch, result, runs>>

\* The tool a restricted reply may not call, or a recollection that cannot be had.
Refused ==
    /\ at = "model" /\ Charge
    /\ turn.noTools \/ turn.light
    /\ End("error", "refusal")
    /\ UNCHANGED <<turn, safety>>

\* Calls in a closing round are never executed.
CallsInFinalRound ==
    /\ at = "model" /\ Charge
    /\ turn.finalOnly
    /\ IF turn.recovered # "no" THEN Degrade ELSE DeterministicFinal("final_only")

\* The model says it cannot, or promises to look: it is reminded once of each.
Nudge ==
    /\ at = "model" /\ Charge
    /\ ~turn.finalOnly /\ ~turn.called
    /\ \E remind \in {"capability", "corrective"} \ turn.nudged :
          \/ /\ remind = "capability" /\ ~turn.noTools
             /\ turn' = [turn EXCEPT !.nudged = @ \cup {remind}]
             /\ \E k \in discovery.expansions..2 : discovery' = [discovery EXCEPT !.expansions = k]
          \/ /\ remind = "corrective"
             /\ turn.must \/ ~turn.noTools
             /\ \E tried \in SUBSET {"capability"} :     \* no group was found for it
                   turn' = [turn EXCEPT !.nudged = @ \cup {remind} \cup tried, !.must = TRUE]
             /\ UNCHANGED discovery
    /\ at' = "top"
    /\ UNCHANGED <<safety, outcomes, batch, result, runs>>

\* The text is the reply, unless storing it finds nothing to show.
Reply ==
    /\ at = "model" /\ Charge
    /\ turn.finalOnly \/ turn.called \/ ~turn.must \/ "corrective" \in turn.nudged
    /\ \/ \E kept \in BOOLEAN :     \* whether the decision's metadata was stored
             LET status == ResultStatus(turn.must /\ ~turn.called)
             IN  /\ End(IF status = "completed" /\ ~kept THEN "partial_success" ELSE status,
                        "model")
                 /\ UNCHANGED <<turn, safety>>
       \/ Recover(FALSE)
       \/ End("error", "storage") /\ UNCHANGED <<turn, safety>>

-----------------------------------------------------------------------------
(* The tool calls of an answer.                                            *)

Elements(s) == { s[i] : i \in DOMAIN s }

FailedTools == { t \in Tools : Failures(t) # {} }

\* One repair round may call a failed tool again.
CallRound(s, called) ==
    LET again == called \cap FailedTools
    IN  CASE called = {} -> s
          [] called # {} /\ again = {} -> [s EXCEPT !.tool = @ + 1]
          [] again # {} /\ s.repair < RepairLimit ->
                [s EXCEPT !.tool = @ + 1, !.repair = @ + 1]
          [] OTHER -> [s EXCEPT !.tool = @ + 1, !.locked = @ \cup again, !.forced = TRUE]

Calls ==
    /\ at = "model" /\ Charge
    /\ ~turn.finalOnly
    /\ \E calls \in Responses :
          /\ turn.noTools => Elements(calls) \subseteq Tools
          /\ batch' = [NoBatch EXCEPT !.calls = calls,
                                      !.business = Elements(calls) \cap Tools # {}]
          /\ safety' = CallRound(safety, Elements(calls) \cap Tools)
    /\ at' = "calls"
    /\ UNCHANGED <<turn, discovery, outcomes, result, runs>>

Call == Head(batch.calls)
Pop(b) == [b EXCEPT !.calls = Tail(@)]

\* What stops every call.
Stopped(c) == safety.forced \/ c \in safety.locked \/ budget >= Danger

\* What may stop this one: a warning restricts the calls to the tools of the task, a
\* failed tool is no reason to look for others.
Restricted(c) ==
    \/ /\ budget = Warning
       /\ \/ c \in Controls
          \/ ~batch.tail /\ \A i \in DOMAIN outcomes : outcomes[i].tool # c
    \/ c \in Controls /\ FailedTools # {}

MayControl(c) ==
    /\ budget # Warning
    /\ FailedTools # {} => \E i \in DOMAIN outcomes :
                              i >= Len(outcomes) - 1 /\ outcomes[i].kind = "broken"

InCalls == at = "calls" /\ batch.calls # <<>>

SkipCall ==
    /\ InCalls
    /\ Stopped(Call) \/ Restricted(Call)
    /\ IF Call \in Tools THEN Skip(Call, "skipped") ELSE UNCHANGED <<safety, outcomes>>
    /\ batch' = Pop(batch)
    /\ UNCHANGED <<at, turn, discovery, budget, result, runs>>

\* A repeated search is answered from what was found before.
ReuseCall ==
    /\ InCalls /\ ~Stopped(Call)
    /\ \E i \in DOMAIN outcomes : outcomes[i].tool = Call
    /\ batch' = Pop(batch)
    /\ UNCHANGED <<at, turn, safety, discovery, outcomes, budget, result, runs>>

RunControl ==
    /\ InCalls /\ ~Stopped(Call)
    /\ Call \in Controls /\ MayControl(Call)
    /\ \E new, loaded \in BOOLEAN :
          /\ loaded => Call = "expand"
          /\ Control(new, loaded)
          /\ safety' = [safety EXCEPT !.progress = @ \/ new]
          /\ batch' = [Pop(batch) EXCEPT !.expanded = @ \/ loaded]
    /\ \E named \in BOOLEAN :      \* the user asked about the tools themselves
          turn' = [turn EXCEPT !.called = @ \/ (named /\ Call = "look")]
    /\ UNCHANGED <<at, outcomes, budget, result, runs>>

Run(t) ==
    /\ runs' = runs \cup {<<t, Len(outcomes)>>}
    /\ Charge
    /\ \E k \in Faults \cup {"ok"} : Observe(t, k)

RunCall ==
    /\ InCalls /\ ~Stopped(Call)
    /\ Call \in Tools
    /\ Run(Call)
    /\ turn' = [turn EXCEPT !.called = TRUE]
    /\ batch' = Pop(batch)
    /\ UNCHANGED <<at, discovery, result>>

\* The call needs the user's consent: the request pauses with its limits kept.
\* Following calls of the same tool join the question.
Ask ==
    /\ InCalls /\ ~Stopped(Call)
    /\ Call \in Tools
    /\ at' = "waiting"
    /\ turn' = [turn EXCEPT !.called = TRUE]
    /\ batch' = [batch EXCEPT !.members = Cardinality(
                    { n \in 1..Len(batch.calls) : \A i \in 1..n : batch.calls[i] = Call })]
    /\ UNCHANGED <<safety, discovery, outcomes, budget, result, runs>>

\* resolve_permission_batch, in a turn with a budget of its own.
Answer ==
    /\ at = "waiting"
    /\ at' = "granted"
    /\ budget' = Normal
    /\ turn' = FreshTurn(FALSE, turn.light, FALSE, TRUE)
    /\ batch' = [batch EXCEPT !.tail = TRUE, !.declined = FALSE]
    /\ UNCHANGED <<safety, discovery, outcomes, result, runs>>

NextMember == [Pop(batch) EXCEPT !.members = @ - 1]

RunMember ==
    /\ at = "granted" /\ batch.members > 0
    /\ ~Stopped(Call)
    /\ Run(Call)
    /\ batch' = NextMember
    /\ UNCHANGED <<at, turn, discovery, result>>

DeclineMember ==
    /\ at = "granted" /\ batch.members > 0
    /\ Skip(Call, "declined")
    /\ batch' = [NextMember EXCEPT !.declined = TRUE]
    /\ UNCHANGED <<at, turn, discovery, budget, result, runs>>

StopMember ==
    /\ at = "granted" /\ batch.members > 0
    /\ Stopped(Call)
    /\ Skip(Call, "skipped")
    /\ batch' = NextMember
    /\ UNCHANGED <<at, turn, discovery, budget, result, runs>>

MembersDone ==
    /\ at = "granted" /\ batch.members = 0
    /\ at' = "calls"
    /\ safety' = [safety EXCEPT !.forced = @ \/ batch.declined]
    /\ UNCHANGED <<turn, discovery, outcomes, batch, budget, result, runs>>

\* finish_round
FinishRound(s) ==
    LET stale == CASE s.progress -> 0 [] ~s.progress /\ s.stale < 2 -> s.stale + 1 [] OTHER -> 2
    IN  [s EXCEPT !.stale = stale, !.forced = @ \/ stale = 2]

EndRound ==
    /\ at = "calls" /\ batch.calls = <<>>
    /\ at' = "top"
    /\ safety' = IF batch.tail THEN safety
                 ELSE FinishRound(IF turn.noTools THEN safety
                                  ELSE Credit(safety, batch.expanded, batch.business))
    /\ batch' = NoBatch
    /\ UNCHANGED <<turn, discovery, outcomes, budget, result, runs>>

\* The time of the request is over; a running tool may have had its effect.
Timeout ==
    /\ at \in {"model", "calls", "granted"}
    /\ at' = "ended"
    /\ result' = [status |-> "error", by |-> "timeout"]
    /\ \/ UNCHANGED runs
       \/ /\ batch.calls # <<>> /\ Call \in Tools /\ ~Stopped(Call)
          /\ runs' = runs \cup {<<Call, Len(outcomes)>>}
    /\ batch' = NoBatch
    /\ UNCHANGED <<turn, safety, discovery, outcomes, budget>>

Regenerated == [safety EXCEPT !.model = 0, !.limit = 1, !.discovery = 0, !.forced = TRUE]

Regenerate ==
    /\ at = "ended"
    /\ at' = "top"
    /\ turn' = FreshTurn(FALSE, turn.light, TRUE, turn.called)
    /\ safety' = Regenerated
    /\ budget' = Normal
    /\ result' = NoResult
    /\ UNCHANGED <<discovery, outcomes, batch, runs>>

-----------------------------------------------------------------------------
Round == BeginRound \/ NoRound

Model ==
    ProviderFails \/ BadReply \/ Escalate \/ Refused \/ CallsInFinalRound \/ Nudge \/ Reply \/ Calls

ToolCalls ==
    \/ SkipCall \/ ReuseCall \/ RunControl \/ RunCall \/ Ask
    \/ RunMember \/ DeclineMember \/ StopMember \/ MembersDone \/ EndRound

Next == Round \/ Model \/ ToolCalls \/ Timeout \/ Answer \/ Regenerate

Spec == Init /\ [][Next]_vars

-----------------------------------------------------------------------------
(* Properties.                                                             *)

\* After an outcome the runtime must not repeat (unknown, denied) nothing is executed
\* any more, and a tool is executed with at most one failure behind it: not later in
\* the same answer, not after a pause, not in a regenerated reply.
NothingRunsAfterTrouble ==
    \A run \in runs : \A i, j \in 1..run[2] :
        /\ outcomes[i].kind # "unsafe"
        /\ ( /\ outcomes[i].tool = run[1] /\ outcomes[i].kind \in Faults
             /\ outcomes[j].tool = run[1] /\ outcomes[j].kind \in Faults ) => i = j

\* The rounds never run out on the model: the last one it is granted is a closing round
\* without tools, so what was done is always put into words by the model, or the
\* budget, a fault of the reply or the provider is why not.
ModelHasTheLastWord == result.by # "rounds"

\* "completed" is said only if every call of the request was executed with success, or
\* failed validation and was repaired by a later success of the same tool.
CompletedIsHonest ==
    result.status = "completed" =>
        \A i \in DOMAIN outcomes :
            \/ outcomes[i].kind = "ok"
            \/ /\ outcomes[i].kind = "invalid"
               /\ \E j \in DOMAIN outcomes :
                     j > i /\ outcomes[j].tool = outcomes[i].tool /\ outcomes[j].kind = "ok"

=============================================================================
