----------------------------- MODULE ModelCalls -----------------------------
(***************************************************************************)
(* Calls of the language models: retries, fall-back to the next provider,  *)
(* the circuit breakers the requests share and the call and token budget   *)
(* each request has of its own.                                            *)
(*   reliability/retry.py   CallBudget, CircuitBreaker                     *)
(*   sdk/retry.py           retry_async                                    *)
(*   models/resilient.py    ResilientProvider.generate                     *)
(*                                                                         *)
(* A request makes one call at a time.  The code runs without interruption *)
(* between two awaits: the provider's answer and the pause before a retry. *)
(***************************************************************************)
EXTENDS Integers, FiniteSets, FiniteSetsExt

CONSTANTS
    Requests,
    LastProvider,    \* providers are 1..LastProvider, in order of preference
    MaxAttempts,     \* RetryPolicy.max_attempts
    Threshold,       \* CircuitBreaker.failure_threshold
    Limits,          \* of each request's CallBudget: max_calls, base_budget,
                     \* hard_limit, finalization_reserve, extension_1_limit
    WarnPercent,     \* warning_ratio
    Usages,          \* tokens one answer may cost
    Stages           \* the stages calls are made in

Providers == 1..LastProvider

ASSUME BudgetAssumption ==
    /\ LastProvider \in Nat \ {0} /\ MaxAttempts \in Nat \ {0}
    /\ Threshold \in Nat \ {0}
    /\ Limits \in [Requests -> [calls : Nat, base : Nat, hard : Nat, reserve : Nat,
                               extension : Nat]]
    /\ \A r \in Requests : 0 < Limits[r].base /\ Limits[r].base <= Limits[r].hard
                           /\ Limits[r].reserve < Limits[r].base
    /\ WarnPercent \in 1..99
    /\ Usages \subseteq Nat
    /\ Stages \subseteq {"planning", "tool_execution", "recovery", "finalization"}

VARIABLES
    calls,      \* budget.calls
    tokens,     \* budget.total_tokens
    soft,       \* budget.max_total_tokens
    requested,  \* budget.extension_requests > 0
    call,       \* where the request's generate() stands
    failures,   \* breaker.failures, up to the threshold
    circuit,    \* breaker.state
    tried,      \* history: attempts at each provider in this generate()
    faults,     \* history: generate() calls a provider failed since its last answer
    finals      \* history: calls of the last stages sent within the budget

budget  == <<calls, tokens, soft, requested>>
breaker == <<failures, circuit>>
history == <<tried, faults, finals>>
vars    == <<budget, call, breaker, history>>

LastStages == {"recovery", "finalization"}

\* Without a policy, as in a background decision, the limits are the same and
\* there is neither a reserve nor an extension.
MaxCalls(r) == Limits[r].calls
Base(r) == Limits[r].base
Hard(r) == Limits[r].hard
Reserve(r) == Limits[r].reserve
ExtensionLimit(r) == Limits[r].extension

Rest == [at |-> "rest", provider |-> 0, stage |-> "none"]

Init ==
    /\ calls = [r \in Requests |-> 0]
    /\ tokens = [r \in Requests |-> 0]
    /\ soft = [r \in Requests |-> Base(r)]
    /\ requested = [r \in Requests |-> FALSE]
    /\ call = [r \in Requests |-> Rest]
    /\ failures = [p \in Providers |-> 0]
    /\ circuit = [p \in Providers |-> "closed"]
    /\ tried = [r \in Requests |-> [p \in Providers |-> 0]]
    /\ faults = [p \in Providers |-> 0]
    /\ finals = [r \in Requests |-> 0]

-----------------------------------------------------------------------------
(* CallBudget.                                                             *)

\* The line at which a warning is due, times 100.
WarningLine(r) == (soft[r] - Reserve(r)) * WarnPercent

State(r) ==
    IF calls[r] >= MaxCalls(r) \/ tokens[r] >= soft[r] \/ tokens[r] >= Hard(r) THEN "EXHAUSTED"
    ELSE IF tokens[r] >= soft[r] - Reserve(r) \/ 10 * (soft[r] - tokens[r]) <= soft[r] THEN "DANGER"
    ELSE IF 100 * tokens[r] >= WarningLine(r) THEN "WARNING"
    ELSE "NORMAL"

\* consume: only the last stages may use the reserve.
\* Mutant: every stage may.
MayConsumeReserve(r, stage, spent) ==
    calls[r] < MaxCalls(r) /\ spent < Hard(r) /\ spent < soft[r]

MayConsume(r, stage, spent) ==
    /\ calls[r] < MaxCalls(r)
    /\ spent < Hard(r)
    /\ spent < soft[r] - IF stage \in LastStages THEN 0 ELSE Reserve(r)

Extension(r, extra) ==
    IF /\ ~requested[r]
       /\ State(r) = "WARNING"
       /\ tokens[r] < Hard(r) /\ soft[r] < Hard(r)
       /\ extra <= 2 * ExtensionLimit(r)
    THEN Min({extra, ExtensionLimit(r), Hard(r) - soft[r]})
    ELSE 0

RequestExtension(r) ==
    /\ call[r].at = "rest"
    /\ \E extra \in 1..Hard(r), founded \in BOOLEAN :
          soft' = [soft EXCEPT ![r] = @ + IF founded THEN Extension(r, extra) ELSE 0]
    /\ requested' = [requested EXCEPT ![r] = TRUE]
    /\ UNCHANGED <<calls, tokens, call, breaker, history>>

-----------------------------------------------------------------------------
(* ResilientProvider.generate.                                             *)

NoTries == [p \in Providers |-> 0]

Return(r) ==
    /\ call' = [call EXCEPT ![r] = Rest]
    /\ UNCHANGED <<calls, tried, finals>>

\* invoke() of provider p when `spent' tokens are used: the budget is consumed
\* and the request is sent, or the budget refuses, which is no provider's fault.
Invoke(r, p, stage, spent, tries) ==
    IF MayConsume(r, stage, spent)
    THEN /\ calls' = [calls EXCEPT ![r] = @ + 1]
         /\ call' = [call EXCEPT ![r] = [at |-> "sent", provider |-> p, stage |-> stage]]
         /\ tried' = [tried EXCEPT ![r] = [tries EXCEPT ![p] = @ + 1]]
         /\ finals' = [finals EXCEPT ![r] = @ + IF stage \in LastStages THEN 1 ELSE 0]
    ELSE Return(r)

\* The first provider from p on whose circuit is not open is invoked; when
\* there is none, the last error is raised.
InvokeFrom(r, p, stage, spent, tries) ==
    LET allowed == { q \in p..LastProvider : circuit[q] # "open" }
    IN  IF allowed # {} THEN Invoke(r, Min(allowed), stage, spent, tries)
        ELSE Return(r)

Generate(r, stage) ==
    /\ call[r].at = "rest"
    /\ InvokeFrom(r, 1, stage, tokens[r], NoTries)
    /\ UNCHANGED <<tokens, soft, requested, breaker, faults>>

\* The answer, or the error, reports its usage; past the hard limit the report
\* itself raises an error that is not retried.
Answered(r) ==
    /\ call[r].at = "sent"
    /\ \E used \in Usages :
          /\ tokens' = [tokens EXCEPT ![r] = @ + used]
          /\ LET p == call[r].provider IN
             IF tokens[r] + used > Hard(r) THEN UNCHANGED <<breaker, faults>>
             ELSE /\ failures' = [failures EXCEPT ![p] = 0]
                  /\ circuit' = [circuit EXCEPT ![p] = "closed"]
                  /\ faults' = [faults EXCEPT ![p] = 0]
    /\ Return(r)
    /\ UNCHANGED <<soft, requested>>

\* An error that no retry helps (authentication, a refused request), or a usage
\* beyond the budget: raised at once.
Rejected(r) ==
    /\ call[r].at = "sent"
    /\ \E used \in Usages : tokens' = [tokens EXCEPT ![r] = @ + used]
    /\ Return(r)
    /\ UNCHANGED <<soft, requested, breaker, faults>>

\* CircuitBreaker.failure.
\* Mutant: the threshold is off by one.
BreakerFailureEager(p) ==
    /\ failures' = [failures EXCEPT ![p] = Min({@ + 1, Threshold})]
    /\ circuit' = IF failures[p] + 2 >= Threshold THEN [circuit EXCEPT ![p] = "open"]
                  ELSE circuit

BreakerFailure(p) ==
    /\ failures' = [failures EXCEPT ![p] = Min({@ + 1, Threshold})]
    /\ circuit' = IF failures[p] + 1 >= Threshold THEN [circuit EXCEPT ![p] = "open"]
                  ELSE circuit

AttemptsLeft(r) == tried[r][call[r].provider] < MaxAttempts

\* A transient error with attempts left: the coroutine sleeps.
PauseBeforeRetry(r) ==
    /\ call[r].at = "sent"
    /\ AttemptsLeft(r)
    /\ \E used \in Usages :
          /\ tokens[r] + used <= Hard(r)
          /\ tokens' = [tokens EXCEPT ![r] = @ + used]
    /\ call' = [call EXCEPT ![r].at = "pause"]
    /\ UNCHANGED <<calls, soft, requested, breaker, history>>

\* The retry asks the budget again, not the breaker.
Retry(r) ==
    /\ call[r].at = "pause"
    /\ Invoke(r, call[r].provider, call[r].stage, tokens[r], tried[r])
    /\ UNCHANGED <<tokens, soft, requested, breaker, faults>>

\* The last attempt failed: the breaker counts it, the next provider is tried.
FallBack(r) ==
    /\ call[r].at = "sent"
    /\ ~AttemptsLeft(r)
    /\ \E used \in Usages :
          /\ tokens[r] + used <= Hard(r)
          /\ tokens' = [tokens EXCEPT ![r] = @ + used]
          /\ InvokeFrom(r, call[r].provider + 1, call[r].stage, tokens[r] + used, tried[r])
    /\ BreakerFailure(call[r].provider)
    /\ faults' = [faults EXCEPT ![call[r].provider] = Min({@ + 1, Threshold})]
    /\ UNCHANGED <<soft, requested>>

\* The request's timeout cancels the coroutine at either await.
Cancelled(r) ==
    /\ call[r].at \in {"sent", "pause"}
    /\ Return(r)
    /\ UNCHANGED <<tokens, soft, requested, breaker, faults>>

\* cooldown_seconds have passed.
CoolDown(p) ==
    /\ circuit[p] = "open"
    /\ circuit' = [circuit EXCEPT ![p] = "half_open"]
    /\ UNCHANGED <<budget, call, failures, history>>

\* A new request with a budget of its own.
NewRequest(r) ==
    /\ call[r].at = "rest" /\ calls[r] > 0
    /\ calls' = [calls EXCEPT ![r] = 0]
    /\ tokens' = [tokens EXCEPT ![r] = 0]
    /\ soft' = [soft EXCEPT ![r] = Base(r)]
    /\ requested' = [requested EXCEPT ![r] = FALSE]
    /\ finals' = [finals EXCEPT ![r] = 0]
    /\ UNCHANGED <<call, breaker, tried, faults>>

Step(r) == Answered(r) \/ Rejected(r) \/ PauseBeforeRetry(r) \/ Retry(r) \/ FallBack(r)

Next ==
    \/ \E r \in Requests :
          \/ \E stage \in Stages : Generate(r, stage)
          \/ Step(r) \/ Cancelled(r) \/ RequestExtension(r) \/ NewRequest(r)
    \/ \E p \in Providers : CoolDown(p)

Spec == Init /\ [][Next]_vars

-----------------------------------------------------------------------------
(* Properties.                                                             *)

TypeOK ==
    /\ calls \in [Requests -> Nat] /\ \A r \in Requests : calls[r] <= MaxCalls(r)
    /\ tokens \in [Requests -> Nat]
    /\ soft \in [Requests -> Nat] /\ \A r \in Requests : soft[r] \in Base(r)..Hard(r)
    /\ requested \in [Requests -> BOOLEAN]
    /\ call \in [Requests -> [at : {"rest", "sent", "pause"}, provider : 0..LastProvider,
                              stage : Stages \cup {"none"}]]
    /\ failures \in [Providers -> 0..Threshold]
    /\ circuit \in [Providers -> {"closed", "open", "half_open"}]
    /\ tried \in [Requests -> [Providers -> Nat]]
    /\ faults \in [Providers -> Nat]
    /\ finals \in [Requests -> Nat]

\* Whoever plans leaves enough for the closing reply: as long as one answer
\* fits in the reserve, the last stage finds tokens left for its first call.
ReserveIsKept ==
    \A r \in Requests :
        (\A used \in Usages : used <= Reserve(r)) /\ finals[r] = 0 => tokens[r] < soft[r]

\* A circuit opens for the provider's own failures: as many complete calls have
\* failed since its last answer as the threshold asks for; budget refusals,
\* cancellations and rejected requests do not count.
OpensForItsOwnFailures ==
    \A p \in Providers : circuit[p] # "closed" => faults[p] >= Threshold

=============================================================================
