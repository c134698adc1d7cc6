-------------------------- MODULE ModelCallsProofs --------------------------
(***************************************************************************)
(* Proofs about the calls of the language models (module ModelCalls), for  *)
(* any requests, providers, limits and costs of an answer.                 *)
(*                                                                         *)
(* ReserveIsKept is not inductive: a request that is waiting for its answer *)
(* has more than the reserve left if no closing call was sent yet, since    *)
(* the budget was asked right before the call was sent (Spared).  That one *)
(* answer fits in the reserve is a hypothesis of the property itself, on   *)
(* the provider's usage.                                                   *)
(* OpensForItsOwnFailures needs the breaker's count to be the count of     *)
(* complete calls that failed (CountsFailures): both start again with an   *)
(* answer and go up together, however requests interleave.                 *)
(***************************************************************************)
EXTENDS ModelCalls, WellFoundedInduction, TLAPS

-----------------------------------------------------------------------------
(* The inductive invariant.                                                *)

\* One answer fits in what is kept for the closing reply.
Fits(r) == \A used \in Usages : used <= Reserve(r)

Kept(r) == Fits(r) /\ finals[r] = 0 => tokens[r] < soft[r]

\* A call that was sent before any closing call left the whole reserve.
Spares(r) == call[r].at = "sent" /\ finals[r] = 0 => tokens[r] + Reserve(r) < soft[r]

BudgetInv == \A r \in Requests : Kept(r) /\ Spares(r)

\* The breaker counts the complete calls that failed since the last answer.
CountsFailures ==
    \A p \in Providers :
        faults[p] = failures[p] /\ (circuit[p] # "closed" => failures[p] = Threshold)

\* A call that is under way is in a stage and at a provider.
UnderWay ==
    \A r \in Requests :
        call[r].at # "rest" => call[r].provider \in Providers /\ call[r].stage \in Stages

IInv == TypeOK /\ UnderWay /\ BudgetInv /\ CountsFailures

-----------------------------------------------------------------------------
(* Helpers.                                                                *)

LEMMA MinOfTwo == ASSUME NEW a \in Int, NEW b \in Int PROVE Min({a, b}) = IF a <= b THEN a ELSE b
<1>1. \A x \in {a, b} : (\A y \in {a, b} : x <= y) => x = IF a <= b THEN a ELSE b
  OBVIOUS
<1>2. \E x \in {a, b} : \A y \in {a, b} : x <= y
  OBVIOUS
<1> QED
  BY <1>1, <1>2 DEF Min

LEMMA MinOfThree ==
    ASSUME NEW a \in Int, NEW b \in Int, NEW c \in Int
    PROVE  Min({a, b, c}) \in {a, b, c} /\ \A x \in {a, b, c} : Min({a, b, c}) <= x
<1>1. \E x \in {a, b, c} : \A y \in {a, b, c} : x <= y
  OBVIOUS
<1> QED
  BY <1>1 DEF Min

\* A set of numbers that is not empty has a least one.
LEMMA LeastIs == ASSUME NEW S, S \subseteq Nat, S # {} PROVE Min(S) \in S
<1>1. PICK x \in S : \A y \in S : ~ (<<y, x>> \in OpToRel(<, Nat))
  BY NatLessThanWellFounded, WFMin, Zenon
<1>2. \A y \in S : x <= y
  <2> TAKE y \in S
  <2>1. <<y, x>> \in Nat \X Nat
    OBVIOUS
  <2>2. ~ (y < x)
    BY <1>1, <2>1, Zenon DEF OpToRel
  <2> QED
    BY <2>2
<1> QED
  BY <1>1, <1>2 DEF Min

\* The limits of a request are numbers, and the reserve is below the budget.
LEMMA LimitsAre ==
    ASSUME NEW r \in Requests
    PROVE  /\ MaxCalls(r) \in Nat /\ Base(r) \in Nat /\ Hard(r) \in Nat
           /\ Reserve(r) \in Nat /\ ExtensionLimit(r) \in Nat
           /\ 0 < Base(r) /\ Base(r) <= Hard(r)
BY BudgetAssumption DEF MaxCalls, Base, Hard, Reserve, ExtensionLimit

\* An extension only adds, and never beyond the hard limit.
LEMMA ExtensionIs ==
    ASSUME TypeOK, NEW r \in Requests, NEW extra \in 1..Hard(r)
    PROVE  Extension(r, extra) \in Nat /\ soft[r] + Extension(r, extra) <= Hard(r)
<1>1. /\ soft[r] \in Nat /\ soft[r] <= Hard(r) /\ Hard(r) \in Nat /\ ExtensionLimit(r) \in Nat
      /\ extra \in Nat
  BY LimitsAre DEF TypeOK
<1>2. CASE Extension(r, extra) = 0
  BY <1>1, <1>2
<1>3. CASE Extension(r, extra) = Min({extra, ExtensionLimit(r), Hard(r) - soft[r]})
  <2>1. Hard(r) - soft[r] \in Nat
    BY <1>1
  <2>2. /\ Min({extra, ExtensionLimit(r), Hard(r) - soft[r]}) \in {extra, ExtensionLimit(r), Hard(r) - soft[r]}
        /\ Min({extra, ExtensionLimit(r), Hard(r) - soft[r]}) <= Hard(r) - soft[r]
    <3> DEFINE rest == Hard(r) - soft[r]
    <3>1. rest \in Int /\ extra \in Int /\ ExtensionLimit(r) \in Int
      BY <1>1, <2>1
    <3> HIDE DEF rest
    <3>2. /\ Min({extra, ExtensionLimit(r), rest}) \in {extra, ExtensionLimit(r), rest}
          /\ \A x \in {extra, ExtensionLimit(r), rest} : Min({extra, ExtensionLimit(r), rest}) <= x
      BY <3>1, MinOfThree
    <3> QED
      BY <3>2 DEF rest
  <2> QED
    BY <1>1, <1>3, <2>1, <2>2
<1> QED
  BY <1>2, <1>3 DEF Extension

\* The providers that are left, from p on.
LEMMA FirstProvider ==
    ASSUME NEW p \in 1..(LastProvider + 1), NEW S, S \subseteq p..LastProvider, S # {}
    PROVE  Min(S) \in Providers
<1>1. LastProvider \in Nat
  BY BudgetAssumption
<1>2. S \subseteq Providers /\ S \subseteq Nat
  BY <1>1 DEF Providers
<1> QED
  BY <1>2, LeastIs

-----------------------------------------------------------------------------
(* What sending a call does.                                               *)

\* A call sent at `spent' tokens, or refused.
Sending(r, stage, spent) ==
    \/ /\ MayConsume(r, stage, spent)
       /\ calls' = [calls EXCEPT ![r] = @ + 1]
       /\ \E p \in Providers :
             /\ call' = [call EXCEPT ![r] = [at |-> "sent", provider |-> p, stage |-> stage]]
             /\ \E tries \in [Providers -> Nat] : tried' = [tried EXCEPT ![r] = tries]
       /\ finals' = [finals EXCEPT ![r] = @ + IF stage \in LastStages THEN 1 ELSE 0]
    \/ Return(r)

LEMMA InvokeSends ==
    ASSUME NEW r \in Requests, NEW p \in Providers, NEW stage \in Stages, NEW spent \in Nat,
           NEW tries \in [Providers -> Nat], Invoke(r, p, stage, spent, tries)
    PROVE  Sending(r, stage, spent)
<1>1. CASE MayConsume(r, stage, spent)
  <2>1. [tries EXCEPT ![p] = @ + 1] \in [Providers -> Nat]
    OBVIOUS
  <2> QED
    BY <1>1, <2>1 DEF Invoke, Sending
<1> QED
  BY <1>1 DEF Invoke, Sending

LEMMA InvokeFromSends ==
    ASSUME NEW r \in Requests, NEW p \in 1..(LastProvider + 1), NEW stage \in Stages,
           NEW spent \in Nat, NEW tries \in [Providers -> Nat],
           InvokeFrom(r, p, stage, spent, tries)
    PROVE  Sending(r, stage, spent)
<1> DEFINE allowed == { q \in p..LastProvider : circuit[q] # "open" }
<1>1. CASE allowed # {}
  <2>1. Min(allowed) \in Providers
    BY <1>1, FirstProvider
  <2>2. Invoke(r, Min(allowed), stage, spent, tries)
    BY <1>1 DEF InvokeFrom
  <2> QED
    BY <2>1, <2>2, InvokeSends
<1>2. CASE allowed = {}
  BY <1>2 DEF InvokeFrom, Sending
<1> QED
  BY <1>1, <1>2

\* The stage and the provider of a call stay what they are.
LEMMA SendingTypes ==
    ASSUME TypeOK, UnderWay, NEW r \in Requests, NEW stage \in Stages, NEW spent \in Nat,
           Sending(r, stage, spent)
    PROVE  /\ calls' \in [Requests -> Nat] /\ \A q \in Requests : calls'[q] <= MaxCalls(q)
           /\ call' \in [Requests -> [at : {"rest", "sent", "pause"}, provider : 0..LastProvider,
                                      stage : Stages \cup {"none"}]]
           /\ tried' \in [Requests -> [Providers -> Nat]]
           /\ finals' \in [Requests -> Nat]
           /\ UnderWay'
<1>1. LastProvider \in Nat /\ Providers \subseteq 0..LastProvider
  BY BudgetAssumption DEF Providers
<1>2. Rest \in [at : {"rest", "sent", "pause"}, provider : 0..LastProvider, stage : Stages \cup {"none"}]
  BY <1>1 DEF Rest
<1>3. CASE Return(r)
  <2>1. /\ calls' \in [Requests -> Nat] /\ \A q \in Requests : calls'[q] <= MaxCalls(q)
        /\ tried' \in [Requests -> [Providers -> Nat]]
        /\ finals' \in [Requests -> Nat]
    BY <1>3 DEF Return, TypeOK
  <2>2. /\ call' \in [Requests -> [at : {"rest", "sent", "pause"}, provider : 0..LastProvider,
                                   stage : Stages \cup {"none"}]]
        /\ UnderWay'
    BY <1>3, <1>2 DEF Return, TypeOK, UnderWay, Rest
  <2> QED
    BY <2>1, <2>2
<1>4. CASE ~Return(r)
  <2>1. PICK p \in Providers :
           /\ call' = [call EXCEPT ![r] = [at |-> "sent", provider |-> p, stage |-> stage]]
           /\ \E tries \in [Providers -> Nat] : tried' = [tried EXCEPT ![r] = tries]
    BY <1>4 DEF Sending
  <2>2. tried' \in [Requests -> [Providers -> Nat]]
    BY <2>1 DEF TypeOK
  <2>3. [at |-> "sent", provider |-> p, stage |-> stage]
           \in [at : {"rest", "sent", "pause"}, provider : 0..LastProvider, stage : Stages \cup {"none"}]
    BY <1>1
  <2>4. /\ call' \in [Requests -> [at : {"rest", "sent", "pause"}, provider : 0..LastProvider,
                                   stage : Stages \cup {"none"}]]
        /\ UnderWay'
    BY <2>1, <2>3 DEF TypeOK, UnderWay
  <2>5. calls' = [calls EXCEPT ![r] = @ + 1] /\ calls[r] < MaxCalls(r)
    BY <1>4 DEF Sending, MayConsume
  <2>6. calls' \in [Requests -> Nat] /\ \A q \in Requests : calls'[q] <= MaxCalls(q)
    <3>1. calls' \in [Requests -> Nat]
      BY <2>5 DEF TypeOK
    <3>2. ASSUME NEW q \in Requests PROVE calls'[q] <= MaxCalls(q)
      BY <2>5, LimitsAre DEF TypeOK
    <3> QED
      BY <3>1, <3>2
  <2>7. finals' \in [Requests -> Nat]
    <3>1. PICK n \in Nat : n = IF stage \in LastStages THEN 1 ELSE 0
      OBVIOUS
    <3>2. finals' = [finals EXCEPT ![r] = @ + n]
      BY <1>4, <3>1 DEF Sending
    <3> QED
      BY <3>2 DEF TypeOK
  <2> QED
    BY <2>2, <2>4, <2>6, <2>7
<1> QED
  BY <1>3, <1>4

\* Only a call of the last stages is sent without leaving the reserve.
LEMMA SendingSpares ==
    ASSUME TypeOK, UnderWay, NEW r \in Requests, NEW stage \in Stages, NEW spent \in Nat,
           Sending(r, stage, spent), tokens'[r] = spent, soft'[r] = soft[r],
           Fits(r) /\ finals[r] = 0 => spent < soft[r]
    PROVE  Kept(r)' /\ Spares(r)'
<1>1. /\ finals[r] \in Nat /\ soft[r] \in Nat /\ Reserve(r) \in Nat
  BY LimitsAre DEF TypeOK
<1>2. CASE Return(r)
  <2>1. call'[r].at = "rest" /\ finals'[r] = finals[r]
    BY <1>2 DEF Return, Rest, TypeOK
  <2> QED
    BY <2>1 DEF Kept, Spares, Fits, Reserve
<1>3. CASE ~Return(r)
  <2>1. /\ finals' = [finals EXCEPT ![r] = @ + IF stage \in LastStages THEN 1 ELSE 0]
        /\ MayConsume(r, stage, spent)
    BY <1>3 DEF Sending
  <2>2. finals'[r] = finals[r] + IF stage \in LastStages THEN 1 ELSE 0
    BY <2>1 DEF TypeOK
  <2>3. CASE stage \in LastStages
    <3>1. finals'[r] # 0
      BY <1>1, <2>2, <2>3
    <3> QED
      BY <3>1 DEF Kept, Spares
  <2>4. CASE stage \notin LastStages
    <3>1. finals'[r] = finals[r]
      BY <1>1, <2>2, <2>4
    <3>2. spent < soft[r] - Reserve(r)
      BY <2>1, <2>4 DEF MayConsume
    <3>3. tokens'[r] + Reserve(r) < soft'[r] /\ tokens'[r] < soft'[r]
      BY <1>1, <3>2
    <3> QED
      BY <3>3 DEF Kept, Spares, Reserve
  <2> QED
    BY <2>3, <2>4
<1> QED
  BY <1>2, <1>3

\* The other requests are not concerned.
LEMMA SendingOthers ==
    ASSUME TypeOK, BudgetInv, NEW r \in Requests, NEW stage, NEW spent,
           Sending(r, stage, spent), NEW q \in Requests, q # r,
           tokens'[q] = tokens[q], soft'[q] = soft[q]
    PROVE  Kept(q)' /\ Spares(q)'
<1>1. call'[q] = call[q] /\ finals'[q] = finals[q]
  BY DEF Sending, Return, TypeOK
<1>2. Kept(q) /\ Spares(q)
  BY DEF BudgetInv
<1> QED
  BY <1>1, <1>2 DEF Kept, Spares, Fits, Reserve

-----------------------------------------------------------------------------
(* The steps of the budget.                                                *)

\* What an attempt has used is added to the tokens.
LEMMA UsageIs ==
    ASSUME TypeOK, NEW r \in Requests, NEW used \in Usages,
           tokens' = [tokens EXCEPT ![r] = @ + used]
    PROVE  /\ tokens' \in [Requests -> Nat] /\ tokens'[r] = tokens[r] + used
           /\ tokens[r] + used \in Nat
           /\ \A q \in Requests : q # r => tokens'[q] = tokens[q]
<1>1. used \in Nat
  BY BudgetAssumption
<1> QED
  BY <1>1 DEF TypeOK

\* An answer to a call that left the reserve leaves tokens when it fits in it.
LEMMA UsageFits ==
    ASSUME TypeOK, BudgetInv, NEW r \in Requests, NEW used \in Usages,
           call[r].at = "sent", Fits(r), finals[r] = 0
    PROVE  tokens[r] + used < soft[r]
<1>1. /\ tokens[r] \in Nat /\ soft[r] \in Nat /\ Reserve(r) \in Nat /\ used \in Nat
  BY LimitsAre, BudgetAssumption DEF TypeOK
<1>2. tokens[r] + Reserve(r) < soft[r] /\ used <= Reserve(r)
  BY DEF BudgetInv, Spares, Fits
<1> QED
  BY <1>1, <1>2

\* A call ends: nothing is sent.
LEMMA EndingIsSending ==
    ASSUME NEW r, NEW stage, NEW spent, Return(r) PROVE Sending(r, stage, spent)
BY DEF Sending

LEMMA StagesOf ==
    ASSUME TypeOK, UnderWay, NEW r \in Requests, call[r].at # "rest"
    PROVE  /\ call[r].provider \in Providers /\ call[r].stage \in Stages
           /\ call[r].provider \in 1..LastProvider
           /\ call[r].provider + 1 \in 1..(LastProvider + 1)
           /\ tried[r] \in [Providers -> Nat]
<1>1. /\ call[r].provider \in Providers /\ call[r].stage \in Stages
      /\ tried[r] \in [Providers -> Nat]
  BY DEF TypeOK, UnderWay
<1>2. \A p \in Providers : p \in 1..LastProvider /\ p + 1 \in 1..(LastProvider + 1)
  BY BudgetAssumption DEF Providers
<1> QED
  BY <1>1, <1>2

\* The parts the budget's steps keep.
BudgetTypes ==
    /\ calls \in [Requests -> Nat] /\ \A r \in Requests : calls[r] <= MaxCalls(r)
    /\ tokens \in [Requests -> Nat]
    /\ soft \in [Requests -> Nat] /\ \A r \in Requests : soft[r] \in Base(r)..Hard(r)
    /\ requested \in [Requests -> BOOLEAN]
    /\ call \in [Requests -> [at : {"rest", "sent", "pause"}, provider : 0..LastProvider,
                              stage : Stages \cup {"none"}]]
    /\ tried \in [Requests -> [Providers -> Nat]]
    /\ finals \in [Requests -> Nat]

BudgetPart == BudgetTypes /\ UnderWay /\ BudgetInv

\* A step that ends or sends a call of request r after using some tokens.
LEMMA SendingStep ==
    ASSUME TypeOK, UnderWay, BudgetInv, NEW r \in Requests, NEW stage \in Stages,
           NEW spent \in Nat, Sending(r, stage, spent),
           tokens' \in [Requests -> Nat], tokens'[r] = spent,
           \A q \in Requests : q # r => tokens'[q] = tokens[q],
           UNCHANGED <<soft, requested>>,
           Fits(r) /\ finals[r] = 0 => spent < soft[r]
    PROVE  BudgetPart'
<1>1. /\ calls' \in [Requests -> Nat] /\ \A q \in Requests : calls'[q] <= MaxCalls(q)
      /\ call' \in [Requests -> [at : {"rest", "sent", "pause"}, provider : 0..LastProvider,
                                 stage : Stages \cup {"none"}]]
      /\ tried' \in [Requests -> [Providers -> Nat]]
      /\ finals' \in [Requests -> Nat]
      /\ UnderWay'
  BY SendingTypes
<1>2. /\ soft' \in [Requests -> Nat] /\ requested' \in [Requests -> BOOLEAN]
      /\ \A q \in Requests : soft'[q] \in Base(q)..Hard(q)
  BY DEF TypeOK
<1>3. BudgetTypes'
  BY <1>1, <1>2 DEF BudgetTypes, MaxCalls, Base, Hard
<1>4. ASSUME NEW q \in Requests PROVE Kept(q)' /\ Spares(q)'
  <2>1. CASE q = r
    BY <2>1, SendingSpares
  <2>2. CASE q # r
    BY <2>2, SendingOthers
  <2> QED
    BY <2>1, <2>2
<1> QED
  BY <1>1, <1>3, <1>4 DEF BudgetPart, BudgetInv

LEMMA BudgetStep ==
    ASSUME TypeOK, UnderWay, BudgetInv, [Next]_vars PROVE BudgetPart'
<1> USE DEF budget, history
<1>1. ASSUME NEW r \in Requests, NEW stage \in Stages, Generate(r, stage) PROVE BudgetPart'
  <2>1. tokens[r] \in Nat /\ NoTries \in [Providers -> Nat] /\ 1 \in 1..(LastProvider + 1)
    BY BudgetAssumption DEF TypeOK, NoTries
  <2>2. Sending(r, stage, tokens[r])
    BY <1>1, <2>1, InvokeFromSends DEF Generate
  <2>3. tokens' = tokens /\ UNCHANGED <<soft, requested>>
    BY <1>1 DEF Generate
  <2>4. tokens' \in [Requests -> Nat]
    BY <2>3 DEF TypeOK
  <2>5. Fits(r) /\ finals[r] = 0 => tokens[r] < soft[r]
    BY DEF BudgetInv, Kept
  <2> QED
    BY <2>1, <2>2, <2>3, <2>4, <2>5, SendingStep
<1>2. ASSUME NEW r \in Requests, Answered(r) \/ Rejected(r) PROVE BudgetPart'
  <2>1. PICK used \in Usages : tokens' = [tokens EXCEPT ![r] = @ + used]
    BY <1>2 DEF Answered, Rejected
  <2>2. call[r].at = "sent" /\ Return(r) /\ UNCHANGED <<soft, requested>>
    BY <1>2 DEF Answered, Rejected
  <2>3. call[r].stage \in Stages
    BY <2>2, StagesOf
  <2>4. Sending(r, call[r].stage, tokens[r] + used)
    BY <2>2, EndingIsSending
  <2> HIDE DEF budget, history
  <2>5. Fits(r) /\ finals[r] = 0 => tokens[r] + used < soft[r]
    BY <2>2, UsageFits
  <2> QED
    BY <2>1, <2>2, <2>3, <2>4, <2>5, UsageIs, SendingStep
<1>3. ASSUME NEW r \in Requests, FallBack(r) PROVE BudgetPart'
  <2>1. PICK used \in Usages :
           /\ tokens' = [tokens EXCEPT ![r] = @ + used]
           /\ InvokeFrom(r, call[r].provider + 1, call[r].stage, tokens[r] + used, tried[r])
    BY <1>3 DEF FallBack
  <2>2. call[r].at = "sent" /\ UNCHANGED <<soft, requested>>
    BY <1>3 DEF FallBack
  <2>3. /\ call[r].stage \in Stages /\ call[r].provider + 1 \in 1..(LastProvider + 1)
        /\ tried[r] \in [Providers -> Nat]
    BY <2>2, StagesOf
  <2>4. tokens[r] + used \in Nat
    BY <2>1, UsageIs
  <2>5. Sending(r, call[r].stage, tokens[r] + used)
    BY <2>1, <2>3, <2>4, InvokeFromSends
  <2>6. Fits(r) /\ finals[r] = 0 => tokens[r] + used < soft[r]
    BY <2>2, UsageFits
  <2> QED
    BY <2>1, <2>2, <2>3, <2>4, <2>5, <2>6, UsageIs, SendingStep
<1>4. ASSUME NEW r \in Requests, Retry(r) PROVE BudgetPart'
  <2>1. /\ call[r].at = "pause" /\ UNCHANGED <<tokens, soft, requested>>
        /\ Invoke(r, call[r].provider, call[r].stage, tokens[r], tried[r])
    BY <1>4 DEF Retry
  <2>2. /\ call[r].stage \in Stages /\ call[r].provider \in Providers
        /\ tried[r] \in [Providers -> Nat]
    BY <2>1, StagesOf
  <2>3. tokens[r] \in Nat /\ tokens' \in [Requests -> Nat]
    BY <2>1 DEF TypeOK
  <2>4. Sending(r, call[r].stage, tokens[r])
    BY <2>1, <2>2, <2>3, InvokeSends
  <2>5. Fits(r) /\ finals[r] = 0 => tokens[r] < soft[r]
    BY DEF BudgetInv, Kept
  <2> QED
    BY <2>1, <2>2, <2>3, <2>4, <2>5, SendingStep
<1>5. ASSUME NEW r \in Requests, Cancelled(r) PROVE BudgetPart'
  <2>1. call[r].at # "rest" /\ Return(r) /\ UNCHANGED <<tokens, soft, requested>>
    BY <1>5 DEF Cancelled
  <2>2. call[r].stage \in Stages
    BY <2>1, StagesOf
  <2>3. tokens[r] \in Nat /\ tokens' \in [Requests -> Nat]
    BY <2>1 DEF TypeOK
  <2>4. Sending(r, call[r].stage, tokens[r])
    BY <2>1, EndingIsSending
  <2>5. Fits(r) /\ finals[r] = 0 => tokens[r] < soft[r]
    BY DEF BudgetInv, Kept
  <2> QED
    BY <2>1, <2>2, <2>3, <2>4, <2>5, SendingStep
<1>6. ASSUME NEW r \in Requests, PauseBeforeRetry(r) PROVE BudgetPart'
  <2>1. PICK used \in Usages : tokens' = [tokens EXCEPT ![r] = @ + used]
    BY <1>6 DEF PauseBeforeRetry
  <2>2. /\ call[r].at = "sent" /\ call' = [call EXCEPT ![r].at = "pause"]
        /\ UNCHANGED <<calls, soft, requested, tried, finals>>
    BY <1>6 DEF PauseBeforeRetry
  <2>3. Fits(r) /\ finals[r] = 0 => tokens[r] + used < soft[r]
    BY <2>2, UsageFits
  <2>4. /\ tokens' \in [Requests -> Nat] /\ tokens'[r] = tokens[r] + used
        /\ \A q \in Requests : q # r => tokens'[q] = tokens[q]
    BY <2>1, UsageIs
  <2>5. /\ call' \in [Requests -> [at : {"rest", "sent", "pause"}, provider : 0..LastProvider,
                                   stage : Stages \cup {"none"}]]
        /\ call'[r].at = "pause" /\ \A q \in Requests : q # r => call'[q] = call[q]
        /\ call'[r].stage = call[r].stage /\ call'[r].provider = call[r].provider
    BY <2>2 DEF TypeOK
  <2>6. UnderWay'
    BY <2>2, <2>5 DEF UnderWay
  <2>7. BudgetTypes'
    BY <2>2, <2>4, <2>5 DEF TypeOK, BudgetTypes, MaxCalls, Base, Hard
  <2>8. ASSUME NEW q \in Requests PROVE Kept(q)' /\ Spares(q)'
    BY <2>2, <2>3, <2>4, <2>5 DEF BudgetInv, Kept, Spares, Fits, Reserve
  <2> QED
    BY <2>6, <2>7, <2>8 DEF BudgetPart, BudgetInv
<1>7. ASSUME NEW r \in Requests, RequestExtension(r) PROVE BudgetPart'
  <2>1. PICK extra \in 1..Hard(r), founded \in BOOLEAN :
           soft' = [soft EXCEPT ![r] = @ + IF founded THEN Extension(r, extra) ELSE 0]
    BY <1>7 DEF RequestExtension
  <2>2. PICK n : n = IF founded THEN Extension(r, extra) ELSE 0
    OBVIOUS
  <2>3. n \in Nat /\ soft[r] + n <= Hard(r)
    <3>1. soft[r] \in Nat /\ soft[r] <= Hard(r)
      BY LimitsAre DEF TypeOK
    <3>2. Extension(r, extra) \in Nat /\ soft[r] + Extension(r, extra) <= Hard(r)
      BY ExtensionIs
    <3> QED
      BY <2>2, <3>1, <3>2
  <2>4. soft' = [soft EXCEPT ![r] = @ + n]
    BY <2>1, <2>2
  <2>5. /\ requested' = [requested EXCEPT ![r] = TRUE]
        /\ UNCHANGED <<calls, tokens, call, tried, finals>>
    BY <1>7 DEF RequestExtension
  <2>6. /\ soft' \in [Requests -> Nat] /\ \A q \in Requests : soft[q] <= soft'[q]
    BY <2>3, <2>4 DEF TypeOK
  <2>7. ASSUME NEW q \in Requests PROVE soft'[q] \in Base(q)..Hard(q)
    <3>1. Base(q) \in Nat /\ Hard(q) \in Nat /\ soft[q] \in Nat /\ soft[q] \in Base(q)..Hard(q)
      BY LimitsAre DEF TypeOK
    <3>2. CASE q = r
      BY <2>3, <2>4, <3>1, <3>2 DEF TypeOK
    <3>3. CASE q # r
      BY <2>4, <3>1, <3>3 DEF TypeOK
    <3> QED
      BY <3>2, <3>3
  <2>8. BudgetTypes'
    BY <2>5, <2>6, <2>7 DEF TypeOK, BudgetTypes, MaxCalls, Base, Hard
  <2>9. ASSUME NEW q \in Requests PROVE Kept(q)' /\ Spares(q)'
    <3>1. /\ tokens[q] \in Nat /\ soft[q] \in Nat /\ soft'[q] \in Nat /\ Reserve(q) \in Nat
          /\ soft[q] <= soft'[q]
      BY <2>6, LimitsAre DEF TypeOK
    <3>2. Kept(q) /\ Spares(q)
      BY DEF BudgetInv
    <3>3. tokens[q] < soft[q] => tokens[q] < soft'[q]
      BY <3>1
    <3>4. tokens[q] + Reserve(q) < soft[q] => tokens[q] + Reserve(q) < soft'[q]
      BY <3>1
    <3> QED
      BY <2>5, <3>2, <3>3, <3>4 DEF Kept, Spares, Fits, Reserve
  <2> QED
    BY <2>5, <2>8, <2>9 DEF BudgetPart, BudgetInv, UnderWay
<1>8. ASSUME NEW r \in Requests, NewRequest(r) PROVE BudgetPart'
  <2>1. /\ calls' = [calls EXCEPT ![r] = 0] /\ tokens' = [tokens EXCEPT ![r] = 0]
        /\ soft' = [soft EXCEPT ![r] = Base(r)] /\ requested' = [requested EXCEPT ![r] = FALSE]
        /\ finals' = [finals EXCEPT ![r] = 0]
        /\ call[r].at = "rest" /\ UNCHANGED <<call, tried>>
    BY <1>8 DEF NewRequest
  <2>2. \A q \in Requests : /\ MaxCalls(q) \in Nat /\ Base(q) \in Nat /\ Hard(q) \in Nat
                            /\ Base(q) <= Hard(q) /\ 0 < Base(q)
    BY LimitsAre
  <2>3. BudgetTypes'
    BY <2>1, <2>2 DEF TypeOK, BudgetTypes, MaxCalls, Base, Hard
  <2>4. ASSUME NEW q \in Requests PROVE Kept(q)' /\ Spares(q)'
    BY <2>1, <2>2 DEF TypeOK, BudgetInv, Kept, Spares, Fits, Reserve, Base
  <2> QED
    BY <2>1, <2>3, <2>4 DEF BudgetPart, BudgetInv, UnderWay
<1>9. ASSUME UNCHANGED <<calls, tokens, soft, requested, call, tried, finals>> PROVE BudgetPart'
  BY <1>9 DEF TypeOK, BudgetTypes, BudgetPart, BudgetInv, UnderWay, Kept, Spares, Fits,
             Reserve, MaxCalls, Base, Hard
<1>10. ASSUME NEW p \in Providers, CoolDown(p) PROVE BudgetPart'
  BY <1>9, <1>10 DEF CoolDown
<1> QED
  BY <1>1, <1>2, <1>3, <1>4, <1>5, <1>6, <1>7, <1>8, <1>9, <1>10 DEF Next, Step, vars

-----------------------------------------------------------------------------
(* The steps of the breakers.                                              *)

BreakerTypes ==
    /\ failures \in [Providers -> 0..Threshold]
    /\ circuit \in [Providers -> {"closed", "open", "half_open"}]
    /\ faults \in [Providers -> Nat]

BreakerPart == BreakerTypes /\ CountsFailures

\* A complete call failed: the breaker counts it, as the history does.
LEMMA FailureIsCounted ==
    ASSUME BreakerPart, NEW p \in Providers, BreakerFailure(p),
           faults' = [faults EXCEPT ![p] = Min({@ + 1, Threshold})]
    PROVE  BreakerPart'
<1>1. Threshold \in Nat /\ Threshold # 0
  BY BudgetAssumption
<1>2. failures[p] \in 0..Threshold /\ failures[p] + 1 \in Nat /\ faults[p] = failures[p]
  BY <1>1 DEF BreakerPart, BreakerTypes, CountsFailures
<1>3. PICK n : n = Min({failures[p] + 1, Threshold})
  OBVIOUS
<1>4. n = IF failures[p] + 1 <= Threshold THEN failures[p] + 1 ELSE Threshold
  BY <1>1, <1>2, <1>3, MinOfTwo
<1>5. n \in 0..Threshold /\ (failures[p] + 1 >= Threshold => n = Threshold)
  BY <1>1, <1>2, <1>4
<1>6. /\ failures' = [failures EXCEPT ![p] = n] /\ faults' = [faults EXCEPT ![p] = n]
  BY <1>2, <1>3 DEF BreakerFailure, BreakerPart, BreakerTypes
<1>7. circuit' = IF failures[p] + 1 >= Threshold THEN [circuit EXCEPT ![p] = "open"] ELSE circuit
  BY DEF BreakerFailure
<1>8. BreakerTypes'
  <2>1. failures' \in [Providers -> 0..Threshold] /\ faults' \in [Providers -> Nat]
    BY <1>1, <1>5, <1>6 DEF BreakerPart, BreakerTypes
  <2>2. circuit' \in [Providers -> {"closed", "open", "half_open"}]
    BY <1>7 DEF BreakerPart, BreakerTypes
  <2> QED
    BY <2>1, <2>2 DEF BreakerTypes
<1>9. ASSUME NEW q \in Providers
      PROVE  faults'[q] = failures'[q] /\ (circuit'[q] # "closed" => failures'[q] = Threshold)
  <2>1. CASE q = p
    <3>1. faults'[p] = n /\ failures'[p] = n
      BY <1>6 DEF BreakerPart, BreakerTypes
    <3>2. CASE failures[p] + 1 >= Threshold
      BY <1>5, <2>1, <3>1, <3>2
    <3>3. CASE ~(failures[p] + 1 >= Threshold)
      <4>1. circuit' = circuit
        BY <1>7, <3>3
      <4>2. failures[p] # Threshold
        BY <1>1, <1>2, <3>3
      <4> QED
        BY <2>1, <3>1, <4>1, <4>2 DEF BreakerPart, CountsFailures
    <3> QED
      BY <3>2, <3>3
  <2>2. CASE q # p
    <3>1. faults'[q] = faults[q] /\ failures'[q] = failures[q] /\ circuit'[q] = circuit[q]
      BY <1>6, <1>7, <2>2 DEF BreakerPart, BreakerTypes
    <3> QED
      BY <3>1 DEF BreakerPart, CountsFailures
  <2> QED
    BY <2>1, <2>2
<1> QED
  BY <1>8, <1>9 DEF BreakerPart, CountsFailures

LEMMA BreakerStep ==
    ASSUME BreakerPart, UnderWay, [Next]_vars PROVE BreakerPart'
<1>1. CASE UNCHANGED <<failures, circuit, faults>>
  BY <1>1 DEF BreakerPart, BreakerTypes, CountsFailures
<1>2. ASSUME NEW r \in Requests, Answered(r) PROVE BreakerPart'
  <2>1. call[r].provider \in Providers
    BY <1>2 DEF Answered, UnderWay
  <2>2. CASE UNCHANGED <<breaker, faults>>
    BY <1>1, <2>2 DEF breaker
  <2>3. CASE ~UNCHANGED <<breaker, faults>>
    <3>1. /\ failures' = [failures EXCEPT ![call[r].provider] = 0]
          /\ circuit' = [circuit EXCEPT ![call[r].provider] = "closed"]
          /\ faults' = [faults EXCEPT ![call[r].provider] = 0]
      BY <1>2, <2>3 DEF Answered
    <3> QED
      BY <2>1, <3>1, BudgetAssumption DEF BreakerPart, BreakerTypes, CountsFailures
  <2> QED
    BY <2>2, <2>3
<1>3. ASSUME NEW r \in Requests, FallBack(r) PROVE BreakerPart'
  <2>1. /\ call[r].at = "sent" /\ BreakerFailure(call[r].provider)
        /\ faults' = [faults EXCEPT ![call[r].provider] = Min({@ + 1, Threshold})]
    BY <1>3 DEF FallBack
  <2>2. call[r].provider \in Providers
    BY <2>1 DEF UnderWay
  <2> QED
    BY <2>1, <2>2, FailureIsCounted
<1>4. ASSUME NEW p \in Providers, CoolDown(p) PROVE BreakerPart'
  BY <1>4 DEF CoolDown, history, BreakerPart, BreakerTypes, CountsFailures
<1>5. ASSUME NEW r \in Requests,
             \/ Rejected(r) \/ PauseBeforeRetry(r) \/ Retry(r) \/ Cancelled(r)
             \/ RequestExtension(r) \/ NewRequest(r) \/ \E stage \in Stages : Generate(r, stage)
      PROVE BreakerPart'
  BY <1>1, <1>5 DEF Rejected, PauseBeforeRetry, Retry, Cancelled, RequestExtension, NewRequest,
                    Generate, breaker, history
<1>6. CASE UNCHANGED vars
  BY <1>1, <1>6 DEF vars, breaker, history
<1> QED
  BY <1>2, <1>3, <1>4, <1>5, <1>6 DEF Next, Step

-----------------------------------------------------------------------------
(* The theorems.                                                           *)

\* The inductive invariant holds in every state of the model of the calls:
\* CallBudget and CircuitBreaker (reliability/retry.py).
THEOREM CallsInvariance == Spec => []IInv
<1>1. Init => IInv
  <2> SUFFICES ASSUME Init PROVE IInv
    OBVIOUS
  <2>1. TypeOK
    <3>1. \A r \in Requests : /\ MaxCalls(r) \in Nat /\ Base(r) \in Nat /\ Hard(r) \in Nat
                              /\ Base(r) <= Hard(r) /\ 0 < Base(r)
      BY LimitsAre
    <3>2. LastProvider \in Nat /\ Threshold \in Nat
      BY BudgetAssumption
    <3>3. Rest \in [at : {"rest", "sent", "pause"}, provider : 0..LastProvider,
                    stage : Stages \cup {"none"}]
      BY <3>2 DEF Rest
    <3> QED
      BY <3>1, <3>2, <3>3 DEF Init, TypeOK
  <2>2. UnderWay
    BY DEF Init, UnderWay, Rest
  <2>3. BudgetInv
    BY LimitsAre DEF Init, BudgetInv, Kept, Spares, Rest
  <2>4. CountsFailures
    BY DEF Init, CountsFailures
  <2> QED
    BY <2>1, <2>2, <2>3, <2>4 DEF IInv
<1>2. IInv /\ [Next]_vars => IInv'
  <2> SUFFICES ASSUME IInv, [Next]_vars PROVE IInv'
    OBVIOUS
  <2>1. BreakerPart
    BY DEF IInv, TypeOK, BreakerPart, BreakerTypes
  <2>2. BudgetPart' /\ BreakerPart'
    BY <2>1, BudgetStep, BreakerStep DEF IInv
  <2>3. TypeOK'
    BY <2>2 DEF BudgetPart, BudgetTypes, BreakerPart, BreakerTypes, TypeOK
  <2> QED
    BY <2>2, <2>3 DEF BudgetPart, BreakerPart, IInv
<1> QED
  BY <1>1, <1>2, PTL DEF Spec

\* CallBudget.consume (reliability/retry.py) keeps the reserve for the closing
\* reply, whatever the retries, the fall-backs and the extensions do.
THEOREM ReserveIsAlwaysKept == Spec => []ReserveIsKept
<1>1. IInv => ReserveIsKept
  BY DEF IInv, BudgetInv, Kept, Fits, ReserveIsKept
<1> QED
  BY <1>1, CallsInvariance, PTL

\* CircuitBreaker (reliability/retry.py) opens only after as many complete calls
\* of its provider failed as the threshold asks for, whoever made them.
THEOREM BreakersOpenForFailures == Spec => []OpensForItsOwnFailures
<1>1. IInv => OpensForItsOwnFailures
  BY BudgetAssumption DEF IInv, CountsFailures, OpensForItsOwnFailures
<1> QED
  BY <1>1, CallsInvariance, PTL

=============================================================================
