--------------------------- MODULE AgentLoopProofs ---------------------------
(***************************************************************************)
(* Proofs about the agent's loop (module AgentLoop), for any tools, limits *)
(* and answers of the model.                                               *)
(*                                                                         *)
(* None of its three properties is inductive.  What they need:             *)
(*   InTime    between two rounds there is a round left, and the last one  *)
(*             is a closing round, which leaves by a reply, a report or a  *)
(*             repair that is given one more round;                        *)
(*   Trouble   an outcome that must not be repeated, or a second failure   *)
(*             of a tool, has closed the request for good (safety.forced), *)
(*             and nothing, not even a regenerated reply, opens it again;  *)
(*   Repaired  a resolved outcome is a validation error that a later       *)
(*             success of the same tool has made up for.                   *)
(***************************************************************************)
EXTENDS AgentLoop, FiniteSetTheorems, WellFoundedInduction, TLAPS

-----------------------------------------------------------------------------
(* The inductive invariant.                                                *)

Turns ==
    [step : 0..MaxSteps, must : BOOLEAN, light : BOOLEAN, noTools : BOOLEAN, called : BOOLEAN,
     prepared : SUBSET {"decision", "recall"}, recovered : {"no", "reply", "action"},
     nudged : SUBSET {"capability", "corrective"}, finalOnly : BOOLEAN]

Safeties ==
    [model : Nat, limit : Nat, tool : Nat, repair : Nat, replyRepair : Nat, discovery : Nat,
     stale : 0..2, progress : BOOLEAN, forced : BOOLEAN, locked : SUBSET Tools]

Discoveries == [expansions : 0..2, stalled : 0..2, seen : BOOLEAN]

Kinds == Faults \cup {"ok", "skipped", "declined"}

Outcomes == [tool : Tools, kind : Kinds, resolved : BOOLEAN]

Batches ==
    [calls : Seq(Tools \cup Controls), members : Nat, declined : BOOLEAN, business : BOOLEAN,
     expanded : BOOLEAN, tail : BOOLEAN]

Results ==
    [status : {"none", "completed", "partial_success", "failed", "error", "budget_exhausted"},
     by : {"nobody", "model", "budget", "rounds", "final_only", "recovery", "refusal",
           "storage", "timeout"}]

TypeOK ==
    /\ at \in {"top", "model", "calls", "waiting", "granted", "ended"}
    /\ turn \in Turns /\ safety \in Safeties /\ discovery \in Discoveries
    /\ outcomes \in Seq(Outcomes) /\ batch \in Batches
    /\ budget \in 0..3 /\ result \in Results
    /\ runs \subseteq Tools \X Nat

\* The calls a confirmation was asked for are calls of tools.
Members ==
    at \in {"waiting", "granted"} =>
        /\ batch.members <= Len(batch.calls)
        /\ \A i \in 1..batch.members : batch.calls[i] \in Tools

\* Rounds that were granted.
Rounds(s) == s.limit + s.discovery + s.replyRepair

InTime ==
    /\ at \in {"top", "calls", "waiting", "granted"} \/ (at = "model" /\ ~turn.finalOnly) =>
          turn.step < MaxSteps /\ safety.model < Rounds(safety)
    /\ at = "model" => safety.model <= Rounds(safety)

Trouble ==
    /\ \A i \in DOMAIN outcomes : outcomes[i].kind = "unsafe" => safety.forced
    /\ \A i, j \in DOMAIN outcomes :
          ( /\ i # j /\ outcomes[i].tool = outcomes[j].tool
            /\ outcomes[i].kind \in Faults /\ outcomes[j].kind \in Faults ) => safety.forced

Earlier == \A run \in runs : run[2] <= Len(outcomes)

Repaired ==
    \A i \in DOMAIN outcomes : outcomes[i].resolved =>
        /\ outcomes[i].kind = "invalid"
        /\ \E j \in DOMAIN outcomes :
              j > i /\ outcomes[j].tool = outcomes[i].tool /\ outcomes[j].kind = "ok"

\* Every outcome is a success or was made up for.
AllGood == \A i \in DOMAIN outcomes : outcomes[i].kind = "ok" \/ outcomes[i].resolved

Settled ==
    /\ at # "ended" => result = NoResult
    /\ result.status = "completed" => AllGood
    /\ result.by # "rounds"

Past == Trouble /\ Earlier /\ Repaired /\ NothingRunsAfterTrouble

IInv == TypeOK /\ Members /\ InTime /\ Past /\ Settled

-----------------------------------------------------------------------------
(* Helpers: the parts of the state.                                        *)

LEMMA LimitsAre ==
    /\ MaxSteps \in Nat /\ MaxSteps # 0 /\ ModelLimit \in Nat /\ ModelLimit # 0
    /\ ToolLimit \in Nat /\ RepairLimit \in Nat /\ DiscoveryLimit \in Nat
    /\ Tools \cap Controls = {}
    /\ \A calls \in Responses : calls \in Seq(Tools \cup Controls) /\ calls # <<>>
BY LimitAssumption

\* More rounds may have been granted, and what is closed stays closed.
Goes(s, t) ==
    /\ t \in Safeties /\ (s.forced => t.forced)
    /\ t.model = s.model /\ t.limit = s.limit /\ t.replyRepair = s.replyRepair
    /\ s.discovery <= t.discovery

LEMMA GoesNowhere == ASSUME NEW s \in Safeties PROVE Goes(s, s)
BY DEF Goes, Safeties

LEMMA Closing ==
    ASSUME NEW s \in Safeties, NEW b \in BOOLEAN
    PROVE  Goes(s, [s EXCEPT !.forced = b \/ @]) /\ Goes(s, [s EXCEPT !.forced = @ \/ b])
           /\ Goes(s, [s EXCEPT !.forced = TRUE])
<1>1. PICK c \in BOOLEAN : c = (b \/ s.forced)
  OBVIOUS
<1>2. /\ [s EXCEPT !.forced = b \/ @] = [s EXCEPT !.forced = c]
      /\ [s EXCEPT !.forced = @ \/ b] = [s EXCEPT !.forced = c]
  BY <1>1
<1>3. Goes(s, [s EXCEPT !.forced = c])
  BY <1>1 DEF Goes, Safeties
<1>4. [s EXCEPT !.forced = TRUE] \in Safeties
  BY DEF Safeties
<1>5. Goes(s, [s EXCEPT !.forced = TRUE])
  BY <1>4 DEF Goes, Safeties
<1> QED
  BY <1>2, <1>3, <1>5

LEMMA CreditGoes ==
    ASSUME NEW s \in Safeties, NEW expanded, NEW business
    PROVE  Goes(s, Credit(s, expanded, business))
<1>1. PICK n \in Nat : n = s.discovery + 1
  BY DEF Safeties
<1>2. [s EXCEPT !.discovery = n] \in Safeties
  BY DEF Safeties
<1>3. [s EXCEPT !.discovery = n].discovery = n /\ s.discovery <= n
  BY <1>1 DEF Safeties
<1>4. Goes(s, [s EXCEPT !.discovery = n])
  BY <1>2, <1>3 DEF Goes, Safeties
<1>5. [s EXCEPT !.discovery = @ + 1] = [s EXCEPT !.discovery = n]
  BY <1>1
<1> QED
  BY <1>4, <1>5, GoesNowhere DEF Credit

LEMMA CallRoundGoes ==
    ASSUME NEW s \in Safeties, NEW called, called \subseteq Tools
    PROVE  Goes(s, CallRound(s, called))
<1> DEFINE again == called \cap FailedTools
<1>1. again \subseteq Tools
  OBVIOUS
<1> HIDE DEF again
<1>2. PICK n \in Nat, m \in Nat, l \in SUBSET Tools :
         n = s.tool + 1 /\ m = s.repair + 1 /\ l = s.locked \cup again
  <2>1. s.tool + 1 \in Nat /\ s.repair + 1 \in Nat /\ s.locked \cup again \in SUBSET Tools
    BY <1>1 DEF Safeties
  <2> QED
    BY <2>1
<1>3. ASSUME NEW t \in {[s EXCEPT !.tool = n], [s EXCEPT !.tool = n, !.repair = m],
                       [s EXCEPT !.tool = n, !.locked = l, !.forced = TRUE]}
      PROVE  Goes(s, t)
  <2>1. t \in Safeties
    BY DEF Safeties
  <2>2. /\ s.forced => t.forced
        /\ t.model = s.model /\ t.limit = s.limit /\ t.replyRepair = s.replyRepair
        /\ t.discovery = s.discovery
    BY DEF Safeties
  <2>3. s.discovery <= s.discovery
    BY DEF Safeties
  <2> QED
    BY <2>1, <2>2, <2>3 DEF Goes
<1>5. CallRound(s, called) \in
         {s, [s EXCEPT !.tool = n], [s EXCEPT !.tool = n, !.repair = m],
          [s EXCEPT !.tool = n, !.locked = l, !.forced = TRUE]}
  BY <1>2 DEF CallRound, again
<1> QED
  BY <1>3, <1>5, GoesNowhere

LEMMA FinishRoundGoes == ASSUME NEW s \in Safeties PROVE Goes(s, FinishRound(s))
<1>1. PICK stale : stale = CASE s.progress -> 0 [] ~s.progress /\ s.stale < 2 -> s.stale + 1
                             [] OTHER -> 2
  OBVIOUS
<1>2. stale \in 0..2
  BY <1>1 DEF Safeties
<1>3. PICK b \in BOOLEAN : b = (s.forced \/ stale = 2)
  OBVIOUS
<1>4. FinishRound(s) = [s EXCEPT !.stale = stale, !.forced = b]
  BY <1>1, <1>3 DEF FinishRound
<1>5. [s EXCEPT !.stale = stale, !.forced = b] \in Safeties
  BY <1>2 DEF Safeties
<1>6. s.forced => b
  BY <1>3
<1>7. Goes(s, [s EXCEPT !.stale = stale, !.forced = b])
  BY <1>5, <1>6 DEF Goes, Safeties
<1> QED
  BY <1>4, <1>7

LEMMA GoesOn ==
    ASSUME NEW s \in Safeties, NEW t, NEW u, Goes(s, t), Goes(t, u) PROVE Goes(s, u)
BY DEF Goes, Safeties

LEMMA FreshIs ==
    ASSUME NEW must \in BOOLEAN, NEW light \in BOOLEAN, NEW noTools \in BOOLEAN, NEW called \in BOOLEAN
    PROVE  /\ FreshTurn(must, light, noTools, called) \in Turns
           /\ FreshTurn(must, light, noTools, called).step = 0
           /\ FreshTurn(must, light, noTools, called).finalOnly = FALSE
<1>1. 0 \in 0..MaxSteps
  BY LimitsAre
<1> QED
  BY <1>1 DEF FreshTurn, Turns

LEMMA NothingIs == NoBatch \in Batches /\ NoResult \in Results /\ NoBatch.calls = <<>>
                   /\ NoResult.status = "none" /\ NoResult.by = "nobody"
BY DEF NoBatch, NoResult, Batches, Results

\* While a call is left, it is the first one.
LEMMA CallIs ==
    ASSUME NEW b \in Batches, b.calls # <<>>
    PROVE  /\ Head(b.calls) \in Tools \cup Controls /\ Head(b.calls) = b.calls[1]
           /\ Pop(b) \in Batches /\ Pop(b).calls = Tail(b.calls)
           /\ Pop(b).members = b.members
           /\ Len(Tail(b.calls)) = Len(b.calls) - 1
           /\ \A i \in 1..Len(Tail(b.calls)) : Tail(b.calls)[i] = b.calls[i + 1]
<1>1. b.calls \in Seq(Tools \cup Controls)
  BY DEF Batches
<1>2. Tail(b.calls) \in Seq(Tools \cup Controls)
  BY <1>1
<1> QED
  BY <1>1, <1>2 DEF Pop, Batches

LEMMA ControlIs ==
    ASSUME discovery \in Discoveries, NEW new \in BOOLEAN, NEW loaded \in BOOLEAN, Control(new, loaded)
    PROVE  discovery' \in Discoveries
<1>1. PICK e : e = discovery.expansions + IF loaded THEN 1 ELSE 0
  OBVIOUS
<1>2. PICK d : d = CASE new -> 0 [] ~new /\ discovery.stalled < 2 -> discovery.stalled + 1
                     [] OTHER -> 2
  OBVIOUS
<1>3. loaded => discovery.expansions < 2
  BY DEF Control
<1>4. e \in 0..2
  BY <1>1, <1>3 DEF Discoveries
<1>5. d \in 0..2
  BY <1>2 DEF Discoveries
<1>6. discovery' = [expansions |-> e, stalled |-> d, seen |-> TRUE]
  BY <1>1, <1>2 DEF Control
<1> QED
  BY <1>4, <1>5, <1>6 DEF Discoveries

LEMMA ChargeIs == ASSUME budget \in 0..3, Charge PROVE budget' \in 0..3
BY DEF Charge, Exhausted

-----------------------------------------------------------------------------
(* Helpers: the outcomes.                                                  *)

\* The same outcomes, but some may have been resolved.
LEMMA ResolveIs ==
    ASSUME outcomes \in Seq(Outcomes), NEW t \in Tools
    PROVE  /\ Resolve(t) \in Seq(Outcomes) /\ Len(Resolve(t)) = Len(outcomes)
           /\ \A i \in 1..Len(outcomes) :
                 /\ Resolve(t)[i].tool = outcomes[i].tool /\ Resolve(t)[i].kind = outcomes[i].kind
                 /\ Resolve(t)[i].resolved =>
                       outcomes[i].resolved \/ (outcomes[i].tool = t /\ outcomes[i].kind = "invalid")
<1> DEFINE invalid == { i \in DOMAIN outcomes : outcomes[i].tool = t /\ outcomes[i].kind = "invalid" }
           last(i) == i \in invalid /\ \A j \in invalid : j <= i
<1>1. /\ DOMAIN outcomes = 1..Len(outcomes) /\ Len(outcomes) \in Nat
      /\ \A i \in 1..Len(outcomes) : outcomes[i] \in Outcomes
  OBVIOUS
<1>2. Resolve(t) = [i \in 1..Len(outcomes) |-> IF last(i) THEN [outcomes[i] EXCEPT !.resolved = TRUE]
                                              ELSE outcomes[i]]
  BY <1>1 DEF Resolve
<1>3. \A i \in 1..Len(outcomes) :
         last(i) => outcomes[i].tool = t /\ outcomes[i].kind = "invalid"
  OBVIOUS
<1> HIDE DEF last
<1>4. Resolve(t) \in [1..Len(outcomes) -> Outcomes]
  BY <1>1, <1>2 DEF Outcomes
<1>5. Resolve(t) \in Seq(Outcomes) /\ Len(Resolve(t)) = Len(outcomes)
  BY <1>1, <1>4
<1>6. ASSUME NEW i \in 1..Len(outcomes)
      PROVE  /\ Resolve(t)[i].tool = outcomes[i].tool /\ Resolve(t)[i].kind = outcomes[i].kind
             /\ Resolve(t)[i].resolved =>
                   outcomes[i].resolved \/ (outcomes[i].tool = t /\ outcomes[i].kind = "invalid")
  BY <1>1, <1>2, <1>3 DEF Outcomes
<1> QED
  BY <1>5, <1>6

\* One more outcome, after the others, which keep their tool and kind.
Added(t, k) ==
    /\ outcomes' \in Seq(Outcomes) /\ Len(outcomes') = Len(outcomes) + 1
    /\ \A i \in 1..Len(outcomes) :
          outcomes'[i].tool = outcomes[i].tool /\ outcomes'[i].kind = outcomes[i].kind
    /\ outcomes'[Len(outcomes) + 1] = Outcome(t, k)

LEMMA AddedIs ==
    ASSUME outcomes \in Seq(Outcomes), NEW t \in Tools, NEW k \in Kinds, NEW base \in Seq(Outcomes),
           Len(base) = Len(outcomes),
           \A i \in 1..Len(outcomes) :
              base[i].tool = outcomes[i].tool /\ base[i].kind = outcomes[i].kind,
           outcomes' = Append(base, Outcome(t, k))
    PROVE  Added(t, k) /\ \A i \in 1..Len(outcomes) : outcomes'[i] = base[i]
<1>1. Outcome(t, k) \in Outcomes
  BY DEF Outcome, Outcomes
<1> QED
  BY <1>1 DEF Added

LEMMA RepairedStays ==
    ASSUME outcomes \in Seq(Outcomes), Repaired, NEW t \in Tools, NEW k \in Kinds, Added(t, k),
           \A i \in 1..Len(outcomes) : outcomes'[i].resolved =>
              \/ outcomes[i].resolved
              \/ k = "ok" /\ outcomes[i].tool = t /\ outcomes[i].kind = "invalid"
    PROVE  Repaired'
<1>1. /\ DOMAIN outcomes = 1..Len(outcomes) /\ DOMAIN outcomes' = 1..(Len(outcomes) + 1)
      /\ Len(outcomes) \in Nat
  BY DEF Added
<1>2. SUFFICES ASSUME NEW i \in 1..(Len(outcomes) + 1), outcomes'[i].resolved
      PROVE  /\ outcomes'[i].kind = "invalid"
             /\ \E j \in 1..(Len(outcomes) + 1) :
                   j > i /\ outcomes'[j].tool = outcomes'[i].tool /\ outcomes'[j].kind = "ok"
  BY <1>1 DEF Repaired
<1>3. i # Len(outcomes) + 1
  BY <1>2 DEF Added, Outcome
<1>4. i \in 1..Len(outcomes)
  BY <1>1, <1>3
<1>5. outcomes'[i].tool = outcomes[i].tool /\ outcomes'[i].kind = outcomes[i].kind
  BY <1>4 DEF Added
<1>6. CASE outcomes[i].resolved
  <2>1. /\ outcomes[i].kind = "invalid"
        /\ \E j \in DOMAIN outcomes :
              j > i /\ outcomes[j].tool = outcomes[i].tool /\ outcomes[j].kind = "ok"
    BY <1>1, <1>4, <1>6 DEF Repaired
  <2>2. PICK j \in 1..Len(outcomes) :
           j > i /\ outcomes[j].tool = outcomes[i].tool /\ outcomes[j].kind = "ok"
    BY <1>1, <2>1
  <2>3. j \in 1..(Len(outcomes) + 1) /\ outcomes'[j].tool = outcomes[j].tool
        /\ outcomes'[j].kind = outcomes[j].kind
    BY <1>1 DEF Added
  <2> QED
    BY <1>5, <2>1, <2>2, <2>3
<1>7. CASE k = "ok" /\ outcomes[i].tool = t /\ outcomes[i].kind = "invalid"
  <2>1. Len(outcomes) + 1 > i /\ Len(outcomes) + 1 \in 1..(Len(outcomes) + 1)
    BY <1>1, <1>4
  <2>2. outcomes'[Len(outcomes) + 1].tool = t /\ outcomes'[Len(outcomes) + 1].kind = "ok"
    BY <1>7 DEF Added, Outcome
  <2> QED
    BY <1>5, <1>7, <2>1, <2>2
<1> QED
  BY <1>2, <1>4, <1>6, <1>7

\* What is recorded of the runs stays true when an outcome is added.
LEMMA RunsStay ==
    ASSUME TypeOK, Earlier, NothingRunsAfterTrouble, NEW t \in Tools, NEW k \in Kinds, Added(t, k),
           runs' = runs
    PROVE  Earlier' /\ NothingRunsAfterTrouble'
<1>1. Len(outcomes) \in Nat
  BY DEF TypeOK
<1>2. ASSUME NEW run \in runs
      PROVE  /\ run[2] <= Len(outcomes')
             /\ \A i \in 1..run[2] : /\ outcomes'[i].tool = outcomes[i].tool
                                     /\ outcomes'[i].kind = outcomes[i].kind
  <2>1. run[2] \in Nat /\ run[2] <= Len(outcomes)
    BY DEF TypeOK, Earlier
  <2>2. \A i \in 1..run[2] : i \in 1..Len(outcomes)
    BY <1>1, <2>1
  <2> QED
    BY <1>1, <2>1, <2>2 DEF Added
<1>3. ASSUME NEW run \in runs', NEW i \in 1..run[2], NEW j \in 1..run[2]
      PROVE  /\ outcomes'[i].kind # "unsafe"
             /\ ( /\ outcomes'[i].tool = run[1] /\ outcomes'[i].kind \in Faults
                  /\ outcomes'[j].tool = run[1] /\ outcomes'[j].kind \in Faults ) => i = j
  BY <1>2, <1>3 DEF NothingRunsAfterTrouble
<1> QED
  BY <1>2, <1>3 DEF Earlier, NothingRunsAfterTrouble

\* A tool starts only in a request that is open: there was no trouble yet.
LEMMA RunIsEarly ==
    ASSUME TypeOK, Trouble, Earlier, NothingRunsAfterTrouble, ~safety.forced, NEW t \in Tools,
           runs' = runs \cup {<<t, Len(outcomes)>>}
    PROVE  /\ runs' \subseteq Tools \X Nat
           /\ \A run \in runs' : run[2] <= Len(outcomes)
           /\ \A run \in runs' : \A i, j \in 1..run[2] :
                 /\ outcomes[i].kind # "unsafe"
                 /\ ( /\ outcomes[i].tool = run[1] /\ outcomes[i].kind \in Faults
                      /\ outcomes[j].tool = run[1] /\ outcomes[j].kind \in Faults ) => i = j
<1>1. Len(outcomes) \in Nat /\ DOMAIN outcomes = 1..Len(outcomes)
  BY DEF TypeOK
<1>2. runs' \subseteq Tools \X Nat
  BY <1>1 DEF TypeOK
<1>3. ASSUME NEW run \in runs' PROVE run[2] <= Len(outcomes)
  BY <1>1 DEF Earlier
<1>4. ASSUME NEW run \in runs', NEW i \in 1..run[2], NEW j \in 1..run[2]
      PROVE  /\ outcomes[i].kind # "unsafe"
             /\ ( /\ outcomes[i].tool = run[1] /\ outcomes[i].kind \in Faults
                  /\ outcomes[j].tool = run[1] /\ outcomes[j].kind \in Faults ) => i = j
  <2>1. CASE run \in runs
    BY <2>1 DEF NothingRunsAfterTrouble
  <2>2. CASE run = <<t, Len(outcomes)>>
    <3>1. i \in DOMAIN outcomes /\ j \in DOMAIN outcomes
      BY <1>1, <2>2
    <3> QED
      BY <3>1 DEF Trouble
  <2> QED
    BY <2>1, <2>2
<1> QED
  BY <1>2, <1>3, <1>4

LEMMA QuietKeeps ==
    ASSUME TypeOK, Past, UNCHANGED <<outcomes, runs>>, safety.forced => safety'.forced
    PROVE  Past' /\ (AllGood <=> AllGood')
BY DEF Past, Trouble, Earlier, Repaired, NothingRunsAfterTrouble, AllGood

\* A call that is not executed is no trouble.
LEMMA SkipKeeps ==
    ASSUME TypeOK, Past, NEW t \in Tools, NEW k \in {"skipped", "declined"}, Skip(t, k), runs' = runs
    PROVE  Past' /\ outcomes' \in Seq(Outcomes) /\ safety' = safety
<1>1. /\ outcomes \in Seq(Outcomes) /\ Len(outcomes) = Len(outcomes) /\ k \in Kinds
      /\ outcomes' = Append(outcomes, Outcome(t, k)) /\ safety' = safety
  BY DEF TypeOK, Skip, Kinds
<1>2. Added(t, k) /\ \A i \in 1..Len(outcomes) : outcomes'[i] = outcomes[i]
  BY <1>1, AddedIs
<1>3. Repaired'
  BY <1>1, <1>2, RepairedStays DEF Past
<1>4. Earlier' /\ NothingRunsAfterTrouble'
  BY <1>1, <1>2, RunsStay DEF Past
<1>5. /\ DOMAIN outcomes = 1..Len(outcomes) /\ DOMAIN outcomes' = 1..(Len(outcomes) + 1)
      /\ Len(outcomes) \in Nat
  BY <1>1, <1>2 DEF Added
<1>6. ASSUME NEW i \in DOMAIN outcomes', outcomes'[i].kind \in Faults
      PROVE  i \in DOMAIN outcomes /\ outcomes'[i] = outcomes[i]
  <2>1. i # Len(outcomes) + 1
    BY <1>2, <1>6 DEF Added, Outcome, Faults
  <2> QED
    BY <1>2, <1>5, <2>1
<1>7. Trouble'
  BY <1>1, <1>6 DEF Past, Trouble, Faults
<1> QED
  BY <1>1, <1>2, <1>3, <1>4, <1>7 DEF Past, Added

\* An execution whose outcome must not be repeated closes the request.
LEMMA RunKeeps ==
    ASSUME TypeOK, Past, ~safety.forced, NEW t \in Tools, Run(t)
    PROVE  /\ Past' /\ outcomes' \in Seq(Outcomes) /\ Goes(safety, safety')
           /\ budget' \in 0..3 /\ runs' \subseteq Tools \X Nat
<1>1. PICK k \in Faults \cup {"ok"} : Observe(t, k)
  BY DEF Run
<1>2. k \in Kinds /\ outcomes \in Seq(Outcomes) /\ safety \in Safeties
  BY <1>1 DEF TypeOK, Kinds
<1>3. runs' = runs \cup {<<t, Len(outcomes)>>} /\ budget' \in 0..3
  BY ChargeIs DEF Run, TypeOK
<1>4. PICK base : base = IF k = "ok" THEN Resolve(t) ELSE outcomes
  OBVIOUS
<1>5. /\ base \in Seq(Outcomes) /\ Len(base) = Len(outcomes)
      /\ \A i \in 1..Len(outcomes) :
            /\ base[i].tool = outcomes[i].tool /\ base[i].kind = outcomes[i].kind
            /\ base[i].resolved =>
                  \/ outcomes[i].resolved
                  \/ k = "ok" /\ outcomes[i].tool = t /\ outcomes[i].kind = "invalid"
  BY <1>2, <1>4, ResolveIs
<1>6. outcomes' = Append(base, Outcome(t, k))
  BY <1>1, <1>4 DEF Observe
<1>7. Added(t, k) /\ \A i \in 1..Len(outcomes) : outcomes'[i] = base[i]
  BY <1>2, <1>5, <1>6, AddedIs
<1>8. Repaired'
  <2>1. \A i \in 1..Len(outcomes) : outcomes'[i].resolved =>
              \/ outcomes[i].resolved
              \/ k = "ok" /\ outcomes[i].tool = t /\ outcomes[i].kind = "invalid"
    BY <1>5, <1>7
  <2> QED
    BY <1>2, <1>7, <2>1, RepairedStays DEF Past
<1>9. PICK new \in BOOLEAN :
         safety' = [safety EXCEPT !.progress = @ \/ new,
                                  !.locked = IF StopsTool(t, k) THEN @ \cup {t} ELSE @,
                                  !.forced = @ \/ StopsTool(t, k)]
  BY <1>1 DEF Observe
<1>10. PICK stops \in BOOLEAN : stops = StopsTool(t, k)
  BY DEF StopsTool
<1>11. Goes(safety, safety') /\ safety'.forced = stops
  <2>1. PICK pr \in BOOLEAN, fo \in BOOLEAN : pr = (safety.progress \/ new) /\ fo = (safety.forced \/ stops)
    OBVIOUS
  <2>2. PICK lo \in SUBSET Tools : lo = IF stops THEN safety.locked \cup {t} ELSE safety.locked
    BY <1>2 DEF Safeties
  <2>3. safety' = [safety EXCEPT !.progress = pr, !.locked = lo, !.forced = fo]
    BY <1>9, <1>10, <2>1, <2>2
  <2>4. safety' \in Safeties /\ safety'.forced = fo
    BY <1>2, <2>3 DEF Safeties
  <2>5. /\ safety'.model = safety.model /\ safety'.limit = safety.limit
        /\ safety'.replyRepair = safety.replyRepair /\ safety'.discovery = safety.discovery
    BY <1>2, <2>3 DEF Safeties
  <2>6. safety.discovery <= safety.discovery
    BY <1>2 DEF Safeties
  <2>7. fo = stops
    BY <2>1, <1>2 DEF Safeties
  <2> QED
    BY <2>4, <2>5, <2>6, <2>7 DEF Goes
<1>12. /\ DOMAIN outcomes = 1..Len(outcomes) /\ DOMAIN outcomes' = 1..(Len(outcomes) + 1)
       /\ Len(outcomes) \in Nat
  BY <1>2, <1>7 DEF Added
<1>13. Trouble'
  <2> DEFINE n == Len(outcomes) + 1
  <2>1. outcomes'[n].tool = t /\ outcomes'[n].kind = k
    BY <1>7 DEF Added, Outcome
  <2>2. ASSUME NEW i \in DOMAIN outcomes', i # n
        PROVE  /\ i \in DOMAIN outcomes
               /\ outcomes'[i].tool = outcomes[i].tool /\ outcomes'[i].kind = outcomes[i].kind
    BY <1>7, <1>12, <2>2 DEF Added
  <2> HIDE DEF n
  <2>3. ASSUME NEW i \in DOMAIN outcomes', outcomes'[i].kind = "unsafe" PROVE safety'.forced
    <3>1. CASE i = n
      BY <1>10, <1>11, <2>1, <2>3, <3>1 DEF StopsTool, Faults
    <3>2. CASE i # n
      BY <2>2, <2>3, <3>2 DEF Past, Trouble
    <3> QED
      BY <3>1, <3>2
  <2>4. ASSUME NEW i \in DOMAIN outcomes', NEW j \in DOMAIN outcomes', i # n, j = n,
               outcomes'[i].tool = outcomes'[j].tool,
               outcomes'[i].kind \in Faults, outcomes'[j].kind \in Faults
        PROVE  safety'.forced
    <3>1. i \in Failures(t)
      BY <2>1, <2>2, <2>4 DEF Failures
    <3> QED
      BY <1>10, <1>11, <2>1, <2>4, <3>1 DEF StopsTool
  <2>5. ASSUME NEW i \in DOMAIN outcomes', NEW j \in DOMAIN outcomes', i # j,
               outcomes'[i].tool = outcomes'[j].tool,
               outcomes'[i].kind \in Faults, outcomes'[j].kind \in Faults
        PROVE  safety'.forced
    <3>1. CASE i # n /\ j # n
      BY <2>2, <2>5, <3>1 DEF Past, Trouble
    <3> QED
      BY <2>4, <2>5, <3>1
  <2> QED
    BY <2>3, <2>5 DEF Trouble
<1>14. /\ runs' \subseteq Tools \X Nat
       /\ \A run \in runs' : run[2] <= Len(outcomes)
       /\ \A run \in runs' : \A i, j \in 1..run[2] :
             /\ outcomes[i].kind # "unsafe"
             /\ ( /\ outcomes[i].tool = run[1] /\ outcomes[i].kind \in Faults
                  /\ outcomes[j].tool = run[1] /\ outcomes[j].kind \in Faults ) => i = j
  BY <1>3, RunIsEarly DEF Past
<1>15. ASSUME NEW run \in runs'
       PROVE  /\ run[2] <= Len(outcomes')
              /\ \A i \in 1..run[2] : /\ outcomes'[i].tool = outcomes[i].tool
                                      /\ outcomes'[i].kind = outcomes[i].kind
  <2>1. run[2] \in Nat /\ run[2] <= Len(outcomes)
    BY <1>14
  <2>2. \A i \in 1..run[2] : i \in 1..Len(outcomes)
    BY <1>12, <2>1
  <2> QED
    BY <1>7, <1>12, <2>1, <2>2 DEF Added
<1>16. ASSUME NEW run \in runs', NEW i \in 1..run[2], NEW j \in 1..run[2]
       PROVE  /\ outcomes'[i].kind # "unsafe"
              /\ ( /\ outcomes'[i].tool = run[1] /\ outcomes'[i].kind \in Faults
                   /\ outcomes'[j].tool = run[1] /\ outcomes'[j].kind \in Faults ) => i = j
  BY <1>14, <1>15, <1>16
<1>17. Earlier' /\ NothingRunsAfterTrouble'
  BY <1>15, <1>16 DEF Earlier, NothingRunsAfterTrouble
<1> QED
  BY <1>3, <1>7, <1>8, <1>11, <1>13, <1>14, <1>17 DEF Past, Added

-----------------------------------------------------------------------------
(* The ways out.                                                           *)

LEMMA EndKeeps ==
    ASSUME IInv, NEW status, NEW by, End(status, by),
           [status |-> status, by |-> by] \in Results, by # "rounds",
           status = "completed" => AllGood,
           turn' \in Turns, safety' \in Safeties, safety.forced => safety'.forced, budget' \in 0..3
    PROVE  IInv'
<1>1. /\ at' = "ended" /\ result' = [status |-> status, by |-> by] /\ batch' = NoBatch
      /\ UNCHANGED <<discovery, outcomes, runs>>
  BY DEF End
<1>2. TypeOK'
  BY <1>1, NothingIs DEF IInv, TypeOK
<1>3. Members' /\ InTime'
  BY <1>1 DEF Members, InTime
<1>4. Past' /\ (AllGood <=> AllGood')
  BY <1>1, QuietKeeps DEF IInv
<1>5. Settled'
  BY <1>1, <1>4 DEF Settled
<1> QED
  BY <1>2, <1>3, <1>4, <1>5 DEF IInv

LEMMA ReportKeeps ==
    ASSUME IInv, NEW by \in {"budget", "final_only"}, DeterministicFinal(by), budget' \in 0..3
    PROVE  IInv'
<1>1. PICK status \in {"budget_exhausted", "partial_success", "failed"} : End(status, by)
  BY DEF DeterministicFinal
<1>2. turn' = turn /\ safety' = [safety EXCEPT !.forced = TRUE]
  BY DEF DeterministicFinal
<1>3. turn' \in Turns /\ safety \in Safeties
  BY <1>2 DEF IInv, TypeOK
<1>4. safety' \in Safeties /\ safety'.forced
  BY <1>2, <1>3 DEF Safeties
<1>5. [status |-> status, by |-> by] \in Results /\ by # "rounds" /\ status # "completed"
  BY <1>1 DEF Results
<1> QED
  BY <1>1, <1>3, <1>4, <1>5, EndKeeps

LEMMA DegradeKeeps == ASSUME IInv, Degrade, budget' \in 0..3 PROVE IInv'
<1>1. PICK status \in {"failed", "error"} : End(status, "recovery")
  BY DEF Degrade
<1>2. turn' \in Turns /\ safety' \in Safeties /\ (safety.forced => safety'.forced)
  BY DEF Degrade, IInv, TypeOK
<1>3. [status |-> status, by |-> "recovery"] \in Results /\ status # "completed"
  BY <1>1 DEF Results
<1> QED
  BY <1>1, <1>2, <1>3, EndKeeps

\* A repair is given a round of its own, so a closing round does not use up the
\* last one.
LEMMA RecoverKeeps ==
    ASSUME IInv, at = "model", NEW action \in BOOLEAN, Recover(action), budget' \in 0..3 PROVE IInv'
<1>1. CASE ~MayRecover
  BY <1>1, DegradeKeeps DEF Recover
<1>2. CASE MayRecover
  <2>1. PICK mode \in {"reply", "action"} :
           /\ safety' = [Repair(safety) EXCEPT !.forced = @ \/ mode = "reply"]
           /\ turn' = [turn EXCEPT !.recovered = mode]
           /\ at' = "top"
           /\ UNCHANGED <<discovery, outcomes, batch, result, runs>>
    BY <1>2 DEF Recover
  <2>2. safety \in Safeties /\ turn \in Turns
    BY DEF IInv, TypeOK
  <2>3. PICK n \in Nat, m \in Nat : n = safety.repair + 1 /\ m = safety.replyRepair + 1
    BY <2>2 DEF Safeties
  <2>4. PICK r \in Safeties : r = [safety EXCEPT !.repair = n, !.replyRepair = m]
    BY <2>2 DEF Safeties
  <2>5. Repair(safety) = r
    BY <2>3, <2>4 DEF Repair
  <2>6. /\ r.forced = safety.forced /\ r.model = safety.model /\ r.limit = safety.limit
        /\ r.discovery = safety.discovery /\ r.replyRepair = m
    BY <2>2, <2>4 DEF Safeties
  <2>7. Goes(r, safety')
    BY <2>1, <2>5, Closing
  <2>8. turn' \in Turns /\ turn'.step = turn.step /\ turn.step < MaxSteps
    BY <1>2, <2>1, <2>2 DEF Turns, MayRecover
  <2>9. TypeOK'
    BY <2>1, <2>7, <2>8 DEF IInv, TypeOK, Goes
  <2>10. InTime'
    <3>1. /\ safety.model <= safety.limit + safety.discovery + safety.replyRepair
      BY DEF IInv, InTime, Rounds
    <3>2. /\ safety'.model = safety.model /\ safety'.limit = safety.limit
          /\ safety'.replyRepair = safety.replyRepair + 1 /\ safety.discovery <= safety'.discovery
      BY <2>3, <2>6, <2>7 DEF Goes
    <3>3. /\ safety.model \in Nat /\ safety.limit \in Nat /\ safety.replyRepair \in Nat
          /\ safety.discovery \in Nat /\ safety'.discovery \in Nat
      BY <2>2, <2>7 DEF Goes, Safeties
    <3>4. safety'.model < safety'.limit + safety'.discovery + safety'.replyRepair
      BY <3>1, <3>2, <3>3
    <3> QED
      BY <2>1, <2>8, <3>4 DEF InTime, Rounds
  <2>11. Past' /\ (AllGood <=> AllGood')
    BY <2>1, <2>6, <2>7, QuietKeeps DEF IInv, Goes
  <2>12. Members' /\ Settled'
    BY <2>1, <2>11 DEF IInv, Members, Settled
  <2> QED
    BY <2>9, <2>10, <2>11, <2>12 DEF IInv
<1> QED
  BY <1>1, <1>2

-----------------------------------------------------------------------------
(* The model's rounds.                                                     *)

\* What stays of the rounds that are left.
LEMMA RoundsStay ==
    ASSUME NEW s \in Safeties, NEW t, Goes(s, t), s.model < Rounds(s)
    PROVE  t.model < Rounds(t)
<1>1. /\ s.model \in Nat /\ s.limit \in Nat /\ s.discovery \in Nat /\ s.replyRepair \in Nat
      /\ t.discovery \in Nat /\ s.discovery <= t.discovery
      /\ t.model = s.model /\ t.limit = s.limit /\ t.replyRepair = s.replyRepair
  BY DEF Goes, Safeties
<1> QED
  BY <1>1 DEF Rounds

LEMMA BeginRoundKeeps == ASSUME IInv, BeginRound PROVE IInv'
<1>1. safety \in Safeties /\ turn \in Turns /\ budget \in 0..3
  BY DEF IInv, TypeOK
<1>2. /\ at = "top" /\ at' = "model" /\ UNCHANGED <<discovery, outcomes, batch, budget, result, runs>>
  BY DEF BeginRound
<1>3. PICK n \in Nat, step \in Nat : n = safety.model + 1 /\ step = turn.step + 1
  BY <1>1 DEF Safeties, Turns
<1>4. PICK begun \in Safeties : begun = [safety EXCEPT !.model = n, !.progress = FALSE]
  BY <1>1 DEF Safeties
<1>5. PICK last \in BOOLEAN : last = NothingButReply(begun, step)
  BY DEF NothingButReply
<1>6. /\ safety' = [begun EXCEPT !.forced = @ \/ last]
      /\ \E late \in BOOLEAN :
            turn' = [turn EXCEPT !.step = step,
                                 !.finalOnly = last \/ discovery.stalled >= 2 \/ (turn.called /\ late)]
  BY <1>3, <1>4, <1>5 DEF BeginRound
<1>7. Goes(begun, safety')
  BY <1>6, Closing
<1>8. /\ begun.model = safety.model + 1 /\ begun.limit = safety.limit
      /\ begun.discovery = safety.discovery /\ begun.replyRepair = safety.replyRepair
      /\ begun.forced = safety.forced
  BY <1>1, <1>3, <1>4 DEF Safeties
<1>9. turn.step < MaxSteps /\ safety.model < Rounds(safety)
  BY <1>2 DEF IInv, InTime
<1>10. step \in 0..MaxSteps /\ step <= MaxSteps
  BY <1>1, <1>3, <1>9, LimitsAre DEF Turns
<1>11. PICK final \in BOOLEAN : /\ turn' = [turn EXCEPT !.step = step, !.finalOnly = final]
                                /\ last => final
  <2>1. PICK late \in BOOLEAN :
            turn' = [turn EXCEPT !.step = step,
                                 !.finalOnly = last \/ discovery.stalled >= 2 \/ (turn.called /\ late)]
    BY <1>6
  <2>2. PICK final \in BOOLEAN : final = (last \/ discovery.stalled >= 2 \/ (turn.called /\ late))
    OBVIOUS
  <2> QED
    BY <2>1, <2>2
<1>12. turn' \in Turns /\ turn'.step = step /\ turn'.finalOnly = final
  BY <1>1, <1>10, <1>11 DEF Turns
<1>13. TypeOK'
  BY <1>2, <1>7, <1>12 DEF IInv, TypeOK, Goes
<1>14. InTime'
  <2>1. /\ safety.model \in Nat /\ safety.limit \in Nat /\ safety.replyRepair \in Nat
        /\ safety.discovery \in Nat /\ safety'.discovery \in Nat
        /\ safety'.model = safety.model + 1 /\ safety'.limit = safety.limit
        /\ safety'.replyRepair = safety.replyRepair /\ safety.discovery <= safety'.discovery
    BY <1>1, <1>7, <1>8 DEF Goes, Safeties
  <2>2. safety'.model <= Rounds(safety')
    BY <1>9, <2>1 DEF Rounds
  <2>3. ASSUME ~last PROVE step < MaxSteps /\ safety'.model < Rounds(safety')
    <3>1. ~LimitReached(begun) /\ step # MaxSteps
      BY <1>5, <2>3 DEF NothingButReply
    <3>2. ~(begun.model >= begun.limit + begun.discovery + begun.replyRepair)
      BY <3>1 DEF LimitReached
    <3>3. begun.model < Rounds(begun)
      BY <1>8, <2>1, <3>2 DEF Rounds
    <3>4. step < MaxSteps
      BY <1>10, <3>1, LimitsAre
    <3> QED
      BY <1>7, <3>3, <3>4, RoundsStay
  <2> QED
    BY <1>2, <1>11, <1>12, <2>2, <2>3 DEF InTime
<1>15. Past' /\ (AllGood <=> AllGood')
  BY <1>2, <1>7, <1>8, QuietKeeps DEF IInv, Goes
<1>16. Members' /\ Settled'
  BY <1>2, <1>15 DEF IInv, Members, Settled
<1> QED
  BY <1>13, <1>14, <1>15, <1>16 DEF IInv

LEMMA NoRoundKeeps == ASSUME IInv, NoRound PROVE IInv'
<1>1. RoundsLeft
  <2>1. turn.step < MaxSteps /\ safety.model < Rounds(safety) /\ safety \in Safeties
    BY DEF NoRound, IInv, InTime, TypeOK
  <2>2. /\ safety.model \in Nat /\ safety.limit \in Nat /\ safety.replyRepair \in Nat
        /\ safety.discovery \in Nat
    BY <2>1 DEF Safeties
  <2>3. ~(safety.model >= safety.limit + safety.discovery + safety.replyRepair)
    BY <2>1, <2>2 DEF Rounds
  <2> QED
    BY <2>1, <2>3 DEF RoundsLeft, LimitReached
<1>2. DeterministicFinal("budget") /\ budget' \in 0..3
  BY <1>1 DEF NoRound, IInv, TypeOK
<1> QED
  BY <1>2, ReportKeeps

\* A step within or after a model round that leaves the outcomes and the rounds
\* alone: no closing round goes on to calls or to another round this way.
LEMMA StepKeeps ==
    ASSUME IInv, (at = "model" /\ ~turn.finalOnly) \/ at = "calls", at' \in {"top", "calls"},
           turn' \in Turns, turn'.step = turn.step, Goes(safety, safety'),
           discovery' \in Discoveries, batch' \in Batches, budget' \in 0..3,
           UNCHANGED <<outcomes, result, runs>>
    PROVE  IInv'
<1>1. TypeOK'
  BY DEF IInv, TypeOK, Goes
<1>2. turn.step < MaxSteps /\ safety.model < Rounds(safety) /\ safety \in Safeties
  BY DEF IInv, InTime, TypeOK
<1>3. InTime'
  BY <1>2, RoundsStay DEF InTime
<1>4. Past' /\ (AllGood <=> AllGood')
  BY QuietKeeps DEF IInv, Goes
<1>5. Members' /\ Settled'
  BY <1>4 DEF IInv, Members, Settled
<1> QED
  BY <1>1, <1>3, <1>4, <1>5 DEF IInv

LEMMA StateIs ==
    ASSUME IInv
    PROVE  /\ turn \in Turns /\ safety \in Safeties /\ discovery \in Discoveries
           /\ batch \in Batches /\ budget \in 0..3 /\ outcomes \in Seq(Outcomes)
           /\ Goes(safety, safety) /\ (Charge => budget' \in 0..3)
BY GoesNowhere, ChargeIs DEF IInv, TypeOK

LEMMA EscalateKeeps == ASSUME IInv, Escalate PROVE IInv'
<1>1. /\ at = "model" /\ ~turn.finalOnly /\ at' = "top" /\ Charge
      /\ safety' = Credit(safety, TRUE, FALSE) /\ UNCHANGED <<outcomes, batch, result, runs>>
  BY DEF Escalate
<1>2. Goes(safety, safety')
  BY <1>1, StateIs, CreditGoes
<1>3. CASE UNCHANGED discovery
  <2>1. CASE turn' = turn
    BY <1>1, <1>2, <1>3, <2>1, StateIs, StepKeeps
  <2>2. ASSUME NEW need \in {"decision", "recall"},
               turn' = [turn EXCEPT !.prepared = @ \cup {need}]
        PROVE  IInv'
    <3>1. PICK set \in SUBSET {"decision", "recall"} : set = turn.prepared \cup {need}
      BY StateIs DEF Turns
    <3>2. turn' = [turn EXCEPT !.prepared = set]
      BY <2>2, <3>1
    <3>3. turn' \in Turns /\ turn'.step = turn.step
      BY <3>2, StateIs DEF Turns
    <3> QED
      BY <1>1, <1>2, <1>3, <3>3, StateIs, StepKeeps
  <2> QED
    BY <2>1, <2>2 DEF Escalate
<1>4. ASSUME NEW new \in BOOLEAN, NEW loaded \in BOOLEAN, Control(new, loaded), turn' = turn
      PROVE  IInv'
  <2>1. discovery' \in Discoveries
    BY <1>4, StateIs, ControlIs
  <2> QED
    BY <1>1, <1>2, <1>4, <2>1, StateIs, StepKeeps
<1> QED
  BY <1>3, <1>4 DEF Escalate

LEMMA NudgeKeeps == ASSUME IInv, Nudge PROVE IInv'
<1>1. /\ at = "model" /\ ~turn.finalOnly /\ at' = "top" /\ Charge
      /\ UNCHANGED <<safety, outcomes, batch, result, runs>>
  BY DEF Nudge
<1>2. ASSUME NEW set \in SUBSET {"capability", "corrective"}, NEW must \in BOOLEAN,
             turn' = [turn EXCEPT !.nudged = set, !.must = must], discovery' \in Discoveries
      PROVE  IInv'
  <2>1. turn' \in Turns /\ turn'.step = turn.step
    BY <1>2, StateIs DEF Turns
  <2> QED
    BY <1>1, <1>2, <2>1, StateIs, StepKeeps
<1>3. PICK remind \in {"capability", "corrective"} :
         \/ /\ turn' = [turn EXCEPT !.nudged = @ \cup {remind}]
            /\ \E k \in discovery.expansions..2 : discovery' = [discovery EXCEPT !.expansions = k]
         \/ /\ \E tried \in SUBSET {"capability"} :
                   turn' = [turn EXCEPT !.nudged = @ \cup {remind} \cup tried, !.must = TRUE]
            /\ UNCHANGED discovery
  BY DEF Nudge
<1>4. CASE /\ turn' = [turn EXCEPT !.nudged = @ \cup {remind}]
           /\ \E k \in discovery.expansions..2 : discovery' = [discovery EXCEPT !.expansions = k]
  <2>1. PICK set \in SUBSET {"capability", "corrective"}, must \in BOOLEAN :
           set = turn.nudged \cup {remind} /\ must = turn.must
    BY StateIs DEF Turns
  <2>2. turn' = [turn EXCEPT !.nudged = set, !.must = must]
    <3>1. turn' = [turn EXCEPT !.nudged = set]
      BY <1>4, <2>1
    <3> QED
      BY <2>1, <3>1, StateIs DEF Turns
  <2>3. discovery' \in Discoveries
    <3>1. PICK k \in discovery.expansions..2 : discovery' = [discovery EXCEPT !.expansions = k]
      BY <1>4
    <3>2. k \in 0..2
      BY StateIs DEF Discoveries
    <3> QED
      BY <3>1, <3>2, StateIs DEF Discoveries
  <2> QED
    BY <1>2, <2>2, <2>3
<1>5. ASSUME NEW tried \in SUBSET {"capability"},
             turn' = [turn EXCEPT !.nudged = @ \cup {remind} \cup tried, !.must = TRUE],
             UNCHANGED discovery
      PROVE  IInv'
  <2>1. PICK set \in SUBSET {"capability", "corrective"} : set = turn.nudged \cup {remind} \cup tried
    BY StateIs DEF Turns
  <2>2. turn' = [turn EXCEPT !.nudged = set, !.must = TRUE]
    BY <1>5, <2>1
  <2> QED
    BY <1>2, <1>5, <2>2, StateIs
<1> QED
  BY <1>3, <1>4, <1>5

LEMMA RefusedKeeps == ASSUME IInv, Refused PROVE IInv'
<1>1. End("error", "refusal") /\ UNCHANGED <<turn, safety>> /\ budget' \in 0..3
  BY StateIs DEF Refused
<1>2. [status |-> "error", by |-> "refusal"] \in Results
  BY DEF Results
<1> QED
  BY <1>1, <1>2, StateIs, EndKeeps

\* A request that is said to be completed has nothing left unresolved.
LEMMA StatusIs ==
    ASSUME NEW missing
    PROVE  /\ ResultStatus(missing) \in {"completed", "partial_success", "failed"}
           /\ ResultStatus(missing) = "completed" => AllGood
<1>1. ResultStatus(missing) \in {"completed", "partial_success", "failed"}
  BY DEF ResultStatus
<1>2. ASSUME ResultStatus(missing) = "completed" PROVE AllGood
  <2>1. ~Failed
    BY <1>2 DEF ResultStatus
  <2> QED
    BY <2>1 DEF Failed, AllGood
<1> QED
  BY <1>1, <1>2

LEMMA ReplyKeeps == ASSUME IInv, Reply PROVE IInv'
<1>1. at = "model" /\ budget' \in 0..3
  BY StateIs DEF Reply
<1>2. ASSUME NEW status \in {"completed", "partial_success", "failed"},
             status = "completed" => AllGood, End(status, "model"), UNCHANGED <<turn, safety>>
      PROVE  IInv'
  <2>1. [status |-> status, by |-> "model"] \in Results
    BY DEF Results
  <2> QED
    BY <1>1, <1>2, <2>1, StateIs, EndKeeps
<1>3. ASSUME NEW kept \in BOOLEAN,
             LET status == ResultStatus(turn.must /\ ~turn.called)
             IN  /\ End(IF status = "completed" /\ ~kept THEN "partial_success" ELSE status, "model")
                 /\ UNCHANGED <<turn, safety>>
      PROVE  IInv'
  <2>1. PICK status : status = ResultStatus(turn.must /\ ~turn.called)
    OBVIOUS
  <2>2. /\ status \in {"completed", "partial_success", "failed"}
        /\ status = "completed" => AllGood
    BY <2>1, StatusIs
  <2>3. CASE status = "completed" /\ ~kept
    <3>1. End("partial_success", "model") /\ UNCHANGED <<turn, safety>>
      BY <1>3, <2>1, <2>3
    <3> QED
      BY <1>2, <3>1
  <2>4. CASE ~(status = "completed" /\ ~kept)
    <3>1. End(status, "model") /\ UNCHANGED <<turn, safety>>
      BY <1>3, <2>1, <2>4
    <3> QED
      BY <1>2, <2>2, <3>1
  <2> QED
    BY <2>3, <2>4
<1>4. ASSUME End("error", "storage"), UNCHANGED <<turn, safety>> PROVE IInv'
  <2>1. [status |-> "error", by |-> "storage"] \in Results
    BY DEF Results
  <2> QED
    BY <1>1, <1>4, <2>1, StateIs, EndKeeps
<1>5. ASSUME Recover(FALSE) PROVE IInv'
  BY <1>1, <1>5, RecoverKeeps
<1> QED
  BY <1>3, <1>4, <1>5 DEF Reply

LEMMA CallsKeeps == ASSUME IInv, Calls PROVE IInv'
<1>1. PICK calls \in Responses :
         /\ batch' = [NoBatch EXCEPT !.calls = calls, !.business = Elements(calls) \cap Tools # {}]
         /\ safety' = CallRound(safety, Elements(calls) \cap Tools)
  BY DEF Calls
<1>2. /\ at = "model" /\ ~turn.finalOnly /\ at' = "calls" /\ budget' \in 0..3
      /\ UNCHANGED <<turn, discovery, outcomes, result, runs>>
  BY StateIs DEF Calls
<1>3. Goes(safety, safety')
  BY <1>1, StateIs, CallRoundGoes
<1>4. PICK b \in BOOLEAN : b = (Elements(calls) \cap Tools # {})
  OBVIOUS
<1>5. batch' = [NoBatch EXCEPT !.calls = calls, !.business = b]
  BY <1>1, <1>4
<1>6. calls \in Seq(Tools \cup Controls)
  BY LimitsAre
<1>7. batch' \in Batches
  BY <1>5, <1>6, NothingIs DEF Batches
<1> QED
  BY <1>2, <1>3, <1>7, StateIs, StepKeeps

LEMMA ModelKeeps == ASSUME IInv, Model PROVE IInv'
<1>1. CASE ProviderFails
  <2>1. at = "model" /\ budget' \in 0..3
    BY <1>1, StateIs DEF ProviderFails
  <2>2. RecoverAction \in BOOLEAN
    BY StateIs DEF RecoverAction, Turns
  <2> QED
    BY <1>1, <2>1, <2>2, ReportKeeps, DegradeKeeps, RecoverKeeps DEF ProviderFails
<1>2. CASE BadReply
  <2>1. at = "model" /\ budget' \in 0..3 /\ RecoverAction \in BOOLEAN
    BY <1>2, StateIs DEF BadReply, RecoverAction, Turns
  <2> QED
    BY <1>2, <2>1, RecoverKeeps DEF BadReply
<1>3. CASE CallsInFinalRound
  <2>1. budget' \in 0..3
    BY <1>3, StateIs DEF CallsInFinalRound
  <2> QED
    BY <1>3, <2>1, ReportKeeps, DegradeKeeps DEF CallsInFinalRound
<1> QED
  BY <1>1, <1>2, <1>3, EscalateKeeps, NudgeKeeps, RefusedKeeps, ReplyKeeps, CallsKeeps DEF Model

-----------------------------------------------------------------------------
(* The tool calls of an answer.                                            *)

LEMMA SkipCallKeeps == ASSUME IInv, SkipCall PROVE IInv'
<1>1. /\ at = "calls" /\ batch.calls # <<>> /\ batch' = Pop(batch)
      /\ UNCHANGED <<at, turn, discovery, budget, result, runs>>
  BY DEF SkipCall, InCalls
<1>2. batch' \in Batches
  BY <1>1, StateIs, CallIs
<1>3. CASE Call \in Tools
  <2>1. Skip(Call, "skipped")
    BY <1>3 DEF SkipCall
  <2>2. Past' /\ outcomes' \in Seq(Outcomes) /\ safety' = safety
    BY <1>1, <1>3, <2>1, SkipKeeps DEF IInv
  <2>3. TypeOK'
    BY <1>1, <1>2, <2>2 DEF IInv, TypeOK
  <2>4. Members' /\ InTime' /\ Settled'
    BY <1>1, <2>2, NothingIs DEF IInv, Members, InTime, Settled
  <2> QED
    BY <2>2, <2>3, <2>4 DEF IInv
<1>4. CASE Call \notin Tools
  <2>1. UNCHANGED <<safety, outcomes>>
    BY <1>4 DEF SkipCall
  <2> QED
    BY <1>1, <1>2, <2>1, StateIs, StepKeeps
<1> QED
  BY <1>3, <1>4

LEMMA ReuseCallKeeps == ASSUME IInv, ReuseCall PROVE IInv'
<1>1. /\ at = "calls" /\ batch.calls # <<>> /\ batch' = Pop(batch)
      /\ UNCHANGED <<at, turn, safety, discovery, outcomes, budget, result, runs>>
  BY DEF ReuseCall, InCalls
<1>2. batch' \in Batches
  BY <1>1, StateIs, CallIs
<1> QED
  BY <1>1, <1>2, StateIs, StepKeeps

LEMMA RunControlKeeps == ASSUME IInv, RunControl PROVE IInv'
<1>1. /\ at = "calls" /\ batch.calls # <<>>
      /\ UNCHANGED <<at, outcomes, budget, result, runs>>
  BY DEF RunControl, InCalls
<1>2. PICK new \in BOOLEAN, loaded \in BOOLEAN :
         /\ Control(new, loaded)
         /\ safety' = [safety EXCEPT !.progress = @ \/ new]
         /\ batch' = [Pop(batch) EXCEPT !.expanded = @ \/ loaded]
  BY DEF RunControl
<1>3. PICK pr \in BOOLEAN, ex \in BOOLEAN :
         pr = (safety.progress \/ new) /\ ex = (Pop(batch).expanded \/ loaded)
  OBVIOUS
<1>4. safety' = [safety EXCEPT !.progress = pr]
  BY <1>2, <1>3
<1>5. safety' \in Safeties
  BY <1>4, StateIs DEF Safeties
<1>6. Goes(safety, safety')
  BY <1>4, <1>5, StateIs DEF Goes, Safeties
<1>7. Pop(batch) \in Batches
  BY <1>1, StateIs, CallIs
<1>8. batch' = [Pop(batch) EXCEPT !.expanded = ex]
  BY <1>2, <1>3
<1>9. batch' \in Batches
  BY <1>7, <1>8 DEF Batches
<1>10. PICK named \in BOOLEAN : turn' = [turn EXCEPT !.called = @ \/ (named /\ Call = "look")]
  BY DEF RunControl
<1>11. PICK ca \in BOOLEAN : ca = (turn.called \/ (named /\ Call = "look"))
  OBVIOUS
<1>12. turn' = [turn EXCEPT !.called = ca]
  BY <1>10, <1>11
<1>13. turn' \in Turns /\ turn'.step = turn.step
  BY <1>12, StateIs DEF Turns
<1>14. discovery' \in Discoveries
  BY <1>2, StateIs, ControlIs
<1> QED
  BY <1>1, <1>6, <1>9, <1>13, <1>14, StateIs, StepKeeps

LEMMA RunCallKeeps == ASSUME IInv, RunCall PROVE IInv'
<1>1. /\ at = "calls" /\ batch.calls # <<>> /\ ~Stopped(Call) /\ Call \in Tools /\ Run(Call)
      /\ turn' = [turn EXCEPT !.called = TRUE] /\ batch' = Pop(batch)
      /\ UNCHANGED <<at, discovery, result>>
  BY DEF RunCall, InCalls
<1>2. ~safety.forced
  BY <1>1 DEF Stopped
<1>3. batch' \in Batches
  BY <1>1, StateIs, CallIs
<1>4. turn' \in Turns /\ turn'.step = turn.step
  BY <1>1, StateIs DEF Turns
<1>5. /\ Past' /\ outcomes' \in Seq(Outcomes) /\ Goes(safety, safety')
      /\ budget' \in 0..3 /\ runs' \subseteq Tools \X Nat
  BY <1>1, <1>2, RunKeeps DEF IInv
<1>6. TypeOK'
  BY <1>1, <1>3, <1>4, <1>5 DEF IInv, TypeOK, Goes
<1>7. InTime'
  BY <1>1, <1>4, <1>5, StateIs, RoundsStay DEF IInv, InTime
<1>8. Members' /\ Settled'
  BY <1>1, NothingIs DEF IInv, Members, Settled
<1> QED
  BY <1>5, <1>6, <1>7, <1>8 DEF IInv

LEMMA GreatestIs ==
    ASSUME NEW n \in Nat, NEW S, S \subseteq 0..n, S # {}
    PROVE  \E z \in S : \A x \in S : x <= z
<1> DEFINE T == { n - x : x \in S }
<1>1. T \subseteq Nat /\ T # {}
  <2>1. \A x \in S : x \in Nat /\ n - x \in Nat
    OBVIOUS
  <2> QED
    BY <2>1
<1>2. PICK m \in T : \A y \in T : ~ (<<y, m>> \in OpToRel(<, Nat))
  BY <1>1, NatLessThanWellFounded, WFMin, Zenon
<1>3. \A y \in T : m <= y
  <2> TAKE y \in T
  <2>1. <<y, m>> \in Nat \X Nat
    BY <1>1
  <2>2. ~ (y < m)
    BY <1>2, <2>1, Zenon DEF OpToRel
  <2> QED
    BY <1>1, <2>2
<1>4. PICK z \in S : m = n - z
  OBVIOUS
<1>5. \A x \in S : x <= z
  <2> TAKE x \in S
  <2>1. m <= n - x
    BY <1>3
  <2> QED
    BY <1>4, <2>1
<1> QED
  BY <1>5

\* The calls at the head of a list that are the same as its first are as many as
\* the set of their prefixes says.
LEMMA SameCalls ==
    ASSUME NEW calls \in Seq(Tools \cup Controls), calls # <<>>,
           NEW m, m = Cardinality({ n \in 1..Len(calls) : \A i \in 1..n : calls[i] = Head(calls) })
    PROVE  /\ m \in Nat /\ m <= Len(calls)
           /\ \A i \in 1..m : calls[i] = Head(calls)
<1> DEFINE S == { n \in 1..Len(calls) : \A i \in 1..n : calls[i] = Head(calls) }
<1>1. Len(calls) \in Nat /\ 1 \in 1..Len(calls) /\ calls[1] = Head(calls)
  OBVIOUS
<1>2. 1 \in S /\ S \subseteq 0..Len(calls)
  BY <1>1
<1>3. PICK k \in S : \A n \in S : n <= k
  BY <1>1, <1>2, GreatestIs
<1>4. k \in Nat /\ 1 <= k /\ k <= Len(calls) /\ \A i \in 1..k : calls[i] = Head(calls)
  BY <1>1, <1>3
<1>5. S = 1..k
  <2>1. ASSUME NEW n \in S PROVE n \in 1..k
    BY <1>3, <1>4, <2>1
  <2>2. ASSUME NEW n \in 1..k PROVE n \in S
    <3>1. n \in 1..Len(calls)
      BY <1>1, <1>4
    <3>2. \A i \in 1..n : i \in 1..k
      BY <1>4
    <3> QED
      BY <1>4, <3>1, <3>2
  <2> QED
    BY <2>1, <2>2
<1>6. Cardinality(1..k) = k
  BY <1>4, FS_Interval
<1> QED
  BY <1>4, <1>5, <1>6

LEMMA AskKeeps == ASSUME IInv, Ask PROVE IInv'
<1>1. /\ at = "calls" /\ batch.calls # <<>> /\ Call \in Tools /\ at' = "waiting"
      /\ turn' = [turn EXCEPT !.called = TRUE]
      /\ UNCHANGED <<safety, discovery, outcomes, budget, result, runs>>
  BY DEF Ask, InCalls
<1>2. PICK m : m = Cardinality({ n \in 1..Len(batch.calls) :
                                    \A i \in 1..n : batch.calls[i] = Head(batch.calls) })
  OBVIOUS
<1>3. batch' = [batch EXCEPT !.members = m]
  BY <1>2 DEF Ask, Call
<1>4. batch.calls \in Seq(Tools \cup Controls)
  BY StateIs DEF Batches
<1>5. m \in Nat /\ m <= Len(batch.calls) /\ \A i \in 1..m : batch.calls[i] = Head(batch.calls)
  BY <1>1, <1>2, <1>4, SameCalls
<1>6. batch' \in Batches /\ batch'.calls = batch.calls /\ batch'.members = m
  BY <1>3, <1>5, StateIs DEF Batches
<1>7. turn' \in Turns /\ turn'.step = turn.step
  BY <1>1, StateIs DEF Turns
<1>8. TypeOK'
  BY <1>1, <1>6, <1>7 DEF IInv, TypeOK
<1>9. Members'
  BY <1>1, <1>5, <1>6 DEF Members, Call
<1>10. InTime'
  BY <1>1, <1>7 DEF IInv, InTime
<1>11. Past' /\ Settled'
  BY <1>1, QuietKeeps, NothingIs DEF IInv, Settled
<1> QED
  BY <1>8, <1>9, <1>10, <1>11 DEF IInv

LEMMA AnswerKeeps == ASSUME IInv, Answer PROVE IInv'
<1>1. /\ at = "waiting" /\ at' = "granted" /\ budget' = Normal
      /\ turn' = FreshTurn(FALSE, turn.light, FALSE, TRUE)
      /\ batch' = [batch EXCEPT !.tail = TRUE, !.declined = FALSE]
      /\ UNCHANGED <<safety, discovery, outcomes, result, runs>>
  BY DEF Answer
<1>2. turn' \in Turns /\ turn'.step = 0
  <2>1. turn.light \in BOOLEAN
    BY StateIs DEF Turns
  <2> QED
    BY <1>1, <2>1, FreshIs
<1>3. batch' \in Batches /\ batch'.calls = batch.calls /\ batch'.members = batch.members
  BY <1>1, StateIs DEF Batches
<1> 0 < MaxSteps /\ budget' \in 0..3
  BY <1>1, LimitsAre DEF Normal
<1>4. TypeOK'
  BY <1>1, <1>2, <1>3 DEF IInv, TypeOK
<1>5. Members'
  BY <1>1, <1>3 DEF IInv, Members
<1>6. InTime'
  BY <1>1, <1>2 DEF IInv, InTime
<1>7. Past' /\ Settled'
  BY <1>1, QuietKeeps, NothingIs DEF IInv, Settled
<1> QED
  BY <1>4, <1>5, <1>6, <1>7 DEF IInv

\* A member of the batch is done with, one way or the other.
LEMMA MemberIs ==
    ASSUME IInv, at = "granted", batch.members > 0
    PROVE  /\ Call \in Tools /\ NextMember \in Batches
           /\ NextMember.members <= Len(NextMember.calls)
           /\ \A i \in 1..NextMember.members : NextMember.calls[i] \in Tools
<1>1. /\ batch.members \in Nat /\ batch.calls \in Seq(Tools \cup Controls)
      /\ batch.members <= Len(batch.calls)
      /\ \A i \in 1..batch.members : batch.calls[i] \in Tools
  BY StateIs DEF IInv, Members, Batches
<1>2. batch.calls # <<>> /\ 1 \in 1..batch.members
  BY <1>1
<1>3. /\ Head(batch.calls) = batch.calls[1] /\ Pop(batch) \in Batches
      /\ Pop(batch).calls = Tail(batch.calls) /\ Pop(batch).members = batch.members
      /\ Len(Tail(batch.calls)) = Len(batch.calls) - 1
      /\ \A i \in 1..Len(Tail(batch.calls)) : Tail(batch.calls)[i] = batch.calls[i + 1]
  BY <1>2, StateIs, CallIs
<1>4. PICK m \in Nat : m = batch.members - 1
  BY <1>1
<1>5. PICK b \in Batches : b = Pop(batch)
  BY <1>3
<1>6. NextMember = [b EXCEPT !.members = m]
  BY <1>3, <1>4, <1>5 DEF NextMember
<1>7. NextMember \in Batches /\ NextMember.members = m /\ NextMember.calls = b.calls
  BY <1>5, <1>6 DEF Batches
<1>8. m <= Len(NextMember.calls)
  BY <1>1, <1>3, <1>4, <1>5, <1>7
<1>9. ASSUME NEW i \in 1..m PROVE NextMember.calls[i] \in Tools
  <2>1. i \in 1..Len(Tail(batch.calls)) /\ i + 1 \in 1..batch.members
    BY <1>1, <1>3, <1>4
  <2> QED
    BY <1>1, <1>3, <1>5, <1>7, <2>1
<1> QED
  BY <1>1, <1>2, <1>3, <1>7, <1>8, <1>9 DEF Call

LEMMA RunMemberKeeps == ASSUME IInv, RunMember PROVE IInv'
<1>1. /\ at = "granted" /\ batch.members > 0 /\ ~Stopped(Call) /\ Run(Call)
      /\ batch' = NextMember /\ UNCHANGED <<at, turn, discovery, result>>
  BY DEF RunMember
<1>2. ~safety.forced
  BY <1>1 DEF Stopped
<1>3. /\ Past' /\ outcomes' \in Seq(Outcomes) /\ Goes(safety, safety')
      /\ budget' \in 0..3 /\ runs' \subseteq Tools \X Nat
  BY <1>1, <1>2, MemberIs, RunKeeps DEF IInv
<1>4. TypeOK' /\ Members'
  BY <1>1, <1>3, MemberIs DEF IInv, TypeOK, Goes, Members
<1>5. InTime'
  BY <1>1, <1>3, StateIs, RoundsStay DEF IInv, InTime
<1>6. Settled'
  BY <1>1, NothingIs DEF IInv, Settled
<1> QED
  BY <1>3, <1>4, <1>5, <1>6 DEF IInv

LEMMA PassMemberKeeps == ASSUME IInv, DeclineMember \/ StopMember PROVE IInv'
<1>1. /\ at = "granted" /\ batch.members > 0
      /\ UNCHANGED <<at, turn, discovery, budget, result, runs>>
  BY DEF DeclineMember, StopMember
<1>2. PICK kind \in {"skipped", "declined"} : Skip(Call, kind)
  BY DEF DeclineMember, StopMember
<1>3. Past' /\ outcomes' \in Seq(Outcomes) /\ safety' = safety
  BY <1>1, <1>2, MemberIs, SkipKeeps DEF IInv
<1>4. PICK b \in Batches : b = NextMember
  BY <1>1, MemberIs
<1>5. batch' = b \/ batch' = [b EXCEPT !.declined = TRUE]
  BY <1>4 DEF DeclineMember, StopMember
<1>6. batch' \in Batches /\ batch'.calls = b.calls /\ batch'.members = b.members
  BY <1>4, <1>5 DEF Batches
<1>7. TypeOK'
  BY <1>1, <1>3, <1>6 DEF IInv, TypeOK
<1>8. Members'
  BY <1>1, <1>4, <1>6, MemberIs DEF Members
<1>9. InTime' /\ Settled'
  BY <1>1, <1>3, NothingIs DEF IInv, InTime, Settled
<1> QED
  BY <1>3, <1>7, <1>8, <1>9 DEF IInv

LEMMA MembersDoneKeeps == ASSUME IInv, MembersDone PROVE IInv'
<1>1. /\ at = "granted" /\ at' = "calls" /\ safety' = [safety EXCEPT !.forced = @ \/ batch.declined]
      /\ UNCHANGED <<turn, discovery, outcomes, batch, budget, result, runs>>
  BY DEF MembersDone
<1>2. Goes(safety, safety')
  <2>1. batch.declined \in BOOLEAN
    BY StateIs DEF Batches
  <2> QED
    BY <1>1, <2>1, StateIs, Closing
<1>3. TypeOK' /\ Members'
  BY <1>1, <1>2 DEF IInv, TypeOK, Goes, Members
<1>4. InTime'
  BY <1>1, <1>2, StateIs, RoundsStay DEF IInv, InTime
<1>5. Past' /\ Settled'
  BY <1>1, <1>2, QuietKeeps, NothingIs DEF IInv, Settled, Goes
<1> QED
  BY <1>3, <1>4, <1>5 DEF IInv

LEMMA EndRoundKeeps == ASSUME IInv, EndRound PROVE IInv'
<1>1. /\ at = "calls" /\ at' = "top" /\ batch' = NoBatch
      /\ UNCHANGED <<turn, discovery, outcomes, budget, result, runs>>
  BY DEF EndRound
<1>2. PICK credited : credited = Credit(safety, batch.expanded, batch.business)
  OBVIOUS
<1>3. Goes(safety, credited) /\ credited \in Safeties
  BY <1>2, StateIs, CreditGoes DEF Goes
<1>4. Goes(credited, FinishRound(credited)) /\ Goes(safety, FinishRound(safety))
  BY <1>3, StateIs, FinishRoundGoes
<1>5. safety' \in {safety, FinishRound(safety), FinishRound(credited)}
  BY <1>2 DEF EndRound
<1>6. Goes(safety, safety')
  BY <1>3, <1>4, <1>5, StateIs, GoesOn
<1> QED
  BY <1>1, <1>6, StateIs, NothingIs, StepKeeps

LEMMA ToolCallsKeep == ASSUME IInv, ToolCalls PROVE IInv'
BY SkipCallKeeps, ReuseCallKeeps, RunControlKeeps, RunCallKeeps, AskKeeps, RunMemberKeeps,
   PassMemberKeeps, MembersDoneKeeps, EndRoundKeeps DEF ToolCalls

-----------------------------------------------------------------------------
(* The request's time, and another reply.                                  *)

LEMMA TimeoutKeeps == ASSUME IInv, Timeout PROVE IInv'
<1>1. /\ at' = "ended" /\ result' = [status |-> "error", by |-> "timeout"] /\ batch' = NoBatch
      /\ UNCHANGED <<turn, safety, discovery, outcomes, budget>>
  BY DEF Timeout
<1>2. [status |-> "error", by |-> "timeout"] \in Results
  BY DEF Results
<1>3. CASE UNCHANGED runs
  <2>1. TypeOK'
    BY <1>1, <1>2, <1>3, NothingIs DEF IInv, TypeOK
  <2>2. Past'
    BY <1>1, <1>3, QuietKeeps DEF IInv
  <2> QED
    BY <1>1, <2>1, <2>2 DEF IInv, Members, InTime, Settled
<1>4. CASE ~UNCHANGED runs
  <2>1. ~safety.forced /\ Call \in Tools /\ runs' = runs \cup {<<Call, Len(outcomes)>>}
    BY <1>4 DEF Timeout, Stopped
  <2>2. /\ runs' \subseteq Tools \X Nat
        /\ \A run \in runs' : run[2] <= Len(outcomes)
        /\ \A run \in runs' : \A i, j \in 1..run[2] :
              /\ outcomes[i].kind # "unsafe"
              /\ ( /\ outcomes[i].tool = run[1] /\ outcomes[i].kind \in Faults
                   /\ outcomes[j].tool = run[1] /\ outcomes[j].kind \in Faults ) => i = j
    BY <2>1, RunIsEarly DEF IInv, Past
  <2>3. TypeOK'
    BY <1>1, <1>2, <2>2, NothingIs DEF IInv, TypeOK
  <2>4. Past'
    BY <1>1, <2>2 DEF IInv, Past, Trouble, Earlier, Repaired, NothingRunsAfterTrouble
  <2> QED
    BY <1>1, <2>3, <2>4 DEF IInv, Members, InTime, Settled
<1> QED
  BY <1>3, <1>4

LEMMA RegenerateKeeps == ASSUME IInv, Regenerate PROVE IInv'
<1>1. /\ at' = "top" /\ turn' = FreshTurn(FALSE, turn.light, TRUE, turn.called)
      /\ safety' = Regenerated /\ budget' = Normal /\ result' = NoResult
      /\ UNCHANGED <<discovery, outcomes, batch, runs>>
  BY DEF Regenerate
<1>2. turn' \in Turns /\ turn'.step = 0
  <2>1. turn.light \in BOOLEAN /\ turn.called \in BOOLEAN
    BY StateIs DEF Turns
  <2> QED
    BY <1>1, <2>1, FreshIs
<1>3. safety' \in Safeties /\ safety'.forced
  BY <1>1, StateIs DEF Regenerated, Safeties
<1>4. /\ safety'.model = 0 /\ safety'.limit = 1 /\ safety'.discovery = 0
      /\ safety'.replyRepair \in Nat
  BY <1>1, StateIs DEF Regenerated, Safeties
<1> 0 < MaxSteps /\ budget' \in 0..3
  BY <1>1, LimitsAre DEF Normal
<1>5. TypeOK'
  BY <1>1, <1>2, <1>3, NothingIs DEF IInv, TypeOK
<1>6. InTime'
  <2>1. safety'.model < Rounds(safety')
    BY <1>4 DEF Rounds
  <2> QED
    BY <1>1, <1>2, <2>1 DEF InTime
<1>7. Past'
  BY <1>1, <1>3, QuietKeeps DEF IInv
<1>8. Members' /\ Settled'
  BY <1>1, NothingIs DEF Members, Settled
<1> QED
  BY <1>5, <1>6, <1>7, <1>8 DEF IInv

-----------------------------------------------------------------------------
(* The theorems.                                                           *)

LEMMA StutterKeeps == ASSUME IInv, UNCHANGED vars PROVE IInv'
BY DEF vars, IInv, TypeOK, Members, InTime, Past, Trouble, Earlier, Repaired, Settled, AllGood,
       NothingRunsAfterTrouble

LEMMA InitIs == ASSUME Init PROVE IInv
<1>1. PICK must \in BOOLEAN, light \in BOOLEAN, noTools \in BOOLEAN :
         turn = FreshTurn(must, light, noTools, FALSE)
  BY DEF Init
<1>2. turn \in Turns /\ turn.step = 0
  BY <1>1, FreshIs
<1>3. safety \in Safeties /\ safety.model = 0 /\ safety.limit = ModelLimit
      /\ safety.discovery = 0 /\ safety.replyRepair = 0
  BY LimitsAre DEF Init, FreshSafety, Safeties
<1>4. discovery \in Discoveries
  BY DEF Init, Discoveries
<1>5. /\ at = "top" /\ outcomes = <<>> /\ batch = NoBatch /\ budget = 0 /\ result = NoResult
      /\ runs = {}
  BY DEF Init, Normal
<1>6. TypeOK
  BY <1>2, <1>3, <1>4, <1>5, NothingIs DEF TypeOK
<1>7. InTime
  BY <1>2, <1>3, <1>5, LimitsAre DEF InTime, Rounds
<1>8. Members /\ Past /\ Settled
  BY <1>5, NothingIs DEF Members, Past, Trouble, Earlier, Repaired, NothingRunsAfterTrouble, Settled
<1> QED
  BY <1>6, <1>7, <1>8 DEF IInv

\* The inductive invariant holds in every state of a request: its rounds are in
\* time, its trouble has closed it and its outcomes are told as they were.
THEOREM LoopInvariance == Spec => []IInv
<1>1. Init => IInv
  BY InitIs
<1>2. IInv /\ [Next]_vars => IInv'
  <2> SUFFICES ASSUME IInv, [Next]_vars PROVE IInv'
    OBVIOUS
  <2>1. CASE UNCHANGED vars
    BY <2>1, StutterKeeps
  <2>2. CASE Next
    BY <2>2, BeginRoundKeeps, NoRoundKeeps, ModelKeeps, ToolCallsKeep, TimeoutKeeps, AnswerKeeps,
       RegenerateKeeps DEF Next, Round
  <2> QED
    BY <2>1, <2>2
<1> QED
  BY <1>1, <1>2, PTL DEF Spec

\* LoopSafety (core/loop_safety.py): after an outcome that must not be repeated
\* nothing is executed, and no tool is executed with two failures behind it,
\* later in the answer, after a pause or in a regenerated reply.
THEOREM TroubleStopsTheRequest == Spec => []NothingRunsAfterTrouble
<1>1. IInv => NothingRunsAfterTrouble
  BY DEF IInv, Past
<1> QED
  BY <1>1, LoopInvariance, PTL

\* _run_loop (core/agent.py) never runs out of rounds between two of them: the
\* last round it grants is a closing one.
THEOREM TheModelCloses == Spec => []ModelHasTheLastWord
<1>1. IInv => ModelHasTheLastWord
  BY DEF IInv, Settled, ModelHasTheLastWord
<1> QED
  BY <1>1, LoopInvariance, PTL

\* result_status (core/loop_safety.py) says "completed" only of a request all of
\* whose calls were executed with success or repaired.
THEOREM CompletedTellsTheTruth == Spec => []CompletedIsHonest
<1>1. IInv => CompletedIsHonest
  BY DEF IInv, Past, Settled, AllGood, Repaired, CompletedIsHonest
<1> QED
  BY <1>1, LoopInvariance, PTL
=============================================================================
