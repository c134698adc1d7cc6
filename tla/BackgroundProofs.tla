-------------------------- MODULE BackgroundProofs --------------------------
(***************************************************************************)
(* Proofs about what runs in the background.  The queue after a turn       *)
(* begins no phase twice, drops no merged trigger and keeps what a clear   *)
(* has cancelled, for any jobs, phases, priorities and any number of       *)
(* turns, clears and restarts.  The activities give way to a request, play *)
(* only when no work waits, and speak in a group only when it may be, for  *)
(* any registered activities, budgets and policies.                        *)
(***************************************************************************)
EXTENDS Maintenance, InternalActivity, SequenceTheorems, TLAPS

-----------------------------------------------------------------------------
(* The queue (module Maintenance): the inductive invariant.                *)

Statuses == {"absent", "queued", "running", "coalesced", "rejected", "cancelled", "uncertain",
             "completed", "partial_failed", "failed"}
Rows == [status : Statuses, recorded : Seq({"completed", "failed"}), attempts : Nat,
         triggers : SUBSET Jobs, priority : Nat, ripe : BOOLEAN, parent : Jobs \cup {"none"}]
Tables == [Jobs -> Rows]
PhaseNumbers == 1..Len(Phases)

TypeOK ==
    /\ table \in [Jobs -> Rows]
    /\ worker \in {"none", "asleep", "phase", "stopping"}
    /\ starts \in [Jobs -> [PhaseNumbers -> Nat]]
    /\ handled \in [Jobs -> SUBSET Jobs]
    /\ revoked \in SUBSET Jobs

\* A job is running exactly while the worker is in one of its phases, the first
\* that is not recorded.
OneRuns ==
    /\ \A j \in Jobs : table[j].status = "running" =>
          worker = "phase" /\ current.job = j /\ table[j].attempts # 0
    /\ worker = "phase" =>
          /\ current.job \in Jobs /\ table[current.job].status = "running"
          /\ current.phase = NextPhase(table[current.job].recorded)
          /\ current.phase \in PhaseNumbers

\* A phase after the recorded ones was begun at most once, and only by the one that
\* may be under way; what waits has a phase left, which was not begun.
BegunOf(j) ==
    \A p \in PhaseNumbers :
        /\ starts[j][p] <= 1
        /\ p > NextPhase(table[j].recorded) => starts[j][p] = 0
        /\ table[j].status = "queued" =>
              /\ NextPhase(table[j].recorded) \in PhaseNumbers
              /\ p = NextPhase(table[j].recorded) => starts[j][p] = 0
        /\ table[j].attempts = 0 => starts[j][p] = 0
Begun == \A j \in Jobs : BegunOf(j)

\* Who was merged into a job is one of its triggers, and no trigger is added to a job
\* that has begun.
ParentHas(j) == table[j].parent # "none" => j \in table[table[j].parent].triggers
GivenAll(j) == starts[j][1] > 0 => handled[j] = table[j].triggers
Merged == \A j \in Jobs : ParentHas(j) /\ GivenAll(j)

\* What a clear cancelled stays so.
Cancelled == \A j \in revoked : table[j].status = "cancelled"

IInv == TypeOK /\ OneRuns /\ Begun /\ Merged /\ Cancelled

-----------------------------------------------------------------------------
(* What keeps the parts of the invariant.                                  *)

LEMMA BegunStays ==
    ASSUME NEW k \in Jobs, BegunOf(k), table'[k].status = table[k].status,
           table'[k].recorded = table[k].recorded, table'[k].attempts = table[k].attempts,
           starts'[k] = starts[k]
    PROVE  BegunOf(k)'
BY DEF BegunOf

LEMMA GivenStays ==
    ASSUME NEW k \in Jobs, GivenAll(k), table'[k].triggers = table[k].triggers,
           starts'[k][1] = starts[k][1], handled'[k] = handled[k]
    PROVE  GivenAll(k)'
BY DEF GivenAll

\* Triggers are only ever added, and parents named only by those who are merged.
LEMMA ParentStays ==
    ASSUME TypeOK, NEW k \in Jobs, ParentHas(k), table'[k].parent = table[k].parent,
           \A p \in Jobs : table[p].triggers \subseteq table'[p].triggers \/ table[p].triggers = {}
    PROVE  ParentHas(k)'
BY DEF TypeOK, ParentHas, Rows

-----------------------------------------------------------------------------
(* Each action keeps the invariant.                                        *)

LEMMA InitInv == PhasesAssumption /\ Init => IInv
<1> SUFFICES ASSUME PhasesAssumption, Init PROVE IInv
  OBVIOUS
<1>0. Len(Phases) \in Nat /\ Absent \in Rows
  BY DEF PhasesAssumption, Absent, Rows, Statuses
<1>1. TypeOK
  BY <1>0 DEF Init, TypeOK, PhaseNumbers
<1>2. OneRuns /\ Merged /\ Cancelled /\ Begun
  BY <1>0 DEF Init, OneRuns, Merged, Cancelled, Begun, BegunOf, ParentHas, GivenAll, Absent, NextPhase,
                  PhaseNumbers
<1> QED
  BY <1>1, <1>2 DEF IInv

LEMMA EnqueueKeeps ==
    ASSUME PhasesAssumption, PriorityAssumption, NamesAssumption, IInv, NEW j \in Jobs, Enqueue(j)
    PROVE  IInv'
<1> USE DEF IInv
<1>a. /\ Len(Phases) \in Nat \ {0} /\ 1 \in PhaseNumbers /\ Priority[j] \in Nat /\ Absent \in Rows
  BY DEF PhasesAssumption, PriorityAssumption, Absent, Rows, Statuses, PhaseNumbers
<1>b. /\ worker' \in {"none", "asleep", "phase", "stopping"} /\ (worker' = "phase" <=> worker = "phase")
      /\ table \in [Jobs -> Rows] /\ table[j] = Absent
      /\ UNCHANGED <<current, busy, starts, handled, revoked>>
      /\ handled \in [Jobs -> SUBSET Jobs] /\ starts \in [Jobs -> [PhaseNumbers -> Nat]]
  BY DEF Enqueue, TypeOK, WorkerStarted
<1>n. /\ NextPhase(<<>>) = 1 /\ Absent.recorded = <<>> /\ Absent.attempts = 0
      /\ Absent.status = "absent" /\ Absent.triggers = {} /\ Absent.parent = "none"
  BY DEF NextPhase, Absent
<1>1. CASE BatchOf[j] # NoBatch /\ Parents(j) # {}
  <2>1. PICK p \in Parents(j) :
              table' = [table EXCEPT
                 ![p].triggers = @ \cup {j},
                 ![p].priority = IF Priority[j] > @ THEN Priority[j] ELSE @,
                 ![j] = [Absent EXCEPT !.status = "coalesced", !.parent = p]]
    BY <1>1 DEF Enqueue
  <2>2. /\ p \in Jobs /\ table[p].status = "queued" /\ table[p].attempts = 0 /\ p # j
        /\ p # "none"
    BY <1>a, <1>b, <1>n DEF Parents, NamesAssumption
  <2>t. table' \in [Jobs -> Rows]
    <3> DEFINE r == [table[p] EXCEPT !.triggers = @ \cup {j},
                                     !.priority = IF Priority[j] > @ THEN Priority[j] ELSE @]
               c == [Absent EXCEPT !.status = "coalesced", !.parent = p]
    <3>1. r \in Rows
      BY <1>a, <1>b, <2>2 DEF Rows
    <3>2. c \in Rows
      BY <1>a, <2>2 DEF Rows, Statuses
    <3>3. table' = [table EXCEPT ![p] = r, ![j] = c]
      BY <1>b, <2>1, <2>2
    <3> HIDE DEF r, c
    <3> QED
      BY <1>b, <3>1, <3>2, <3>3
  <2>3. /\ \A k \in Jobs : k # j =>
              /\ table'[k].status = table[k].status /\ table'[k].recorded = table[k].recorded
              /\ table'[k].attempts = table[k].attempts /\ table'[k].parent = table[k].parent
              /\ table'[k].triggers = IF k = p THEN table[k].triggers \cup {j} ELSE table[k].triggers
        /\ table'[j].status = "coalesced" /\ table'[j].recorded = <<>>
        /\ table'[j].attempts = 0 /\ table'[j].parent = p /\ table'[j].triggers = {}
    <3>1. /\ \A k \in Jobs : k # j /\ k # p => table'[k] = table[k]
          /\ table'[p] = [table[p] EXCEPT !.triggers = @ \cup {j},
                                 !.priority = IF Priority[j] > @ THEN Priority[j] ELSE @]
          /\ table'[j] = [Absent EXCEPT !.status = "coalesced", !.parent = p]
      BY <1>b, <2>1, <2>2
    <3>2. table[p] \in Rows
      BY <1>b, <2>2
    <3>3. /\ table'[p].status = table[p].status /\ table'[p].recorded = table[p].recorded
          /\ table'[p].attempts = table[p].attempts /\ table'[p].parent = table[p].parent
          /\ table'[p].triggers = table[p].triggers \cup {j}
      BY <3>1, <3>2 DEF Rows
    <3>4. /\ table'[j].status = "coalesced" /\ table'[j].recorded = <<>>
          /\ table'[j].attempts = 0 /\ table'[j].parent = p /\ table'[j].triggers = {}
      BY <3>1 DEF Absent
    <3> QED
      BY <3>1, <3>3, <3>4
  <2> HIDE DEF IInv
  <2>4. TypeOK'
    BY <1>a, <1>b, <2>t DEF TypeOK, IInv
  <2>5. OneRuns'
    <3>0. OneRuns /\ current' = current /\ current'.job = current.job /\ current'.phase = current.phase
      BY <1>b DEF IInv
    <3>1. ASSUME NEW k \in Jobs, table'[k].status = "running"
          PROVE  worker' = "phase" /\ current'.job = k /\ table'[k].attempts # 0
      <4>1. k # j /\ table[k].status = "running" /\ table'[k].attempts = table[k].attempts
        BY <3>1, <2>3
      <4> QED
        BY <4>1, <3>0, <1>b DEF OneRuns
    <3>2. ASSUME worker' = "phase"
          PROVE  /\ current'.job \in Jobs /\ table'[current'.job].status = "running"
                 /\ current'.phase = NextPhase(table'[current'.job].recorded)
                 /\ current'.phase \in PhaseNumbers
      <4>1. /\ current.job \in Jobs /\ table[current.job].status = "running"
            /\ current.phase = NextPhase(table[current.job].recorded)
            /\ current.phase \in PhaseNumbers
        BY <3>0, <3>2, <1>b DEF OneRuns
      <4>2. current.job # j
        BY <4>1, <1>b, <1>n
      <4> QED
        BY <4>1, <4>2, <3>0, <2>3
    <3> QED
      BY <3>1, <3>2 DEF OneRuns
  <2>6. Begun'
    <3>1. \A q \in PhaseNumbers : starts[j][q] = 0
      BY <1>b, <1>n DEF Begun, BegunOf, IInv
    <3>2. BegunOf(j)'
      BY <1>b, <2>3, <3>1 DEF BegunOf
    <3>3. ASSUME NEW k \in Jobs, k # j PROVE BegunOf(k)'
      BY <1>b, <2>3, <3>3, BegunStays DEF Begun, IInv
    <3> QED
      BY <3>2, <3>3 DEF Begun
  <2>7. Merged'
    <3>1. starts[p][1] = 0 /\ starts[j][1] = 0
      BY <1>a, <1>b, <1>n, <2>2 DEF Begun, BegunOf, IInv
    <3>2. GivenAll(p)' /\ GivenAll(j)'
      BY <1>b, <3>1 DEF GivenAll
    <3>3. ASSUME NEW k \in Jobs, k # p, k # j PROVE GivenAll(k)'
      BY <1>b, <2>3, <3>3, GivenStays DEF Merged, IInv
    <3>4. ParentHas(j)'
      BY <2>2, <2>3 DEF ParentHas
    <3>5. ASSUME NEW k \in Jobs, k # j PROVE ParentHas(k)'
      <4>1. \A q \in Jobs : table[q].triggers \subseteq table'[q].triggers \/ table[q].triggers = {}
        BY <1>b, <1>n, <2>3
      <4> QED
        BY <2>3, <3>5, <4>1, ParentStays DEF Merged, IInv
    <3> QED
      BY <3>2, <3>3, <3>4, <3>5 DEF Merged
  <2>8. Cancelled'
    <3>1. revoked' = revoked /\ \A k \in revoked : k \in Jobs /\ table[k].status = "cancelled"
      BY <1>a, <1>b DEF Cancelled, TypeOK, IInv
    <3>2. ASSUME NEW k \in revoked PROVE table'[k].status = "cancelled"
      <4>1. k \in Jobs /\ table[k].status = "cancelled"
        BY <3>1
      <4>2. k # j
        BY <1>b, <1>n, <4>1
      <4> QED
        BY <2>3, <4>1, <4>2
    <3> QED
      BY <3>1, <3>2 DEF Cancelled
  <2> QED
    BY <2>4, <2>5, <2>6, <2>7, <2>8 DEF IInv
<1>2. CASE ~(BatchOf[j] # NoBatch /\ Parents(j) # {})
  <2>1. table' = [table EXCEPT ![j] =
              [Absent EXCEPT !.status = IF Full THEN "rejected" ELSE "queued",
                             !.triggers = {j}, !.priority = Priority[j],
                             !.ripe = BatchOf[j] = NoBatch]]
    BY <1>2 DEF Enqueue
  <2>t. table' \in [Jobs -> Rows]
    <3> DEFINE r == [Absent EXCEPT !.status = IF Full THEN "rejected" ELSE "queued",
                                   !.triggers = {j}, !.priority = Priority[j],
                                   !.ripe = BatchOf[j] = NoBatch]
    <3>1. r \in Rows
      BY <1>a DEF Rows, Statuses
    <3> HIDE DEF r
    <3> QED
      BY <1>b, <2>1, <3>1 DEF r
  <2>2. /\ \A k \in Jobs : k # j => table'[k] = table[k]
        /\ table'[j].status \in {"rejected", "queued"} /\ table'[j].recorded = <<>>
        /\ table'[j].attempts = 0 /\ table'[j].parent = "none" /\ table'[j].triggers = {j}
    BY <1>b, <2>1 DEF Absent
  <2> HIDE DEF IInv
  <2>3. TypeOK'
    BY <1>a, <1>b, <2>t DEF TypeOK, IInv
  <2>4. OneRuns'
    BY <1>b, <1>n, <2>2 DEF OneRuns, IInv
  <2>5. Begun'
    <3>1. \A p \in PhaseNumbers : starts[j][p] = 0
      BY <1>b, <1>n DEF Begun, BegunOf, IInv
    <3>2. BegunOf(j)'
      BY <1>a, <1>b, <1>n, <2>2, <3>1 DEF BegunOf
    <3>3. ASSUME NEW k \in Jobs, k # j PROVE BegunOf(k)'
      BY <1>b, <2>2, <3>3, BegunStays DEF Begun, IInv
    <3> QED
      BY <3>2, <3>3 DEF Begun
  <2>6. Merged'
    <3>1. GivenAll(j)'
      BY <1>a, <1>b, <1>n DEF Begun, BegunOf, IInv, GivenAll
    <3>2. ParentHas(j)'
      BY <2>2 DEF ParentHas
    <3>3. ASSUME NEW k \in Jobs, k # j PROVE GivenAll(k)' /\ ParentHas(k)'
      <4>1. \A q \in Jobs : table[q].triggers \subseteq table'[q].triggers \/ table[q].triggers = {}
        BY <1>b, <1>n, <2>2
      <4>2. GivenAll(k)'
        BY <1>b, <2>2, <3>3, GivenStays DEF Merged, IInv
      <4> QED
        BY <2>2, <3>3, <4>1, <4>2, ParentStays DEF Merged, IInv
    <3> QED
      BY <3>1, <3>2, <3>3 DEF Merged
  <2>7. Cancelled'
    BY <1>a, <1>b, <1>n, <2>2 DEF Cancelled, TypeOK, IInv
  <2> QED
    BY <2>3, <2>4, <2>5, <2>6, <2>7 DEF IInv
<1> QED
  BY <1>1, <1>2

\* Steps that change no more of a row than whether its delay has passed.
LEMMA RipenKeeps == ASSUME IInv, NEW j \in Jobs, Ripen(j) PROVE IInv'
<1>1. /\ table \in [Jobs -> Rows] /\ table' = [table EXCEPT ![j].ripe = TRUE]
      /\ UNCHANGED <<worker, current, starts, handled, revoked>>
  BY DEF IInv, TypeOK, Ripen
<1>2. [table[j] EXCEPT !.ripe = TRUE] \in Rows
  <2>1. table[j] \in Rows
    BY <1>1
  <2> QED
    BY <2>1 DEF Rows
<1>3. table' \in [Jobs -> Rows]
  BY <1>1, <1>2
<1>4. ASSUME NEW k \in Jobs
      PROVE  /\ table'[k].status = table[k].status /\ table'[k].recorded = table[k].recorded
             /\ table'[k].attempts = table[k].attempts /\ table'[k].parent = table[k].parent
             /\ table'[k].triggers = table[k].triggers
  <2>1. CASE k = j
    <3>1. table'[j] = [table[j] EXCEPT !.ripe = TRUE] /\ table[j] \in Rows
      BY <1>1
    <3> QED
      BY <2>1, <3>1 DEF Rows
  <2>2. CASE k # j
    BY <1>1, <2>2
  <2> QED
    BY <2>1, <2>2
<1>5. TypeOK'
  BY <1>1, <1>3 DEF IInv, TypeOK
<1>6. OneRuns'
  BY <1>1, <1>4 DEF IInv, OneRuns
<1>7. Begun'
  BY <1>1, <1>4, BegunStays DEF IInv, Begun
<1>8. Merged'
  BY <1>1, <1>4, GivenStays, ParentStays DEF IInv, Merged
<1>9. Cancelled'
  BY <1>1, <1>4 DEF IInv, TypeOK, Cancelled
<1> QED
  BY <1>5, <1>6, <1>7, <1>8, <1>9 DEF IInv

LEMMA PickKeeps == ASSUME PhasesAssumption, IInv, Pick PROVE IInv'
<1>1. PICK j \in Best({ k \in Queued : table[k].ripe }) :
          /\ table' = [table EXCEPT ![j].status = "running", ![j].attempts = @ + 1]
          /\ PhaseBegins(j, NextPhase(table[j].recorded), table[j].triggers)
  BY DEF Pick
<1> DEFINE p == NextPhase(table[j].recorded)
           r == [table[j] EXCEPT !.status = "running", !.attempts = @ + 1]
<1>2. /\ j \in Jobs /\ table[j].status = "queued" /\ UNCHANGED revoked /\ worker = "asleep"
      /\ table \in [Jobs -> Rows] /\ table[j] \in Rows
      /\ starts \in [Jobs -> [PhaseNumbers -> Nat]] /\ handled \in [Jobs -> SUBSET Jobs]
  BY <1>1 DEF Best, Queued, Pick, IInv, TypeOK
<1>3. Len(Phases) \in Nat \ {0} /\ 1 \in PhaseNumbers /\ PhaseNumbers \subseteq Nat
  BY DEF PhasesAssumption, PhaseNumbers
<1>4. p \in PhaseNumbers /\ starts[j][p] = 0
  BY <1>2, <1>3 DEF IInv, Begun, BegunOf
<1>5. /\ r \in Rows /\ r.status = "running" /\ r.attempts # 0 /\ r.recorded = table[j].recorded
      /\ r.parent = table[j].parent /\ r.triggers = table[j].triggers /\ r.triggers \in SUBSET Jobs
  <2>1. table[j].attempts + 1 \in Nat \ {0} /\ "running" \in Statuses
    BY <1>2 DEF Rows, Statuses
  <2>2. r = [table[j] EXCEPT !.status = "running", !.attempts = table[j].attempts + 1] /\ r \in Rows
    BY <1>2, <2>1 DEF Rows
  <2> QED
    BY <1>2, <2>1, <2>2 DEF Rows
<1>6. table' = [table EXCEPT ![j] = r]
  BY <1>1, <1>2
<1> HIDE DEF r
<1>7. /\ table' \in [Jobs -> Rows] /\ table'[j] = r /\ \A k \in Jobs : k # j => table'[k] = table[k]
  BY <1>2, <1>5, <1>6
<1>8. /\ worker' = "phase" /\ current'.job = j /\ current'.phase = p
      /\ starts' = [starts EXCEPT ![j][p] = @ + 1]
      /\ handled' = IF p = 1 THEN [handled EXCEPT ![j] = table[j].triggers] ELSE handled
  BY <1>1 DEF PhaseBegins
<1> HIDE DEF p
<1>9. /\ starts' \in [Jobs -> [PhaseNumbers -> Nat]] /\ starts'[j][p] = 1
      /\ \A k \in Jobs : k # j => starts'[k] = starts[k]
      /\ \A q \in PhaseNumbers : q # p => starts'[j][q] = starts[j][q]
  BY <1>2, <1>4, <1>8
<1>t. TypeOK'
  BY <1>2, <1>5, <1>7, <1>8, <1>9 DEF IInv, TypeOK
<1>o. OneRuns'
  <2>1. ASSUME NEW k \in Jobs, k # j PROVE table'[k].status # "running"
    BY <1>2, <1>7, <2>1 DEF IInv, OneRuns
  <2> QED
    BY <1>2, <1>4, <1>5, <1>7, <1>8, <2>1 DEF OneRuns, p
<1>b. Begun'
  <2>1. BegunOf(j)'
    <3> SUFFICES ASSUME NEW q \in PhaseNumbers
                 PROVE  /\ starts'[j][q] <= 1
                        /\ q > p => starts'[j][q] = 0
      BY <1>5, <1>7 DEF BegunOf, p
    <3>1. CASE q = p
      BY <3>1, <1>9, <1>3
    <3>2. CASE q # p
      BY <3>2, <1>2, <1>9 DEF IInv, Begun, BegunOf, p
    <3> QED
      BY <3>1, <3>2
  <2>2. ASSUME NEW k \in Jobs, k # j PROVE BegunOf(k)'
    BY <2>2, <1>7, <1>9, BegunStays DEF IInv, Begun
  <2> QED
    BY <2>1, <2>2 DEF Begun
<1>m. Merged'
  <2>1. GivenAll(j)'
    <3>1. CASE p = 1
      BY <3>1, <1>2, <1>5, <1>7, <1>8 DEF GivenAll
    <3>2. CASE p # 1
      BY <3>2, <1>2, <1>3, <1>5, <1>7, <1>8, <1>9 DEF IInv, Merged, GivenAll
    <3> QED
      BY <3>1, <3>2
  <2>2. ASSUME NEW k \in Jobs, k # j PROVE GivenAll(k)'
    <3>1. handled'[k] = handled[k]
      BY <2>2, <1>2, <1>8
    <3> QED
      BY <2>2, <3>1, <1>7, <1>9, GivenStays DEF IInv, Merged
  <2>3. \A k \in Jobs : table'[k].triggers = table[k].triggers /\ table'[k].parent = table[k].parent
    BY <1>5, <1>7
  <2> QED
    BY <2>1, <2>2, <2>3, ParentStays DEF IInv, Merged
<1>c. Cancelled'
  BY <1>2, <1>7 DEF IInv, TypeOK, Cancelled
<1> QED
  BY <1>t, <1>o, <1>b, <1>m, <1>c DEF IInv

\* The phase that was under way is recorded: the row, with a new status or not.
RecordedRow(r, outcome, s) == [r EXCEPT !.recorded = Append(@, outcome), !.status = s]
LEMMA Recorded ==
    ASSUME PhasesAssumption, IInv, worker = "phase", NEW outcome \in {"completed", "failed"},
           NEW j \in Jobs, j = current.job, NEW s \in Statuses,
           table' = [table EXCEPT ![j] = RecordedRow(table[j], outcome, s)]
    PROVE  /\ table' \in Tables
           /\ table'[j].status = s /\ table'[j].attempts # 0
           /\ NextPhase(table[j].recorded) \in PhaseNumbers
           /\ NextPhase(table'[j].recorded) = NextPhase(table[j].recorded) + 1
           /\ \A k \in Jobs : k # j => table'[k] = table[k] /\ table[k].status # "running"
           /\ \A k \in Jobs : table'[k].triggers = table[k].triggers /\ table'[k].parent = table[k].parent
<1> DEFINE n == Append(table[j].recorded, outcome)
           r == RecordedRow(table[j], outcome, s)
<1>1. /\ table \in [Jobs -> Rows] /\ table[j] \in Rows /\ table[j].attempts # 0
      /\ NextPhase(table[j].recorded) \in PhaseNumbers
      /\ \A k \in Jobs : k # j => table[k].status # "running"
  BY DEF IInv, TypeOK, OneRuns
<1>2. table[j].recorded \in Seq({"completed", "failed"})
  BY <1>1 DEF Rows
<1>3. /\ n \in Seq({"completed", "failed"}) /\ Len(n) = Len(table[j].recorded) + 1
      /\ Len(table[j].recorded) \in Nat
  BY <1>2
<1>d. r = [table[j] EXCEPT !.recorded = n, !.status = s]
  BY <1>1 DEF RecordedRow, Rows
<1> HIDE DEF n, r
<1>4. /\ r \in Rows /\ r.recorded = n /\ r.status = s /\ r.attempts = table[j].attempts
      /\ r.parent = table[j].parent /\ r.triggers = table[j].triggers
  BY <1>1, <1>3, <1>d DEF Rows
<1>5. table' = [table EXCEPT ![j] = r]
  BY DEF r
<1>6. /\ table' \in [Jobs -> Rows] /\ table'[j] = r /\ \A k \in Jobs : k # j => table'[k] = table[k]
  BY <1>1, <1>4, <1>5
<1>7. NextPhase(table'[j].recorded) = NextPhase(table[j].recorded) + 1
  BY <1>3, <1>4, <1>6 DEF NextPhase
<1> QED
  BY <1>1, <1>4, <1>6, <1>7 DEF Tables

LEMMA PhaseEndsKeeps ==
    ASSUME PhasesAssumption, IInv, NEW outcome \in {"completed", "failed"}, PhaseEnds(outcome)
    PROVE  IInv'
<1>0. PICK j \in Jobs : j = current.job
  BY DEF PhaseEnds, IInv, OneRuns
<1> DEFINE recorded == Append(table[j].recorded, outcome)
           p == NextPhase(table[j].recorded)
<1>1. /\ worker = "phase" /\ table[j].status = "running" /\ UNCHANGED revoked
      /\ table \in [Jobs -> Rows] /\ table[j] \in Rows
      /\ starts \in [Jobs -> [PhaseNumbers -> Nat]] /\ handled \in [Jobs -> SUBSET Jobs]
  BY <1>0 DEF PhaseEnds, IInv, OneRuns, TypeOK
<1>2. Len(recorded) = p /\ p \in Nat
  BY <1>1 DEF Rows, NextPhase
<1>3. Len(Phases) \in Nat \ {0} /\ 1 \in PhaseNumbers /\ PhaseNumbers \subseteq Nat
  BY DEF PhasesAssumption, PhaseNumbers
<1>4. p \in PhaseNumbers
  BY <1>0 DEF IInv, OneRuns, PhaseEnds
<1>5. ASSUME NEW s \in Statuses \ {"running"}, s = "queued" => p < Len(Phases),
             table' = [table EXCEPT ![j] = RecordedRow(table[j], outcome, s)],
             worker' = "asleep", UNCHANGED <<starts, handled>>
      PROVE  IInv'
  <2>1. /\ table' \in Tables /\ table'[j].status = s /\ table'[j].attempts # 0
        /\ NextPhase(table'[j].recorded) = p + 1
        /\ \A k \in Jobs : k # j => table'[k] = table[k] /\ table[k].status # "running"
        /\ \A k \in Jobs : table'[k].triggers = table[k].triggers /\ table'[k].parent = table[k].parent
    <3>1. s \in Statuses
      OBVIOUS
    <3> QED
      <4>1. worker = "phase" /\ j = current.job /\ table' = [table EXCEPT ![j] = RecordedRow(table[j], outcome, s)]
        BY <1>0, <1>1, <1>5
      <4>2. table' \in Tables
        BY <4>1, <3>1, Recorded
      <4>3. table'[j].status = s
        <5>1. table'[j] = RecordedRow(table[j], outcome, s) /\ table[j] \in Rows
          BY <1>1, <4>1
        <5> QED
          BY <5>1 DEF RecordedRow, Rows
      <4>4. table'[j].attempts # 0
        BY <4>1, <3>1, Recorded
      <4>5. NextPhase(table'[j].recorded) = p + 1
        BY <4>1, <3>1, Recorded
      <4>6. \A k \in Jobs : k # j => table'[k] = table[k] /\ table[k].status # "running"
        BY <4>1, <3>1, Recorded
      <4>7. \A k \in Jobs : table'[k].triggers = table[k].triggers /\ table'[k].parent = table[k].parent
        BY <4>1, <3>1, Recorded
      <4> QED
        BY <4>2, <4>3, <4>4, <4>5, <4>6, <4>7
  <2>2. TypeOK'
    BY <1>1, <1>5, <2>1 DEF IInv, TypeOK, Tables
  <2>3. OneRuns'
    BY <1>1, <1>5, <2>1 DEF OneRuns
  <2>4. BegunOf(j)'
    <3>1. s = "queued" => p + 1 \in PhaseNumbers
      BY <1>2, <1>3, <1>5 DEF PhaseNumbers
    <3>2. \A q \in PhaseNumbers : starts'[j][q] <= 1 /\ (q > p => starts'[j][q] = 0)
      BY <1>1, <1>5 DEF IInv, Begun, BegunOf
    <3>3. \A q \in PhaseNumbers : q > p + 1 \/ q = p + 1 => q > p
      BY <1>2, <1>3
    <3>4. table'[j].status = "queued" => p + 1 \in PhaseNumbers
      BY <2>1, <3>1
    <3>5. \A q \in PhaseNumbers : /\ starts'[j][q] <= 1
                                  /\ q > p + 1 => starts'[j][q] = 0
                                  /\ q = p + 1 => starts'[j][q] = 0
      BY <3>2, <3>3
    <3> QED
      BY <2>1, <3>4, <3>5 DEF BegunOf
  <2>5. Begun'
    <3>1. ASSUME NEW k \in Jobs, k # j PROVE BegunOf(k)'
      BY <1>5, <2>1, <3>1, BegunStays DEF IInv, Begun
    <3> QED
      BY <2>4, <3>1 DEF Begun
  <2>6. Merged'
    BY <1>1, <1>5, <2>1, GivenStays, ParentStays DEF IInv, Merged
  <2>7. Cancelled'
    BY <1>1, <2>1 DEF IInv, TypeOK, Cancelled
  <2> QED
    BY <2>2, <2>3, <2>5, <2>6, <2>7 DEF IInv
<1>6. ASSUME p < Len(Phases),
             table' = [table EXCEPT ![j] = RecordedRow(table[j], outcome, "running")],
             PhaseBegins(j, p + 1, current.triggers)
      PROVE  IInv'
  <2>1. /\ table' \in Tables /\ table'[j].status = "running" /\ table'[j].attempts # 0
        /\ NextPhase(table'[j].recorded) = p + 1
        /\ \A k \in Jobs : k # j => table'[k] = table[k] /\ table[k].status # "running"
        /\ \A k \in Jobs : table'[k].triggers = table[k].triggers /\ table'[k].parent = table[k].parent
    <3>1. /\ worker = "phase" /\ j = current.job /\ "running" \in Statuses
          /\ table' = [table EXCEPT ![j] = RecordedRow(table[j], outcome, "running")]
      BY <1>0, <1>1, <1>6 DEF Statuses
    <3>2. table' \in Tables
      BY <3>1, Recorded
    <3>3. table'[j].status = "running"
      <4>1. table'[j] = RecordedRow(table[j], outcome, "running") /\ table[j] \in Rows
        BY <1>1, <3>1
      <4> QED
        BY <4>1 DEF RecordedRow, Rows
    <3>4. table'[j].attempts # 0
      BY <3>1, Recorded
    <3>5. \A k \in Jobs : k # j => table'[k] = table[k] /\ table[k].status # "running"
      BY <3>1, Recorded
    <3>6. NextPhase(table'[j].recorded) = p + 1
      BY <3>1, Recorded
    <3>7. \A k \in Jobs : table'[k].triggers = table[k].triggers /\ table'[k].parent = table[k].parent
      BY <3>1, Recorded
    <3> QED
      BY <3>2, <3>3, <3>4, <3>5, <3>6, <3>7
  <2>2. p + 1 \in PhaseNumbers /\ p + 1 # 1
    BY <1>2, <1>3, <1>4, <1>6 DEF PhaseNumbers
  <2>3. /\ worker' = "phase" /\ current'.job = j /\ current'.phase = p + 1 /\ handled' = handled
        /\ starts' = [starts EXCEPT ![j][p + 1] = @ + 1]
    BY <1>6, <2>2 DEF PhaseBegins
  <2>4. starts[j][p + 1] = 0
    BY <1>1, <1>2, <2>2 DEF IInv, Begun, BegunOf
  <2>5. /\ starts' \in [Jobs -> [PhaseNumbers -> Nat]] /\ starts'[j][p + 1] = 1
        /\ \A k \in Jobs : k # j => starts'[k] = starts[k]
        /\ \A q \in PhaseNumbers : q # p + 1 => starts'[j][q] = starts[j][q]
    BY <1>1, <2>2, <2>3, <2>4
  <2>6. TypeOK'
    BY <1>1, <2>1, <2>3, <2>5 DEF IInv, TypeOK, Tables
  <2>7. OneRuns'
    BY <1>1, <2>1, <2>2, <2>3 DEF OneRuns
  <2>8. BegunOf(j)'
    <3> SUFFICES ASSUME NEW q \in PhaseNumbers
                 PROVE  /\ starts'[j][q] <= 1
                        /\ q > p + 1 => starts'[j][q] = 0
      BY <2>1 DEF BegunOf
    <3>1. CASE q = p + 1
      BY <3>1, <1>2, <2>5
    <3>2. CASE q # p + 1
      <4>1. starts[j][q] <= 1 /\ (q > p => starts[j][q] = 0)
        BY <1>1 DEF IInv, Begun, BegunOf
      <4>2. q > p + 1 => q > p
        BY <1>2, <1>3
      <4> QED
        BY <3>2, <4>1, <4>2, <2>5
    <3> QED
      BY <3>1, <3>2
  <2>9. Begun'
    <3>1. ASSUME NEW k \in Jobs, k # j PROVE BegunOf(k)'
      BY <2>1, <2>5, <3>1, BegunStays DEF IInv, Begun
    <3> QED
      BY <2>8, <3>1 DEF Begun
  <2>10. \A k \in Jobs : starts'[k][1] = starts[k][1]
    BY <1>1, <1>3, <2>2, <2>5
  <2>11. Merged'
    BY <1>1, <2>1, <2>3, <2>10, GivenStays, ParentStays DEF IInv, Merged
  <2>12. Cancelled'
    BY <1>1, <2>1 DEF IInv, TypeOK, Cancelled
  <2> QED
    BY <2>6, <2>7, <2>9, <2>11, <2>12 DEF IInv
<1> QED
  <2>1. Outcome(recorded) \in Statuses \ {"running", "queued"} /\ "queued" \in Statuses \ {"running"}
    BY DEF Outcome, Statuses
  <2>2. \/ /\ p < Len(Phases) /\ worker' = "asleep" /\ UNCHANGED <<starts, handled>>
           /\ table' = [table EXCEPT ![j].recorded = recorded, ![j].status = "queued"]
        \/ /\ p < Len(Phases) /\ table' = [table EXCEPT ![j].recorded = recorded]
           /\ PhaseBegins(j, p + 1, current.triggers)
        \/ /\ worker' = "asleep" /\ UNCHANGED <<starts, handled>>
           /\ table' = [table EXCEPT ![j].recorded = recorded, ![j].status = Outcome(recorded)]
    BY <1>0, <1>2 DEF PhaseEnds
  <2>3. /\ \A s : [table EXCEPT ![j].recorded = recorded, ![j].status = s]
                   = [table EXCEPT ![j] = RecordedRow(table[j], outcome, s)]
        /\ [table EXCEPT ![j].recorded = recorded]
              = [table EXCEPT ![j] = RecordedRow(table[j], outcome, "running")]
    BY <1>1 DEF Rows, RecordedRow
  <2> QED
    BY <1>5, <1>6, <2>1, <2>2, <2>3

LEMMA InvalidateKeeps == ASSUME IInv, Invalidate PROVE IInv'
<1>1. /\ table \in [Jobs -> Rows] /\ table' = Revoked(table) /\ revoked' = revoked \cup Live
      /\ worker' \in {"none", "stopping"} /\ UNCHANGED <<starts, handled>>
  BY DEF Invalidate, IInv, TypeOK
<1>2. ASSUME NEW j \in Jobs
      PROVE  /\ table'[j] \in Rows
             /\ table'[j].status = IF j \in Live THEN "cancelled" ELSE table[j].status
             /\ table'[j].status \notin {"queued", "running"}
             /\ table'[j].recorded = table[j].recorded /\ table'[j].attempts = table[j].attempts
             /\ table'[j].triggers = table[j].triggers /\ table'[j].parent = table[j].parent
  <2>1. table[j] \in Rows
    BY <1>1
  <2>2. CASE j \in Live
    <3>1. table'[j] = [table[j] EXCEPT !.status = "cancelled"]
      BY <1>1, <2>2 DEF Revoked, Live
    <3> QED
      BY <2>1, <2>2, <3>1 DEF Rows, Statuses
  <2>3. CASE j \notin Live
    BY <1>1, <2>1, <2>3 DEF Revoked, Live
  <2> QED
    BY <2>2, <2>3
<1>3. table' \in [Jobs -> Rows]
  BY <1>1, <1>2 DEF Revoked
<1>4. TypeOK'
  BY <1>1, <1>3 DEF IInv, TypeOK, Live
<1>5. OneRuns'
  BY <1>1, <1>2 DEF OneRuns
<1>6. Begun'
  BY <1>1, <1>2 DEF IInv, Begun, BegunOf
<1>7. Merged'
  BY <1>1, <1>2, GivenStays, ParentStays DEF IInv, Merged
<1>8. Cancelled'
  BY <1>1, <1>2 DEF IInv, Cancelled, TypeOK, Live
<1> QED
  BY <1>4, <1>5, <1>6, <1>7, <1>8 DEF IInv

LEMMA RestartKeeps == ASSUME IInv, Restart PROVE IInv'
<1>1. /\ table \in [Jobs -> Rows] /\ table' = Restored(table)
      /\ worker' = "asleep" /\ UNCHANGED <<starts, handled, revoked>>
  BY DEF Restart, IInv, TypeOK
<1>2. ASSUME NEW j \in Jobs
      PROVE  /\ table'[j] \in Rows
             /\ table'[j].status = IF table[j].status = "running" THEN "uncertain" ELSE table[j].status
             /\ table'[j].recorded = table[j].recorded /\ table'[j].attempts = table[j].attempts
             /\ table'[j].triggers = table[j].triggers /\ table'[j].parent = table[j].parent
  <2>1. table[j] \in Rows
    BY <1>1
  <2>2. CASE table[j].status = "running"
    <3>1. table'[j] = [table[j] EXCEPT !.status = "uncertain"]
      BY <1>1, <2>2 DEF Restored
    <3> QED
      BY <2>1, <2>2, <3>1 DEF Rows, Statuses
  <2>3. CASE table[j].status # "running"
    BY <1>1, <2>1, <2>3 DEF Restored
  <2> QED
    BY <2>2, <2>3
<1>3. table' \in [Jobs -> Rows]
  BY <1>1, <1>2 DEF Restored
<1>4. TypeOK'
  BY <1>1, <1>3 DEF IInv, TypeOK
<1>5. OneRuns'
  BY <1>1, <1>2 DEF OneRuns
<1>6. Begun'
  BY <1>1, <1>2 DEF IInv, Begun, BegunOf
<1>7. Merged'
  BY <1>1, <1>2, GivenStays, ParentStays DEF IInv, Merged
<1>8. Cancelled'
  BY <1>1, <1>2 DEF IInv, Cancelled, TypeOK
<1> QED
  BY <1>4, <1>5, <1>6, <1>7, <1>8 DEF IInv

\* Steps that leave the rows and what was begun as they are.
LEMMA OtherStepsKeep ==
    ASSUME IInv,
           \/ Leave \/ WorkerStops \/ TurnBegins \/ TurnEnds \/ UNCHANGED vars
    PROVE  IInv'
<1>1. /\ UNCHANGED <<table, starts, handled, revoked>>
      /\ \/ UNCHANGED <<worker, current>>
         \/ worker # "phase" /\ worker' = "none"
  BY DEF Leave, WorkerStops, TurnBegins, TurnEnds, vars
<1>2. TypeOK' /\ Begun' /\ Merged' /\ Cancelled'
  BY <1>1 DEF IInv, TypeOK, Begun, BegunOf, Merged, GivenAll, ParentHas, Cancelled
<1>3. OneRuns'
  BY <1>1 DEF IInv, OneRuns
<1> QED
  BY <1>2, <1>3 DEF IInv

LEMMA NextInv ==
    ASSUME PhasesAssumption, PriorityAssumption, NamesAssumption, IInv, [Next]_vars PROVE IInv'
<1>1. CASE \E j \in Jobs : Enqueue(j)
  BY <1>1, EnqueueKeeps
<1>2. CASE \E j \in Jobs : Ripen(j)
  BY <1>2, RipenKeeps
<1>3. CASE \E outcome \in {"completed", "failed"} : PhaseEnds(outcome)
  BY <1>3, PhaseEndsKeeps
<1>4. CASE Pick
  BY <1>4, PickKeeps
<1>5. CASE Invalidate
  BY <1>5, InvalidateKeeps
<1>6. CASE Restart
  BY <1>6, RestartKeeps
<1>7. CASE Leave \/ WorkerStops \/ TurnBegins \/ TurnEnds \/ UNCHANGED vars
  BY <1>7, OtherStepsKeep
<1> QED
  BY <1>1, <1>2, <1>3, <1>4, <1>5, <1>6, <1>7 DEF Next

-----------------------------------------------------------------------------
(* The theorems.                                                           *)

\* The strengthening: what is recorded, begun and running go together.
THEOREM QueueInvariance ==
    ASSUME PhasesAssumption, PriorityAssumption, NamesAssumption PROVE Spec => []IInv
<1>1. Init => IInv
  BY InitInv
<1>2. IInv /\ [Next]_vars => IInv'
  BY NextInv
<1> QED
  BY <1>1, <1>2, PTL DEF Spec

\* run, enqueue and the constructor: no phase of a job begins twice, however many turns,
\* clears and restarts come between.
THEOREM NoPhaseTwice ==
    ASSUME PhasesAssumption, PriorityAssumption, NamesAssumption PROVE Spec => []PhaseOnce
<1>1. IInv => PhaseOnce
  BY DEF IInv, Begun, BegunOf, PhaseOnce, PhaseNumbers
<1> QED
  BY <1>1, QueueInvariance, PTL

\* enqueue merges only into a job no worker has read: its triggers are handled with it.
THEOREM MergedTriggersAreHandled ==
    ASSUME PhasesAssumption, PriorityAssumption, NamesAssumption PROVE Spec => []MergedIsHandled
<1>1. IInv => MergedIsHandled
  <2> SUFFICES ASSUME IInv, NEW j \in Jobs, table[j].parent # "none",
                      starts[table[j].parent][1] > 0
               PROVE  j \in handled[table[j].parent]
    BY DEF MergedIsHandled
  <2>1. table[j].parent \in Jobs
    BY DEF IInv, TypeOK, Rows
  <2> QED
    BY <2>1 DEF IInv, Merged, ParentHas, GivenAll
<1> QED
  BY <1>1, QueueInvariance, PTL

\* invalidate against the worker it cancels, in whatever order they run: what was
\* cancelled begins no phase and keeps its outcome.
THEOREM NothingRunsAfterAClear ==
    ASSUME PhasesAssumption, PriorityAssumption, NamesAssumption PROVE Spec => NothingAfterClear
<1>1. IInv /\ IInv' /\ [Next]_vars
         => [\A j \in revoked : starts'[j] = starts[j] /\ table'[j].status = "cancelled"]_vars
  <2> SUFFICES ASSUME IInv, IInv', Next, NEW j \in revoked
               PROVE  starts'[j] = starts[j] /\ table'[j].status = "cancelled"
    BY DEF vars
  <2>1. j \in Jobs /\ table[j].status = "cancelled"
    BY DEF IInv, TypeOK, Cancelled
  <2>2. revoked \subseteq revoked'
    BY DEF Next, Enqueue, Ripen, PhaseEnds, Pick, Leave, Invalidate, WorkerStops, Restart, TurnBegins,
           TurnEnds
  <2>3. table'[j].status = "cancelled"
    BY <2>2 DEF IInv, Cancelled
  <2>4. CASE Pick
    <3>1. PICK k \in Best({ i \in Queued : table[i].ripe }) :
              PhaseBegins(k, NextPhase(table[k].recorded), table[k].triggers)
      BY <2>4 DEF Pick
    <3>2. k # j
      BY <2>1 DEF Best, Queued
    <3> QED
      BY <2>1, <2>3, <3>1, <3>2 DEF PhaseBegins, IInv, TypeOK
  <2>5. CASE \E outcome \in {"completed", "failed"} : PhaseEnds(outcome)
    <3>1. current.job # j
      BY <2>1, <2>5 DEF PhaseEnds, IInv, OneRuns
    <3>2. \/ UNCHANGED starts
          \/ \E p : starts' = [starts EXCEPT ![current.job][p] = @ + 1]
      BY <2>5 DEF PhaseEnds, PhaseBegins
    <3> QED
      BY <2>1, <2>3, <3>1, <3>2 DEF IInv, TypeOK
  <2>6. CASE UNCHANGED starts
    BY <2>3, <2>6
  <2> QED
    BY <2>4, <2>5, <2>6 DEF Next, Enqueue, Ripen, Leave, Invalidate, WorkerStops, Restart, TurnBegins,
       TurnEnds
<1>2. Init => IInv
  BY InitInv
<1>3. IInv /\ [Next]_vars => IInv'
  BY NextInv
<1> QED
  BY <1>1, <1>2, <1>3, PTL DEF Spec, NothingAfterClear

-----------------------------------------------------------------------------
(* The activities (module InternalActivity): the inductive invariant.      *)

\* A tick; what its budget has used, and who was chosen before, is left open.
TickShape(t) ==
    /\ t \in [step : {"examine", "select", "run"}, force : Activities \cup {NoOne},
              manual : BOOLEAN, confirmed : BOOLEAN, left : Seq(Activities),
              candidates : {t.candidates}, used : {t.used}, debt : BOOLEAN,
              elapsed : {t.elapsed}, previous : {t.previous}, rested : SUBSET Activities]
    /\ \A c \in t.candidates : c.name \in Activities
Runs == [name : Activities, step : {"work", "reading", "reserved", "sending"}, cancelled : BOOLEAN,
         age : Nat]

ActivityTypes ==
    /\ tick = NoTick \/ TickShape(tick)
    /\ run \in {NoRun} \cup Runs
    /\ day \in [count : {day.count}, used : {day.used}, messages : Nat]
    /\ group \in [age : Nat, unanswered : Nat]
    /\ fg \in Nat /\ said \in Nat /\ quiet \in Nat

\* An activity is looked at once in a tick, is once among the candidates and runs once.
ToExamine(a) == \E i \in DOMAIN tick.left : tick.left[i] = a
IsCandidate(a) == \E c \in tick.candidates : c.name = a
OnceATick ==
    /\ run # NoRun <=> tick # NoTick /\ tick.step = "run"
    /\ tick # NoTick =>
        /\ tick.step = "examine" <=> tick.left # <<>>
        /\ \A i, j \in DOMAIN tick.left : tick.left[i] = tick.left[j] => i = j
        /\ \A c \in tick.candidates : ~ToExamine(c.name)
        /\ \A c, d \in tick.candidates : c.name = d.name => c = d
        /\ run # NoRun => ~IsCandidate(run.name)

\* The group is at rest when a walk may begin or has begun, and no message has gone
\* out; every message is counted, and allowed, before it goes out.
Walking ==
    \/ run.name = Wander /\ run.step # "sending"
    \/ tick # NoTick /\ (IsCandidate(Wander) \/ (ToExamine(Wander) /\ Wander \in tick.rested))
Speaking ==
    /\ run # NoRun /\ run.step \in {"reserved", "sending"} => run.name = Wander
    /\ Walking => quiet = 0
    /\ quiet = 0 \/ quiet + group.age <= GroupCooldown
    /\ said <= day.messages /\ day.messages <= MessageLimit
    /\ run # NoRun /\ run.step = "reserved" =>
        /\ on /\ fg = 0 /\ presence = "SEMI_ACTIVE"
        /\ said < day.messages /\ group.age = run.age

\* Work that waits will be looked at, or counts as debt already.
Owing ==
    tick # NoTick =>
        /\ tick.step = "examine" /\ tick.debt => Debt(tick.candidates)
        /\ tick.force = NoOne =>
            \A w \in owed : w \in Work /\ Ready(w) /\ w \in tick.rested /\ (tick.debt \/ ToExamine(w))

ActivityInv == ActivityTypes /\ OnceATick /\ Speaking /\ YieldsToForeground /\ Owing

-----------------------------------------------------------------------------
(* What the steps of a tick do to it.                                      *)

LEMMA ElapseIs ==
    ASSUME NEW t, TickShape(t), NEW n
    PROVE  LET u == [t EXCEPT !.elapsed = n]
           IN  /\ TickShape(u) /\ u.step = t.step /\ u.force = t.force /\ u.left = t.left
               /\ u.candidates = t.candidates /\ u.debt = t.debt /\ u.rested = t.rested
               /\ u.manual = t.manual
BY DEF TickShape

LEMMA BackIs ==
    ASSUME NEW t, TickShape(t)
    PROVE  LET u == [t EXCEPT !.step = "select"]
           IN  /\ TickShape(u) /\ u.step = "select" /\ u.force = t.force /\ u.left = t.left
               /\ u.candidates = t.candidates /\ u.debt = t.debt /\ u.rested = t.rested
BY DEF TickShape

LEMMA NoTickIs == \A t : TickShape(t) => t # NoTick /\ t.step # "none"
BY DEF TickShape, NoTick

LEMMA NoRunIs ==
    /\ NoRun.name = NoOne /\ NoOne \notin Activities
    /\ \A r \in Runs : r # NoRun /\ r.name # NoOne
    /\ Wander \in Activities /\ Wander \in Play
BY ActivityAssumption DEF NoRun, Runs

LEMMA TickBegins ==
    ASSUME NEW force \in Activities \cup {NoOne}, NEW manual \in BOOLEAN, NEW confirmed \in BOOLEAN,
           TickStart(force, manual, confirmed)
    PROVE  /\ tick = NoTick /\ TickShape(tick') /\ tick'.step = "examine" /\ tick'.force = force
           /\ tick'.left # <<>> /\ tick'.candidates = {} /\ tick'.debt = FALSE
           /\ tick'.rested = Rested(item', group')
           /\ \A i, j \in DOMAIN tick'.left : tick'.left[i] = tick'.left[j] => i = j
           /\ force = NoOne => \A a \in Activities : ToExamine(a)'
<1> DEFINE left == IF force = NoOne THEN Registered ELSE <<force>>
<1>1. /\ Registered \in Seq(Activities) /\ \A a \in Activities : \E i \in DOMAIN Registered : Registered[i] = a
      /\ \A i, j \in DOMAIN Registered : Registered[i] = Registered[j] => i = j
  BY ActivityAssumption DEF Range, IsInjective
<1>2. Registered # <<>>
  BY <1>1, NoRunIs
<1>3. /\ left \in Seq(Activities) /\ left # <<>>
      /\ \A i, j \in DOMAIN left : left[i] = left[j] => i = j
      /\ force = NoOne => \A a \in Activities : \E i \in DOMAIN left : left[i] = a
  <2>1. CASE force = NoOne
    BY <1>1, <1>2, <2>1
  <2>2. CASE force # NoOne
    BY <2>2
  <2> QED
    BY <2>1, <2>2
<1>4. Rested(item', group') \subseteq Activities
  BY DEF Rested
<1>5. /\ tick = NoTick
      /\ tick' = [step |-> "examine", force |-> force, manual |-> manual, confirmed |-> confirmed,
                  left |-> left, candidates |-> {},
                  used |-> [r \in Resources |-> 0], debt |-> FALSE, elapsed |-> 0, previous |-> chosen,
                  rested |-> Rested(item', group')]
  BY DEF TickStart
<1> HIDE DEF left
<1>6. TickShape(tick')
  BY <1>3, <1>4, <1>5 DEF TickShape
<1> QED
  BY <1>3, <1>5, <1>6 DEF ToExamine

\* One activity is looked at.
LEMMA ExaminedIs ==
    ASSUME TickShape(tick), tick.left # <<>>, NEW more, Examined(more),
           \A c \in more : c.name \in Activities
    PROVE  /\ TickShape(tick') /\ tick'.step \in {"examine", "select"}
           /\ tick'.step = "examine" <=> tick'.left # <<>>
           /\ tick'.force = tick.force /\ tick'.rested = tick.rested
           /\ tick'.candidates = tick.candidates \cup more
           /\ tick'.debt = Debt(tick.candidates \cup more)
           /\ NextSpec \in Activities /\ 1 \in DOMAIN tick.left /\ tick.left[1] = NextSpec
           /\ \A i \in DOMAIN tick'.left : i + 1 \in DOMAIN tick.left /\ tick'.left[i] = tick.left[i + 1]
           /\ \A i \in DOMAIN tick'.left : i \in Nat \ {0}
           /\ \A a : ToExamine(a) => a = NextSpec \/ ToExamine(a)'
<1>1. tick.left \in Seq(Activities)
  BY DEF TickShape
<1>2. PICK debt \in BOOLEAN : debt = Debt(tick.candidates \cup more)
  BY DEF Debt
<1>3. PICK step \in {"examine", "select"} : step = IF Len(tick.left) = 1 THEN "select" ELSE "examine"
  OBVIOUS
<1>4. /\ Tail(tick.left) \in Seq(Activities) /\ Len(tick.left) \in Nat \ {0}
      /\ DOMAIN tick.left = 1..Len(tick.left) /\ Head(tick.left) = tick.left[1]
  BY <1>1
<1>a. Len(Tail(tick.left)) = Len(tick.left) - 1
  BY <1>1
<1>b. \A i \in 1..Len(tick.left) - 1 : Tail(tick.left)[i] = tick.left[i + 1]
  BY <1>1
<1>c. PICK left \in Seq(Activities) : left = Tail(tick.left)
  BY <1>4
<1>d. DOMAIN left = 1..Len(left) /\ Len(left) \in Nat /\ (left = <<>> <=> Len(left) = 0)
  BY <1>c, EmptySeq, LenProperties
<1>5. /\ tick.left[1] \in Activities /\ 1 \in DOMAIN tick.left /\ NextSpec = tick.left[1]
      /\ Len(left) = Len(tick.left) - 1 /\ Len(tick.left) \in Nat
      /\ DOMAIN left = 1..Len(left) /\ DOMAIN tick.left = 1..Len(tick.left)
      /\ \A i \in DOMAIN left : i + 1 \in DOMAIN tick.left /\ left[i] = tick.left[i + 1]
      /\ left # <<>> <=> Len(tick.left) # 1
  <2>1. tick.left[1] \in Activities
    BY <1>1, <1>4
  <2> QED
    BY <2>1, <1>4, <1>a, <1>b, <1>c, <1>d DEF NextSpec
<1>6. tick' = [tick EXCEPT !.left = left, !.candidates = tick.candidates \cup more, !.debt = debt,
                           !.step = step]
  BY <1>2, <1>3, <1>c DEF Examined
<1>7. /\ tick'.step = step /\ tick'.left = left /\ tick'.debt = debt
      /\ tick'.candidates = tick.candidates \cup more
      /\ tick'.force = tick.force /\ tick'.rested = tick.rested
      /\ tick' \in [step : {"examine", "select", "run"}, force : Activities \cup {NoOne},
                    manual : BOOLEAN, confirmed : BOOLEAN, left : Seq(Activities),
                    candidates : {tick'.candidates}, used : {tick'.used}, debt : BOOLEAN,
                    elapsed : {tick'.elapsed}, previous : {tick'.previous}, rested : SUBSET Activities]
  BY <1>6 DEF TickShape
<1>8. TickShape(tick')
  BY <1>7 DEF TickShape
<1>9. \A a : ToExamine(a) => a = NextSpec \/ ToExamine(a)'
  <2>1. \A i \in DOMAIN tick.left : i = 1 \/ (i - 1 \in DOMAIN left /\ left[i - 1] = tick.left[i])
    BY <1>5
  <2> QED
    BY <1>5, <1>7, <2>1 DEF ToExamine
<1> QED
  BY <1>2, <1>3, <1>5, <1>7, <1>8, <1>9

-----------------------------------------------------------------------------
(* The parts of the invariant, one after the other, under the steps that   *)
(* leave a tick's schedule alone.                                          *)

LEMMA RunIs ==
    ASSUME NEW r \in Runs
    PROVE  /\ \A s \in {"work", "reading", "reserved", "sending"} :
                /\ [r EXCEPT !.step = s] \in Runs /\ [r EXCEPT !.step = s].name = r.name
                /\ [r EXCEPT !.step = s].step = s /\ [r EXCEPT !.step = s].cancelled = r.cancelled
                /\ [r EXCEPT !.step = s].age = r.age
           /\ [r EXCEPT !.cancelled = TRUE] \in Runs /\ [r EXCEPT !.cancelled = TRUE].name = r.name
           /\ [r EXCEPT !.cancelled = TRUE].step = r.step /\ [r EXCEPT !.cancelled = TRUE].cancelled = TRUE
           /\ [r EXCEPT !.cancelled = TRUE].age = r.age
           /\ \A n \in Nat :
                /\ [r EXCEPT !.age = n] \in Runs /\ [r EXCEPT !.age = n].name = r.name
                /\ [r EXCEPT !.age = n].step = r.step /\ [r EXCEPT !.age = n].cancelled = r.cancelled
BY DEF Runs

LEMMA RestIs ==
    /\ GroupCooldown \in Nat /\ Longest \in Nat /\ MessageLimit \in Nat
    /\ \A n \in Nat : GroupCooldown * (1 + n) >= GroupCooldown
<1>1. GroupCooldown \in Nat /\ MaxUnanswered \in Nat /\ MessageLimit \in Nat
  BY ActivityAssumption
<1>2. \A n \in Nat : GroupCooldown * (1 + n) >= GroupCooldown /\ GroupCooldown * (1 + n) \in Nat
  BY <1>1
<1> QED
  BY <1>1, <1>2 DEF Longest

\* Nothing that waits is forgotten while the tick's list, its debt and what has
\* rested stay what they are.
LEMMA OwingStays ==
    ASSUME Owing, NEW tried, Remembers(tried), tick # NoTick \/ tick' = NoTick,
           tick' # NoTick =>
              /\ tick'.force = tick.force /\ tick'.left = tick.left
              /\ tick'.rested = tick.rested /\ tick'.debt = tick.debt
              /\ tick'.step = "examine" => tick.step = "examine" /\ tick'.candidates = tick.candidates
    PROVE  Owing'
<1> SUFFICES ASSUME tick' # NoTick
             PROVE  Owing'
  BY DEF Owing
<1>1. tick # NoTick /\ owed' \subseteq owed /\ \A w \in owed' : Ready(w)'
  BY DEF Remembers
<1>2. tick'.step = "examine" /\ tick'.debt => Debt(tick'.candidates)
  BY <1>1 DEF Owing
<1>3. tick'.force = NoOne =>
        \A w \in owed' : w \in Work /\ w \in tick'.rested /\ (tick'.debt \/ ToExamine(w)')
  BY <1>1 DEF Owing, ToExamine
<1> QED
  BY <1>1, <1>2, <1>3 DEF Owing, Debt

\* The owner, the day and the clock.
LEMMA OutsideMoves ==
    ASSUME ActivityInv, NEW tried, Remembers(tried), AtAwait, UNCHANGED <<tick, run, group, quiet>>,
           fg' \in Nat, fg' > 0 => fg > 0,
           UNCHANGED <<day, said>> \/ (day' = Today /\ said' = 0)
    PROVE  ActivityInv'
<1>1. /\ day' \in [count : {day'.count}, used : {day'.used}, messages : Nat]
      /\ said' \in Nat /\ said' <= day'.messages /\ day'.messages <= MessageLimit
  <2>1. CASE UNCHANGED <<day, said>>
    BY <2>1 DEF ActivityInv, ActivityTypes, Speaking
  <2>2. CASE day' = Today /\ said' = 0
    BY <2>2, RestIs DEF Today
  <2> QED
    BY <2>1, <2>2
<1>2. ActivityTypes'
  BY <1>1 DEF ActivityInv, ActivityTypes, TickShape
<1>3. OnceATick'
  BY DEF ActivityInv, OnceATick, ToExamine, IsCandidate
<1>4. run = NoRun \/ run.step # "reserved"
  BY NoRunIs DEF ActivityInv, ActivityTypes, AtAwait
<1>5. Speaking'
  BY <1>1, <1>4 DEF ActivityInv, Speaking, Walking, ToExamine, IsCandidate
<1>6. YieldsToForeground'
  BY DEF ActivityInv, ActivityTypes, YieldsToForeground
<1>7. Owing'
  BY OwingStays DEF ActivityInv
<1> QED
  BY <1>2, <1>3, <1>5, <1>6, <1>7 DEF ActivityInv

\* An activity ends, and the tick goes on to the next.
LEMMA ActivityEnds ==
    ASSUME ActivityInv, NEW tried, Remembers(tried), run # NoRun, Back,
           UNCHANGED <<fg, said, quiet, group>>,
           day' \in [count : {day'.count}, used : {day'.used}, messages : {day.messages}]
    PROVE  ActivityInv'
<1>1. /\ tick # NoTick /\ TickShape(tick) /\ tick.step = "run" /\ tick.left = <<>>
      /\ run \in Runs /\ run' = NoRun
  BY DEF ActivityInv, ActivityTypes, OnceATick, Back, TickShape
<1>2. /\ TickShape(tick') /\ tick'.step = "select" /\ tick'.force = tick.force
      /\ tick'.left = tick.left /\ tick'.candidates = tick.candidates
      /\ tick'.debt = tick.debt /\ tick'.rested = tick.rested
  BY <1>1, BackIs DEF Back
<1>3. ActivityTypes'
  BY <1>1, <1>2 DEF ActivityInv, ActivityTypes
<1>4. OnceATick'
  BY <1>1, <1>2, NoTickIs DEF ActivityInv, OnceATick, ToExamine, IsCandidate
<1>5. Walking' => Walking
  BY <1>1, <1>2, NoRunIs, NoTickIs DEF Walking, IsCandidate, ToExamine
<1>6. Speaking'
  BY <1>1, <1>5 DEF ActivityInv, Speaking
<1>7. YieldsToForeground'
  BY <1>1, NoRunIs DEF YieldsToForeground
<1>8. Owing'
  BY <1>1, <1>2, OwingStays DEF ActivityInv
<1> QED
  BY <1>3, <1>4, <1>6, <1>7, <1>8 DEF ActivityInv

\* The tick ends, with the process or before it.
LEMMA TickIsOver ==
    ASSUME ActivityInv, NEW tried, Remembers(tried), tick' = NoTick, run' = NoRun,
           fg' \in Nat, UNCHANGED <<day, group, said, quiet>>
    PROVE  ActivityInv'
<1>1. ActivityTypes'
  BY DEF ActivityInv, ActivityTypes
<1>2. OnceATick' /\ Owing'
  BY DEF OnceATick, Owing
<1>3. ~Walking'
  BY NoRunIs DEF Walking
<1>4. Speaking'
  BY <1>3 DEF ActivityInv, Speaking
<1>5. YieldsToForeground'
  BY NoRunIs DEF YieldsToForeground
<1> QED
  BY <1>1, <1>2, <1>4, <1>5 DEF ActivityInv

\* An activity moves on; what it then may say is a matter of its own.
LEMMA RunMoves ==
    ASSUME ActivityInv, NEW tried, Remembers(tried), UNCHANGED tick, run # NoRun, run' \in Runs,
           run'.name = run.name
    PROVE  /\ OnceATick' /\ Owing' /\ run \in Runs /\ run.name \in Activities
           /\ TickShape(tick) /\ tick.step = "run" /\ ~IsCandidate(run.name) /\ \A a : ~ToExamine(a)
<1>1. /\ run \in Runs /\ run.name \in Activities /\ TickShape(tick) /\ tick.step = "run"
      /\ ~IsCandidate(run.name) /\ tick.left = <<>>
  BY DEF ActivityInv, ActivityTypes, OnceATick, Runs, TickShape
<1>2. \A a : ~ToExamine(a)
  BY <1>1 DEF ToExamine
<1>3. OnceATick'
  BY <1>1, NoRunIs DEF ActivityInv, OnceATick, ToExamine, IsCandidate
<1>4. Owing'
  BY <1>1, NoTickIs, OwingStays DEF ActivityInv
<1> QED
  BY <1>1, <1>2, <1>3, <1>4

LEMMA ReadsKeeps ==
    ASSUME ActivityInv, NEW tried, Remembers(tried), NEW a \in Readers, Reads(a)
    PROVE  ActivityInv'
<1>1. run # NoRun /\ run \in Runs /\ Wander \in Activities /\ a \in Activities
  BY NoRunIs, ActivityAssumption DEF ActivityInv, ActivityTypes, Reads, Running
<1>2. /\ run' \in Runs /\ run'.name = a /\ run.name = a /\ run'.step = "reading"
      /\ run'.cancelled = run.cancelled /\ run.step = "work" /\ UNCHANGED <<tick, day, fg, said, quiet>>
  BY <1>1, RunIs DEF Reads, Running, owner
<1>3. group' \in [age : {group.age}, unanswered : Nat] /\ group'.age = group.age
  <2>1. group \in [age : Nat, unanswered : Nat]
    BY DEF ActivityInv, ActivityTypes
  <2>2. PICK answered \in BOOLEAN : group' = [group EXCEPT !.unanswered = IF answered THEN 0 ELSE @]
    BY DEF Reads, Snapshot
  <2>3. PICK n \in Nat : n = IF answered THEN 0 ELSE group.unanswered
    BY <2>1
  <2>4. group' = [group EXCEPT !.unanswered = n]
    BY <2>2, <2>3
  <2> QED
    BY <2>1, <2>4
<1>4. /\ OnceATick' /\ Owing'
  BY <1>1, <1>2, RunMoves
<1>5. ActivityTypes'
  <2>1. group.age \in Nat
    BY DEF ActivityInv, ActivityTypes
  <2>2. group' \in [age : Nat, unanswered : Nat]
    BY <1>3, <2>1
  <2> QED
    BY <1>2, <2>2 DEF ActivityInv, ActivityTypes, TickShape
<1>6. Walking' => Walking
  BY <1>2 DEF Walking, ToExamine, IsCandidate
<1>7. Speaking'
  BY <1>2, <1>3, <1>6 DEF ActivityInv, Speaking
<1>8. YieldsToForeground'
  BY <1>2 DEF ActivityInv, YieldsToForeground
<1> QED
  BY <1>4, <1>5, <1>7, <1>8 DEF ActivityInv

LEMMA ReserveKeeps ==
    ASSUME ActivityInv, NEW tried, Remembers(tried), Reserve
    PROVE  ActivityInv'
<1>1. run # NoRun /\ run \in Runs /\ Wander \in Activities
  BY NoRunIs DEF ActivityInv, ActivityTypes, Reserve, Running
<1>2. /\ run' \in Runs /\ run'.name = Wander /\ run.name = Wander /\ run'.step = "reserved"
      /\ run.step = "reading" /\ run'.age = run.age /\ run.age \in Nat /\ UNCHANGED <<tick, fg, on, presence, said, quiet>>
      /\ on /\ fg = 0 /\ presence = "SEMI_ACTIVE" /\ day.messages < MessageLimit
  BY <1>1, RunIs DEF Reserve, Running, MayStillSpeak, owner, Runs
<1>3. /\ day.messages \in Nat /\ day'.messages = day.messages + 1
      /\ day' \in [count : {day'.count}, used : {day'.used}, messages : Nat]
  <2>1. day \in [count : {day.count}, used : {day.used}, messages : Nat]
    BY DEF ActivityInv, ActivityTypes
  <2>2. PICK n \in Nat : n = day.messages + 1
    BY <2>1
  <2>3. day' = [day EXCEPT !.messages = n]
    BY <2>2 DEF Reserve
  <2> QED
    BY <2>1, <2>2, <2>3
<1>4. group' \in [age : Nat, unanswered : Nat] /\ group'.age = run.age
  <2>1. group.unanswered \in Nat /\ MaxUnanswered \in Nat
    BY ActivityAssumption DEF ActivityInv, ActivityTypes
  <2>2. PICK n \in Nat : n = Smaller(MaxUnanswered, group.unanswered + 1)
    BY <2>1 DEF Smaller
  <2>3. group' = [age |-> run.age, unanswered |-> n]
    BY <2>2 DEF Reserve
  <2> QED
    BY <1>2, <2>3
<1>5. OnceATick' /\ Owing'
  BY <1>1, <1>2, RunMoves
<1>6. ActivityTypes'
  BY <1>2, <1>3, <1>4 DEF ActivityInv, ActivityTypes, TickShape
<1>7. quiet = 0
  BY <1>2 DEF ActivityInv, Speaking, Walking
<1>8. said \in Nat /\ said <= day.messages
  BY DEF ActivityInv, ActivityTypes, Speaking
<1>9. Speaking'
  BY <1>2, <1>3, <1>4, <1>7, <1>8, RestIs DEF Speaking
<1>10. YieldsToForeground'
  BY <1>2 DEF YieldsToForeground
<1> QED
  BY <1>5, <1>6, <1>9, <1>10 DEF ActivityInv

LEMMA SendKeeps ==
    ASSUME ActivityInv, NEW tried, Remembers(tried), Send
    PROVE  ActivityInv'
<1>1. run # NoRun /\ run \in Runs /\ Wander \in Activities
  BY NoRunIs DEF ActivityInv, ActivityTypes, Send, Running
<1>2. /\ run' \in Runs /\ run'.name = Wander /\ run.name = Wander /\ run'.step = "sending"
      /\ run.step = "reserved" /\ UNCHANGED <<tick, fg, day, group>>
      /\ said' = said + 1 /\ run.age \in Nat
      /\ quiet' = IF run.age < GroupCooldown THEN GroupCooldown - run.age ELSE 0
  BY <1>1, RunIs DEF Send, Running, owner, Runs
<1>3. /\ said < day.messages /\ group.age = run.age /\ said \in Nat /\ day.messages \in Nat
      /\ day.messages <= MessageLimit
  BY <1>1, <1>2 DEF ActivityInv, ActivityTypes, Speaking
<1>4. /\ OnceATick' /\ Owing' /\ ~IsCandidate(Wander) /\ ~ToExamine(Wander)
  BY <1>1, <1>2, RunMoves
<1>5. ActivityTypes'
  <2>1. said' \in Nat /\ quiet' \in Nat
    BY <1>2, <1>3, RestIs
  <2> QED
    BY <1>2, <2>1 DEF ActivityInv, ActivityTypes, TickShape
<1>6. ~Walking'
  BY <1>2, <1>4 DEF Walking, IsCandidate, ToExamine
<1>7. quiet' = 0 \/ quiet' + group'.age <= GroupCooldown
  BY <1>2, <1>3, RestIs
<1>8. Speaking'
  BY <1>2, <1>3, <1>6, <1>7 DEF Speaking
<1>9. YieldsToForeground'
  BY <1>2 DEF YieldsToForeground
<1> QED
  BY <1>4, <1>5, <1>8, <1>9 DEF ActivityInv

LEMMA ForegroundEnterKeeps ==
    ASSUME ActivityInv, NEW tried, Remembers(tried), ForegroundEnter
    PROVE  ActivityInv'
<1>1. UNCHANGED <<tick, day, group, said, quiet>> /\ fg' \in Nat /\ AtAwait
  BY DEF ForegroundEnter, ActivityInv, ActivityTypes, social
<1>2. run = NoRun \/ run.step # "reserved"
  BY <1>1, NoRunIs DEF ActivityInv, ActivityTypes, AtAwait
<1>3. CASE run = NoRun
  <2>1. run' = NoRun
    BY <1>3, NoRunIs DEF ForegroundEnter
  <2>2. ActivityTypes'
    BY <1>1, <2>1 DEF ActivityInv, ActivityTypes, TickShape
  <2>3. OnceATick' /\ Speaking'
    BY <1>1, <1>3, <2>1 DEF ActivityInv, OnceATick, Speaking, Walking, ToExamine, IsCandidate
  <2>4. YieldsToForeground'
    BY <2>1, NoRunIs DEF YieldsToForeground
  <2>5. Owing'
    BY <1>1, OwingStays DEF ActivityInv
  <2> QED
    BY <2>2, <2>3, <2>4, <2>5 DEF ActivityInv
<1>4. CASE run # NoRun
  <2>1. run \in Runs
    BY <1>4 DEF ActivityInv, ActivityTypes
  <2>2. run' = [run EXCEPT !.cancelled = TRUE] \/ run' = run
    BY DEF ForegroundEnter
  <2>3. run' \in Runs /\ run'.name = run.name /\ run'.step = run.step
    <3>1. CASE run' = run
      BY <2>1, <3>1
    <3>2. CASE run' = [run EXCEPT !.cancelled = TRUE]
      BY <2>1, <3>2, RunIs
    <3> QED
      BY <2>2, <3>1, <3>2
  <2>4. run.name \in Activities \ Steadfast /\ run.step # "sending" => run'.cancelled
    BY <2>1, RunIs DEF ForegroundEnter
  <2>5. OnceATick' /\ Owing'
    BY <1>1, <1>4, <2>3, RunMoves
  <2>6. ActivityTypes'
    BY <1>1, <2>3 DEF ActivityInv, ActivityTypes, TickShape
  <2>7. Walking' => Walking
    BY <1>1, <2>3 DEF Walking, ToExamine, IsCandidate
  <2>8. Speaking'
    BY <1>1, <1>2, <1>4, <2>3, <2>7 DEF ActivityInv, Speaking
  <2>9. YieldsToForeground'
    BY <2>3, <2>4 DEF YieldsToForeground
  <2> QED
    BY <2>5, <2>6, <2>8, <2>9 DEF ActivityInv
<1> QED
  BY <1>3, <1>4

-----------------------------------------------------------------------------
(* ... and under those that make the schedule.                             *)

\* Work that waits when a tick begins has rested, and will be looked at.
LEMMA TickStartKeeps ==
    ASSUME ActivityInv, Remembers({}),
           NEW force \in Activities \cup {NoOne}, NEW manual \in BOOLEAN, NEW confirmed \in BOOLEAN,
           TickStart(force, manual, confirmed), UNCHANGED <<run, day, fg, said>>,
           quiet' \in Nat, group' \in [age : Nat, unanswered : Nat],
           quiet' = 0 \/ quiet' + group'.age <= GroupCooldown
    PROVE  ActivityInv'
<1>1. /\ tick = NoTick /\ TickShape(tick') /\ tick'.step = "examine" /\ tick'.force = force
      /\ tick'.left # <<>> /\ tick'.candidates = {} /\ tick'.debt = FALSE
      /\ tick'.rested = Rested(item', group')
      /\ \A i, j \in DOMAIN tick'.left : tick'.left[i] = tick'.left[j] => i = j
      /\ force = NoOne => \A a \in Activities : ToExamine(a)'
  BY TickBegins
<1>2. run = NoRun /\ run' = NoRun
  BY <1>1 DEF ActivityInv, OnceATick
<1>3. ActivityTypes'
  BY <1>1 DEF ActivityInv, ActivityTypes
<1>4. OnceATick'
  BY <1>1, <1>2 DEF OnceATick
<1>5. Walking' => quiet' = 0
  <2>1. SUFFICES ASSUME Walking' PROVE quiet' = 0
    OBVIOUS
  <2>2. Wander \in Rested(item', group')
    BY <1>1, <1>2, <2>1, NoRunIs DEF Walking, IsCandidate
  <2>3. PICK n \in Nat : n = group'.unanswered
    OBVIOUS
  <2>4. group'.age >= GroupCooldown * (1 + n)
    BY <2>2, <2>3 DEF Rested
  <2>5. GroupCooldown * (1 + n) >= GroupCooldown
    BY RestIs
  <2>6. GroupCooldown * (1 + n) \in Nat /\ GroupCooldown \in Nat /\ group'.age \in Nat
    BY RestIs
  <2> HIDE DEF Longest
  <2> QED
    BY <2>4, <2>5, <2>6
<1>6. Speaking'
  BY <1>2, <1>5 DEF ActivityInv, Speaking
<1>7. YieldsToForeground'
  BY <1>2, NoRunIs DEF YieldsToForeground
<1>8. Owing'
  <2>1. owed' = { w \in Work : Ready(w)' }
    BY <1>1, NoTickIs DEF Remembers
  <2>2. \A w \in Work : Ready(w)' => w \in Rested(item', group')
    BY ActivityAssumption DEF Ready, Rested
  <2>3. \A w \in owed' : w \in Work /\ Ready(w)' /\ w \in tick'.rested /\ w \in Activities
    BY <1>1, <2>1, <2>2, ActivityAssumption
  <2>4. tick'.force = NoOne => \A w \in owed' : ToExamine(w)'
    BY <1>1, <2>3
  <2> QED
    BY <1>1, <2>3, <2>4 DEF Owing
<1> QED
  BY <1>3, <1>4, <1>6, <1>7, <1>8 DEF ActivityInv

LEMMA HeartbeatKeeps ==
    ASSUME ActivityInv, Remembers({}), Heartbeat
    PROVE  ActivityInv'
<1>1. /\ UNCHANGED <<fg, presence, on, day, said>> /\ AtAwait /\ quiet' = Left(quiet)
      /\ group' = [group EXCEPT !.age = Smaller(Longest, @ + 1)]
  BY DEF Heartbeat, owner
<1>2. quiet \in Nat /\ group \in [age : Nat, unanswered : Nat]
  BY DEF ActivityInv, ActivityTypes
<1>3. PICK age \in Nat : age = Smaller(Longest, group.age + 1) /\ age <= group.age + 1
  BY <1>2, RestIs DEF Smaller
<1>4. group' = [group EXCEPT !.age = age]
  BY <1>1, <1>3
<1>5. group' \in [age : Nat, unanswered : Nat] /\ group'.age = age
  BY <1>2, <1>4
<1>6. quiet' \in Nat /\ (quiet = 0 => quiet' = 0) /\ (quiet' = 0 \/ quiet' = quiet - 1)
  BY <1>1, <1>2 DEF Left
<1>7. quiet' = 0 \/ quiet' + group'.age <= GroupCooldown
  <2>1. quiet = 0 \/ quiet + group.age <= GroupCooldown
    BY DEF ActivityInv, Speaking
  <2>2. group.age \in Nat /\ GroupCooldown \in Nat
    BY <1>2, RestIs
  <2> QED
    BY <1>2, <1>3, <1>5, <1>6, <2>1, <2>2
<1>8. run # NoRun => run' \in Runs /\ run'.name = run.name /\ run'.step = run.step
                          /\ run'.cancelled = run.cancelled
  <2> SUFFICES ASSUME run # NoRun
               PROVE  run' \in Runs /\ run'.name = run.name /\ run'.step = run.step
                      /\ run'.cancelled = run.cancelled
    OBVIOUS
  <2>1. run \in Runs
    BY DEF ActivityInv, ActivityTypes
  <2>2. run' = run \/ run' = [run EXCEPT !.age = run.age + 1]
    BY DEF Heartbeat
  <2>3. PICK n \in Nat : n = run.age + 1
    BY <2>1 DEF Runs
  <2>4. CASE run' = run
    BY <2>1, <2>4
  <2>5. CASE run' = [run EXCEPT !.age = n]
    BY <2>1, <2>5, RunIs
  <2> QED
    BY <2>2, <2>3, <2>4, <2>5
<1>9. run = NoRun => run' = NoRun
  BY NoRunIs DEF Heartbeat, Running
<1>10. CASE tick = NoTick
  <2>1. TickStart(NoOne, FALSE, FALSE)
    BY <1>10 DEF Heartbeat
  <2>2. UNCHANGED run
    BY <1>9, <1>10 DEF ActivityInv, OnceATick
  <2> QED
    BY <1>1, <1>5, <1>6, <1>7, <2>1, <2>2, TickStartKeeps
<1>11. CASE tick # NoTick
  <2>1. tick' = [tick EXCEPT !.elapsed = tick.elapsed + 1] /\ TickShape(tick)
    BY <1>11 DEF Heartbeat, ActivityInv, ActivityTypes
  <2>2. /\ TickShape(tick') /\ tick'.step = tick.step /\ tick'.force = tick.force
        /\ tick'.left = tick.left /\ tick'.candidates = tick.candidates
        /\ tick'.debt = tick.debt /\ tick'.rested = tick.rested
    BY <2>1, ElapseIs
  <2>3. ActivityTypes'
    BY <1>1, <1>5, <1>6, <1>8, <1>9, <2>2 DEF ActivityInv, ActivityTypes
  <2>4. OnceATick'
    BY <1>1, <1>8, <1>9, <1>11, <2>2, NoTickIs, NoRunIs DEF ActivityInv, OnceATick, ToExamine, IsCandidate
  <2>5. Walking' => Walking
    BY <1>1, <1>8, <1>9, <1>11, <2>2, NoRunIs DEF Walking, ToExamine, IsCandidate
  <2>6. run = NoRun \/ run.step # "reserved"
    BY <1>1, NoRunIs DEF ActivityInv, ActivityTypes, AtAwait
  <2>7. Speaking'
    BY <1>1, <1>6, <1>7, <1>8, <1>9, <2>5, <2>6 DEF ActivityInv, Speaking
  <2>8. YieldsToForeground'
    BY <1>1, <1>8, <1>9, NoRunIs DEF ActivityInv, YieldsToForeground
  <2>9. Owing'
    BY <1>11, <2>2, OwingStays DEF ActivityInv
  <2> QED
    BY <2>3, <2>4, <2>7, <2>8, <2>9 DEF ActivityInv
<1> QED
  BY <1>10, <1>11

LEMMA DebugKeeps ==
    ASSUME ActivityInv, Remembers({}), Debug
    PROVE  ActivityInv'
<1>1. PICK force \in Activities \cup {NoOne}, confirmed \in BOOLEAN : TickStart(force, TRUE, confirmed)
  BY DEF Debug
<1>2. UNCHANGED <<run, day, fg, said, quiet, group>>
  BY DEF Debug, owner, social
<1>3. /\ quiet' \in Nat /\ group' \in [age : Nat, unanswered : Nat]
      /\ quiet' = 0 \/ quiet' + group'.age <= GroupCooldown
  BY <1>2 DEF ActivityInv, ActivityTypes, Speaking
<1> QED
  BY <1>1, <1>2, <1>3, TickStartKeeps

\* What one look at an activity does, whether it becomes a candidate or not.
LEMMA LookKeeps ==
    ASSUME ActivityInv, NEW tried, Remembers(tried), tick.step = "examine", NEW more, Examined(more),
           UNCHANGED <<run, day, group, fg, said, quiet>>,
           more = {} \/ (more = {Candidate(NextSpec)} /\ Permitted(NextSpec)),
           more = {} => NextSpec \in tried \/ ~(Permitted(NextSpec) /\ ReportsDue(NextSpec))
    PROVE  ActivityInv'
<1>1. /\ tick # NoTick /\ TickShape(tick) /\ tick.left # <<>> /\ run = NoRun
  BY DEF ActivityInv, ActivityTypes, OnceATick, NoTick
<1>2. \A c \in more : c.name = NextSpec
  BY DEF Candidate
<1>3. NextSpec \in Activities
  BY <1>1 DEF TickShape, NextSpec
<1>4. /\ TickShape(tick') /\ tick'.step \in {"examine", "select"}
      /\ tick'.step = "examine" <=> tick'.left # <<>>
      /\ tick'.force = tick.force /\ tick'.rested = tick.rested
      /\ tick'.candidates = tick.candidates \cup more
      /\ tick'.debt = Debt(tick.candidates \cup more)
      /\ 1 \in DOMAIN tick.left /\ tick.left[1] = NextSpec
      /\ \A i \in DOMAIN tick'.left : i + 1 \in DOMAIN tick.left /\ tick'.left[i] = tick.left[i + 1]
      /\ \A i \in DOMAIN tick'.left : i \in Nat \ {0}
      /\ \A a : ToExamine(a) => a = NextSpec \/ ToExamine(a)'
  BY <1>1, <1>2, <1>3, ExaminedIs
<1>5. ActivityTypes'
  BY <1>4 DEF ActivityInv, ActivityTypes
<1>6. \A a : ToExamine(a)' => ToExamine(a) /\ a # NextSpec
  <2>1. \A i, j \in DOMAIN tick.left : tick.left[i] = tick.left[j] => i = j
    BY <1>1 DEF ActivityInv, OnceATick
  <2>2. \A i \in DOMAIN tick'.left : i + 1 # 1
    BY <1>4
  <2>3. ASSUME NEW i \in DOMAIN tick'.left, tick'.left[i] = NextSpec PROVE FALSE
    <3>1. /\ i + 1 \in DOMAIN tick.left /\ tick.left[i + 1] = NextSpec
          /\ 1 \in DOMAIN tick.left /\ tick.left[1] = NextSpec
      BY <1>4, <2>3
    <3> QED
      BY <2>1, <2>2, <3>1
  <2> QED
    BY <1>4, <2>3 DEF ToExamine
<1>7. ToExamine(NextSpec)
  BY <1>4 DEF ToExamine
<1>8. OnceATick'
  <2>1. \A i, j \in DOMAIN tick'.left : tick'.left[i] = tick'.left[j] => i = j
    <3>1. \A i, j \in DOMAIN tick.left : tick.left[i] = tick.left[j] => i = j
      BY <1>1 DEF ActivityInv, OnceATick
    <3> QED
      BY <1>4, <3>1
  <2>2. \A c \in tick.candidates : ~ToExamine(c.name)
    BY <1>1 DEF ActivityInv, OnceATick
  <2>3. \A c \in tick'.candidates : ~ToExamine(c.name)'
    BY <1>2, <1>4, <1>6, <2>2
  <2>4. \A c, d \in tick.candidates : c.name = d.name => c = d
    BY <1>1 DEF ActivityInv, OnceATick
  <2>5. \A c, d \in tick'.candidates : c.name = d.name => c = d
    BY <1>2, <1>4, <1>7, <2>2, <2>4
  <2>6. run' = NoRun /\ tick' # NoTick /\ tick'.step # "run"
    BY <1>1, <1>4, NoTickIs
  <2> QED
    BY <1>4, <2>1, <2>3, <2>5, <2>6 DEF OnceATick
<1>9. Walking' => Walking
  <2>1. SUFFICES ASSUME Walking' PROVE Walking
    OBVIOUS
  <2>2. IsCandidate(Wander)' \/ (ToExamine(Wander)' /\ Wander \in tick'.rested)
    BY <1>1, <2>1, NoRunIs DEF Walking
  <2>3. CASE ToExamine(Wander)' /\ Wander \in tick'.rested
    BY <1>1, <1>4, <1>6, <2>3 DEF Walking
  <2>4. CASE IsCandidate(Wander)'
    <3>1. IsCandidate(Wander) \/ (Wander = NextSpec /\ Permitted(NextSpec))
      BY <1>2, <1>4, <2>4 DEF IsCandidate
    <3>2. Wander = NextSpec /\ Permitted(NextSpec) => Wander \in tick.rested
      BY NoRunIs DEF Permitted
    <3> QED
      BY <1>1, <1>7, <3>1, <3>2 DEF Walking
  <2> QED
    BY <2>2, <2>3, <2>4
<1>10. Speaking'
  BY <1>1, <1>9 DEF ActivityInv, Speaking
<1>11. YieldsToForeground'
  BY <1>1, NoRunIs DEF YieldsToForeground
<1>12. Owing'
  <2>1. tick'.step = "examine" /\ tick'.debt => Debt(tick'.candidates)
    BY <1>4 DEF Debt
  <2>2. SUFFICES ASSUME tick.force = NoOne, NEW w \in owed'
                 PROVE  w \in Work /\ Ready(w)' /\ w \in tick'.rested /\ (tick'.debt \/ ToExamine(w)')
    BY <1>4, <2>1 DEF Owing, Debt
  <2>3. w \in owed /\ w \notin tried /\ Ready(w)'
    BY <1>1, <1>4, NoTickIs DEF Remembers
  <2>4. w \in Work /\ Ready(w) /\ w \in tick.rested /\ (tick.debt \/ ToExamine(w))
    BY <1>1, <2>2, <2>3 DEF ActivityInv, Owing
  <2>5. CASE tick.debt
    <3>1. Debt(tick.candidates)
      BY <1>1, <2>5 DEF ActivityInv, Owing
    <3>2. Debt(tick.candidates \cup more)
      BY <3>1 DEF Debt
    <3> QED
      BY <1>4, <2>3, <2>4, <3>2
  <2>6. CASE ToExamine(w) /\ w # NextSpec
    BY <1>4, <2>3, <2>4, <2>6
  <2>7. CASE w = NextSpec
    <3>1. w # Wander
      BY <2>4, ActivityAssumption
    <3>2. Permitted(w)
      BY <2>4, <3>1 DEF Permitted, Ready
    <3>3. ReportsDue(w)
      BY <2>4, <3>1 DEF ReportsDue, Ready
    <3>4. more = {Candidate(w)}
      BY <2>3, <2>7, <3>2, <3>3
    <3>5. Candidate(w).recovery
      BY <2>4 DEF Candidate, Ready
    <3>6. Debt(tick.candidates \cup more)
      BY <3>4, <3>5 DEF Debt
    <3> QED
      BY <1>4, <2>3, <2>4, <3>6
  <2> QED
    BY <2>4, <2>5, <2>6, <2>7
<1> QED
  BY <1>5, <1>8, <1>10, <1>11, <1>12 DEF ActivityInv

LEMMA ExamineKeeps ==
    ASSUME ActivityInv, Remembers({}), Examine
    PROVE  ActivityInv'
<1> DEFINE more == IF Permitted(NextSpec) /\ ReportsDue(NextSpec) THEN {Candidate(NextSpec)} ELSE {}
<1>1. tick.step = "examine" /\ Examined(more)
  BY DEF Examine
<1>2. UNCHANGED <<run, day, group, fg, said, quiet>>
  BY DEF Examine, owner, social
<1>3. more = {} \/ (more = {Candidate(NextSpec)} /\ Permitted(NextSpec))
  OBVIOUS
<1>4. more = {} => ~(Permitted(NextSpec) /\ ReportsDue(NextSpec))
  OBVIOUS
<1> HIDE DEF more
<1> QED
  BY <1>1, <1>2, <1>3, <1>4, LookKeeps

LEMMA ExamineFailsKeeps ==
    ASSUME ActivityInv, Remembers({NextSpec}), ExamineFails
    PROVE  ActivityInv'
<1>1. tick.step = "examine" /\ Examined({}) /\ UNCHANGED <<run, day, group, fg, said, quiet>>
  BY DEF ExamineFails, owner, social
<1> QED
  BY <1>1, LookKeeps

\* What a start takes for granted: nothing runs, the list has been gone through,
\* and what is started stands and was let through.
StartsWith(c, rest) ==
    /\ tick' = [tick EXCEPT !.step = "run", !.used = tick'.used, !.candidates = rest]
    /\ run' = [name |-> c.name, step |-> "work", cancelled |-> FALSE, age |-> 0]
    /\ \A d \in rest : d # c
    /\ fg = 0 /\ ~(tick.debt /\ c.name \in Play)
    /\ c.name \in Activities /\ TickShape(tick) /\ tick # NoTick
    /\ tick.step = "select" /\ tick.left = <<>> /\ run = NoRun
    /\ day' \in [count : {day'.count}, used : {day'.used}, messages : {day.messages}]
    /\ UNCHANGED <<group, fg, on, presence, said, quiet>>

LEMMA StartGuard ==
    ASSUME ActivityInv, Start
    PROVE  \E c \in tick.candidates, rest \in SUBSET tick.candidates : StartsWith(c, rest)
<1>1. PICK c \in tick.candidates, taken \in SUBSET tick.candidates :
         /\ Starts(c, taken) /\ Begins(c.name)
         /\ tick' = [tick EXCEPT !.step = "run", !.used = Usage(taken),
                                 !.candidates = @ \ (Ahead(c) \cup {c})]
  BY DEF Start
<1>2. tick # NoTick /\ TickShape(tick) /\ tick.step = "select" /\ tick.left = <<>> /\ run = NoRun
  BY DEF ActivityInv, ActivityTypes, OnceATick, NoTick, Start, TickShape
<1>3. PICK rest \in SUBSET tick.candidates : rest = tick.candidates \ (Ahead(c) \cup {c})
  OBVIOUS
<1>4. PICK used : used = Usage(taken)
  OBVIOUS
<1>5. tick' = [tick EXCEPT !.step = "run", !.used = tick'.used, !.candidates = rest]
  <2>1. tick' = [tick EXCEPT !.step = "run", !.used = used, !.candidates = rest]
    BY <1>1, <1>3, <1>4
  <2>2. tick'.used = used
    BY <1>2, <2>1 DEF TickShape
  <2> QED
    BY <2>1, <2>2
<1>6. run' = [name |-> c.name, step |-> "work", cancelled |-> FALSE, age |-> 0]
  BY <1>1 DEF Begins
<1>7. fg = 0
  BY <1>1 DEF Starts, Stands
<1>8. ~(tick.debt /\ c.name \in Play)
  BY <1>1 DEF Starts, Reserved, HasRoom
<1>9. c.name \in Activities
  BY <1>2 DEF TickShape
<1>10. day' \in [count : {day'.count}, used : {day'.used}, messages : {day.messages}]
  <2>1. day \in [count : {day.count}, used : {day.used}, messages : Nat]
    BY DEF ActivityInv, ActivityTypes
  <2>2. PICK u : u = [r \in Resources |-> day.used[r] + IF r \in Needs[c.name] THEN 1 ELSE 0]
    OBVIOUS
  <2>3. day' = [day EXCEPT !.used = u]
    BY <1>1, <2>2 DEF Begins
  <2> QED
    BY <2>1, <2>3
<1>11. UNCHANGED <<group, fg, on, presence, said, quiet>>
  BY DEF Start, owner, social
<1>12. \A d \in rest : d # c
  BY <1>3
<1>13. StartsWith(c, rest)
  BY <1>2, <1>5, <1>6, <1>7, <1>8, <1>9, <1>10, <1>11, <1>12 DEF StartsWith
<1> QED
  BY <1>1, <1>3, <1>13

LEMMA StartKeeps ==
    ASSUME ActivityInv, Remembers({}), Start
    PROVE  ActivityInv'
<1>1. PICK c \in tick.candidates, rest \in SUBSET tick.candidates : StartsWith(c, rest)
  BY StartGuard
<1> USE DEF StartsWith
<1>2. /\ TickShape(tick') /\ tick'.step = "run" /\ tick'.force = tick.force /\ tick'.left = tick.left
      /\ tick'.candidates = rest /\ tick'.debt = tick.debt /\ tick'.rested = tick.rested
  <2>1. rest \subseteq tick.candidates /\ TickShape(tick)
    BY <1>1
  <2> DEFINE t == [tick EXCEPT !.step = "run", !.used = tick'.used, !.candidates = rest]
  <2>2. /\ TickShape(t) /\ t.step = "run" /\ t.force = tick.force /\ t.left = tick.left
        /\ t.candidates = rest /\ t.debt = tick.debt /\ t.rested = tick.rested
    BY <2>1 DEF TickShape
  <2>3. tick' = t
    BY <1>1
  <2> HIDE DEF t
  <2> QED
    BY <2>2, <2>3
<1>3. run' \in Runs /\ run'.name = c.name /\ run'.step = "work"
  BY <1>1 DEF Runs
<1>4. ActivityTypes'
  <2>1. day.messages \in Nat
    BY DEF ActivityInv, ActivityTypes
  <2>2. day' \in [count : {day'.count}, used : {day'.used}, messages : Nat]
    BY <1>1, <2>1
  <2> QED
    BY <1>1, <1>2, <1>3, <2>2 DEF ActivityInv, ActivityTypes
<1>5. OnceATick'
  <2>1. \A d, e \in tick.candidates : d.name = e.name => d = e
    BY <1>1 DEF ActivityInv, OnceATick
  <2>2. ~IsCandidate(run.name)'
    BY <1>1, <1>2, <1>3, <2>1 DEF IsCandidate
  <2>3. run' # NoRun /\ tick' # NoTick
    BY <1>2, <1>3, NoRunIs, NoTickIs
  <2> QED
    <3>1. \A d, e \in tick'.candidates : d.name = e.name => d = e
      BY <1>1, <1>2, <2>1
    <3>2. \A a : ~ToExamine(a)'
      BY <1>1, <1>2 DEF ToExamine
    <3>3. /\ tick'.step = "examine" <=> tick'.left # <<>>
          /\ \A i, j \in DOMAIN tick'.left : tick'.left[i] = tick'.left[j] => i = j
      BY <1>1, <1>2
    <3> QED
      BY <1>2, <2>2, <2>3, <3>1, <3>2, <3>3 DEF OnceATick
<1>6. Walking' => Walking
  BY <1>1, <1>2, <1>3 DEF Walking, IsCandidate, ToExamine
<1>7. Speaking'
  BY <1>1, <1>3, <1>6 DEF ActivityInv, Speaking
<1>8. YieldsToForeground'
  BY <1>1 DEF YieldsToForeground
<1>9. Owing'
  BY <1>1, <1>2, OwingStays DEF ActivityInv
<1> QED
  BY <1>4, <1>5, <1>7, <1>8, <1>9 DEF ActivityInv

-----------------------------------------------------------------------------
(* The steps together.                                                     *)

LEMMA InitIsActivityInv == ActivityInit => ActivityInv
<1> SUFFICES ASSUME ActivityInit PROVE ActivityInv
  OBVIOUS
<1>1. /\ tick = NoTick /\ run = NoRun /\ fg = 0 /\ said = 0 /\ quiet = 0 /\ day = Today
      /\ group = [age |-> Longest, unanswered |-> 0]
  BY DEF ActivityInit
<1>2. ActivityTypes
  BY <1>1, RestIs DEF ActivityTypes, Today
<1>3. OnceATick /\ Owing
  BY <1>1 DEF OnceATick, Owing
<1>4. Speaking
  BY <1>1, RestIs DEF Speaking, Today
<1>5. YieldsToForeground
  BY <1>1 DEF YieldsToForeground
<1> QED
  BY <1>2, <1>3, <1>4, <1>5 DEF ActivityInv

LEMMA WorkKeeps ==
    ASSUME ActivityInv, Remembers({}), NEW a \in Activities, Work1(a)
    PROVE  ActivityInv'
<1>1. run # NoRun /\ Back /\ UNCHANGED <<fg, said, quiet, group>>
  BY NoRunIs DEF Work1, Succeeds, Fails, Preempted, Running, owner, social
<1>2. day \in [count : {day.count}, used : {day.used}, messages : {day.messages}]
  BY DEF ActivityInv, ActivityTypes
<1>3. day' \in [count : {day'.count}, used : {day'.used}, messages : {day.messages}]
  <2>1. CASE Succeeds(a)
    <3>1. PICK n : n = [day.count EXCEPT ![a] = @ + 1]
      OBVIOUS
    <3>2. day' = [day EXCEPT !.count = n]
      BY <2>1, <3>1 DEF Succeeds
    <3> QED
      BY <1>2, <3>2
  <2>2. CASE ~Succeeds(a)
    BY <1>2, <2>2 DEF Work1, Fails, Preempted
  <2> QED
    BY <2>1, <2>2
<1> QED
  BY <1>1, <1>3, ActivityEnds

LEMMA NextKeepsActivityInv == ActivityInv /\ [ActivityNext]_activityVars => ActivityInv'
<1> SUFFICES ASSUME ActivityInv, [ActivityNext]_activityVars
             PROVE  ActivityInv'
  OBVIOUS
<1>1. CASE Heartbeat /\ Remembers({})
  BY <1>1, HeartbeatKeeps
<1>2. CASE Debug /\ Remembers({})
  BY <1>2, DebugKeeps
<1>3. CASE Examine /\ Remembers({})
  BY <1>3, ExamineKeeps
<1>4. CASE Start /\ Remembers({})
  BY <1>4, StartKeeps
<1>5. CASE TickEnds /\ Remembers({})
  <2>1. run = NoRun /\ fg \in Nat
    BY <1>5 DEF ActivityInv, ActivityTypes, OnceATick, TickEnds
  <2>2. tick' = NoTick /\ UNCHANGED <<run, fg, day, group, said, quiet>>
    BY <1>5 DEF TickEnds, owner, social
  <2> QED
    BY <1>5, <2>1, <2>2, TickIsOver
<1>6. CASE (\E a \in Activities : Work1(a)) /\ Remembers({})
  BY <1>6, WorkKeeps
<1>7. CASE (\E a \in Activities : Signal(a)) /\ Remembers({})
  <2>1. AtAwait /\ UNCHANGED <<tick, run, group, quiet, fg, day, said>>
    BY <1>7 DEF Signal, owner, social
  <2> QED
    BY <1>7, <2>1, OutsideMoves DEF ActivityInv, ActivityTypes
<1>8. CASE (\E a \in Readers : Reads(a)) /\ Remembers({})
  BY <1>8, ReadsKeeps
<1>9. CASE Reserve /\ Remembers({})
  BY <1>9, ReserveKeeps
<1>10. CASE Send /\ Remembers({})
  BY <1>10, SendKeeps
<1>11. CASE ForegroundEnter /\ Remembers({})
  BY <1>11, ForegroundEnterKeeps
<1>12. CASE ForegroundExit /\ Remembers({})
  <2>1. AtAwait /\ fg > 0 /\ fg' = fg - 1 /\ UNCHANGED <<tick, run, group, quiet, day, said>>
    BY <1>12 DEF ForegroundExit, social
  <2>2. fg' \in Nat
    BY <2>1 DEF ActivityInv, ActivityTypes
  <2> QED
    BY <1>12, <2>1, <2>2, OutsideMoves
<1>13. CASE (Cools \/ Leaves \/ Switches) /\ Remembers({})
  <2>1. AtAwait /\ UNCHANGED <<tick, run, group, quiet, fg, day, said>>
    BY <1>13 DEF Cools, Leaves, Switches, social
  <2> QED
    BY <1>13, <2>1, OutsideMoves DEF ActivityInv, ActivityTypes
<1>14. CASE NewDay /\ Remembers({})
  <2>1. AtAwait /\ day' = Today /\ said' = 0 /\ UNCHANGED <<tick, run, group, quiet, fg>>
    BY <1>14 DEF NewDay, owner
  <2> QED
    BY <1>14, <2>1, OutsideMoves DEF ActivityInv, ActivityTypes
<1>15. CASE (Crash \/ Stop) /\ Remembers({})
  <2>1. tick' = NoTick /\ run' = NoRun /\ fg' = 0 /\ UNCHANGED <<day, group, said, quiet>>
    BY <1>15 DEF Crash, Stop, Restarted, social
  <2> QED
    BY <1>15, <2>1, TickIsOver
<1>16. CASE ExamineFails /\ Remembers({NextSpec})
  BY <1>16, ExamineFailsKeeps
<1>17. CASE UNCHANGED activityVars
  <2>1. ActivityTypes' /\ OnceATick'
    BY <1>17 DEF activityVars, ActivityInv, ActivityTypes, TickShape, OnceATick, ToExamine, IsCandidate
  <2>2. Speaking' /\ YieldsToForeground'
    BY <1>17 DEF activityVars, ActivityInv, Speaking, Walking, ToExamine, IsCandidate, YieldsToForeground
  <2>3. Owing'
    BY <1>17 DEF activityVars, ActivityInv, Owing, Ready, Debt, ToExamine
  <2> QED
    BY <2>1, <2>2, <2>3 DEF ActivityInv
<1> QED
  BY <1>1, <1>2, <1>3, <1>4, <1>5, <1>6, <1>7, <1>8, <1>9, <1>10, <1>11, <1>12, <1>13, <1>14,
     <1>15, <1>16, <1>17
  DEF ActivityNext, Step, TickStep

-----------------------------------------------------------------------------
(* The theorems.                                                           *)

\* The parts of the invariant hold together, whatever is registered and however
\* ticks, requests, midnights and restarts fall (runtime.py, run_tick).
THEOREM ActivityInvariance == ActivitySpec => []ActivityInv
<1>1. ActivityInit => ActivityInv
  BY InitIsActivityInv
<1>2. ActivityInv /\ [ActivityNext]_activityVars => ActivityInv'
  BY NextKeepsActivityInv
<1> QED
  BY <1>1, <1>2, PTL DEF ActivitySpec

\* With a request in the foreground nothing that may be interrupted goes on,
\* except a message on its way (runtime.py, foreground_enter).
THEOREM NothingHoldsUpARequest == ActivitySpec => []YieldsToForeground
<1>1. ActivityInv => YieldsToForeground
  BY DEF ActivityInv
<1> QED
  BY <1>1, ActivityInvariance, PTL

\* Whatever the number of crashes and of days, a message to the group goes out only
\* when all that allows it still holds; the group's rest counts from the beginning of
\* the visit that left the last message (activities/social.py, social_wander).
THEOREM TheGroupIsLeftInPeace == ActivitySpec => SpeaksInTurn
<1>1. ActivityInv /\ [ActivityNext]_activityVars =>
        [said' > said => on /\ fg = 0 /\ presence = "SEMI_ACTIVE" /\ quiet = 0 /\ said < MessageLimit]_activityVars
  <2> SUFFICES ASSUME ActivityInv, ActivityNext, said' > said
               PROVE  on /\ fg = 0 /\ presence = "SEMI_ACTIVE" /\ quiet = 0 /\ said < MessageLimit
    OBVIOUS
  <2>1. said \in Nat /\ day.messages \in Nat /\ MessageLimit \in Nat
    BY RestIs DEF ActivityInv, ActivityTypes
  <2>2. Send \/ UNCHANGED said \/ said' = 0
    <3>1. Step \/ ExamineFails
      BY DEF ActivityNext
    <3>2. CASE ExamineFails
      BY <3>2 DEF ExamineFails, social
    <3>3. CASE Step
      BY <3>3 DEF Step, TickStep, Work1, Heartbeat, Debug, Examine, Start, TickEnds, Succeeds, Fails,
             Preempted, Signal, Reads, Reserve, ForegroundEnter, ForegroundExit, Cools, Leaves,
             Switches, NewDay, Crash, Stop, Restarted, social
    <3> QED
      BY <3>1, <3>2, <3>3
  <2>3. Send
    BY <2>1, <2>2
  <2>4. run # NoRun /\ run.step = "reserved" /\ run.name = Wander
    BY <2>3, NoRunIs DEF Send, Running
  <2>5. quiet = 0
    BY <2>4 DEF ActivityInv, Speaking, Walking
  <2>6. on /\ fg = 0 /\ presence = "SEMI_ACTIVE" /\ said < day.messages /\ day.messages <= MessageLimit
    BY <2>4 DEF ActivityInv, Speaking
  <2> QED
    BY <2>1, <2>5, <2>6
<1> QED
  BY <1>1, ActivityInvariance, PTL DEF ActivitySpec, SpeaksInTurn

\* Among any number of activities, a tick for all of them starts play only if no
\* work has been waiting for it (scheduler.py, select_registered, and
\* runtime.py, _candidates).
THEOREM PlayComesLast == ActivitySpec => WorkBeforePlay
<1>1. ActivityInv /\ [ActivityNext]_activityVars =>
        [run'.name \in Play /\ run.name = NoOne /\ tick.force = NoOne => owed = {}]_activityVars
  <2> SUFFICES ASSUME ActivityInv, ActivityNext,
                      run'.name \in Play, run.name = NoOne, tick.force = NoOne
               PROVE  owed = {}
    OBVIOUS
  <2>1. run = NoRun /\ run'.name \in Activities
    BY NoRunIs, ActivityAssumption DEF ActivityInv, ActivityTypes
  <2>2. Start \/ UNCHANGED run \/ run' = NoRun
    <3>1. Step \/ ExamineFails
      BY DEF ActivityNext
    <3>2. CASE ExamineFails
      BY <3>2 DEF ExamineFails
    <3>3. CASE (\E a \in Readers : Reads(a)) \/ Reserve \/ Send
      BY <2>1, <3>3, NoRunIs DEF Reads, Reserve, Send, Running
    <3>4. CASE ForegroundEnter
      BY <2>1, <3>4, NoRunIs DEF ForegroundEnter
    <3>5. CASE Heartbeat
      BY <2>1, <3>5, NoRunIs DEF Heartbeat, Running
    <3>6. CASE Step /\ ~(Heartbeat \/ (\E a \in Readers : Reads(a)) \/ Reserve \/ Send \/ ForegroundEnter)
      BY <3>6 DEF Step, TickStep, Work1, Debug, Examine, TickEnds, Succeeds, Fails,
             Preempted, Back, Signal, ForegroundExit, Cools, Leaves, Switches, NewDay, Crash, Stop,
             Restarted
    <3> QED
      BY <3>1, <3>2, <3>3, <3>4, <3>5, <3>6
  <2>3. Start
    BY <2>1, <2>2, NoRunIs
  <2>4. PICK c \in tick.candidates, rest \in SUBSET tick.candidates : StartsWith(c, rest)
    BY <2>3, StartGuard
  <2>5. ~tick.debt /\ \A w : ~ToExamine(w)
    BY <2>4 DEF StartsWith, ToExamine
  <2> QED
    BY <2>4, <2>5 DEF StartsWith, ActivityInv, Owing
<1> QED
  BY <1>1, ActivityInvariance, PTL DEF ActivitySpec, WorkBeforePlay
=============================================================================
