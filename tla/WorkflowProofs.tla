--------------------------- MODULE WorkflowProofs ---------------------------
(***************************************************************************)
(* Proofs that a workflow's effects are approved and that a completed step *)
(* is not executed again, for any definitions the registry accepts, any    *)
(* answers of tools, gateway and owner, timeouts and restarts; and that a  *)
(* session shows no message twice, keeps the answers it gave, keeps a      *)
(* clear and serves a repeated request what it answered, for any clients,  *)
(* callers and size of the window.                                         *)
(***************************************************************************)
EXTENDS Workflow, Session, FiniteSetTheorems, WellFoundedInduction, SequenceTheorems, TLAPS

Questions == {"none", "open", "granted", "spent", "denied", "expired", "torn"}

Places == [at : {"idle", "save", "advance", "call"}, then : {"return", "advance", "call"}]

RunTyped == setup \in Setups /\ db \in Run /\ run \in Run /\ pc \in Places
GateTyped ==
    /\ question \in [Steps -> Questions]
    /\ calls \in [Steps -> Nat] /\ asked \in [Steps -> Nat] /\ approvals \in [Steps -> Nat]

TypeOK == RunTyped /\ GateTyped

\* What is completed in q is completed in r.
Keeps(q, r) == \A s \in Steps : q.steps[s].status = "completed" => r.steps[s].status = "completed"

\* The step to execute is one that is not completed.
CallIsOpen(r) ==
    r.status = "running" /\ r.current \in Steps /\ r.steps[r.current].status # "completed"

\* A run that waits for permission waits in its current step.
WaitsInStep(r) ==
    r.status = "waiting_for_permission" /\ r.current # NoStep => r.steps[r.current].status = "waiting"

\* The copy of the operation under way.
CopyInv ==
    pc.at # "idle" =>
        /\ Keeps(db, run) /\ WaitsInStep(run)
        /\ pc.at = "call" \/ (pc.at = "save" /\ pc.then = "call") => CallIsOpen(run)

RunInv == RunTyped /\ CopyInv /\ WaitsInStep(db)

\* An approval that still gives a grant has not been used for an execution.
GrantInv ==
    \A s \in Steps : /\ asked[s] <= approvals[s]
                     /\ question[s] = "granted" => asked[s] + 1 <= approvals[s]

GateInv == GateTyped /\ GrantInv

IInv == RunInv /\ GateInv

-----------------------------------------------------------------------------
(* Definitions and runs.                                                   *)

LEMMA FlowFacts ==
    ASSUME SetupAssumption, setup \in Setups
    PROVE  /\ Len(Flow) \in Nat \ {0} /\ Steps = 1..Len(Flow) /\ 1 \in Steps /\ NoStep \notin Steps
           /\ \A i \in Steps : /\ Flow[i].onTrue \in Ids /\ Flow[i].onFalse \in Ids
                               /\ Flow[i].onFailure \in Ids /\ NextId(i) \in Ids
<1>1. /\ Len(Flow) \in Nat \ {0} /\ Steps = 1..Len(Flow)
      /\ \A i \in Steps : Flow[i] \in [type : {"tool", "condition", "ask", "set", "end"},
                                   next : Ids, onTrue : Ids, onFalse : Ids, onFailure : Ids,
                                   attempts : 1..10, policies : SUBSET Policies \ {{}}]
  BY DEF SetupAssumption, Flow, Steps, Ids
<1>2. 1 \in Steps /\ NoStep \notin Steps
  BY <1>1 DEF NoStep
<1>3. \A i \in Steps : i < Len(Flow) => i + 1 \in Steps
  BY <1>1
<1>4. \A i \in Steps : /\ Flow[i].next \in Ids /\ Flow[i].onTrue \in Ids /\ Flow[i].onFalse \in Ids
                       /\ Flow[i].onFailure \in Ids
  BY <1>1
<1>5. \A i \in Steps : NextId(i) \in Ids
  BY <1>3, <1>4 DEF NextId, Ids
<1> QED
  BY <1>1, <1>2, <1>4, <1>5

StepRows == [status : StepStates, attempts : Nat]

LEMMA SetStepIs ==
    ASSUME NEW r \in Run, NEW s \in Steps, NEW st \in StepStates
    PROVE  /\ SetStep(r, s, st) \in Run
           /\ SetStep(r, s, st).status = r.status /\ SetStep(r, s, st).current = r.current
           /\ SetStep(r, s, st).steps[s].status = st
           /\ \A t \in Steps : t # s => SetStep(r, s, st).steps[t] = r.steps[t]
<1> DEFINE entry == [r.steps[s] EXCEPT !.status = st]
           rows == [r.steps EXCEPT ![s] = entry]
<1>1. r.steps \in [Steps -> StepRows] /\ r.steps[s] \in StepRows
  BY DEF Run, StepRows
<1>2. entry \in StepRows /\ entry.status = st
  BY <1>1 DEF StepRows
<1> HIDE DEF entry
<1>3. rows \in [Steps -> StepRows] /\ rows[s] = entry /\ \A t \in Steps : t # s => rows[t] = r.steps[t]
  BY <1>1, <1>2
<1>4. SetStep(r, s, st) = [r EXCEPT !.steps = rows]
  BY <1>1 DEF SetStep, Run, entry
<1> HIDE DEF rows
<1>5. /\ [r EXCEPT !.steps = rows] \in Run /\ [r EXCEPT !.steps = rows].steps = rows
      /\ [r EXCEPT !.steps = rows].status = r.status /\ [r EXCEPT !.steps = rows].current = r.current
  BY <1>3 DEF Run, StepRows
<1> QED
  BY <1>2, <1>3, <1>4, <1>5

\* A step is completed, or one that is not completed gets another status.
LEMMA StepKept ==
    ASSUME NEW q, NEW r \in Run, NEW s \in Steps, NEW st \in StepStates, Keeps(q, r),
           st = "completed" \/ r.steps[s].status # "completed"
    PROVE  Keeps(q, SetStep(r, s, st))
<1> SUFFICES ASSUME NEW t \in Steps, q.steps[t].status = "completed"
             PROVE  SetStep(r, s, st).steps[t].status = "completed"
  BY DEF Keeps
<1>1. r.steps[t].status = "completed"
  BY DEF Keeps
<1>2. CASE t = s
  BY <1>1, <1>2, SetStepIs
<1>3. CASE t # s
  BY <1>1, <1>3, SetStepIs
<1> QED
  BY <1>2, <1>3

\* A call is counted in its step.
LEMMA CalledIs ==
    ASSUME NEW r \in Run, NEW s \in Steps
    PROVE  /\ Called(r, s) \in Run
           /\ Called(r, s).status = r.status /\ Called(r, s).current = r.current
           /\ Called(r, s).steps[s].status = "running"
           /\ \A t \in Steps : t # s => Called(r, s).steps[t] = r.steps[t]
<1> DEFINE q == SetStep(r, s, "running")
           entry == [q.steps[s] EXCEPT !.attempts = @ + 1]
           rows == [q.steps EXCEPT ![s] = entry]
<1>1. /\ q \in Run /\ q.status = r.status /\ q.current = r.current
      /\ q.steps[s].status = "running" /\ \A t \in Steps : t # s => q.steps[t] = r.steps[t]
  BY SetStepIs DEF StepStates
<1>2. Called(r, s) = [q EXCEPT !.steps[s].attempts = @ + 1]
  BY DEF Called
<1> HIDE DEF q
<1>3. q.steps \in [Steps -> StepRows] /\ q.steps[s] \in StepRows
  BY <1>1 DEF Run, StepRows
<1>4. entry \in StepRows /\ entry.status = "running"
  BY <1>1, <1>3 DEF StepRows
<1>5. Called(r, s) = [q EXCEPT !.steps = rows]
  BY <1>1, <1>2, <1>3 DEF Run
<1> HIDE DEF entry
<1>6. rows \in [Steps -> StepRows] /\ rows[s] = entry /\ \A t \in Steps : t # s => rows[t] = q.steps[t]
  BY <1>3, <1>4
<1> HIDE DEF rows
<1>7. /\ [q EXCEPT !.steps = rows] \in Run /\ [q EXCEPT !.steps = rows].steps = rows
      /\ [q EXCEPT !.steps = rows].status = q.status /\ [q EXCEPT !.steps = rows].current = q.current
  BY <1>1, <1>6 DEF Run, StepRows
<1> QED
  BY <1>1, <1>4, <1>5, <1>6, <1>7

\* The run goes to another step or another status.
LEMMA MovedIs ==
    ASSUME NEW r \in Run, NEW st \in RunStates, NEW c \in Ids
    PROVE  /\ [r EXCEPT !.current = c] \in Run
           /\ [r EXCEPT !.current = c].status = r.status
           /\ [r EXCEPT !.current = c].current = c /\ [r EXCEPT !.current = c].steps = r.steps
           /\ [r EXCEPT !.status = st] \in Run
           /\ [r EXCEPT !.status = st].status = st
           /\ [r EXCEPT !.status = st].current = r.current /\ [r EXCEPT !.status = st].steps = r.steps
           /\ [r EXCEPT !.status = st, !.current = c] \in Run
           /\ [r EXCEPT !.status = st, !.current = c].status = st
           /\ [r EXCEPT !.status = st, !.current = c].current = c
           /\ [r EXCEPT !.status = st, !.current = c].steps = r.steps
           /\ [r EXCEPT !.current = c, !.status = st] = [r EXCEPT !.status = st, !.current = c]
BY DEF Run

\* A fresh run has completed nothing.
LEMMA NewRunIs ==
    /\ NewRun \in Run /\ NewRun.status = "pending" /\ NewRun.current = NoStep
    /\ \A s \in Steps : NewRun.steps[s].status = "pending"
BY DEF NewRun, NewStep, Run, RunStates, StepStates, Ids

-----------------------------------------------------------------------------
(* The copy and the store.                                                 *)

\* What an operation may save.
MaySave(n, then) ==
    /\ n \in Run /\ then \in {"return", "advance", "call"}
    /\ Keeps(db, n) /\ WaitsInStep(n)
    /\ then = "call" => CallIsOpen(n)

LEMMA SaveKeeps ==
    ASSUME RunInv, UNCHANGED <<db, setup>>, NEW n, NEW then, Save(n, then), MaySave(n, then)
    PROVE  RunInv'
<1>1. run' = n /\ pc' = [at |-> "save", then |-> then]
  BY DEF Save
<1>2. Steps' = Steps /\ Run' = Run
  BY DEF Steps, Flow, Run, Ids
<1>3. RunTyped'
  BY <1>1, <1>2 DEF RunInv, RunTyped, MaySave, Places
<1>4. CopyInv'
  <2>1. pc'.at = "save" /\ pc'.then = then
    BY <1>1
  <2>2. Keeps(db, run)' /\ WaitsInStep(run)'
    BY <1>1, <1>2 DEF MaySave, Keeps, WaitsInStep
  <2>3. then = "call" => CallIsOpen(run)'
    BY <1>1, <1>2 DEF MaySave, CallIsOpen
  <2> QED
    BY <2>1, <2>2, <2>3 DEF CopyInv
<1>5. WaitsInStep(db)'
  BY DEF RunInv, WaitsInStep
<1> QED
  BY <1>3, <1>4, <1>5 DEF RunInv

\* The copy is dropped, and the store has what it had or the copy that was being saved.
LEMMA EndKeeps ==
    ASSUME RunInv, UNCHANGED setup, Ended, db' = db \/ (db' = run /\ pc.at # "idle") PROVE RunInv'
<1>1. Steps' = Steps /\ Run' = Run /\ NewRun' = NewRun
  BY DEF Steps, Flow, Run, Ids, NewRun
<1>2. RunTyped' /\ CopyInv'
  BY <1>1, NewRunIs DEF RunInv, RunTyped, CopyInv, Ended, Idle, Places
<1>3. WaitsInStep(db)'
  BY DEF RunInv, CopyInv, WaitsInStep
<1> QED
  BY <1>2, <1>3 DEF RunInv

LEMMA WrittenKeeps == ASSUME RunInv, Written PROVE RunInv'
<1>1. pc.at = "save" /\ db' = run /\ UNCHANGED setup
  BY DEF Written, Stored
<1>2. CASE pc.then = "return"
  BY <1>1, <1>2, EndKeeps DEF Written
<1>3. CASE pc.then # "return"
  <2>1. pc' = [at |-> pc.then, then |-> "return"] /\ UNCHANGED <<run, setup>> /\ pc.then \in {"advance", "call"}
    BY <1>3 DEF Written, At, RunInv, RunTyped, Places
  <2>2. Steps' = Steps /\ Run' = Run
    BY <2>1 DEF Steps, Flow, Run, Ids
  <2>3. RunTyped'
    BY <1>1, <2>1, <2>2 DEF RunInv, RunTyped, Places
  <2>4. CopyInv'
    BY <1>1, <2>1, <2>2 DEF RunInv, CopyInv, Keeps, WaitsInStep, CallIsOpen
  <2>5. WaitsInStep(db)'
    BY <1>1 DEF RunInv, CopyInv, WaitsInStep
  <2> QED
    BY <2>3, <2>4, <2>5 DEF RunInv
<1> QED
  BY <1>2, <1>3

\* A step of _advance's loop that is entered is not completed.
LEMMA EnteringIs ==
    ASSUME RunInv, NEW types, Entering(types)
    PROVE  /\ run \in Run /\ Current = run.current /\ Current \in Steps
           /\ run.steps[Current].status # "completed" /\ run.status = "running"
           /\ Keeps(db, run)
BY DEF Entering, InLoop, Skipped, Current, RunInv, RunTyped, CopyInv, Run, Ids

\* A tool failed, or was not let through: its step was not completed.
LEMMA FailureKeeps ==
    ASSUME SetupAssumption, RunInv, NEW r \in Run, NEW s \in Steps, Keeps(db, r),
           db.steps[s].status # "completed", UNCHANGED <<db, setup>>, ToolFailed(r, s)
    PROVE  RunInv'
<1> DEFINE n == SetStep(r, s, "failed")
<1>1. /\ n \in Run /\ n.status = r.status /\ n.current = r.current
      /\ n.steps[s].status = "failed" /\ \A t \in Steps : t # s => n.steps[t] = r.steps[t]
  BY SetStepIs DEF StepStates
<1>2. Keeps(db, n)
  BY <1>1 DEF Keeps
<1>3. "failed" \in RunStates /\ "running" \in RunStates
  BY DEF RunStates, Terminal
<1>4. Flow[s].onFailure \in Ids
  BY FlowFacts DEF RunInv, RunTyped
<1>5. CASE Flow[s].onFailure # NoStep
  <2> DEFINE m == [n EXCEPT !.status = "running", !.current = Flow[s].onFailure]
  <2>1. Save(m, "advance")
    BY <1>5 DEF ToolFailed
  <2> HIDE DEF n
  <2>2. m \in Run /\ m.status = "running" /\ m.steps = n.steps
    BY <1>1, <1>3, <1>4, MovedIs DEF Run
  <2>3. MaySave(m, "advance")
    BY <1>2, <2>2 DEF MaySave, Keeps, WaitsInStep
  <2> QED
    BY <2>1, <2>3, SaveKeeps
<1>6. CASE Flow[s].onFailure = NoStep
  <2> DEFINE m == [n EXCEPT !.status = "failed"]
  <2>1. Save(m, "return")
    BY <1>6 DEF ToolFailed, Finish
  <2>2. m \in Run /\ m.status = "failed" /\ m.steps = n.steps
    BY <1>1, <1>3, MovedIs DEF Run
  <2>3. MaySave(m, "return")
    BY <1>2, <2>2 DEF MaySave, Keeps, WaitsInStep
  <2> QED
    BY <2>1, <2>3, SaveKeeps
<1> QED
  BY <1>5, <1>6

LEMMA AdvanceKeeps == ASSUME SetupAssumption, RunInv, Advance PROVE RunInv'
<1>0. /\ setup \in Setups
      /\ "running" \in RunStates /\ "failed" \in RunStates /\ "completed" \in RunStates
      /\ "waiting_for_input" \in RunStates
      /\ "completed" \in StepStates /\ "failed" \in StepStates /\ "waiting" \in StepStates
  BY DEF RunInv, RunTyped, RunStates, Terminal, StepStates
<1>1. CASE SkipCompleted
  <2> DEFINE n == [run EXCEPT !.current = NextId(run.current)]
  <2>1. /\ pc.at = "advance" /\ run \in Run /\ run.status = "running" /\ run.current \in Steps
        /\ run' = n /\ UNCHANGED <<pc, db, setup>> /\ Keeps(db, run)
    BY <1>1 DEF SkipCompleted, InLoop, Current, Unaffected, RunInv, RunTyped, CopyInv, Run, Ids
  <2>2. n \in Run /\ n.steps = run.steps /\ n.status = run.status
    BY <1>0, <2>1, FlowFacts, MovedIs DEF Run
  <2> HIDE DEF n
  <2>3. Steps' = Steps /\ Run' = Run
    BY <2>1 DEF Steps, Flow, Run, Ids
  <2>4. RunTyped' /\ WaitsInStep(db)'
    BY <2>1, <2>2, <2>3 DEF RunInv, RunTyped, WaitsInStep
  <2>5. CopyInv'
    BY <2>1, <2>2, <2>3 DEF CopyInv, Keeps, WaitsInStep
  <2> QED
    BY <2>4, <2>5 DEF RunInv
<1>2. CASE ToToolStep
  <2>1. /\ run \in Run /\ run.current \in Steps /\ run.status = "running"
        /\ run.steps[run.current].status # "completed" /\ Keeps(db, run)
        /\ UNCHANGED <<run, db, setup>> /\ pc' = At("call")
    BY <1>2, EnteringIs DEF ToToolStep, Unaffected, Current
  <2>2. Steps' = Steps /\ Run' = Run
    BY <2>1 DEF Steps, Flow, Run, Ids
  <2>3. RunTyped' /\ WaitsInStep(db)'
    BY <2>1, <2>2 DEF RunInv, RunTyped, WaitsInStep, Places, At
  <2>4. CopyInv'
    BY <2>1, <2>2 DEF CopyInv, Keeps, WaitsInStep, CallIsOpen
  <2> QED
    BY <2>3, <2>4 DEF RunInv
<1>3. CASE PlainStep
  <2>1. /\ run \in Run /\ Current \in Steps /\ run.status = "running" /\ Keeps(db, run)
        /\ UNCHANGED <<db, setup>> /\ Current = run.current
    BY <1>3, EnteringIs DEF PlainStep, Unaffected
  <2> DEFINE n == SetStep(run, Current, "completed")
  <2>2. PICK to \in Ids : Save([n EXCEPT !.current = to], "advance")
    BY <1>0, <1>3, <2>1, FlowFacts DEF PlainStep
  <2>3. n \in Run /\ n.status = "running" /\ Keeps(db, n)
    BY <1>0, <2>1, SetStepIs, StepKept
  <2> HIDE DEF n
  <2> DEFINE m == [n EXCEPT !.current = to]
  <2>4. m \in Run /\ m.status = "running" /\ m.steps = n.steps
    BY <1>0, <2>3, MovedIs DEF Run
  <2>5. MaySave(m, "advance")
    BY <2>3, <2>4 DEF MaySave, Keeps, WaitsInStep
  <2> QED
    BY <2>1, <2>2, <2>5, SaveKeeps
<1>4. CASE StepRaises
  <2>1. /\ run \in Run /\ Current \in Steps /\ run.status = "running" /\ Keeps(db, run)
        /\ run.steps[Current].status # "completed" /\ pc.at = "advance"
        /\ UNCHANGED <<db, setup>> /\ Current = run.current
    BY <1>4, EnteringIs DEF StepRaises, Unaffected, Entering, InLoop
  <2> DEFINE n == SetStep(run, Current, "failed")
  <2>2. n \in Run /\ n.status = "running" /\ Keeps(db, n)
    BY <1>0, <2>1, SetStepIs, StepKept
  <2>3. CASE Flow[Current].onFailure # NoStep
    <3> DEFINE to == Flow[Current].onFailure
               m == [n EXCEPT !.current = to]
    <3>1. run' = m /\ UNCHANGED pc
      BY <1>4, <2>3 DEF StepRaises
    <3>2. to \in Ids
      BY <1>0, <2>1, FlowFacts
    <3> HIDE DEF to
    <3> HIDE DEF n
    <3>3. m \in Run /\ m.status = "running" /\ m.steps = n.steps
      BY <1>0, <2>2, <3>2, MovedIs DEF Run
    <3> HIDE DEF m
    <3>4. Steps' = Steps /\ Run' = Run
      BY <2>1 DEF Steps, Flow, Run, Ids
    <3>5. RunTyped' /\ WaitsInStep(db)'
      BY <2>1, <3>1, <3>3, <3>4 DEF RunInv, RunTyped, WaitsInStep
    <3>6. CopyInv'
      BY <2>1, <2>2, <3>1, <3>3, <3>4 DEF CopyInv, Keeps, WaitsInStep
    <3> QED
      BY <3>5, <3>6 DEF RunInv
  <2>4. CASE Flow[Current].onFailure = NoStep
    <3> DEFINE m == [n EXCEPT !.status = "failed"]
    <3>1. Save(m, "return")
      BY <1>4, <2>4 DEF StepRaises, Finish
    <3> HIDE DEF n
    <3>2. m \in Run /\ m.status = "failed" /\ m.steps = n.steps
      BY <1>0, <2>2, MovedIs DEF Run
    <3>3. MaySave(m, "return")
      BY <2>2, <3>2 DEF MaySave, Keeps, WaitsInStep
    <3> QED
      BY <2>1, <3>1, <3>3, SaveKeeps
  <2> QED
    BY <2>3, <2>4
<1>5. CASE AskStep
  <2>1. /\ run \in Run /\ Current \in Steps /\ run.status = "running" /\ Keeps(db, run)
        /\ run.steps[Current].status # "completed"
        /\ UNCHANGED <<db, setup>> /\ Current = run.current
    BY <1>5, EnteringIs DEF AskStep, Unaffected
  <2>2. CASE Save([SetStep(run, Current, "waiting") EXCEPT !.status = "waiting_for_input"], "return")
    <3> DEFINE n == SetStep(run, Current, "waiting")
               m == [n EXCEPT !.status = "waiting_for_input"]
    <3>1. n \in Run /\ Keeps(db, n)
      BY <1>0, <2>1, SetStepIs, StepKept
    <3> HIDE DEF n
    <3>2. m \in Run /\ m.status = "waiting_for_input" /\ m.steps = n.steps
      BY <1>0, <3>1, MovedIs DEF Run
    <3>3. MaySave(m, "return")
      BY <3>1, <3>2 DEF MaySave, Keeps, WaitsInStep
    <3> QED
      BY <2>1, <2>2, <3>3, SaveKeeps DEF n
  <2>3. CASE Save([SetStep(run, Current, "completed") EXCEPT !.current = NextId(Current)], "advance")
    <3> DEFINE n == SetStep(run, Current, "completed")
               to == NextId(Current)
               m == [n EXCEPT !.current = to]
    <3>1. n \in Run /\ n.status = "running" /\ Keeps(db, n)
      BY <1>0, <2>1, SetStepIs, StepKept
    <3>2. to \in Ids
      BY <1>0, <2>1, FlowFacts
    <3> HIDE DEF n, to
    <3>3. m \in Run /\ m.status = "running" /\ m.steps = n.steps
      BY <1>0, <3>1, <3>2, MovedIs DEF Run
    <3>4. MaySave(m, "advance")
      BY <3>1, <3>3 DEF MaySave, Keeps, WaitsInStep
    <3> QED
      BY <2>1, <2>3, <3>4, SaveKeeps DEF n, to
  <2> QED
    BY <1>5, <2>2, <2>3 DEF AskStep
<1>6. CASE EndStep
  <2>1. /\ run \in Run /\ Current \in Steps /\ Keeps(db, run) /\ UNCHANGED <<db, setup>>
    BY <1>6, EnteringIs DEF EndStep, Unaffected
  <2> DEFINE n == SetStep(run, Current, "completed")
             m == [n EXCEPT !.status = "completed"]
  <2>2. Save(m, "return")
    BY <1>6 DEF EndStep, Finish
  <2>3. n \in Run /\ Keeps(db, n)
    BY <1>0, <2>1, SetStepIs, StepKept
  <2> HIDE DEF n
  <2>4. m \in Run /\ m.status = "completed" /\ m.steps = n.steps
    BY <1>0, <2>3, MovedIs DEF Run
  <2>5. MaySave(m, "return")
    BY <2>3, <2>4 DEF MaySave, Keeps, WaitsInStep
  <2> QED
    BY <2>1, <2>2, <2>5, SaveKeeps
<1>7. CASE AdvanceStops
  <2>1. run \in Run /\ Keeps(db, run) /\ UNCHANGED <<db, setup>>
    BY <1>7 DEF AdvanceStops, Unaffected, RunInv, RunTyped, CopyInv
  <2> DEFINE m == [run EXCEPT !.status = "failed"]
  <2>2. Save(m, "return")
    BY <1>7 DEF AdvanceStops, Finish
  <2>3. m \in Run /\ m.status = "failed" /\ m.steps = run.steps
    BY <1>0, <2>1, MovedIs DEF Run
  <2>4. MaySave(m, "return")
    BY <2>1, <2>3 DEF MaySave, Keeps, WaitsInStep
  <2> QED
    BY <2>1, <2>2, <2>4, SaveKeeps
<1> QED
  BY <1>1, <1>2, <1>3, <1>4, <1>5, <1>6, <1>7 DEF Advance

LEMMA CallKeeps == ASSUME SetupAssumption, RunInv, Call PROVE RunInv'
<1>0. /\ setup \in Setups
      /\ "running" \in RunStates /\ "waiting_for_permission" \in RunStates
      /\ "running" \in StepStates /\ "pending" \in StepStates /\ "completed" \in StepStates
      /\ "waiting" \in StepStates
  BY DEF RunInv, RunTyped, RunStates, Terminal, StepStates
<1>1. /\ run \in Run /\ Current = run.current /\ Current \in Steps /\ pc.at = "call" /\ run.status = "running"
      /\ run.steps[Current].status # "completed" /\ db.steps[Current].status # "completed"
      /\ Keeps(db, run) /\ UNCHANGED <<db, setup>>
  <2>1. pc.at = "call" /\ UNCHANGED <<db, setup>>
    BY DEF Call, ToolSucceeds, ToolFails, CallRefused, ToolAsks, InCall, Executed
  <2> QED
    BY <2>1 DEF RunInv, RunTyped, CopyInv, CallIsOpen, Current, Keeps
<1> DEFINE c == Called(run, Current)
<1>2. /\ c \in Run /\ c.status = run.status /\ c.current = Current /\ c.steps[Current].status = "running"
      /\ \A t \in Steps : t # Current => c.steps[t] = run.steps[t]
  BY <1>1, CalledIs
<1> HIDE DEF c
<1>3. Keeps(db, c)
  BY <1>1, <1>2 DEF Keeps
<1>4. CASE ToolSucceeds
  <2> DEFINE n == SetStep(c, Current, "completed")
             to == NextId(Current)
             m == [n EXCEPT !.current = to, !.status = "running"]
  <2>1. Save(m, "advance")
    BY <1>4 DEF ToolSucceeds, Succeeded, c
  <2>2. n \in Run /\ Keeps(db, n)
    BY <1>0, <1>1, <1>2, <1>3, SetStepIs, StepKept
  <2>3. to \in Ids
    BY <1>0, <1>1, FlowFacts
  <2> HIDE DEF n, to
  <2>4. m \in Run /\ m.status = "running" /\ m.steps = n.steps
    BY <1>0, <2>2, <2>3, MovedIs DEF Run
  <2>5. MaySave(m, "advance")
    BY <2>2, <2>4 DEF MaySave, Keeps, WaitsInStep
  <2> QED
    BY <1>1, <2>1, <2>5, SaveKeeps
<1>5. CASE ToolFails
  <2>1. CASE ToolFailed(c, Current)
    BY <1>1, <1>2, <1>3, <2>1, FailureKeeps
  <2>2. CASE Save(SetStep(c, Current, "pending"), "call")
    <3> DEFINE n == SetStep(c, Current, "pending")
    <3>0. Current \in Steps /\ c \in Run /\ "pending" \in StepStates
      BY <1>0, <1>1, <1>2 DEF StepStates
    <3>1. /\ n \in Run /\ n.status = c.status /\ n.current = c.current
          /\ n.steps[Current].status = "pending"
      BY <3>0, SetStepIs
    <3>2. Keeps(db, n)
      BY <1>0, <1>1, <1>2, <1>3, StepKept
    <3> HIDE DEF n
    <3>3. n.status = "running" /\ n.current = Current
      BY <1>1, <1>2, <3>1
    <3>4. MaySave(n, "call")
      BY <1>1, <3>1, <3>2, <3>3 DEF MaySave, WaitsInStep, CallIsOpen
    <3> QED
      BY <1>1, <2>2, <3>4, SaveKeeps DEF n
  <2> QED
    BY <1>5, <2>1, <2>2 DEF ToolFails, c
<1>6. CASE CallRefused
  BY <1>1, <1>2, <1>3, <1>6, FailureKeeps DEF CallRefused, c
<1>7. CASE ToolAsks
  <2> DEFINE n == SetStep(c, Current, "waiting")
             m == [n EXCEPT !.status = "waiting_for_permission"]
  <2>1. Save(m, "return")
    BY <1>7 DEF ToolAsks, c
  <2>0. Current \in Steps /\ c \in Run /\ c.current = Current /\ "waiting" \in StepStates
    BY <1>0, <1>1, <1>2 DEF StepStates
  <2>a. n \in Run /\ n.current = Current /\ n.steps[Current].status = "waiting"
    BY <2>0, SetStepIs
  <2>b. Keeps(db, n)
    BY <1>0, <1>1, <1>2, <1>3, StepKept
  <2>2. n \in Run /\ Keeps(db, n) /\ n.current = Current /\ n.steps[Current].status = "waiting"
    BY <2>a, <2>b
  <2> HIDE DEF n
  <2>3. m \in Run /\ m.steps = n.steps /\ m.current = Current
    BY <1>0, <2>2, MovedIs DEF Run
  <2>4. MaySave(m, "return")
    BY <2>2, <2>3 DEF MaySave, Keeps, WaitsInStep
  <2> QED
    BY <1>1, <2>1, <2>4, SaveKeeps
<1> QED
  BY <1>4, <1>5, <1>6, <1>7 DEF Call

LEMMA OperationKeeps == ASSUME SetupAssumption, RunInv, Operation PROVE RunInv'
<1>0. /\ setup \in Setups /\ db \in Run /\ run \in Run /\ UNCHANGED <<db, setup>>
      /\ Keeps(db, db) /\ WaitsInStep(db)
      /\ "running" \in RunStates /\ "waiting_for_input" \in RunStates /\ "paused" \in RunStates
      /\ "cancelled" \in RunStates /\ "completed" \in StepStates
  BY DEF RunInv, RunTyped, RunStates, Terminal, StepStates, Keeps, Operation, Start, ProvideInput,
         Approve, ApproveRecreated, ApproveTorn, ApproveRuns, Deny, Pause, Resume, Cancel, Executed
<1>1. CASE Start
  <2>1. Keeps(db, NewRun)
    BY <1>1 DEF Start, Keeps
  <2>2. CASE Save([NewRun EXCEPT !.status = "waiting_for_input"], "return")
    <3> DEFINE m == [NewRun EXCEPT !.status = "waiting_for_input"]
    <3>1. m \in Run /\ m.status = "waiting_for_input" /\ m.steps = NewRun.steps
      BY <1>0, NewRunIs, MovedIs DEF Run
    <3>2. MaySave(m, "return")
      BY <2>1, <3>1 DEF MaySave, Keeps, WaitsInStep
    <3> QED
      BY <1>0, <2>2, <3>2, SaveKeeps
  <2>3. CASE Save([NewRun EXCEPT !.status = "running", !.current = 1], "advance")
    <3> DEFINE m == [NewRun EXCEPT !.status = "running", !.current = 1]
    <3>1. 1 \in Ids
      BY <1>0, FlowFacts DEF Ids
    <3>2. m \in Run /\ m.status = "running" /\ m.steps = NewRun.steps
      BY <1>0, <3>1, NewRunIs, MovedIs DEF Run
    <3>3. MaySave(m, "advance")
      BY <2>1, <3>2 DEF MaySave, Keeps, WaitsInStep
    <3> QED
      BY <1>0, <2>3, <3>3, SaveKeeps
  <2> QED
    BY <1>1, <2>2, <2>3 DEF Start
<1>2. CASE ProvideInput
  <2>1. CASE Save(db, "return")
    <3>1. MaySave(db, "return")
      BY <1>0 DEF MaySave
    <3> QED
      BY <1>0, <2>1, <3>1, SaveKeeps
  <2>2. CASE Save([InputTaken(db) EXCEPT !.status = "running"], "advance")
    <3> DEFINE n == InputTaken(db)
               m == [n EXCEPT !.status = "running"]
    <3>1. n \in Run /\ Keeps(db, n)
      <4>1. CASE db.current = NoStep
        <5>1. n = [db EXCEPT !.current = 1] /\ 1 \in Ids
          BY <1>0, <4>1, FlowFacts DEF InputTaken, Ids
        <5>2. n \in Run /\ n.steps = db.steps
          BY <1>0, <5>1 DEF Run
        <5> QED
          BY <1>0, <5>2 DEF Keeps
      <4>2. CASE db.current # NoStep /\ db.steps[db.current].status = "waiting"
        <5> DEFINE q == SetStep(db, db.current, "completed")
                   to == NextId(db.current)
        <5>1. db.current \in Steps /\ n = [q EXCEPT !.current = to]
          BY <1>0, <4>2 DEF InputTaken, Run, Ids
        <5>2. q \in Run /\ Keeps(db, q) /\ to \in Ids
          BY <1>0, <5>1, SetStepIs, StepKept, FlowFacts
        <5> HIDE DEF q, to, n
        <5>3. n \in Run /\ n.steps = q.steps
          BY <5>1, <5>2 DEF Run
        <5> QED
          BY <5>2, <5>3 DEF Keeps
      <4>3. CASE db.current # NoStep /\ db.steps[db.current].status # "waiting"
        BY <1>0, <4>3 DEF InputTaken
      <4> QED
        BY <4>1, <4>2, <4>3
    <3> HIDE DEF n
    <3>2. m \in Run /\ m.status = "running" /\ m.steps = n.steps
      BY <1>0, <3>1, MovedIs DEF Run
    <3>3. MaySave(m, "advance")
      BY <3>1, <3>2 DEF MaySave, Keeps, WaitsInStep
    <3> QED
      BY <1>0, <2>2, <3>3, SaveKeeps DEF n
  <2> QED
    BY <1>2, <2>1, <2>2 DEF ProvideInput
<1>3. CASE Approve \/ ApproveRecreated
  <2> DEFINE m == [db EXCEPT !.status = "running"]
  <2>1. /\ Save(m, "call") /\ db.status = "waiting_for_permission"
        /\ db.current \in Steps /\ db.steps[db.current].status = "waiting"
    BY <1>0, <1>3 DEF Approve, ApproveRecreated, WaitsForPermission, WaitsInStep, Run, Ids
  <2>2. m \in Run /\ m.status = "running" /\ m.steps = db.steps /\ m.current = db.current
    BY <1>0, MovedIs DEF Run
  <2> HIDE DEF m
  <2>3. MaySave(m, "call")
    BY <1>0, <2>1, <2>2 DEF MaySave, Keeps, WaitsInStep, CallIsOpen
  <2> QED
    BY <1>0, <2>1, <2>3, SaveKeeps
<1>4. CASE ApproveTorn \/ ApproveRuns
  <2>1. UNCHANGED <<db, run, pc, setup>>
    BY <1>4 DEF ApproveTorn, ApproveRuns, Executed
  <2> QED
    BY <2>1 DEF RunInv, RunTyped, CopyInv, Keeps, WaitsInStep, CallIsOpen, Steps, Flow, Run, Ids
<1>5. CASE Deny
  <2>1. ToolFailed(db, db.current) /\ db.current \in Steps /\ db.steps[db.current].status = "waiting"
    BY <1>0, <1>5 DEF Deny, WaitsForPermission, Asked, WaitsInStep, Run, Ids
  <2> QED
    BY <1>0, <2>1, FailureKeeps
<1>6. CASE Pause
  <2> DEFINE m == [db EXCEPT !.status = "paused"]
  <2>1. m \in Run /\ m.status = "paused" /\ m.steps = db.steps
    BY <1>0, MovedIs DEF Run
  <2>2. MaySave(m, "return")
    BY <1>0, <2>1 DEF MaySave, Keeps, WaitsInStep
  <2> QED
    BY <1>0, <1>6, <2>2, SaveKeeps DEF Pause
<1>7. CASE Resume
  <2> DEFINE m == [db EXCEPT !.status = "running"]
  <2>1. m \in Run /\ m.status = "running" /\ m.steps = db.steps
    BY <1>0, MovedIs DEF Run
  <2>2. MaySave(m, "advance")
    BY <1>0, <2>1 DEF MaySave, Keeps, WaitsInStep
  <2> QED
    BY <1>0, <1>7, <2>2, SaveKeeps DEF Resume
<1>8. CASE Cancel
  <2> DEFINE rows == [s \in Steps |->
                  IF db.steps[s].status \in {"pending", "waiting"}
                  THEN [db.steps[s] EXCEPT !.status = "cancelled"] ELSE db.steps[s]]
             n == [db EXCEPT !.steps = rows]
             m == [n EXCEPT !.status = "cancelled"]
  <2>1. Save(m, "return")
    BY <1>8 DEF Cancel, Finish
  <2>2. ASSUME NEW s \in Steps
        PROVE  /\ rows[s] \in StepRows
               /\ db.steps[s].status = "completed" => rows[s].status = "completed"
    <3>1. db.steps[s] \in StepRows
      BY <1>0 DEF Run, StepRows
    <3> QED
      BY <3>1 DEF StepRows, StepStates
  <2>3. rows \in [Steps -> StepRows]
    BY <2>2
  <2>4. \A s \in Steps : db.steps[s].status = "completed" => rows[s].status = "completed"
    BY <2>2
  <2> HIDE DEF rows
  <2>5. n \in Run /\ n.steps = rows
    BY <1>0, <2>3 DEF Run, StepRows
  <2> HIDE DEF n
  <2>6. m \in Run /\ m.status = "cancelled" /\ m.steps = n.steps
    BY <1>0, <2>5, MovedIs DEF Run
  <2>7. MaySave(m, "return")
    BY <2>4, <2>5, <2>6 DEF MaySave, Keeps, WaitsInStep
  <2> QED
    BY <1>0, <2>1, <2>7, SaveKeeps
<1> QED
  BY <1>1, <1>2, <1>3, <1>4, <1>5, <1>6, <1>7, <1>8 DEF Operation

LEMMA RunNext == ASSUME SetupAssumption, RunInv, [Next]_vars PROVE RunInv'
<1>1. CASE Written
  BY <1>1, WrittenKeeps
<1>2. CASE Advance
  BY <1>2, AdvanceKeeps
<1>3. CASE Call
  BY <1>3, CallKeeps
<1>4. CASE Operation
  BY <1>4, OperationKeeps
<1>5. CASE (\E s \in Steps : Expire(s) \/ PolicyChanges(s)) \/ UNCHANGED vars
  <2>1. UNCHANGED <<db, run, pc, setup>>
    BY <1>5 DEF Expire, PolicyChanges, vars
  <2> QED
    BY <2>1 DEF RunInv, RunTyped, CopyInv, Keeps, WaitsInStep, CallIsOpen, Steps, Flow, Run, Ids
<1>6. CASE CutShort \/ Restart
  <2>1. Ended /\ UNCHANGED setup /\ (db' = db \/ (db' = run /\ pc.at # "idle"))
    BY <1>6 DEF CutShort, Restart, Executed
  <2> QED
    BY <2>1, EndKeeps
<1> QED
  BY <1>1, <1>2, <1>3, <1>4, <1>5, <1>6 DEF Next

-----------------------------------------------------------------------------
(* The questions.                                                          *)

\* What may become of the questions and of what is counted of a step.
Counted(s) ==
    \/ /\ asked'[s] = asked[s] /\ approvals'[s] = approvals[s]
       /\ question'[s] = "granted" => question[s] = "granted"
    \/ asked'[s] = asked[s] /\ approvals'[s] = approvals[s] + 1
    \/ /\ asked'[s] = asked[s] + 1 /\ approvals'[s] = approvals[s]
       /\ question[s] = "granted" /\ question'[s] # "granted"

LEMMA GateNext ==
    ASSUME SetupAssumption, RunInv, GateInv, [Next]_vars PROVE GateInv'
<1>r. /\ pc.at = "call" => Current \in Steps
      /\ WaitsForPermission => Asked \in Steps
  BY DEF RunInv, RunTyped, CopyInv, CallIsOpen, Current, WaitsForPermission, Asked, Run, Ids
<1>0. /\ UNCHANGED setup /\ Steps' = Steps
      /\ question \in [Steps -> Questions] /\ asked \in [Steps -> Nat] /\ approvals \in [Steps -> Nat]
      /\ calls \in [Steps -> Nat]
  <2>1. UNCHANGED setup
    BY DEF Next, vars, Written, Advance, SkipCompleted, ToToolStep, PlainStep, StepRaises, AskStep,
           EndStep, AdvanceStops, Unaffected, Call, ToolSucceeds, ToolFails, CallRefused, ToolAsks,
           Executed, Operation, Start, ProvideInput, Approve, ApproveRecreated, ApproveTorn,
           ApproveRuns, Deny, Pause, Resume, Cancel, Expire, PolicyChanges, CutShort, Restart
  <2> QED
    BY <2>1 DEF GateInv, GateTyped, Steps, Flow
<1>1. ASSUME GateTyped', \A s \in Steps : Counted(s) PROVE GateInv'
  <2>1. ASSUME NEW s \in Steps
        PROVE  /\ asked'[s] <= approvals'[s]
               /\ question'[s] = "granted" => asked'[s] + 1 <= approvals'[s]
    <3>1. /\ asked[s] \in Nat /\ approvals[s] \in Nat /\ asked[s] <= approvals[s] /\ Counted(s)
          /\ question[s] = "granted" => asked[s] + 1 <= approvals[s]
      BY <1>0, <1>1 DEF GateInv, GrantInv
    <3> QED
      BY <3>1 DEF Counted
  <2> QED
    BY <1>0, <1>1, <2>1 DEF GateInv, GrantInv
<1>2. ASSUME UNCHANGED <<question, history>> PROVE GateInv'
  BY <1>0, <1>2 DEF GateInv, GateTyped, GrantInv, history
<1>3. ASSUME UNCHANGED history, question' \in [Steps -> Questions],
             \A s \in Steps : question'[s] = "granted" => question[s] = "granted"
      PROVE  GateInv'
  BY <1>0, <1>1, <1>3 DEF GateTyped, Counted, history
<1>4. ASSUME NEW t \in Steps, Executed(t) PROVE GateInv'
  <2>1. /\ calls' = [calls EXCEPT ![t] = @ + 1] /\ approvals' = approvals
        /\ asked' = [asked EXCEPT ![t] = @ + IF question[t] = "granted" THEN 1 ELSE 0]
        /\ question' = [question EXCEPT ![t] = IF @ = "granted" THEN "spent" ELSE @]
    BY <1>4 DEF Executed, GrantUsed
  <2>2. GateTyped'
    <3>1. question' \in [Steps -> Questions]
      BY <1>0, <2>1 DEF Questions
    <3>2. calls' \in [Steps -> Nat]
      BY <1>0, <2>1
    <3>3. asked' \in [Steps -> Nat]
      <4>1. CASE question[t] = "granted"
        BY <1>0, <2>1, <4>1
      <4>2. CASE question[t] # "granted"
        BY <1>0, <2>1, <4>2
      <4> QED
        BY <4>1, <4>2
    <3> QED
      BY <1>0, <2>1, <3>1, <3>2, <3>3 DEF GateTyped
  <2>3. ASSUME NEW s \in Steps PROVE Counted(s)
    <3>1. CASE s = t
      BY <1>0, <2>1, <3>1 DEF Counted
    <3>2. CASE s # t
      BY <1>0, <2>1, <3>2 DEF Counted
    <3> QED
      BY <3>1, <3>2
  <2> QED
    BY <1>1, <2>2, <2>3
<1>g. ASSUME UNCHANGED history, NEW t \in Steps, NEW u \in Questions, u # "granted",
             question' = [question EXCEPT ![t] = u]
      PROVE  GateInv'
  BY <1>0, <1>3, <1>g
<1>5. CASE Written \/ Advance \/ CallRefused \/ UNCHANGED vars
  BY <1>2, <1>5 DEF Written, Advance, SkipCompleted, ToToolStep, PlainStep, StepRaises, AskStep,
                    EndStep, AdvanceStops, Unaffected, CallRefused, vars, history
<1>6. CASE ToolSucceeds \/ ToolFails \/ ApproveRuns
  BY <1>r, <1>4, <1>6 DEF ToolSucceeds, ToolFails, InCall, ApproveRuns
<1>7. CASE Start \/ ProvideInput \/ Pause \/ Resume \/ \E s \in Steps : PolicyChanges(s)
  BY <1>2, <1>7 DEF Start, ProvideInput, Pause, Resume, PolicyChanges
<1>8. CASE ToolAsks \/ ApproveTorn \/ Deny \/ Cancel \/ \E s \in Steps : Expire(s)
  <2>0. {"open", "torn", "denied", "expired"} \subseteq Questions \ {"granted"}
    BY DEF Questions
  <2>1. \A t \in Steps : Denied(t) = [question EXCEPT ![t] = "denied"] \/ Denied(t) = question
    BY <1>0 DEF Denied
  <2>2. CASE ToolAsks
    BY <1>r, <1>g, <2>0, <2>2 DEF ToolAsks, InCall
  <2>3. CASE ApproveTorn
    BY <1>r, <1>g, <2>0, <2>3 DEF ApproveTorn
  <2>4. CASE Deny
    BY <1>r, <1>g, <1>2, <2>0, <2>1, <2>4 DEF Deny
  <2>5. CASE Cancel
    BY <1>r, <1>g, <1>2, <2>0, <2>1, <2>5 DEF Cancel
  <2>6. CASE \E s \in Steps : Expire(s)
    BY <1>g, <2>0, <2>6 DEF Expire
  <2> QED
    BY <1>8, <2>2, <2>3, <2>4, <2>5, <2>6
<1>9. CASE Approve \/ ApproveRecreated
  <2>1. PICK t \in Steps :
            /\ asked' = asked /\ calls' = calls
            /\ \/ /\ question' = [question EXCEPT ![t] = "granted"]
                  /\ approvals' = [approvals EXCEPT ![t] = @ + 1]
               \/ question' = question /\ approvals' = approvals
    <3>1. CASE ApproveRecreated
      BY <1>r, <3>1 DEF ApproveRecreated
    <3>2. CASE Approve
      <4>1. /\ asked' = asked /\ calls' = calls /\ Asked \in Steps
            /\ question' = [question EXCEPT ![Asked] = IF @ = "open" THEN "granted" ELSE @]
            /\ approvals' = [approvals EXCEPT ![Asked] = @ + IF question[Asked] = "open" THEN 1 ELSE 0]
        BY <1>r, <3>2 DEF Approve
      <4>2. CASE question[Asked] = "open"
        BY <4>1, <4>2
      <4>3. CASE question[Asked] # "open"
        BY <1>0, <4>1, <4>3
      <4> QED
        BY <4>2, <4>3
    <3> QED
      BY <1>9, <3>1, <3>2
  <2>2. GateTyped'
    <3>1. question' \in [Steps -> Questions]
      BY <1>0, <2>1 DEF Questions
    <3>2. approvals' \in [Steps -> Nat]
      <4>1. approvals[t] + 1 \in Nat
        BY <1>0
      <4>2. CASE approvals' = approvals
        BY <1>0, <4>2
      <4>3. CASE approvals' = [approvals EXCEPT ![t] = @ + 1]
        BY <1>0, <4>1, <4>3
      <4> QED
        BY <2>1, <4>2, <4>3
    <3> QED
      BY <1>0, <2>1, <3>1, <3>2 DEF GateTyped
  <2>3. ASSUME NEW s \in Steps PROVE Counted(s)
    <3>1. CASE s = t
      BY <1>0, <2>1, <3>1 DEF Counted
    <3>2. CASE s # t
      BY <1>0, <2>1, <3>2 DEF Counted
    <3> QED
      BY <3>1, <3>2
  <2> QED
    BY <1>1, <2>2, <2>3
<1>10. CASE CutShort
  BY <1>r, <1>2, <1>4, <1>10 DEF CutShort
<1>11. CASE Restart
  <2>1. UNCHANGED history /\ (question' = question \/ question' = [s \in Steps |-> "none"])
    BY <1>11 DEF Restart
  <2>2. question' \in [Steps -> Questions]
    BY <1>0, <2>1 DEF Questions
  <2> QED
    BY <1>0, <1>3, <2>1, <2>2
<1> QED
  BY <1>5, <1>6, <1>7, <1>8, <1>9, <1>10, <1>11 DEF Next, Call, Operation

LEMMA InitInv == SetupAssumption /\ Init => IInv
<1> SUFFICES ASSUME SetupAssumption, Init PROVE IInv
  OBVIOUS
<1>1. /\ setup \in Setups /\ db = NewRun /\ run = NewRun /\ pc = Idle
      /\ question = [s \in Steps |-> "none"] /\ calls = [s \in Steps |-> 0]
      /\ asked = [s \in Steps |-> 0] /\ approvals = [s \in Steps |-> 0]
  BY DEF Init
<1>2. RunInv
  BY <1>1, NewRunIs DEF RunInv, RunTyped, CopyInv, WaitsInStep, Places, Idle
<1>3. GateInv
  BY <1>1 DEF GateInv, GateTyped, GrantInv, Questions
<1> QED
  BY <1>2, <1>3 DEF IInv

LEMMA NextInv == ASSUME SetupAssumption, IInv, [Next]_vars PROVE IInv'
BY RunNext, GateNext DEF IInv, RunInv, RunTyped

-----------------------------------------------------------------------------
(* The theorems.                                                           *)

\* The run in the store and its copy, the questions and what was counted of them.
THEOREM RunInvariance == ASSUME SetupAssumption PROVE Spec => []IInv
<1>1. Init => IInv
  BY InitInv
<1>2. IInv /\ [Next]_vars => IInv'
  BY NextInv
<1> QED
  BY <1>1, <1>2, PTL DEF Spec

\* WorkflowRuntime with the gateway, for every accepted definition: an approval buys at
\* most one execution, whatever is repeated, cut short or restarted.
THEOREM EveryEffectIsApproved == ASSUME SetupAssumption PROVE Spec => []EffectNeedsApproval
<1>1. IInv => EffectNeedsApproval
  BY DEF IInv, GateInv, GrantInv, EffectNeedsApproval
<1> QED
  BY <1>1, RunInvariance, PTL

\* _advance and the operations, for every accepted definition: what the store has as
\* completed is not executed again.
THEOREM NoCompletedStepRuns == ASSUME SetupAssumption PROVE Spec => CompletedStepNotRerun
<1>1. IInv /\ [Next]_vars
         => [\A s \in Steps : db.steps[s].status = "completed" => calls'[s] = calls[s]]_vars
  <2> SUFFICES ASSUME IInv, Next, NEW s \in Steps, db.steps[s].status = "completed"
               PROVE  calls'[s] = calls[s]
    BY DEF vars
  <2>0. calls \in [Steps -> Nat]
    BY DEF IInv, GateInv, GateTyped
  <2>1. ASSUME NEW t, t # s, Executed(t) PROVE calls'[s] = calls[s]
    BY <2>0, <2>1 DEF Executed
  <2>2. CASE pc.at = "call" /\ Executed(Current)
    <3>1. Current # s
      BY <2>2 DEF IInv, RunInv, CopyInv, Keeps, CallIsOpen, Current
    <3> QED
      BY <2>1, <2>2, <3>1
  <2>3. CASE ApproveRuns
    <3>1. db.steps[Asked].status = "waiting"
      BY <2>3 DEF ApproveRuns, WaitsForPermission, IInv, RunInv, WaitsInStep, Asked
    <3> QED
      BY <2>1, <2>3, <3>1 DEF ApproveRuns
  <2>4. CASE UNCHANGED calls
    BY <2>4
  <2>5. UNCHANGED calls \/ (pc.at = "call" /\ Executed(Current)) \/ ApproveRuns
    BY DEF Next, Written, Advance, SkipCompleted, ToToolStep, PlainStep, StepRaises, AskStep,
           EndStep, AdvanceStops, Unaffected, Call, InCall, ToolSucceeds, ToolFails, CallRefused,
           ToolAsks, Operation, Start, ProvideInput, Approve, ApproveRecreated, ApproveTorn,
           Deny, Pause, Resume, Cancel, Expire, PolicyChanges, CutShort, Restart, history
  <2> QED
    BY <2>2, <2>3, <2>4, <2>5
<1>2. Init => IInv
  BY InitInv
<1>3. IInv /\ [Next]_vars => IInv'
  BY NextInv
<1> QED
  BY <1>1, <1>2, <1>3, PTL DEF Spec, CompletedStepNotRerun

-----------------------------------------------------------------------------
(***************************************************************************)
(* The local session (module Session).                                     *)
(*                                                                         *)
(* Helpers: what becomes of a window when a message joins it, when its     *)
(* first messages leave it, and when it is saved.                          *)
(***************************************************************************)

LEMMA LeastIs ==
    ASSUME NEW S, S \subseteq Nat, S # {}
    PROVE  Min(S) \in S /\ \A x \in S : Min(S) <= x
<1>1. PICK m \in S : \A y \in S : ~ (<<y, m>> \in OpToRel(<, Nat))
  BY NatLessThanWellFounded, WFMin, Zenon
<1>2. \A y \in S : m <= y
  <2> TAKE y \in S
  <2>1. <<y, m>> \in Nat \X Nat
    OBVIOUS
  <2>2. ~ (y < m)
    BY <1>1, <2>1, Zenon DEF OpToRel
  <2> QED
    BY <2>2
<1> QED
  BY <1>2 DEF Min

\* A value that is computed step by step.
Steppings(n, X) == [1..n -> [X -> X]]
Computes(f, n, X, x, step) ==
    f \in [0..n -> X] /\ f[0] = x /\ \A i \in 1..n : f[i] = step[i][f[i - 1]]

LEMMA StepsAre ==
    ASSUME NEW n \in Nat, NEW X, NEW x \in X, NEW step \in Steppings(n, X)
    PROVE  \E f : Computes(f, n, X, x, step)
<1> SUFFICES \E f \in [0..n -> X] : f[0] = x /\ \A i \in 1..n : f[i] = step[i][f[i - 1]]
  BY DEF Computes
<1> DEFINE Good(f, k) == f[0] = x /\ \A i \in 1..k : f[i] = step[i][f[i - 1]]
           Bad == { k \in 0..n : ~ \E f \in [0..n -> X] : Good(f, k) }
<1>0. step \in [1..n -> [X -> X]]
  BY DEF Steppings
<1>1. CASE Bad = {}
  <2>1. n \in 0..n
    OBVIOUS
  <2>2. n \notin Bad
    <3> HIDE DEF Bad
    <3> QED
      BY <1>1
  <2> QED
    BY <2>1, <2>2
<1>2. CASE Bad # {}
  <2>1. Min(Bad) \in Bad /\ \A y \in Bad : Min(Bad) <= y
    <3>1. Bad \subseteq Nat
      OBVIOUS
    <3> HIDE DEF Bad
    <3> QED
      BY <1>2, <3>1, LeastIs
  <2>2. PICK k \in 0..n : k = Min(Bad)
    BY <2>1
  <2>3. k # 0
    <3>1. [i \in 0..n |-> x] \in [0..n -> X]
      OBVIOUS
    <3>2. Good([i \in 0..n |-> x], 0)
      OBVIOUS
    <3>3. 0 \notin Bad
      BY <3>1, <3>2
    <3> QED
      BY <2>1, <2>2, <3>3
  <2>4. k - 1 \in 0..n /\ k - 1 \notin Bad
    <3>1. k - 1 \in 0..n /\ ~ (k <= k - 1)
      BY <2>3
    <3> HIDE DEF Bad
    <3> QED
      BY <2>1, <2>2, <3>1
  <2>5. PICK f \in [0..n -> X] : Good(f, k - 1)
    BY <2>4
  <2>6. PICK y \in X : y = step[k][f[k - 1]]
    BY <1>0, <2>3, <2>4
  <2>7. PICK g \in [0..n -> X] : g[k] = y /\ \A i \in 0..n : i # k => g[i] = f[i]
    <3>1. [f EXCEPT ![k] = y] \in [0..n -> X]
      OBVIOUS
    <3> QED
      BY <3>1
  <2>8. Good(g, k)
    <3>1. g[0] = x
      BY <2>3, <2>5, <2>7
    <3>2. ASSUME NEW i \in 1..k PROVE g[i] = step[i][g[i - 1]]
      <4>1. CASE i = k
        BY <2>6, <2>7, <4>1, <2>4
      <4>2. CASE i # k
        <5>1. i \in 1..(k - 1) /\ i \in 0..n /\ i - 1 \in 0..n /\ i - 1 # k
          BY <4>2
        <5>2. f[i] = step[i][f[i - 1]]
          BY <2>5, <5>1
        <5> QED
          BY <2>7, <4>2, <5>1, <5>2
      <4> QED
        BY <4>1, <4>2
    <3> QED
      BY <3>1, <3>2
  <2> QED
    BY <2>1, <2>2, <2>8
<1> QED
  BY <1>1, <1>2

\* ... and what holds of it at every step holds of it in the end.
LEMMA LastStepHas ==
    ASSUME NEW n \in Nat, NEW S, S \subseteq 0..n, 0 \in S, \A i \in 1..n : i - 1 \in S => i \in S
    PROVE  n \in S
<1> DEFINE Bad == (0..n) \ S
<1>1. CASE Bad = {}
  BY <1>1
<1>2. CASE Bad # {}
  <2>1. Min(Bad) \in Bad /\ \A y \in Bad : Min(Bad) <= y
    <3>1. Bad \subseteq Nat
      OBVIOUS
    <3> HIDE DEF Bad
    <3> QED
      BY <1>2, <3>1, LeastIs
  <2>2. PICK k \in 1..n : k = Min(Bad)
    BY <2>1
  <2>3. k - 1 \in S
    BY <2>1, <2>2
  <2> QED
    BY <2>1, <2>2, <2>3
<1> QED
  BY <1>1, <1>2

\* Between two replies of a window stands a user's message.
Alternates(s) ==
    \A j, k \in 1..Len(s) :
        j < k /\ s[j].kind = "reply" /\ s[k].kind = "reply" =>
            \E l \in 1..Len(s) : j < l /\ l < k /\ s[l].kind = "user"

\* ... and one after the last.
Asks(s) ==
    \A j \in 1..Len(s) : s[j].kind = "reply" => \E l \in 1..Len(s) : j < l /\ s[l].kind = "user"

\* A user's message that is in the window and also among those gone has no reply before it.
Foremost(s, gone) ==
    \A j, k \in 1..Len(s) : j < k /\ s[k].kind = "user" /\ s[k] \in gone => s[j].kind # "reply"

\* What holds of a window as long as nothing is trimmed, and what always does.
Proper  == { s \in Seq(Messages) : IsInjective(s) /\ Alternates(s) }
Windows == { s \in Proper : Len(s) <= Window }

LEMMA ProperIs ==
    ASSUME NEW s \in Proper
    PROVE  /\ s \in Seq(Messages) /\ Alternates(s)
           /\ \A i, j \in 1..Len(s) : s[i] = s[j] => i = j
           /\ Range(s) = { s[i] : i \in 1..Len(s) }
           /\ Range(s) \subseteq Messages
BY DEF Proper, IsInjective, Range

LEMMA IsProper ==
    ASSUME NEW s \in Seq(Messages), Alternates(s), \A i, j \in 1..Len(s) : s[i] = s[j] => i = j
    PROVE  s \in Proper
BY DEF Proper, IsInjective

LEMMA RangeIs ==
    ASSUME NEW X, NEW s \in Seq(X)
    PROVE  Range(s) = { s[i] : i \in 1..Len(s) } /\ Range(s) \subseteq X
BY DEF Range

\* A message that joins a window at its end.
LEMMA AppendIs ==
    ASSUME NEW X, NEW s \in Seq(X), NEW m \in X
    PROVE  /\ s \o <<m>> \in Seq(X) /\ Len(s \o <<m>>) = Len(s) + 1
           /\ (s \o <<m>>)[Len(s) + 1] = m
           /\ \A i \in 1..Len(s) : (s \o <<m>>)[i] = s[i]
           /\ Range(s \o <<m>>) = Range(s) \cup {m}
<1>1. /\ s \o <<m>> \in Seq(X) /\ Len(s \o <<m>>) = Len(s) + 1
      /\ (s \o <<m>>)[Len(s) + 1] = m
      /\ \A i \in 1..Len(s) : (s \o <<m>>)[i] = s[i]
  OBVIOUS
<1>2. PICK t \in Seq(X) : t = s \o <<m>>
  BY <1>1
<1>4. /\ Len(t) = Len(s) + 1 /\ t[Len(s) + 1] = m /\ Len(s) \in Nat
      /\ \A i \in 1..Len(s) : t[i] = s[i]
      /\ Range(t) = { t[i] : i \in 1..Len(t) } /\ Range(s) = { s[i] : i \in 1..Len(s) }
  <2>1. Range(t) = { t[i] : i \in 1..Len(t) }
    BY RangeIs
  <2>2. Range(s) = { s[i] : i \in 1..Len(s) }
    BY RangeIs
  <2>3. Len(s) \in Nat
    OBVIOUS
  <2> QED
    BY <1>1, <1>2, <2>1, <2>2, <2>3
<1>3. Range(t) = Range(s) \cup {m}
  <2>1. \A x \in Range(t) : x \in Range(s) \cup {m}
    <3>1. \A i \in 1..Len(t) : i = Len(s) + 1 \/ i \in 1..Len(s)
      BY <1>4
    <3> QED
      BY <1>4, <3>1
  <2>2. m \in Range(t)
    <3>1. Len(s) + 1 \in 1..Len(t)
      BY <1>4
    <3> QED
      BY <1>4, <3>1
  <2>3. \A x \in Range(s) : x \in Range(t)
    <3>1. \A i \in 1..Len(s) : i \in 1..Len(t) /\ t[i] = s[i]
      BY <1>4
    <3> QED
      BY <1>4, <3>1
  <2> QED
    BY <2>1, <2>2, <2>3
<1> QED
  BY <1>1, <1>2, <1>3

\* A user's message joins: the next reply may follow it.
LEMMA UserJoins ==
    ASSUME NEW s \in Proper, NEW m \in Messages, m.kind = "user", m \notin Range(s), NEW gone,
           Foremost(s, gone), m \in gone => \A j \in 1..Len(s) : s[j].kind # "reply"
    PROVE  s \o <<m>> \in Proper /\ Asks(s \o <<m>>) /\ Foremost(s \o <<m>>, gone)
<1>1. s \in Seq(Messages)
  BY ProperIs
<1>2. PICK t \in Seq(Messages) : t = s \o <<m>>
  BY <1>1, AppendIs
<1>3. /\ Len(t) = Len(s) + 1 /\ t[Len(s) + 1] = m /\ \A i \in 1..Len(s) : t[i] = s[i]
      /\ Len(s) \in Nat
  BY <1>1, <1>2, AppendIs
<1>4. \A i \in 1..Len(t) : i = Len(s) + 1 \/ (i \in 1..Len(s) /\ t[i] = s[i] /\ s[i] # m)
  BY <1>1, <1>3, RangeIs
<1>5. Asks(t)
  <2>1. \A j \in 1..Len(t) : t[j].kind = "reply" => j \in 1..Len(s) /\ j < Len(s) + 1
    BY <1>3, <1>4
  <2>2. Len(s) + 1 \in 1..Len(t) /\ t[Len(s) + 1].kind = "user"
    BY <1>3
  <2> QED
    BY <2>1, <2>2 DEF Asks
<1>6. Alternates(t)
  <2>1. SUFFICES ASSUME NEW j \in 1..Len(t), NEW k \in 1..Len(t), j < k, t[j].kind = "reply",
                        t[k].kind = "reply"
                 PROVE  \E l \in 1..Len(t) : j < l /\ l < k /\ t[l].kind = "user"
    BY DEF Alternates
  <2>2. /\ j \in 1..Len(s) /\ k \in 1..Len(s) /\ s[j].kind = "reply" /\ s[k].kind = "reply"
    BY <1>3, <1>4, <2>1
  <2>3. PICK l \in 1..Len(s) : j < l /\ l < k /\ s[l].kind = "user"
    BY <2>1, <2>2, ProperIs DEF Alternates
  <2> QED
    BY <1>3, <2>3
<1>7. \A i, j \in 1..Len(t) : t[i] = t[j] => i = j
  <2>1. \A i, j \in 1..Len(s) : s[i] = s[j] => i = j
    BY ProperIs
  <2> QED
    BY <1>3, <1>4, <2>1
<1>8. Foremost(t, gone)
  <2>1. SUFFICES ASSUME NEW j \in 1..Len(t), NEW k \in 1..Len(t), j < k, t[k].kind = "user",
                        t[k] \in gone
                 PROVE  t[j].kind # "reply"
    BY DEF Foremost
  <2>2. j \in 1..Len(s) /\ t[j] = s[j]
    BY <1>3, <1>4, <2>1
  <2>3. CASE k = Len(s) + 1
    BY <1>3, <2>1, <2>2, <2>3
  <2>4. CASE k \in 1..Len(s)
    <3>1. t[k] = s[k]
      BY <1>3, <2>4
    <3> QED
      BY <2>1, <2>2, <2>4, <3>1 DEF Foremost
  <2> QED
    BY <1>4, <2>3, <2>4
<1> QED
  BY <1>2, <1>5, <1>6, <1>7, <1>8, IsProper

\* A reply joins a window that asks for one.
LEMMA ReplyJoins ==
    ASSUME NEW s \in Proper, NEW m \in Messages, m.kind = "reply", m \notin Range(s), NEW gone,
           Foremost(s, gone), Asks(s)
    PROVE  s \o <<m>> \in Proper /\ Foremost(s \o <<m>>, gone)
<1>1. s \in Seq(Messages)
  BY ProperIs
<1>2. PICK t \in Seq(Messages) : t = s \o <<m>>
  BY <1>1, AppendIs
<1>3. /\ Len(t) = Len(s) + 1 /\ t[Len(s) + 1] = m /\ \A i \in 1..Len(s) : t[i] = s[i]
      /\ Len(s) \in Nat
  BY <1>1, <1>2, AppendIs
<1>4. \A i \in 1..Len(t) : i = Len(s) + 1 \/ (i \in 1..Len(s) /\ t[i] = s[i] /\ s[i] # m)
  BY <1>1, <1>3, RangeIs
<1>6. Alternates(t)
  <2>1. SUFFICES ASSUME NEW j \in 1..Len(t), NEW k \in 1..Len(t), j < k, t[j].kind = "reply",
                        t[k].kind = "reply"
                 PROVE  \E l \in 1..Len(t) : j < l /\ l < k /\ t[l].kind = "user"
    BY DEF Alternates
  <2>2. /\ j \in 1..Len(s) /\ s[j].kind = "reply"
    BY <1>3, <1>4, <2>1
  <2>3. CASE k = Len(s) + 1
    <3>1. PICK l \in 1..Len(s) : j < l /\ s[l].kind = "user"
      BY <2>2 DEF Asks
    <3> QED
      BY <1>3, <2>3, <3>1
  <2>4. CASE k \in 1..Len(s)
    <3>1. PICK l \in 1..Len(s) : j < l /\ l < k /\ s[l].kind = "user"
      BY <1>3, <2>1, <2>2, <2>4, ProperIs DEF Alternates
    <3> QED
      BY <1>3, <3>1
  <2> QED
    BY <1>4, <2>3, <2>4
<1>7. \A i, j \in 1..Len(t) : t[i] = t[j] => i = j
  <2>1. \A i, j \in 1..Len(s) : s[i] = s[j] => i = j
    BY ProperIs
  <2> QED
    BY <1>3, <1>4, <2>1
<1>8. Foremost(t, gone)
  <2>1. SUFFICES ASSUME NEW j \in 1..Len(t), NEW k \in 1..Len(t), j < k, t[k].kind = "user",
                        t[k] \in gone
                 PROVE  t[j].kind # "reply"
    BY DEF Foremost
  <2>2. j \in 1..Len(s) /\ t[j] = s[j] /\ k \in 1..Len(s) /\ t[k] = s[k]
    BY <1>3, <1>4, <2>1
  <2> QED
    BY <2>1, <2>2 DEF Foremost
<1> QED
  BY <1>2, <1>6, <1>7, <1>8, IsProper

\* Trimming moves the first messages to those that have left the window.
LEMMA TrimmedIs ==
    ASSUME NEW w \in Seq(Messages), NEW gone \in Seq(Messages), NEW c, c = Trimmed(w, gone)
    PROVE  \E o \in 0..Len(w) :
              /\ c.conv \in Seq(Messages) /\ c.evicted \in Seq(Messages)
              /\ Len(c.conv) = Len(w) - o
              /\ \A k \in 1..(Len(w) - o) : c.conv[k] = w[k + o]
              /\ Range(c.evicted) = Range(gone) \cup { w[k] : k \in 1..o }
              /\ o = 0 => c = [conv |-> w, evicted |-> gone]
              /\ Len(w) - o <= Window /\ (o = 0 \/ o = Len(w) - Window)
<1>0. Len(w) \in Nat /\ Window \in Nat \ {0}
  BY WindowAssumption
<1>1. CASE Len(w) - Window <= 0
  <2>1. c = [conv |-> w, evicted |-> gone]
    BY <1>1 DEF Trimmed
  <2>2. { w[k] : k \in 1..0 } = {}
    OBVIOUS
  <2>3. \A k \in 1..(Len(w) - 0) : w[k] = w[k + 0]
    OBVIOUS
  <2>4. 0 \in 0..Len(w) /\ Len(w) - 0 = Len(w) /\ Len(w) - 0 <= Window
    BY <1>0, <1>1
  <2>5. c.conv = w /\ c.evicted = gone
    BY <2>1
  <2> WITNESS 0 \in 0..Len(w)
  <2> QED
    BY <2>1, <2>2, <2>3, <2>4, <2>5
<1>2. CASE Len(w) - Window > 0
  <2>1. PICK o \in 1..Len(w) : o = Len(w) - Window
    BY <1>0, <1>2
  <2>2. PICK s \in Seq(Messages) :
            s = SubSeq(w, o + 1, Len(w)) /\ Len(s) = Len(w) - o /\ \A k \in 1..Len(s) : s[k] = w[k + o]
    <3>1. /\ SubSeq(w, o + 1, Len(w)) \in Seq(Messages)
          /\ Len(SubSeq(w, o + 1, Len(w))) = Len(w) - o
          /\ \A k \in 1..(Len(w) - o) : SubSeq(w, o + 1, Len(w))[k] = w[k + o]
      BY <1>0
    <3> QED
      BY <3>1
  <2>3. PICK h \in Seq(Messages) :
            h = SubSeq(w, 1, o) /\ Len(h) = o /\ \A k \in 1..o : h[k] = w[k]
    <3>1. /\ SubSeq(w, 1, o) \in Seq(Messages) /\ Len(SubSeq(w, 1, o)) = o
          /\ \A k \in 1..o : SubSeq(w, 1, o)[k] = w[k]
      BY <1>0
    <3> QED
      BY <3>1
  <2>4. c = [conv |-> s, evicted |-> gone \o h]
    BY <1>0, <1>2, <2>1, <2>2, <2>3 DEF Trimmed
  <2>5. PICK g \in Seq(Messages) : g = gone \o h
    <3>1. gone \o h \in Seq(Messages)
      OBVIOUS
    <3> QED
      BY <3>1, Zenon
  <2>6. Range(g) = Range(gone) \cup Range(h)
    <3>1. /\ Len(g) = Len(gone) + Len(h) /\ Len(gone) \in Nat /\ Len(h) \in Nat
          /\ \A i \in 1..Len(gone) : g[i] = gone[i]
          /\ \A i \in 1..Len(h) : g[Len(gone) + i] = h[i]
      BY <2>5
    <3>2. \A i \in 1..Len(g) : i \in 1..Len(gone) \/ (i - Len(gone) \in 1..Len(h) /\ g[i] = h[i - Len(gone)])
      <4>1. SUFFICES ASSUME NEW i \in 1..Len(g), i \notin 1..Len(gone)
                     PROVE  i - Len(gone) \in 1..Len(h) /\ g[i] = h[i - Len(gone)]
        OBVIOUS
      <4>2. i - Len(gone) \in 1..Len(h) /\ Len(gone) + (i - Len(gone)) = i
        BY <3>1, <4>1
      <4> QED
        BY <3>1, <4>2
    <3>3. \A i \in 1..Len(h) : Len(gone) + i \in 1..Len(g)
      BY <3>1
    <3>4. \A i \in 1..Len(gone) : i \in 1..Len(g)
      BY <3>1
    <3>5. /\ Range(g) = { g[i] : i \in 1..Len(g) } /\ Range(h) = { h[i] : i \in 1..Len(h) }
          /\ Range(gone) = { gone[i] : i \in 1..Len(gone) }
      <4>1. Range(g) = { g[i] : i \in 1..Len(g) }
        BY RangeIs
      <4>2. Range(h) = { h[i] : i \in 1..Len(h) }
        BY RangeIs
      <4>3. Range(gone) = { gone[i] : i \in 1..Len(gone) }
        BY RangeIs
      <4> QED
        BY <4>1, <4>2, <4>3
    <3>6. \A x \in Range(g) : x \in Range(gone) \cup Range(h)
      BY <3>1, <3>2, <3>5
    <3>7. \A x \in Range(gone) : x \in Range(g)
      BY <3>1, <3>4, <3>5
    <3>8. \A x \in Range(h) : x \in Range(g)
      BY <3>1, <3>3, <3>5
    <3> QED
      BY <3>6, <3>7, <3>8
  <2>7. Range(h) = { w[k] : k \in 1..o }
    <3>1. Range(h) = { h[k] : k \in 1..Len(h) }
      BY RangeIs
    <3>2. Range(h) = { h[k] : k \in 1..o }
      BY <2>3, <3>1
    <3> QED
      BY <2>3, <3>2
  <2>8. Len(w) - o <= Window /\ o # 0
    BY <1>0, <2>1
  <2>9. c.conv = s /\ c.evicted = g
    BY <2>4, <2>5
  <2>10. \A k \in 1..(Len(w) - o) : c.conv[k] = w[k + o]
    BY <2>2, <2>9
  <2>11. o \in 0..Len(w)
    OBVIOUS
  <2> QED
    BY <2>1, <2>2, <2>6, <2>7, <2>8, <2>9, <2>10, <2>11
<1>3. Len(w) - Window <= 0 \/ Len(w) - Window > 0
  BY <1>0
<1> QED
  BY <1>1, <1>2, <1>3, Zenon

\* ... and keeps what is proper of the window.
LEMMA TrimmedKeeps ==
    ASSUME NEW w \in Proper, NEW gone \in Seq(Messages)
    PROVE  /\ Trimmed(w, gone).conv \in Windows /\ Trimmed(w, gone).evicted \in Seq(Messages)
           /\ Foremost(w, Range(gone)) =>
                 Foremost(Trimmed(w, gone).conv, Range(Trimmed(w, gone).evicted))
           /\ Asks(w) => Asks(Trimmed(w, gone).conv)
           /\ Range(Trimmed(w, gone).conv) \cup Range(Trimmed(w, gone).evicted)
                 = Range(w) \cup Range(gone)
           /\ Len(w) <= Window => Trimmed(w, gone) = [conv |-> w, evicted |-> gone]
           /\ \A k \in 1..Len(w) : k > Len(w) - Window => w[k] \in Range(Trimmed(w, gone).conv)
           /\ \A x \in Range(Trimmed(w, gone).evicted) :
                 x \in Range(gone) \/ \E k \in 1..Len(w) : x = w[k] /\ k <= Len(w) - Window
<1>0. w \in Seq(Messages) /\ Len(w) \in Nat /\ Window \in Nat \ {0}
  BY ProperIs, WindowAssumption
<1> DEFINE c == Trimmed(w, gone)
<1>1. PICK o \in 0..Len(w) :
              /\ c.conv \in Seq(Messages) /\ c.evicted \in Seq(Messages)
              /\ Len(c.conv) = Len(w) - o
              /\ \A k \in 1..(Len(w) - o) : c.conv[k] = w[k + o]
              /\ Range(c.evicted) = Range(gone) \cup { w[k] : k \in 1..o }
              /\ o = 0 => c = [conv |-> w, evicted |-> gone]
              /\ Len(w) - o <= Window /\ (o = 0 \/ o = Len(w) - Window)
  BY <1>0, TrimmedIs
<1>2. PICK s \in Seq(Messages) : s = Trimmed(w, gone).conv
  BY <1>1
<1>3. PICK g \in Seq(Messages) : g = Trimmed(w, gone).evicted
  BY <1>1
<1>4. Len(s) = Len(w) - o /\ Len(s) \in Nat /\ \A k \in 1..Len(s) : s[k] = w[k + o] /\ k + o \in 1..Len(w)
  BY <1>0, <1>1, <1>2
<1>5. \A k \in 1..Len(w) : k <= o \/ (k - o \in 1..Len(s) /\ s[k - o] = w[k])
  <2>1. SUFFICES ASSUME NEW k \in 1..Len(w), ~(k <= o) PROVE k - o \in 1..Len(s) /\ s[k - o] = w[k]
    OBVIOUS
  <2>2. k - o \in 1..Len(s) /\ (k - o) + o = k
    BY <1>0, <1>4, <2>1
  <2> QED
    BY <1>4, <2>2
<1>6. \A i, j \in 1..Len(w) : w[i] = w[j] => i = j
  BY ProperIs
<1>7. Alternates(s)
  <2>1. SUFFICES ASSUME NEW j \in 1..Len(s), NEW k \in 1..Len(s), j < k, s[j].kind = "reply",
                        s[k].kind = "reply"
                 PROVE  \E l \in 1..Len(s) : j < l /\ l < k /\ s[l].kind = "user"
    BY DEF Alternates
  <2>2. PICK l \in 1..Len(w) : j + o < l /\ l < k + o /\ w[l].kind = "user"
    <3>1. s[j] = w[j + o] /\ j + o \in 1..Len(w) /\ s[k] = w[k + o] /\ k + o \in 1..Len(w)
      BY <1>4
    <3>2. j + o < k + o
      BY <1>4, <2>1
    <3>3. Alternates(w)
      BY ProperIs
    <3>4. w[j + o].kind = "reply" /\ w[k + o].kind = "reply"
      BY <2>1, <3>1
    <3> QED
      BY <3>1, <3>2, <3>3, <3>4 DEF Alternates
  <2>3. ~(l <= o) /\ j < l - o /\ l - o < k
    BY <1>0, <2>2
  <2>4. l - o \in 1..Len(s) /\ s[l - o] = w[l]
    BY <1>5, <2>2, <2>3
  <2> QED
    BY <2>2, <2>3, <2>4
<1>8. Asks(w) => Asks(s)
  <2>1. SUFFICES ASSUME Asks(w), NEW j \in 1..Len(s), s[j].kind = "reply"
                 PROVE  \E l \in 1..Len(s) : j < l /\ s[l].kind = "user"
    BY DEF Asks
  <2>2. PICK l \in 1..Len(w) : j + o < l /\ w[l].kind = "user"
    BY <1>4, <2>1 DEF Asks
  <2>3. l - o \in 1..Len(s) /\ j < l - o /\ s[l - o] = w[l]
    BY <1>0, <1>4, <1>5, <2>2
  <2> QED
    BY <2>2, <2>3
<1>9. s \in Windows
  <2>1. \A i, j \in 1..Len(s) : s[i] = s[j] => i = j
    <3>1. SUFFICES ASSUME NEW i \in 1..Len(s), NEW j \in 1..Len(s), s[i] = s[j] PROVE i = j
      OBVIOUS
    <3>2. i + o = j + o
      BY <1>4, <1>6, <3>1
    <3> QED
      BY <3>2
  <2> QED
    BY <1>1, <1>4, <1>7, <2>1, IsProper DEF Windows
<1>10. /\ Range(s) = { s[k] : k \in 1..Len(s) } /\ Range(w) = { w[k] : k \in 1..Len(w) }
       /\ Range(g) = Range(gone) \cup { w[k] : k \in 1..o }
  BY <1>0, <1>1, <1>3, RangeIs
<1>11. Range(s) \cup Range(g) = Range(w) \cup Range(gone)
  <2>1. \A x \in Range(s) : x \in Range(w)
    BY <1>4, <1>10
  <2>2. \A x \in Range(g) : x \in Range(w) \cup Range(gone)
    BY <1>10
  <2>3. \A x \in Range(w) : x \in Range(s) \cup Range(g)
    <3>1. SUFFICES ASSUME NEW k \in 1..Len(w) PROVE w[k] \in Range(s) \cup Range(g)
      BY <1>10
    <3>2. CASE k <= o
      BY <1>10, <3>2
    <3>3. CASE ~(k <= o)
      BY <1>5, <1>10, <3>3
    <3> QED
      BY <3>2, <3>3
  <2> QED
    BY <1>10, <2>1, <2>2, <2>3
<1>12. Foremost(w, Range(gone)) => Foremost(s, Range(g))
  <2>1. SUFFICES ASSUME Foremost(w, Range(gone)), NEW j \in 1..Len(s), NEW k \in 1..Len(s), j < k,
                        s[k].kind = "user", s[k] \in Range(g)
                 PROVE  s[j].kind # "reply"
    BY DEF Foremost
  <2>2. s[k] \in Range(gone)
    <3>1. SUFFICES ASSUME NEW i \in 1..o, w[k + o] = w[i] PROVE FALSE
      BY <1>4, <1>10, <2>1
    <3>2. i \in 1..Len(w) /\ k + o \in 1..Len(w) /\ k + o # i
      BY <1>0, <1>4
    <3> QED
      BY <1>6, <3>1, <3>2
  <2>3. s[j] = w[j + o] /\ j + o \in 1..Len(w) /\ s[k] = w[k + o] /\ k + o \in 1..Len(w)
    BY <1>4
  <2>4. j + o < k + o
    BY <1>4, <2>1
  <2> QED
    BY <2>1, <2>2, <2>3, <2>4 DEF Foremost
<1>13. Len(w) <= Window => o = 0
  BY <1>0, <1>1
<1>14. ASSUME NEW k \in 1..Len(w), k > Len(w) - Window PROVE w[k] \in Range(s)
  <2>1. ~(k <= o)
    BY <1>0, <1>1, <1>14
  <2> QED
    BY <1>5, <1>10, <2>1
<1>15. ASSUME NEW x \in Range(g)
       PROVE  x \in Range(gone) \/ \E k \in 1..Len(w) : x = w[k] /\ k <= Len(w) - Window
  <2>1. SUFFICES ASSUME NEW k \in 1..o PROVE k \in 1..Len(w) /\ k <= Len(w) - Window
    BY <1>10, <1>15
  <2> QED
    BY <1>0, <1>1
<1> QED
  BY <1>1, <1>2, <1>3, <1>8, <1>9, <1>11, <1>12, <1>13, <1>14, <1>15

LEMMA InsertIs ==
    ASSUME NEW s \in Seq(Messages), NEW m \in Messages, NEW at \in 1..(Len(s) + 1),
           NEW t, t = InsertAt(s, at, m)
    PROVE  /\ t \in Seq(Messages) /\ Len(t) = Len(s) + 1 /\ t[at] = m
           /\ \A j \in 1..(at - 1) : t[j] = s[j]
           /\ \A j \in at..Len(s) : t[j + 1] = s[j]
<1>0. Len(s) \in Nat
  OBVIOUS
<1>1. PICK h \in Seq(Messages) :
          h = SubSeq(s, 1, at - 1) /\ Len(h) = at - 1 /\ \A j \in 1..(at - 1) : h[j] = s[j]
  <2>1. /\ SubSeq(s, 1, at - 1) \in Seq(Messages) /\ Len(SubSeq(s, 1, at - 1)) = at - 1
        /\ \A j \in 1..(at - 1) : SubSeq(s, 1, at - 1)[j] = s[j]
    BY <1>0
  <2> QED
    BY <2>1
<1>2. PICK e \in Seq(Messages) :
          /\ e = SubSeq(s, at, Len(s)) /\ Len(e) = Len(s) + 1 - at
          /\ \A j \in 1..(Len(s) + 1 - at) : e[j] = s[at + j - 1]
  <2>1. /\ SubSeq(s, at, Len(s)) \in Seq(Messages) /\ Len(SubSeq(s, at, Len(s))) = Len(s) + 1 - at
        /\ \A j \in 1..(Len(s) + 1 - at) : SubSeq(s, at, Len(s))[j] = s[at + j - 1]
    BY <1>0
  <2> QED
    BY <2>1
<1>3. PICK g \in Seq(Messages) :
          g = h \o <<m>> /\ Len(g) = at /\ g[at] = m /\ \A j \in 1..(at - 1) : g[j] = s[j]
  <2>1. /\ h \o <<m>> \in Seq(Messages) /\ Len(h \o <<m>>) = Len(h) + 1
        /\ (h \o <<m>>)[Len(h) + 1] = m /\ \A i \in 1..Len(h) : (h \o <<m>>)[i] = h[i]
    BY AppendIs
  <2>2. PICK g \in Seq(Messages) : g = h \o <<m>>
    BY <2>1
  <2>3. Len(g) = Len(h) + 1 /\ g[Len(h) + 1] = m /\ \A i \in 1..Len(h) : g[i] = h[i]
    BY <2>1, <2>2
  <2>4. Len(h) + 1 = at /\ Len(h) = at - 1
    BY <1>1
  <2> QED
    BY <1>1, <2>2, <2>3, <2>4
<1>4. t = g \o e
  BY <1>1, <1>2, <1>3 DEF InsertAt
<1>5. /\ t \in Seq(Messages) /\ Len(t) = Len(g) + Len(e)
      /\ \A j \in 1..Len(g) : t[j] = g[j]
      /\ \A j \in 1..Len(e) : t[Len(g) + j] = e[j]
  BY <1>4
<1>6. ASSUME NEW j \in at..Len(s) PROVE t[j + 1] = s[j]
  <2>1. PICK i \in 1..(Len(s) + 1 - at) : j = at + i - 1
    <3>1. j - at + 1 \in 1..(Len(s) + 1 - at) /\ j = at + (j - at + 1) - 1
      BY <1>0
    <3> QED
      BY <3>1
  <2>2. t[at + i] = s[at + i - 1]
    <3>1. i \in 1..Len(e) /\ Len(g) + i = at + i
      BY <1>2, <1>3
    <3>2. t[Len(g) + i] = e[i]
      BY <1>5, <3>1
    <3>3. e[i] = s[at + i - 1]
      BY <1>2
    <3> QED
      BY <3>1, <3>2, <3>3
  <2>3. j + 1 = at + i
    BY <2>1
  <2> QED
    BY <2>1, <2>2, <2>3
<1>7. Len(t) = Len(s) + 1 /\ t[at] = m
  BY <1>0, <1>2, <1>3, <1>5
<1>8. \A j \in 1..(at - 1) : t[j] = s[j]
  BY <1>0, <1>3, <1>5
<1> QED
  BY <1>5, <1>6, <1>7, <1>8

\* A delivery joins a window, wherever.
LEMMA NoteJoins ==
    ASSUME NEW s \in Proper, NEW m \in Messages, m.kind = "delivery", m \notin Range(s), NEW gone,
           Foremost(s, gone), NEW at \in 1..(Len(s) + 1), NEW t, t = InsertAt(s, at, m)
    PROVE  t \in Proper /\ Foremost(t, gone) /\ Range(t) = Range(s) \cup {m}
<1> DEFINE up(j) == IF j < at THEN j ELSE j + 1
<1>0. s \in Seq(Messages) /\ Len(s) \in Nat
  BY ProperIs
<1>1. /\ t \in Seq(Messages) /\ Len(t) = Len(s) + 1 /\ t[at] = m
      /\ \A j \in 1..(at - 1) : t[j] = s[j]
      /\ \A j \in at..Len(s) : t[j + 1] = s[j]
  BY <1>0, InsertIs, SMTT(30)
<1>2. \A j \in 1..Len(s) : up(j) \in 1..Len(t) /\ t[up(j)] = s[j]
  <2> TAKE j \in 1..Len(s)
  <2>1. CASE j < at
    <3>1. up(j) = j /\ j \in 1..(at - 1) /\ j \in 1..Len(t)
      BY <1>0, <1>1, <2>1
    <3> QED
      BY <1>1, <3>1
  <2>2. CASE ~(j < at)
    <3>1. up(j) = j + 1 /\ j \in at..Len(s) /\ j + 1 \in 1..Len(t)
      BY <1>0, <1>1, <2>2
    <3> QED
      BY <1>1, <3>1
  <2> QED
    BY <2>1, <2>2
<1>3. ASSUME NEW i \in 1..Len(t), t[i] # m \/ i # at PROVE \E j \in 1..Len(s) : i = up(j)
  <2>0. i # at
    BY <1>1, <1>3
  <2>1. CASE i < at
    <3>1. i \in 1..Len(s) /\ i = up(i)
      BY <1>0, <2>1
    <3> QED
      BY <3>1
  <2>2. CASE ~(i < at)
    <3>1. i - 1 \in 1..Len(s) /\ i = up(i - 1)
      BY <1>0, <1>1, <2>0, <2>2
    <3> QED
      BY <3>1
  <2> QED
    BY <2>1, <2>2
<1>4. \A j, k \in 1..Len(s) : (j < k <=> up(j) < up(k)) /\ (up(j) = up(k) => j = k)
  BY <1>0
<1> HIDE DEF up
<1>5. /\ Range(s) = { s[j] : j \in 1..Len(s) } /\ Range(t) = { t[j] : j \in 1..Len(t) }
  <2>1. Range(s) = { s[j] : j \in 1..Len(s) }
    BY <1>0, RangeIs
  <2>2. Range(t) = { t[j] : j \in 1..Len(t) }
    BY <1>1, RangeIs
  <2> QED
    BY <2>1, <2>2
<1>6. \A j \in 1..Len(s) : s[j] # m
  BY <1>5
<1>7. \A i, j \in 1..Len(t) : t[i] = t[j] => i = j
  <2>1. SUFFICES ASSUME NEW i \in 1..Len(t), NEW j \in 1..Len(t), t[i] = t[j] PROVE i = j
    OBVIOUS
  <2>2. CASE t[i] = m
    <3>1. i = at
      BY <1>2, <1>3, <1>6, <2>2
    <3>2. j = at
      BY <1>2, <1>3, <1>6, <2>1, <2>2
    <3> QED
      BY <3>1, <3>2
  <2>3. CASE t[i] # m
    <3>1. PICK k \in 1..Len(s) : i = up(k)
      BY <1>3, <2>3
    <3>2. PICK l \in 1..Len(s) : j = up(l)
      BY <1>3, <2>1, <2>3
    <3>3. s[k] = s[l]
      BY <1>2, <2>1, <3>1, <3>2
    <3> QED
      BY <3>1, <3>2, <3>3, ProperIs
  <2> QED
    BY <2>2, <2>3
<1>8. Alternates(t)
  <2>1. SUFFICES ASSUME NEW i \in 1..Len(t), NEW j \in 1..Len(t), i < j, t[i].kind = "reply",
                        t[j].kind = "reply"
                 PROVE  \E l \in 1..Len(t) : i < l /\ l < j /\ t[l].kind = "user"
    BY DEF Alternates
  <2>2. PICK k \in 1..Len(s) : i = up(k)
    BY <1>3, <2>1
  <2>3. PICK n \in 1..Len(s) : j = up(n)
    BY <1>3, <2>1
  <2>4. PICK l \in 1..Len(s) : k < l /\ l < n /\ s[l].kind = "user"
    <3>1. k < n /\ s[k].kind = "reply" /\ s[n].kind = "reply"
      BY <1>2, <1>4, <2>1, <2>2, <2>3
    <3> QED
      BY <3>1, ProperIs DEF Alternates
  <2>5. up(l) \in 1..Len(t) /\ i < up(l) /\ up(l) < j /\ t[up(l)].kind = "user"
    BY <1>2, <1>4, <2>2, <2>3, <2>4
  <2> QED
    BY <2>5
<1>9. Foremost(t, gone)
  <2>1. SUFFICES ASSUME NEW i \in 1..Len(t), NEW j \in 1..Len(t), i < j, t[j].kind = "user",
                        t[j] \in gone, t[i].kind = "reply"
                 PROVE  FALSE
    BY DEF Foremost
  <2>2. PICK k \in 1..Len(s) : i = up(k)
    BY <1>3, <2>1
  <2>3. PICK n \in 1..Len(s) : j = up(n)
    BY <1>3, <2>1
  <2>4. k < n /\ s[k] = t[i] /\ s[n] = t[j]
    BY <1>2, <1>4, <2>1, <2>2, <2>3
  <2> QED
    BY <2>1, <2>4 DEF Foremost
<1>10. Range(t) = Range(s) \cup {m}
  <2>1. m \in Range(t)
    <3>1. at \in 1..Len(t)
      BY <1>0, <1>1
    <3> QED
      BY <1>1, <1>5, <3>1
  <2>2. \A x \in Range(s) : x \in Range(t)
    BY <1>2, <1>5
  <2>3. \A x \in Range(t) : x \in Range(s) \cup {m}
    BY <1>2, <1>3, <1>5
  <2> QED
    BY <2>1, <2>2, <2>3
<1> QED
  BY <1>1, <1>7, <1>8, <1>9, <1>10, IsProper

\* The pairs of a window and what has left it.
Pairs == [conv : Windows, evicted : Seq(Messages)]

Both(c)  == Range(c.conv) \cup Range(c.evicted)
Notes(S) == { Note(d) : d \in S }
Sound    == { c \in Pairs : Foremost(c.conv, Range(c.evicted)) }

\* What trimming a window leaves.
Trims(c, w, gone) ==
    /\ c \in Sound /\ Both(c) = Range(w) \cup Range(gone) /\ Range(gone) \subseteq Range(c.evicted)
    /\ Asks(w) => Asks(c.conv)
    /\ Len(w) <= Window => c = [conv |-> w, evicted |-> gone]
    /\ \A x \in Range(c.evicted) :
          x \in Range(gone) \/ \E k \in 1..Len(w) : x = w[k] /\ k <= Len(w) - Window
    /\ \E o \in 0..Len(w) : /\ Len(c.conv) = Len(w) - o
                            /\ \A k \in 1..Len(c.conv) : c.conv[k] = w[k + o]

LEMMA TrimsTo ==
    ASSUME NEW w \in Proper, NEW gone \in Seq(Messages), NEW c, c = Trimmed(w, gone),
           Foremost(w, Range(gone)) \/ Window = 1
    PROVE  Trims(c, w, gone)
<1>0. w \in Seq(Messages) /\ Len(w) \in Nat /\ Window \in Nat \ {0}
  BY ProperIs, WindowAssumption
<1>1. /\ c.conv \in Windows /\ c.evicted \in Seq(Messages)
      /\ Foremost(w, Range(gone)) => Foremost(c.conv, Range(c.evicted))
      /\ Asks(w) => Asks(c.conv)
      /\ Range(c.conv) \cup Range(c.evicted) = Range(w) \cup Range(gone)
      /\ Len(w) <= Window => c = [conv |-> w, evicted |-> gone]
      /\ \A x \in Range(c.evicted) :
            x \in Range(gone) \/ \E k \in 1..Len(w) : x = w[k] /\ k <= Len(w) - Window
  BY TrimmedKeeps
<1>2. PICK o \in 0..Len(w) : /\ Len(c.conv) = Len(w) - o
                             /\ \A k \in 1..Len(c.conv) : c.conv[k] = w[k + o]
                             /\ Range(c.evicted) = Range(gone) \cup { w[k] : k \in 1..o }
  <2> DEFINE d == Trimmed(w, gone)
  <2>1. PICK o \in 0..Len(w) :
              /\ d.conv \in Seq(Messages) /\ d.evicted \in Seq(Messages)
              /\ Len(d.conv) = Len(w) - o
              /\ \A k \in 1..(Len(w) - o) : d.conv[k] = w[k + o]
              /\ Range(d.evicted) = Range(gone) \cup { w[k] : k \in 1..o }
              /\ o = 0 => d = [conv |-> w, evicted |-> gone]
              /\ Len(w) - o <= Window /\ (o = 0 \/ o = Len(w) - Window)
    BY <1>0, TrimmedIs
  <2>2. d = c
    OBVIOUS
  <2> QED
    BY <2>1, <2>2
<1>3. c \in Pairs
  BY <1>1 DEF Trimmed, Pairs
<1>4. Foremost(c.conv, Range(c.evicted))
  <2>1. CASE Window = 1
    <3>1. Len(c.conv) \in Nat /\ Len(c.conv) <= 1
      BY <1>1, <2>1, ProperIs DEF Windows
    <3> QED
      BY <3>1 DEF Foremost
  <2> QED
    BY <1>1, <2>1
<1> QED
  BY <1>1, <1>2, <1>3, <1>4 DEF Sound, Both, Trims

LEMMA DeliveryKeeps ==
    ASSUME NEW c \in Sound, NEW d \in Deliveries, NEW r, r = WithDelivery(c, d)
    PROVE  r \in Sound /\ Both(c) \subseteq Both(r) /\ Both(r) \subseteq Both(c) \cup {Note(d)}
<1>0. /\ c.conv \in Windows /\ c.conv \in Proper /\ c.conv \in Seq(Messages)
      /\ c.evicted \in Seq(Messages) /\ Foremost(c.conv, Range(c.evicted))
  BY ProperIs DEF Sound, Pairs, Windows
<1>1. CASE Note(d) \in Range(c.conv)
  BY <1>1 DEF WithDelivery
<1>2. CASE Note(d) \notin Range(c.conv)
  <2> DEFINE later == { i \in 1..Len(c.conv) : Time(c.conv[i]) > Time(Note(d)) }
             at    == IF later = {} THEN Len(c.conv) + 1 ELSE Min(later)
  <2>1. at \in 1..(Len(c.conv) + 1)
    <3>0. Len(c.conv) \in Nat
      BY <1>0
    <3>1. CASE later = {}
      BY <3>0, <3>1
    <3>2. CASE later # {}
      <4>1. later \subseteq 1..Len(c.conv) /\ later \subseteq Nat
        OBVIOUS
      <4> HIDE DEF later
      <4>2. Min(later) \in later
        BY <3>2, <4>1, LeastIs
      <4>3. Min(later) \in 1..Len(c.conv)
        BY <4>1, <4>2
      <4> QED
        BY <3>0, <3>2, <4>3
    <3> QED
      BY <3>1, <3>2
  <2>2. PICK t : t = InsertAt(c.conv, at, Note(d))
    OBVIOUS
  <2>3. r = Trimmed(t, c.evicted)
    BY <1>2, <2>2 DEF WithDelivery
  <2>4. Note(d) \in Messages /\ Note(d).kind = "delivery"
    BY DEF Messages, Note
  <2>5. t \in Proper /\ Foremost(t, Range(c.evicted)) /\ Range(t) = Range(c.conv) \cup {Note(d)}
    <3> HIDE DEF at
    <3> QED
      BY <1>0, <1>2, <2>1, <2>2, <2>4, NoteJoins
  <2>6. /\ r.conv \in Windows /\ r.evicted \in Seq(Messages) /\ Foremost(r.conv, Range(r.evicted))
        /\ Range(r.conv) \cup Range(r.evicted) = Range(t) \cup Range(c.evicted)
    BY <1>0, <2>3, <2>5, TrimmedKeeps
  <2>7. r = [conv |-> r.conv, evicted |-> r.evicted]
    <3>1. CASE Len(t) - Window <= 0
      BY <2>3, <3>1 DEF Trimmed
    <3>2. CASE ~(Len(t) - Window <= 0)
      BY <2>3, <3>2 DEF Trimmed
    <3> QED
      BY <3>1, <3>2
  <2>8. r \in Pairs
    BY <2>6, <2>7 DEF Pairs
  <2> QED
    BY <2>5, <2>6, <2>8 DEF Sound, Both
<1> QED
  BY <1>1, <1>2

LEMMA DeliveriesKeep ==
    ASSUME NEW c \in Sound, NEW ds, ds \subseteq Deliveries, born \in Seq(Messages),
           NEW r, r = WithDeliveries(c, ds)
    PROVE  r \in Sound /\ Both(c) \subseteq Both(r) /\ Both(r) \subseteq Both(c) \cup Notes(ds)
<1> DEFINE n == Len(born)
           Shown(i, p) == IF \E d \in ds : born[i] = Note(d) THEN WithDelivery(p, born[i].of) ELSE p
           Is(g) == g = [i \in 0..n |-> IF i = 0 THEN c ELSE Shown(i, g[i - 1])]
           Good == { p \in Sound : Both(c) \subseteq Both(p) /\ Both(p) \subseteq Both(c) \cup Notes(ds) }
<1>0. n \in Nat
  OBVIOUS
<1>1. c \in Good
  OBVIOUS
<1>2. ASSUME NEW i \in 1..n, NEW p \in Good PROVE Shown(i, p) \in Good
  <2>1. CASE \E d \in ds : born[i] = Note(d)
    <3>1. PICK d \in ds : born[i] = Note(d)
      BY <2>1
    <3>2. d \in Deliveries /\ Shown(i, p) = WithDelivery(p, d)
      BY <3>1 DEF Note
    <3>3. PICK q : q = WithDelivery(p, d)
      OBVIOUS
    <3>4. q \in Sound /\ Both(p) \subseteq Both(q) /\ Both(q) \subseteq Both(p) \cup {Note(d)}
      BY <3>2, <3>3, DeliveryKeeps
    <3>5. {Note(d)} \subseteq Notes(ds)
      BY DEF Notes
    <3>6. q \in Good
      BY <3>4, <3>5
    <3> QED
      BY <3>2, <3>3, <3>6
  <2>2. CASE ~ \E d \in ds : born[i] = Note(d)
    BY <2>2
  <2> QED
    BY <2>1, <2>2
<1>3. PICK g : WithDeliveries(c, ds) = g[n] /\ Is(g)
  <2>1. \E f : Is(f)
    <3> HIDE DEF Shown, Good
    <3>1. PICK step : step = [i \in 1..n |-> [p \in Good |-> Shown(i, p)]]
      OBVIOUS
    <3>2. step \in [1..n -> [Good -> Good]]
      BY <1>2, <3>1
    <3>3. PICK f \in [0..n -> Good] : f[0] = c /\ \A i \in 1..n : f[i] = step[i][f[i - 1]]
      <4>1. step \in Steppings(n, Good)
        BY <3>2 DEF Steppings
      <4> HIDE DEF n
      <4>2. \E f : Computes(f, n, Good, c, step)
        BY <1>0, <1>1, <4>1, StepsAre
      <4> QED
        BY <4>2 DEF Computes
    <3>4. ASSUME NEW i \in 0..n
          PROVE  f[i] = IF i = 0 THEN c ELSE Shown(i, f[i - 1])
      <4>1. CASE i = 0
        BY <3>3, <4>1
      <4>2. CASE i # 0
        <5>1. i \in 1..n /\ i - 1 \in 0..n
          BY <1>0, <4>2
        <5>2. f[i - 1] \in Good
          BY <3>3, <5>1
        <5>3. step[i][f[i - 1]] = Shown(i, f[i - 1])
          BY <3>1, <5>1, <5>2
        <5> QED
          BY <3>3, <4>2, <5>1, <5>3
      <4> QED
        BY <4>1, <4>2
    <3>5. Is(f)
      BY <3>3, <3>4
    <3> QED
      BY <3>5
  <2>2. Is(CHOOSE f : Is(f))
    <3> HIDE DEF Is
    <3> QED
      BY <2>1
  <2>3. WithDeliveries(c, ds) = (CHOOSE f : Is(f))[n]
    BY DEF WithDeliveries
  <2> QED
    BY <2>2, <2>3
<1>4. n \in { i \in 0..n : g[i] \in Good }
  <2> DEFINE S == { i \in 0..n : g[i] \in Good }
  <2>1. \A i \in 0..n : g[i] = IF i = 0 THEN c ELSE Shown(i, g[i - 1])
    BY <1>3, Zenon
  <2> HIDE DEF Shown, Good
  <2>2. 0 \in S
    BY <1>0, <1>1, <2>1
  <2>3. ASSUME NEW i \in 1..n, i - 1 \in S PROVE i \in S
    BY <1>0, <1>2, <2>1, <2>3
  <2> HIDE DEF n, S
  <2>4. S \subseteq 0..n
    BY DEF S
  <2> QED
    BY <1>0, <2>2, <2>3, <2>4, LastStepHas DEF S
<1> QED
  BY <1>3, <1>4

\* q holds what is not in S of the first i messages of s, in their order.
Keeping(q, s, S, i) ==
    /\ q \in Seq(Messages) /\ Len(q) <= i
    /\ \A a \in 1..Len(q) : \E j \in 1..i : q[a] = s[j] /\ s[j] \notin S
    /\ \A j \in 1..i : s[j] \notin S => \E a \in 1..Len(q) : q[a] = s[j]
    /\ \A a, b \in 1..Len(q) : \A j, k \in 1..i : a < b /\ q[a] = s[j] /\ q[b] = s[k] => j < k

LEMMA KeepingOne ==
    ASSUME NEW s \in Proper, NEW S, NEW i \in 1..Len(s), NEW q, Keeping(q, s, S, i - 1)
    PROVE  Keeping(IF s[i] \in S THEN q ELSE Append(q, s[i]), s, S, i)
<1>0. /\ s \in Seq(Messages) /\ Len(s) \in Nat /\ q \in Seq(Messages) /\ Len(q) \in Nat
      /\ \A j, k \in 1..Len(s) : s[j] = s[k] => j = k
      /\ \A j \in 1..i : j = i \/ j \in 1..(i - 1)
      /\ \A j \in 1..(i - 1) : j \in 1..i /\ j \in 1..Len(s) /\ j < i /\ s[j] # s[i]
  BY ProperIs DEF Keeping
<1>1. CASE s[i] \in S
  <2>1. \A a \in 1..Len(q) : \E j \in 1..i : q[a] = s[j] /\ s[j] \notin S
    BY <1>0 DEF Keeping
  <2>2. \A j \in 1..i : s[j] \notin S => \E a \in 1..Len(q) : q[a] = s[j]
    BY <1>0, <1>1 DEF Keeping
  <2>3. ASSUME NEW a \in 1..Len(q), NEW b \in 1..Len(q), NEW j \in 1..i, NEW k \in 1..i,
               a < b, q[a] = s[j], q[b] = s[k]
        PROVE  j < k
    <3>1. j # i /\ k # i
      BY <1>0, <1>1, <2>3 DEF Keeping
    <3> QED
      BY <1>0, <2>3, <3>1 DEF Keeping
  <2>4. Len(q) <= i
    BY <1>0 DEF Keeping
  <2> QED
    BY <1>0, <1>1, <2>1, <2>2, <2>3, <2>4 DEF Keeping
<1>2. CASE s[i] \notin S
  <2>0. s[i] \in Messages
    BY <1>0
  <2>1. PICK t \in Seq(Messages) : t = Append(q, s[i])
    <3>1. Append(q, s[i]) \in Seq(Messages)
      BY <1>0, <2>0
    <3> QED
      BY <3>1, Zenon
  <2>2. /\ Len(t) = Len(q) + 1 /\ t[Len(q) + 1] = s[i] /\ \A a \in 1..Len(q) : t[a] = q[a]
    BY <1>0, <2>0, <2>1
  <2>3. \A a \in 1..Len(t) : a = Len(q) + 1 \/ a \in 1..Len(q)
    BY <1>0, <2>2
  <2>4. ASSUME NEW a \in 1..Len(t) PROVE \E j \in 1..i : t[a] = s[j] /\ s[j] \notin S
    <3>1. CASE a = Len(q) + 1
      BY <1>2, <2>2, <3>1
    <3>2. CASE a \in 1..Len(q)
      BY <1>0, <2>2, <3>2 DEF Keeping
    <3> QED
      BY <2>3, <3>1, <3>2
  <2>5. ASSUME NEW j \in 1..i, s[j] \notin S PROVE \E a \in 1..Len(t) : t[a] = s[j]
    <3>1. CASE j = i
      <4>1. Len(q) + 1 \in 1..Len(t)
        BY <1>0, <2>2
      <4> QED
        BY <2>2, <3>1, <4>1
    <3>2. CASE j \in 1..(i - 1)
      <4>1. PICK a \in 1..Len(q) : q[a] = s[j]
        BY <2>5, <3>2 DEF Keeping
      <4> QED
        BY <1>0, <2>2, <4>1
    <3> QED
      BY <1>0, <3>1, <3>2
  <2>6. ASSUME NEW a \in 1..Len(t), NEW b \in 1..Len(t), NEW j \in 1..i, NEW k \in 1..i,
               a < b, t[a] = s[j], t[b] = s[k]
        PROVE  j < k
    <3>1. a \in 1..Len(q) /\ q[a] = s[j]
      BY <1>0, <2>2, <2>3, <2>6
    <3>2. j \in 1..(i - 1)
      <4>1. PICK l \in 1..(i - 1) : q[a] = s[l]
        BY <3>1 DEF Keeping
      <4> QED
        BY <1>0, <3>1, <4>1
    <3>3. CASE b \in 1..Len(q)
      <4>1. q[b] = s[k]
        BY <2>2, <2>6, <3>3
      <4>2. k \in 1..(i - 1)
        <5>1. PICK l \in 1..(i - 1) : q[b] = s[l]
          BY <3>3 DEF Keeping
        <5> QED
          BY <1>0, <4>1, <5>1
      <4> QED
        BY <2>6, <3>1, <3>2, <3>3, <4>1, <4>2 DEF Keeping
    <3>4. CASE b = Len(q) + 1
      <4>1. s[k] = s[i]
        BY <2>2, <2>6, <3>4
      <4>2. k = i
        BY <1>0, <4>1
      <4> QED
        BY <1>0, <3>2, <4>2
    <3> QED
      BY <2>3, <3>3, <3>4
  <2>7. Len(t) <= i
    BY <1>0, <2>2 DEF Keeping
  <2>8. Keeping(t, s, S, i)
    BY <2>4, <2>5, <2>6, <2>7 DEF Keeping
  <2> QED
    BY <1>2, <2>1, <2>8
<1> QED
  BY <1>1, <1>2

LEMMA WithoutIs ==
    ASSUME NEW s \in Windows, NEW S, NEW r, r = Without(s, S)
    PROVE  Keeping(r, s, S, Len(s))
<1> DEFINE n == Len(s)
           Rest(i, q) == IF s[i] \in S THEN q ELSE Append(q, s[i])
           Is(g) == g = [i \in 0..n |-> IF i = 0 THEN <<>> ELSE IF s[i] \in S THEN g[i - 1]
                                                           ELSE Append(g[i - 1], s[i])]
<1>0. n \in Nat /\ s \in Proper /\ s \in Seq(Messages)
  <2>1. s \in Proper
    BY DEF Windows
  <2>2. s \in Seq(Messages)
    BY <2>1, ProperIs
  <2> QED
    BY <2>1, <2>2
<1>1. PICK g : Without(s, S) = g[n] /\ Is(g)
  <2>1. \E f : Is(f)
    <3>1. PICK step : step = [i \in 1..n |-> [q \in Seq(Messages) |-> Rest(i, q)]]
      OBVIOUS
    <3>2. step \in Steppings(n, Seq(Messages))
      <4>1. ASSUME NEW i \in 1..n, NEW q \in Seq(Messages) PROVE Rest(i, q) \in Seq(Messages)
        <5>1. s[i] \in Messages
          BY <1>0
        <5> QED
          BY <5>1
      <4> HIDE DEF Rest
      <4> QED
        BY <3>1, <4>1 DEF Steppings
    <3>3. <<>> \in Seq(Messages)
      OBVIOUS
    <3> HIDE DEF n
    <3>4. \E f : Computes(f, n, Seq(Messages), <<>>, step)
      BY <1>0, <3>2, <3>3, StepsAre
    <3>5. PICK f \in [0..n -> Seq(Messages)] :
              f[0] = <<>> /\ \A i \in 1..n : f[i] = step[i][f[i - 1]]
      BY <3>4 DEF Computes
    <3>6. ASSUME NEW i \in 0..n
          PROVE  f[i] = IF i = 0 THEN <<>> ELSE Rest(i, f[i - 1])
      <4>1. CASE i = 0
        BY <3>5, <4>1
      <4>2. CASE i # 0
        <5>1. i \in 1..n /\ i - 1 \in 0..n
          BY <1>0, <4>2
        <5>2. f[i - 1] \in Seq(Messages)
          BY <3>5, <5>1
        <5> HIDE DEF Rest
        <5>3. step[i][f[i - 1]] = Rest(i, f[i - 1])
          BY <3>1, <5>1, <5>2
        <5> QED
          BY <3>5, <4>2, <5>1, <5>3
      <4> QED
        BY <4>1, <4>2
    <3>7. Is(f)
      BY <3>5, <3>6
    <3> QED
      BY <3>7
  <2>2. Is(CHOOSE f : Is(f))
    <3> HIDE DEF Is
    <3> QED
      BY <2>1
  <2>3. Without(s, S) = (CHOOSE f : Is(f))[n]
    BY DEF Without
  <2> QED
    BY <2>2, <2>3
<1>2. n \in { i \in 0..n : Keeping(g[i], s, S, i) }
  <2> DEFINE T == { i \in 0..n : Keeping(g[i], s, S, i) }
  <2>1. \A i \in 0..n : g[i] = IF i = 0 THEN <<>> ELSE Rest(i, g[i - 1])
    BY <1>1, Zenon
  <2>2. 0 \in T
    <3>1. g[0] = <<>> /\ 0 \in 0..n
      BY <1>0, <2>1
    <3>2. Keeping(<<>>, s, S, 0)
      BY DEF Keeping
    <3> QED
      BY <3>1, <3>2
  <2>3. ASSUME NEW i \in 1..n, i - 1 \in T PROVE i \in T
    <3>1. Keeping(g[i - 1], s, S, i - 1)
      BY <2>3
    <3>2. Keeping(Rest(i, g[i - 1]), s, S, i)
      BY <1>0, <3>1, KeepingOne
    <3>3. i \in 0..n /\ g[i] = Rest(i, g[i - 1])
      BY <1>0, <2>1
    <3> HIDE DEF Rest
    <3> QED
      BY <3>2, <3>3
  <2> HIDE DEF n, T
  <2>4. T \subseteq 0..n
    BY DEF T
  <2> QED
    BY <1>0, <2>2, <2>3, <2>4, LastStepHas DEF T
<1> QED
  BY <1>1, <1>2

\* The row is a window again: of the messages that have left it and are back in it, one of
\* a user's has no reply before it, so no two replies come together.
LEMMA SafeIsWindow ==
    ASSUME NEW s \in Windows, NEW S, Foremost(s, S), NEW r, r = Without(s, S)
    PROVE  r \in Windows /\ Range(r) = Range(s) \ S
<1>0. /\ s \in Proper /\ s \in Seq(Messages) /\ Len(s) \in Nat /\ Len(s) <= Window
      /\ Window \in Nat /\ \A j, k \in 1..Len(s) : s[j] = s[k] => j = k
  BY ProperIs, WindowAssumption DEF Windows
<1>1. Keeping(r, s, S, Len(s))
  BY WithoutIs
<1>2. r \in Seq(Messages) /\ Len(r) <= Window /\ Len(r) \in Nat
  BY <1>0, <1>1 DEF Keeping
<1>3. \A a, b \in 1..Len(r) : r[a] = r[b] => a = b
  <2>1. SUFFICES ASSUME NEW a \in 1..Len(r), NEW b \in 1..Len(r), a < b, r[a] = r[b] PROVE FALSE
    <3>1. \A a, b \in 1..Len(r) : a < b \/ b < a \/ a = b
      BY <1>2
    <3> QED
      BY <3>1
  <2>2. PICK j \in 1..Len(s) : r[a] = s[j]
    BY <1>1 DEF Keeping
  <2>3. j < j
    BY <1>1, <2>1, <2>2 DEF Keeping
  <2> QED
    BY <2>3
<1>4. Alternates(r)
  <2>1. SUFFICES ASSUME NEW a \in 1..Len(r), NEW b \in 1..Len(r), a < b, r[a].kind = "reply",
                        r[b].kind = "reply"
                 PROVE  \E c \in 1..Len(r) : a < c /\ c < b /\ r[c].kind = "user"
    BY DEF Alternates
  <2>2. PICK j \in 1..Len(s) : r[a] = s[j]
    BY <1>1 DEF Keeping
  <2>3. PICK k \in 1..Len(s) : r[b] = s[k]
    BY <1>1 DEF Keeping
  <2>4. j < k
    BY <1>1, <2>1, <2>2, <2>3 DEF Keeping
  <2>5. PICK l \in 1..Len(s) : j < l /\ l < k /\ s[l].kind = "user"
    <3>1. s[j].kind = "reply" /\ s[k].kind = "reply"
      BY <2>1, <2>2, <2>3
    <3> QED
      BY <1>0, <2>4, <3>1, ProperIs DEF Alternates
  <2>6. s[l] \notin S
    BY <2>1, <2>2, <2>5 DEF Foremost
  <2>7. PICK c \in 1..Len(r) : r[c] = s[l]
    BY <1>1, <2>6 DEF Keeping
  <2>8. ~(c < a) /\ c # a
    <3>1. c < a => l < j
      BY <1>1, <2>2, <2>7 DEF Keeping
    <3>2. c # a
      BY <2>1, <2>5, <2>7
    <3> QED
      BY <2>5, <3>1, <3>2
  <2>9. ~(b < c) /\ c # b
    <3>1. b < c => k < l
      BY <1>1, <2>3, <2>7 DEF Keeping
    <3>2. c # b
      BY <2>1, <2>5, <2>7
    <3> QED
      BY <2>5, <3>1, <3>2
  <2>10. a < c /\ c < b
    BY <2>8, <2>9
  <2> QED
    BY <2>5, <2>7, <2>10
<1>5. Range(r) = Range(s) \ S
  <2>1. Range(r) = { r[a] : a \in 1..Len(r) }
    BY <1>2, RangeIs
  <2>2. Range(s) = { s[j] : j \in 1..Len(s) }
    BY <1>0, RangeIs
  <2>3. \A x \in Range(r) : x \in Range(s) \ S
    BY <1>1, <2>1, <2>2 DEF Keeping
  <2>4. \A x \in Range(s) \ S : x \in Range(r)
    BY <1>1, <2>1, <2>2 DEF Keeping
  <2> QED
    BY <2>3, <2>4
<1> QED
  BY <1>2, <1>3, <1>4, <1>5, IsProper DEF Windows

-----------------------------------------------------------------------------
(* The invariant of the session.                                           *)

InBorn(s) == Range(s) \subseteq Range(born)

\* The window, what has left it, and the row are made of messages that were created.
MemorySound ==
    /\ conv \in Windows /\ InBorn(conv)
    /\ evicted \in Seq(Messages) /\ InBorn(evicted)
    /\ Foremost(conv, Range(evicted))
    /\ row \in Windows /\ InBorn(row)
    /\ archive \subseteq Messages
    /\ since \in Nat /\ rowSince = since

\* Messages are created once, and the replies to a request are counted.
RepliesIn(b, r) == { m \in Range(b) : m.kind = "reply" /\ m.of = r }

Recorded(b) ==
    /\ b \in Seq(Messages) /\ IsFiniteSet(Range(b))
    /\ \A i, j \in 1..Len(b) : b[i] = b[j] => i = j
    /\ \A m \in Range(b) : m.kind = "reply" => m.nth <= Cardinality(RepliesIn(b, m.of))

BornSound ==
    /\ Recorded(born)
    /\ delivered \subseteq Deliveries
    /\ \A d \in Deliveries : Note(d) \in Range(born) <=> d \in delivered

CallsSound == queue \in Seq(Calls) /\ call = [c \in Calls |-> call[c]]

Running == turn.kind # "none"

Turns ==
    [kind : {"chat", "regenerate", "history", "activate"}, by : Calls,
     step : {"archived", "inbox", "agent", "save"}, of : Requests \cup Others, user : BOOLEAN,
     archived : SUBSET Deliveries, from : Nat, original : Seq(Messages),
     reply : Messages \cup {NoAnswer}, cleared : BOOLEAN, ok : BOOLEAN]

\* A chat turn has its client's message yet to come, or as the last of the window, until the
\* agent has answered.  Its request's answer is not kept: nobody else runs meanwhile.
ChatSound ==
    turn.kind = "chat" =>
        /\ turn.by \in Callers /\ turn.of = Id(turn.by) /\ turn.of \in Requests
        /\ ~Cached(turn.of)
        /\ turn.original = <<>>
        /\ turn.step \in {"archived", "inbox"} => ~turn.user
        /\ turn.step # "save" =>
              /\ User(turn.of) \notin Range(evicted)
              /\ ~turn.user => User(turn.of) \notin Range(conv)
              /\ \A k \in 1..Len(conv) : conv[k] = User(turn.of) => k = Len(conv)
        /\ User(turn.of) \in Range(evicted) => User(turn.of) \in Range(conv) \/ Window = 1

\* While the agent regenerates, the window is the start of the old one, which stays proper
\* to be put back.
Cut(n) ==
    /\ conv = SubSeq(turn.original, 1, n)
    /\ ~turn.user => n < Len(turn.original) /\ turn.original[n + 1] = User(turn.of)

RegenerateSound ==
    turn.kind = "regenerate" =>
        /\ turn.by \in Others /\ turn.of \in Requests
        /\ turn.original \in Windows /\ InBorn(turn.original) /\ turn.original # <<>>
        /\ Last(turn.original).kind # "delivery"
        /\ turn.ok => Foremost(turn.original, Range(evicted))
        /\ turn.step \in {"agent", "save"}
        /\ turn.step = "agent" =>
              /\ turn.ok /\ turn.reply \in {NoAnswer} \cup Range(turn.original)
              /\ ~turn.cleared => \E n \in 0..Len(turn.original) : Cut(n)
              /\ turn.cleared => /\ evicted = <<>>
                                 /\ conv = <<>> \/ (turn.user /\ conv = <<User(turn.of)>>)

OtherSound ==
    turn.kind \in {"history", "activate"} =>
        turn.by \in Others /\ turn.step # "agent" /\ turn.original = <<>>

\* The agent answers a message of the user's that has no reply.
AgentSound ==
    InAgent /\ turn.user =>
        Asks(conv) /\ (~turn.cleared => User(turn.of) \in Range(conv) \cup Range(evicted))

TurnSound ==
    /\ turn = NoTurn \/ turn \in Turns
    /\ Running => ChatSound /\ RegenerateSound /\ OtherSound /\ AgentSound

\* What the end of the turn adds to what the client has been given.
Due ==
    IF turn.kind \notin {"chat", "regenerate"} THEN {}
    ELSE IF turn.ok THEN {User(turn.of), turn.reply}
    ELSE IF turn.kind = "regenerate" THEN {turn.reply} \ {NoAnswer}
    ELSE {}

Saves == [step : {"read", "written"}, gone : Seq(Messages), safe : Windows]

\* What the thread has read is still so when the turn ends, unless a clear came.
ThreadSound ==
    /\ thread = NoSave \/ thread \in Saves
    /\ thread # NoSave =>
          /\ Running /\ turn.step = "save"
          /\ InBorn(thread.safe)
          /\ evicted = <<>> \/ evicted = thread.gone

Hers == Range(conv) \cup Range(evicted) \cup archive

\* What the client was given is in memory or in the archive too, but for the message that
\* a regeneration has cut off and puts back; then it is in the old window.  What the turn is
\* about to give goes the same way.
KeptSound ==
    /\ \A m \in kept : m.kind # "delivery"
    /\ Running => turn.reply.kind # "delivery"
    /\ Running /\ turn.cleared => kept = {}
    /\ kept \subseteq Hers \cup (IF turn.kind = "regenerate" /\ InAgent /\ ~turn.user
                                 THEN {User(turn.of)} ELSE {})
    /\ turn.kind = "regenerate" /\ turn.ok =>
          kept \subseteq Range(turn.original) \cup Range(evicted) \cup archive
    /\ Running /\ turn.step = "save" /\ ~turn.cleared => Due \subseteq Hers
    /\ thread.step = "read" /\ ~turn.cleared =>
          kept \cup Due \subseteq Range(thread.safe) \cup Range(thread.gone) \cup archive
    /\ thread.step = "written" /\ ~turn.cleared =>
          Due \subseteq Range(row) \cup archive /\ Range(thread.gone) \subseteq archive

\* What was cleared is older than the session, and than the time the turn goes by.
ErasedSound ==
    /\ ClearHolds
    /\ thread # NoSave => erased \cap Range(thread.safe) = {}
    /\ Running => erased \cap Range(turn.original) = {}
    /\ \A m \in erased : m \in Range(born) /\ Time(m) <= since /\ (Running => Time(m) <= turn.from)

SessionInv ==
    /\ MemorySound /\ BornSound /\ CallsSound /\ TurnSound /\ ThreadSound
    /\ KeptSound /\ AnsweredIsKept /\ ErasedSound

LEMMA MessagesAre ==
    /\ \A r \in Requests : User(r) \in Messages /\ User(r).kind = "user"
    /\ \A r \in Requests : \A n \in Nat :
          Reply(r, n) \in Messages /\ Reply(r, n).kind = "reply" /\ Reply(r, n).of = r /\ Reply(r, n).nth = n
    /\ \A d \in Deliveries : Note(d) \in Messages /\ Note(d).kind = "delivery" /\ Note(d).of = d
    /\ \A d, e \in Deliveries : Note(d) = Note(e) => d = e
    /\ \A m \in Messages : m.kind = "user" => m.of \in Requests /\ m = User(m.of)
    /\ \A m \in Messages : m.kind = "reply" => m.of \in Requests /\ m.nth \in Nat /\ m = Reply(m.of, m.nth)
    /\ \A m \in Messages : m.kind = "delivery" => m.of \in Deliveries /\ m = Note(m.of)
    /\ \A m \in Messages : m # NoAnswer /\ m.kind # "none"
    /\ NoAnswer.kind = "none"
<1>1. \A r \in Requests : User(r) \in Messages /\ User(r).kind = "user"
  BY DEF Messages, User
<1>2. \A r \in Requests : \A n \in Nat :
         Reply(r, n) \in Messages /\ Reply(r, n).kind = "reply" /\ Reply(r, n).of = r /\ Reply(r, n).nth = n
  BY DEF Messages, Reply
<1>3. /\ \A d \in Deliveries : Note(d) \in Messages /\ Note(d).kind = "delivery" /\ Note(d).of = d
      /\ \A d, e \in Deliveries : Note(d) = Note(e) => d = e
  BY DEF Messages, Note
<1>4. \A m \in Messages : m.kind = "user" => m.of \in Requests /\ m = User(m.of)
  BY DEF Messages, User, Reply, Note
<1>5. \A m \in Messages : m.kind = "reply" => m.of \in Requests /\ m.nth \in Nat /\ m = Reply(m.of, m.nth)
  BY DEF Messages, User, Reply, Note
<1>6. \A m \in Messages : m.kind = "delivery" => m.of \in Deliveries /\ m = Note(m.of)
  BY DEF Messages, User, Reply, Note
<1>7. \A m \in Messages : m # NoAnswer /\ m.kind # "none"
  BY DEF Messages, User, Reply, Note, NoAnswer
<1>8. NoAnswer.kind = "none"
  BY DEF NoAnswer
<1> QED
  BY <1>1, <1>2, <1>3, <1>4, <1>5, <1>6, <1>7, <1>8

LEMMA TurnIs ==
    ASSUME TurnSound
    PROVE  /\ Running => turn \in Turns /\ turn # NoTurn
           /\ ~Running => turn = NoTurn
           /\ turn = NoTurn => ~Running
BY DEF TurnSound, Running, Turns, NoTurn

LEMMA CallersAre ==
    /\ Callers \subseteq Calls /\ Others \subseteq Calls /\ Callers \cap Others = {}
    /\ \A c \in Callers : Id(c) \in Requests
    /\ \A c \in Others : Id(c) = c
BY CallersAssumption DEF Calls, Id

\* The list of all messages grows at its end.
Continues(b, then) == Len(b) <= Len(then) /\ \A i \in 1..Len(b) : then[i] = b[i]

LEMMA ContinuesIs ==
    ASSUME NEW b \in Seq(Messages), NEW m \in Messages, NEW then, then = Append(b, m)
    PROVE  then \in Seq(Messages) /\ Continues(b, then) /\ Range(then) = Range(b) \cup {m}
<1>1. then = b \o <<m>>
  OBVIOUS
<1> QED
  BY <1>1, AppendIs DEF Continues

\* A new message is recorded; a reply takes the next number.
LEMMA RecordedStays ==
    ASSUME NEW b, Recorded(b), NEW m \in Messages, m \notin Range(b), NEW then, then = Append(b, m),
           m.kind = "reply" => m.nth = Cardinality(RepliesIn(b, m.of)) + 1
    PROVE  Recorded(then) /\ Continues(b, then) /\ Range(then) = Range(b) \cup {m}
<1>0. b \in Seq(Messages) /\ Len(b) \in Nat /\ then = b \o <<m>>
  BY DEF Recorded
<1>1. then \in Seq(Messages) /\ Continues(b, then) /\ Range(then) = Range(b) \cup {m}
  BY <1>0, ContinuesIs
<1>2. Len(then) = Len(b) + 1 /\ then[Len(b) + 1] = m /\ \A i \in 1..Len(b) : then[i] = b[i]
  BY <1>0, AppendIs
<1>3. IsFiniteSet(Range(then))
  BY <1>1, FS_AddElement DEF Recorded
<1>4. ASSUME NEW i \in 1..Len(then), NEW j \in 1..Len(then), then[i] = then[j] PROVE i = j
  <2>1. \A k \in 1..Len(then) : k = Len(b) + 1 \/ (k \in 1..Len(b) /\ then[k] # m)
    <3>1. \A k \in 1..Len(b) : b[k] # m
      BY <1>0, RangeIs
    <3> QED
      BY <1>0, <1>2, <3>1
  <2> QED
    BY <1>2, <1>4, <2>1 DEF Recorded
<1>5. ASSUME NEW r
      PROVE  /\ IsFiniteSet(RepliesIn(b, r)) /\ Cardinality(RepliesIn(b, r)) \in Nat
             /\ RepliesIn(then, r) = IF m.kind = "reply" /\ m.of = r THEN RepliesIn(b, r) \cup {m}
                                     ELSE RepliesIn(b, r)
  <2>1. RepliesIn(b, r) \subseteq Range(b)
    BY DEF RepliesIn
  <2>2. IsFiniteSet(RepliesIn(b, r))
    BY <2>1, FS_Subset DEF Recorded
  <2>3. Cardinality(RepliesIn(b, r)) \in Nat
    BY <2>2, FS_CardinalityType
  <2>4. CASE m.kind = "reply" /\ m.of = r
    <3>1. \A x : x \in RepliesIn(then, r) <=> x \in RepliesIn(b, r) \cup {m}
      BY <1>1, <2>4 DEF RepliesIn
    <3> QED
      BY <2>2, <2>3, <2>4, <3>1
  <2>5. CASE ~(m.kind = "reply" /\ m.of = r)
    <3>1. \A x : x \in RepliesIn(then, r) <=> x \in RepliesIn(b, r)
      BY <1>1, <2>5 DEF RepliesIn
    <3> QED
      BY <2>2, <2>3, <2>5, <3>1
  <2> QED
    BY <2>2, <2>3, <2>4, <2>5
<1>6. ASSUME NEW r
      PROVE  Cardinality(RepliesIn(then, r)) = IF m.kind = "reply" /\ m.of = r
                THEN Cardinality(RepliesIn(b, r)) + 1 ELSE Cardinality(RepliesIn(b, r))
  <2>1. m \notin RepliesIn(b, r)
    BY DEF RepliesIn
  <2> QED
    BY <1>5, <2>1, FS_AddElement
<1>7. ASSUME NEW x \in Range(then), x.kind = "reply"
      PROVE  x.nth <= Cardinality(RepliesIn(then, x.of))
  <2>1. Cardinality(RepliesIn(b, x.of)) \in Nat
    BY <1>5
  <2>2. CASE x = m
    BY <1>6, <1>7, <2>1, <2>2
  <2>3. CASE x # m
    <3>1. x \in Range(b) /\ x \in Messages
      BY <1>0, <1>1, <2>3, RangeIs
    <3>2. x.nth \in Nat /\ x.nth <= Cardinality(RepliesIn(b, x.of))
      BY <1>7, <3>1, MessagesAre DEF Recorded
    <3> QED
      BY <1>6, <2>1, <3>2
  <2> QED
    BY <2>2, <2>3
<1> QED
  BY <1>1, <1>3, <1>4, <1>7 DEF Recorded

LEMMA StampIs ==
    ASSUME NEW b, Recorded(b), NEW m \in Messages, m.kind # "reply", NEW then, then = Stamp(b, m)
    PROVE  Recorded(then) /\ Continues(b, then) /\ Range(then) = Range(b) \cup {m}
<1>1. CASE m \in Range(b)
  <2>1. then = b
    BY <1>1 DEF Stamp
  <2>2. Continues(b, b)
    BY DEF Recorded, Continues
  <2> QED
    BY <1>1, <2>1, <2>2
<1>2. CASE m \notin Range(b)
  <2>1. then = Append(b, m)
    BY <1>2 DEF Stamp
  <2> QED
    BY <1>2, <2>1, RecordedStays
<1> QED
  BY <1>1, <1>2

LEMMA ContinuesOn ==
    ASSUME NEW a \in Seq(Messages), NEW b \in Seq(Messages), NEW c \in Seq(Messages),
           Continues(a, b), Continues(b, c)
    PROVE  Continues(a, c)
BY DEF Continues

\* The time of a message is its position, and stays.
LEMMA TimeStays ==
    ASSUME Recorded(born), Recorded(born'), Continues(born, born'), NEW m \in Range(born)
    PROVE  Time(m)' = Time(m) /\ Time(m) \in 1..Len(born)
<1>0. born \in Seq(Messages) /\ born' \in Seq(Messages) /\ Len(born) \in Nat /\ Len(born') \in Nat
  BY DEF Recorded
<1>1. PICK i \in 1..Len(born) : born[i] = m
  BY <1>0, RangeIs
<1>2. i \in 1..Len(born') /\ born'[i] = m
  BY <1>0, <1>1 DEF Continues
<1>3. Time(m) = i
  BY <1>1 DEF Time, Recorded
<1>4. Time(m)' = i
  BY <1>2 DEF Time, Recorded
<1> QED
  BY <1>3, <1>4

-----------------------------------------------------------------------------
(* Every step keeps it.                                                    *)

LEMMA NothingIsSound ==
    /\ <<>> \in Windows /\ <<>> \in Seq(Messages) /\ Range(<<>>) = {}
    /\ \A S : Foremost(<<>>, S) /\ Asks(<<>>)
    /\ \A s : s \in Seq(Messages) => Foremost(s, {})
<1>1. <<>> \in Seq(Messages) /\ Len(<<>>) = 0 /\ Range(<<>>) = {}
  BY DEF Range
<1>2. <<>> \in Proper
  <2>1. Alternates(<<>>) /\ \A i, j \in 1..Len(<<>>) : <<>>[i] = <<>>[j] => i = j
    <3>1. 1..Len(<<>>) = {}
      BY <1>1
    <3> QED
      BY <3>1 DEF Alternates
  <2> QED
    BY <1>1, <2>1, IsProper
<1> QED
  BY <1>1, <1>2, WindowAssumption DEF Windows, Foremost, Asks

LEMMA SessionBegins == SessionInit => SessionInv
<1> SUFFICES ASSUME SessionInit PROVE SessionInv
  OBVIOUS
<1>1. MemorySound
  BY NothingIsSound DEF SessionInit, MemorySound, InBorn
<1>2. BornSound
  <2>1. Recorded(<<>>)
    BY NothingIsSound, FS_EmptySet DEF Recorded
  <2> QED
    BY <2>1, NothingIsSound DEF SessionInit, BornSound
<1>3. CallsSound
  BY DEF SessionInit, CallsSound
<1>4. ~Running
  BY DEF SessionInit, Running, NoTurn
<1>5. TurnSound /\ ThreadSound
  BY <1>4 DEF SessionInit, TurnSound, ThreadSound
<1>6. KeptSound /\ AnsweredIsKept
  BY <1>4 DEF SessionInit, KeptSound, AnsweredIsKept, Running, NoTurn, NoSave
<1>7. ErasedSound
  BY <1>4 DEF SessionInit, ErasedSound, ClearHolds
<1> QED
  BY <1>1, <1>2, <1>3, <1>5, <1>6, <1>7 DEF SessionInv

LEMMA MemoryStays ==
    ASSUME MemorySound, UNCHANGED <<conv, evicted, row, archive, since, rowSince>>,
           Range(born) \subseteq Range(born')
    PROVE  MemorySound'
BY DEF MemorySound, InBorn

LEMMA TurnStays ==
    ASSUME TurnSound, UNCHANGED <<turn, conv, evicted, cache>>, Range(born) \subseteq Range(born')
    PROVE  TurnSound'
<1>1. (turn = NoTurn \/ turn \in Turns)'
  BY DEF TurnSound
<1>2. Running' => Running
  BY DEF Running
<1>3. Running => ChatSound'
  BY DEF TurnSound, ChatSound, Cached
<1>4. Running => RegenerateSound'
  BY DEF TurnSound, RegenerateSound, Cut, InBorn
<1>5. Running => OtherSound' /\ AgentSound'
  BY DEF TurnSound, OtherSound, AgentSound, InAgent
<1> QED
  BY <1>1, <1>2, <1>3, <1>4, <1>5 DEF TurnSound

LEMMA ThreadStays ==
    ASSUME ThreadSound, thread' = thread, evicted' = evicted, Range(born) \subseteq Range(born'),
           Running => Running' /\ turn'.step = turn.step
    PROVE  ThreadSound'
BY DEF ThreadSound, InBorn

LEMMA KeptStays ==
    ASSUME KeptSound, AnsweredIsKept, UNCHANGED <<conv, evicted, row, archive, kept, turn, thread>>
    PROVE  KeptSound' /\ AnsweredIsKept'
<1>1. Hers' = Hers /\ Due' = Due /\ Running' = Running /\ InAgent' = InAgent
  BY DEF Hers, Due, Running, InAgent
<1> QED
  BY <1>1 DEF KeptSound, AnsweredIsKept

LEMMA ErasedStays ==
    ASSUME ErasedSound, BornSound, BornSound', Continues(born, born'), erased' \subseteq erased,
           since' = since, ClearHolds', thread' # NoSave => erased' \cap Range(thread'.safe) = {},
           Running' => Running /\ turn'.from = turn.from /\ turn'.original = turn.original
    PROVE  ErasedSound'
<1>1. ASSUME NEW m \in erased'
      PROVE  m \in Range(born') /\ Time(m)' <= since /\ (Running' => Time(m)' <= turn.from)
  <2>1. m \in Range(born) /\ Time(m) <= since /\ (Running => Time(m) <= turn.from)
    BY <1>1 DEF ErasedSound
  <2>2. Time(m)' = Time(m)
    BY <2>1, TimeStays DEF BornSound
  <2>3. m \in Range(born')
    <3>1. PICK i \in 1..Len(born) : born[i] = m
      BY <2>1, RangeIs DEF BornSound, Recorded
    <3>2. i \in 1..Len(born') /\ born'[i] = m /\ born' \in Seq(Messages)
      BY <3>1 DEF Continues, BornSound, Recorded
    <3> QED
      BY <3>2, RangeIs
  <2> QED
    BY <2>1, <2>2, <2>3
<1>2. \A m \in erased' : m \in Range(born') /\ Time(m)' <= since' /\ (Running' => Time(m)' <= turn'.from)
  BY <1>1
<1>3. Running' => erased' \cap Range(turn'.original) = {}
  BY DEF ErasedSound
<1> QED
  BY <1>2, <1>3 DEF ErasedSound

LEMMA BornStays ==
    ASSUME BornSound, UNCHANGED <<born, delivered>>
    PROVE  BornSound' /\ Continues(born, born') /\ Range(born) \subseteq Range(born')
BY DEF BornSound, Recorded, RepliesIn, Continues

LEMMA ArriveKeeps ==
    ASSUME SessionInv, NEW c \in Calls, Arrive(c)
    PROVE  SessionInv'
<1>1. UNCHANGED <<conv, evicted, row, archive, born, since, rowSince, cache, turn, thread,
                  delivered, kept, erased>>
  BY DEF Arrive, memory, disk, budget
<1>2. BornSound' /\ Continues(born, born') /\ Range(born) \subseteq Range(born')
  BY <1>1, BornStays DEF SessionInv
<1>3. MemorySound' /\ TurnSound'
  BY <1>1, <1>2, MemoryStays, TurnStays DEF SessionInv
<1>4. ThreadSound'
  BY <1>1, <1>2, ThreadStays DEF SessionInv, Running
<1>5. KeptSound' /\ AnsweredIsKept'
  BY <1>1, KeptStays DEF SessionInv
<1>6. ErasedSound'
  BY <1>1, <1>2, ErasedStays DEF SessionInv, ErasedSound, ClearHolds, Running
<1>7. CallsSound'
  BY DEF SessionInv, CallsSound, Arrive, Ends
<1> QED
  BY <1>2, <1>3, <1>4, <1>5, <1>6, <1>7 DEF SessionInv

LEMMA DeliverKeeps ==
    ASSUME SessionInv, NEW d \in Deliveries, Deliver(d)
    PROVE  SessionInv'
<1>1. /\ UNCHANGED <<conv, evicted, row, archive, since, rowSince, cache, turn, thread, call, queue,
                     kept, erased>>
      /\ d \notin delivered /\ delivered' = delivered \cup {d} /\ born' = Append(born, Note(d))
  BY DEF Deliver, disk, budget
<1>2. Note(d) \in Messages /\ Note(d).kind = "delivery" /\ Note(d) \notin Range(born)
  BY <1>1, MessagesAre DEF SessionInv, BornSound
<1>3. Recorded(born') /\ Continues(born, born') /\ Range(born') = Range(born) \cup {Note(d)}
  BY <1>1, <1>2, RecordedStays DEF SessionInv, BornSound
<1>4. BornSound'
  <2>1. \A e \in Deliveries : Note(e) \in Range(born') <=> e \in delivered'
    BY <1>1, <1>3, MessagesAre DEF SessionInv, BornSound
  <2> QED
    BY <1>1, <1>3, <2>1 DEF SessionInv, BornSound
<1>5. MemorySound' /\ TurnSound'
  BY <1>1, <1>3, MemoryStays, TurnStays DEF SessionInv
<1>6. ThreadSound'
  BY <1>1, <1>3, ThreadStays DEF SessionInv, Running
<1>7. KeptSound' /\ AnsweredIsKept'
  BY <1>1, KeptStays DEF SessionInv
<1>8. ErasedSound'
  BY <1>1, <1>3, <1>4, ErasedStays DEF SessionInv, ErasedSound, ClearHolds, Running
<1>9. CallsSound'
  BY <1>1 DEF SessionInv, CallsSound
<1> QED
  BY <1>4, <1>5, <1>6, <1>7, <1>8, <1>9 DEF SessionInv

LEMMA SessionStutters ==
    ASSUME SessionInv, UNCHANGED sessionVars
    PROVE  SessionInv'
<1>1. UNCHANGED <<conv, evicted, row, archive, born, since, rowSince, cache, turn, thread, call,
                  queue, delivered, kept, erased>>
  BY DEF sessionVars
<1>2. BornSound' /\ Continues(born, born') /\ Range(born) \subseteq Range(born')
  BY <1>1, BornStays DEF SessionInv
<1>3. MemorySound' /\ TurnSound'
  BY <1>1, <1>2, MemoryStays, TurnStays DEF SessionInv
<1>4. ThreadSound'
  BY <1>1, <1>2, ThreadStays DEF SessionInv, Running
<1>5. KeptSound' /\ AnsweredIsKept'
  BY <1>1, KeptStays DEF SessionInv
<1>6. ErasedSound'
  BY <1>1, <1>2, ErasedStays DEF SessionInv, ErasedSound, ClearHolds, Running
<1>7. CallsSound'
  BY <1>1 DEF SessionInv, CallsSound
<1> QED
  BY <1>2, <1>3, <1>4, <1>5, <1>6, <1>7 DEF SessionInv

\* The archive is read.
LEMMA ReadArchivedKeeps ==
    ASSUME SessionInv, ReadArchived
    PROVE  SessionInv'
<1>1. /\ UNCHANGED <<conv, evicted, row, archive, born, since, rowSince, cache, call, queue,
                     thread, delivered, kept, erased>>
      /\ Running /\ turn.step = "archived"
      /\ turn' = [turn EXCEPT !.step = "inbox",
                              !.archived = { m.of : m \in { a \in archive : a.kind = "delivery" } }]
  BY DEF ReadArchived, memory, disk, budget, Running
<1>2. turn \in Turns /\ turn.kind # "regenerate" /\ ~InAgent
  BY <1>1, TurnIs DEF SessionInv, TurnSound, RegenerateSound, InAgent
<1>3. { m.of : m \in { a \in archive : a.kind = "delivery" } } \in SUBSET Deliveries
  BY MessagesAre DEF SessionInv, MemorySound
<1>4. /\ turn' \in Turns /\ turn'.step = "inbox" /\ turn'.kind = turn.kind /\ turn'.by = turn.by
      /\ turn'.of = turn.of /\ turn'.user = turn.user /\ turn'.from = turn.from
      /\ turn'.original = turn.original /\ turn'.reply = turn.reply
      /\ turn'.cleared = turn.cleared /\ turn'.ok = turn.ok
  BY <1>1, <1>2, <1>3 DEF Turns
<1>5. Running' /\ ~InAgent' /\ thread = NoSave
  BY <1>1, <1>4 DEF Running, InAgent, SessionInv, ThreadSound
<1>6. BornSound' /\ Continues(born, born') /\ Range(born) \subseteq Range(born')
  BY <1>1, BornStays DEF SessionInv
<1>7. MemorySound'
  BY <1>1, <1>6, MemoryStays DEF SessionInv
<1>8. TurnSound'
  <2>1. ChatSound'
    BY <1>1, <1>4 DEF SessionInv, TurnSound, ChatSound, Cached
  <2>2. RegenerateSound' /\ OtherSound' /\ AgentSound'
    BY <1>1, <1>2, <1>4, <1>5 DEF SessionInv, TurnSound, RegenerateSound, OtherSound, AgentSound
  <2> QED
    BY <1>4, <2>1, <2>2 DEF TurnSound
<1>9. ThreadSound'
  BY <1>1, <1>5 DEF ThreadSound
<1>10. KeptSound' /\ AnsweredIsKept'
  BY <1>1, <1>2, <1>4, <1>5 DEF SessionInv, KeptSound, AnsweredIsKept, Hers, NoSave, Running, InAgent
<1>11. ErasedSound'
  BY <1>1, <1>4, <1>6, ErasedStays DEF SessionInv, ErasedSound, ClearHolds, Running
<1>12. CallsSound'
  BY <1>1 DEF SessionInv, CallsSound
<1> QED
  BY <1>6, <1>7, <1>8, <1>9, <1>10, <1>11, <1>12 DEF SessionInv

\* A save reads what is to be written.
LEMMA SaveReadsKeeps ==
    ASSUME SessionInv, SaveReads
    PROVE  SessionInv'
<1>1. /\ UNCHANGED <<conv, evicted, row, archive, born, since, rowSince, cache, call, queue,
                     turn, delivered, kept, erased>>
      /\ Running /\ turn.step = "save" /\ thread.step = "none"
      /\ thread' = [step |-> "read", gone |-> evicted, safe |-> Without(conv, Range(evicted))]
  BY DEF SaveReads, memory, disk, budget, Running
<1>2. PICK safe : safe = Without(conv, Range(evicted))
  OBVIOUS
<1>3. safe \in Windows /\ Range(safe) = Range(conv) \ Range(evicted)
  BY <1>2, SafeIsWindow DEF SessionInv, MemorySound
<1>4. /\ thread' \in Saves /\ thread'.step = "read" /\ thread'.gone = evicted /\ thread'.safe = safe
      /\ thread' # NoSave
  BY <1>1, <1>2, <1>3 DEF Saves, SessionInv, MemorySound, NoSave
<1>5. BornSound' /\ Continues(born, born') /\ Range(born) \subseteq Range(born')
  BY <1>1, BornStays DEF SessionInv
<1>6. MemorySound' /\ TurnSound'
  BY <1>1, <1>5, MemoryStays, TurnStays DEF SessionInv
<1>7. ThreadSound'
  <2>1. Range(safe) \subseteq Range(born)
    BY <1>3 DEF SessionInv, MemorySound, InBorn
  <2> QED
    BY <1>1, <1>4, <2>1 DEF ThreadSound, InBorn, Running
<1>8. Hers' = Hers /\ Due' = Due /\ Running' = Running /\ ~InAgent /\ ~InAgent'
  BY <1>1 DEF Hers, Due, Running, InAgent
<1>9. KeptSound'
  <2>1. kept \subseteq Hers
    BY <1>8 DEF SessionInv, KeptSound
  <2>2. Hers \subseteq Range(safe) \cup Range(evicted) \cup archive
    BY <1>3 DEF Hers
  <2>3. ~turn.cleared => Due \subseteq Hers
    BY <1>1 DEF SessionInv, KeptSound
  <2> QED
    BY <1>1, <1>4, <1>8, <2>1, <2>2, <2>3 DEF SessionInv, KeptSound
<1>10. AnsweredIsKept'
  BY <1>1 DEF SessionInv, AnsweredIsKept
<1>11. ErasedSound'
  <2>1. erased' \cap Range(thread'.safe) = {}
    BY <1>1, <1>3, <1>4 DEF SessionInv, ErasedSound, ClearHolds
  <2> QED
    BY <1>1, <1>5, <2>1, ErasedStays DEF SessionInv, ErasedSound, ClearHolds, Running
<1>12. CallsSound'
  BY <1>1 DEF SessionInv, CallsSound
<1> QED
  BY <1>5, <1>6, <1>7, <1>9, <1>10, <1>11, <1>12 DEF SessionInv

\* ... and writes it: what was given goes from the memory to the disk.
LEMMA SaveWritesKeeps ==
    ASSUME SessionInv, SaveWrites
    PROVE  SessionInv'
<1>1. /\ UNCHANGED <<conv, evicted, born, since, cache, call, queue, turn, delivered, kept, erased>>
      /\ thread.step = "read" /\ thread' = [thread EXCEPT !.step = "written"]
      /\ row' = thread.safe /\ archive' = archive \cup Range(thread.gone) /\ rowSince' = since
  BY DEF SaveWrites, memory, budget
<1>2. thread \in Saves /\ Running /\ turn.step = "save" /\ ~InAgent /\ thread # NoSave
  BY <1>1 DEF SessionInv, ThreadSound, NoSave, InAgent
<1>3. /\ thread.gone \in Seq(Messages) /\ thread.safe \in Windows
      /\ thread' \in Saves /\ thread'.step = "written"
      /\ thread'.gone = thread.gone /\ thread'.safe = thread.safe
  BY <1>1, <1>2 DEF Saves
<1>4. BornSound' /\ Continues(born, born') /\ Range(born) \subseteq Range(born')
  BY <1>1, BornStays DEF SessionInv
<1>5. MemorySound'
  <2>1. Range(thread.gone) \subseteq Messages
    BY <1>3, RangeIs
  <2>2. Range(thread.safe) \subseteq Range(born)
    BY <1>2 DEF SessionInv, ThreadSound, InBorn
  <2> QED
    BY <1>1, <1>3, <2>1, <2>2 DEF SessionInv, MemorySound, InBorn
<1>6. TurnSound'
  BY <1>1, <1>4, TurnStays DEF SessionInv
<1>7. ThreadSound'
  BY <1>1, <1>2, <1>3 DEF SessionInv, ThreadSound, InBorn, Running
<1>8. Hers \subseteq Hers' /\ Due' = Due /\ Running' = Running /\ ~InAgent'
  BY <1>1, <1>2 DEF Hers, Due, Running, InAgent
<1>9. /\ ~turn.cleared => kept \cup Due \subseteq Range(thread.safe) \cup Range(thread.gone) \cup archive
      /\ turn.cleared => kept = {}
  BY <1>1, <1>2 DEF SessionInv, KeptSound
<1>10. KeptSound'
  BY <1>1, <1>2, <1>3, <1>8, <1>9 DEF SessionInv, KeptSound
<1>11. AnsweredIsKept'
  BY <1>1, <1>9 DEF AnsweredIsKept
<1>12. ErasedSound'
  <2>1. erased \cap Range(thread.safe) = {}
    BY <1>2 DEF SessionInv, ErasedSound
  <2>2. ClearHolds'
    BY <1>1, <2>1 DEF SessionInv, ErasedSound, ClearHolds
  <2> QED
    BY <1>1, <1>3, <1>4, <2>1, <2>2, ErasedStays DEF SessionInv, Running
<1>13. CallsSound'
  BY <1>1 DEF SessionInv, CallsSound
<1> QED
  BY <1>4, <1>5, <1>6, <1>7, <1>10, <1>11, <1>12, <1>13 DEF SessionInv

\* The end of the turn: what it gives the client is on disk.
LEMMA SettleKeeps ==
    ASSUME SessionInv, Settle
    PROVE  SessionInv'
<1>1. /\ UNCHANGED <<conv, born, since, row, archive, rowSince, queue, delivered, erased>>
      /\ thread.step = "written" /\ DropEvicted(Len(thread.gone))
      /\ thread' = NoSave /\ turn' = NoTurn
      /\ Ends(turn.by, IF turn.ok THEN "answered" ELSE "failed",
                 IF turn.ok /\ turn.kind \in {"chat", "regenerate"} THEN turn.reply ELSE NoAnswer)
      /\ kept' = IF turn.cleared THEN kept
                 ELSE IF turn.ok /\ turn.kind \in {"chat", "regenerate"} THEN kept \cup {User(turn.of), turn.reply}
                 ELSE IF turn.kind = "regenerate" THEN kept \cup ({turn.reply} \ {NoAnswer})
                 ELSE kept
  BY DEF Settle, disk, budget
<1>2. thread \in Saves /\ Running /\ turn.step = "save" /\ ~InAgent
  BY <1>1 DEF SessionInv, ThreadSound, NoSave, InAgent
<1>3. evicted' = <<>>
  <2>1. thread.gone \in Seq(Messages) /\ Len(thread.gone) \in Nat
    BY <1>2 DEF Saves
  <2>2. evicted = <<>> \/ evicted = thread.gone
    BY <1>2, <1>1 DEF SessionInv, ThreadSound, NoSave
  <2>3. CASE evicted = <<>>
    BY <1>1, <2>1, <2>3 DEF DropEvicted
  <2>4. CASE evicted = thread.gone
    BY <1>1, <2>1, <2>4 DEF DropEvicted
  <2> QED
    BY <2>2, <2>3, <2>4
<1>4. ~Running' /\ ~InAgent' /\ turn'.kind = "none" /\ thread'.step = "none"
  BY <1>1 DEF Running, InAgent, NoTurn, NoSave
<1>5. BornSound' /\ Continues(born, born') /\ Range(born) \subseteq Range(born')
  BY <1>1, BornStays DEF SessionInv
<1>6. MemorySound'
  <2>1. Foremost(conv, {})
    BY ProperIs, NothingIsSound DEF SessionInv, MemorySound, Windows
  <2>2. Foremost(conv', Range(evicted')) /\ evicted' \in Seq(Messages) /\ Range(evicted') = {}
    BY <1>1, <1>3, <2>1, NothingIsSound
  <2> QED
    BY <1>1, <2>2 DEF SessionInv, MemorySound, InBorn
<1>7. TurnSound' /\ ThreadSound'
  BY <1>1, <1>4 DEF TurnSound, ThreadSound
<1>8. kept' \subseteq kept \cup Due /\ (turn.cleared => kept' = kept /\ kept = {})
  <2>1. turn.cleared => kept = {}
    BY <1>2 DEF SessionInv, KeptSound
  <2>2. CASE turn.cleared
    <3>1. kept' = kept
      BY <1>1, <2>2
    <3> QED
      BY <2>1, <2>2, <3>1
  <2>3. CASE ~turn.cleared /\ turn.ok /\ turn.kind \in {"chat", "regenerate"}
    <3>1. kept' = kept \cup {User(turn.of), turn.reply}
      BY <1>1, <2>3
    <3> QED
      BY <2>3, <3>1 DEF Due
  <2>4. CASE ~turn.cleared /\ ~turn.ok /\ turn.kind = "regenerate"
    <3>1. kept' = kept \cup ({turn.reply} \ {NoAnswer})
      BY <1>1, <2>4
    <3> QED
      BY <2>4, <3>1 DEF Due
  <2>5. CASE ~turn.cleared /\ ~(turn.ok /\ turn.kind \in {"chat", "regenerate"})
             /\ ~(turn.kind = "regenerate" /\ ~turn.ok)
    BY <1>1, <2>5
  <2> QED
    BY <2>2, <2>3, <2>4, <2>5
<1>9. \A m \in kept' : m.kind # "delivery"
  <2>1. turn \in Turns
    BY <1>2, TurnIs DEF SessionInv
  <2>2. \A m \in Due : m.kind # "delivery"
    BY <1>2 DEF SessionInv, KeptSound, Due, User
  <2> QED
    BY <1>8, <2>2 DEF SessionInv, KeptSound
<1>10. AnsweredIsKept'
  <2>1. ~turn.cleared => Due \subseteq Range(row) \cup archive
    BY <1>1 DEF SessionInv, KeptSound
  <2> QED
    BY <1>1, <1>8, <2>1 DEF SessionInv, AnsweredIsKept
<1>11. kept' \subseteq Hers'
  <2>1. CASE turn.cleared
    BY <1>8, <2>1
  <2>2. CASE ~turn.cleared
    <3>1. Range(thread.gone) \subseteq archive /\ Due \subseteq Hers
      BY <1>1, <1>2, <2>2 DEF SessionInv, KeptSound
    <3>2. kept \subseteq Hers
      BY <1>2 DEF SessionInv, KeptSound
    <3>3. Range(evicted) \subseteq archive
      BY <1>1, <1>2, <3>1, NothingIsSound DEF SessionInv, ThreadSound, NoSave
    <3> QED
      BY <1>1, <1>8, <3>1, <3>2, <3>3 DEF Hers
  <2> QED
    BY <2>1, <2>2
<1>12. KeptSound'
  BY <1>4, <1>9, <1>11 DEF KeptSound
<1>13. ErasedSound'
  <2>1. ClearHolds'
    BY <1>1, <1>3, NothingIsSound DEF SessionInv, ErasedSound, ClearHolds
  <2> QED
    BY <1>1, <1>4, <1>5, <2>1, ErasedStays DEF SessionInv
<1>14. CallsSound'
  BY <1>1 DEF SessionInv, CallsSound, Ends
<1> QED
  BY <1>5, <1>6, <1>7, <1>10, <1>12, <1>13, <1>14 DEF SessionInv

\* A clear leaves nothing to be kept, and what it erases is older than the session from now on.
LEMMA ClearKeeps ==
    ASSUME SessionInv, Clear
    PROVE  SessionInv'
<1>1. /\ UNCHANGED <<archive, born, call, queue, thread, delivered>>
      /\ conv' = <<>> /\ evicted' = <<>> /\ cache' = <<>> /\ row' = <<>>
      /\ since' = Len(born) /\ rowSince' = since' /\ kept' = {}
      /\ erased' = IF turn = NoTurn THEN erased \cup Range(conv) \cup Range(evicted) ELSE erased
      /\ turn' = IF turn = NoTurn THEN turn ELSE [turn EXCEPT !.cleared = TRUE]
  BY DEF Clear
<1>2. BornSound' /\ Continues(born, born') /\ Range(born) \subseteq Range(born')
  BY <1>1, BornStays DEF SessionInv
<1>3. born \in Seq(Messages) /\ Len(born) \in Nat
  BY DEF SessionInv, BornSound, Recorded
<1>4. /\ turn = NoTurn => turn' = NoTurn /\ ~Running /\ ~Running'
      /\ turn # NoTurn =>
            /\ turn \in Turns /\ turn' \in Turns /\ Running /\ Running'
            /\ turn'.cleared /\ turn'.kind = turn.kind /\ turn'.by = turn.by /\ turn'.step = turn.step
            /\ turn'.of = turn.of /\ turn'.user = turn.user /\ turn'.from = turn.from
            /\ turn'.original = turn.original /\ turn'.reply = turn.reply /\ turn'.ok = turn.ok
  <2>1. CASE turn = NoTurn
    BY <1>1, <2>1 DEF Running, NoTurn
  <2>2. CASE turn # NoTurn
    <3>1. turn \in Turns /\ Running
      BY <2>2, TurnIs DEF SessionInv
    <3>2. turn' = [turn EXCEPT !.cleared = TRUE]
      BY <1>1, <2>2
    <3> QED
      BY <2>2, <3>1, <3>2 DEF Turns, Running
  <2> QED
    BY <2>1, <2>2
<1>5. MemorySound'
  BY <1>1, <1>3, NothingIsSound DEF SessionInv, MemorySound, InBorn
<1>6. TurnSound'
  <2>1. ASSUME turn # NoTurn PROVE ChatSound' /\ RegenerateSound' /\ OtherSound' /\ AgentSound'
    <3>1. turn.kind = "chat" => /\ turn.by \in Callers /\ turn.of = Id(turn.by) /\ turn.of \in Requests
                                /\ turn.original = <<>> /\ (turn.step \in {"archived", "inbox"} => ~turn.user)
      BY <1>4, <2>1 DEF SessionInv, TurnSound, ChatSound
    <3>2. \A r : ~Cached(r)'
      BY <1>1 DEF Cached
    <3>3. ChatSound'
      BY <1>1, <1>4, <2>1, <3>1, <3>2, NothingIsSound DEF ChatSound
    <3>4. RegenerateSound
      BY <1>4, <2>1 DEF SessionInv, TurnSound
    <3>5. turn.kind = "regenerate" => Foremost(turn.original, {})
      BY <3>4, NothingIsSound, ProperIs DEF RegenerateSound, Windows
    <3>6. RegenerateSound'
      BY <1>1, <1>4, <2>1, <3>4, <3>5, NothingIsSound DEF RegenerateSound, InBorn
    <3>7. OtherSound'
      BY <1>4, <2>1 DEF SessionInv, TurnSound, OtherSound
    <3>8. AgentSound'
      BY <1>1, <1>4, <2>1, NothingIsSound DEF AgentSound
    <3> QED
      BY <3>3, <3>6, <3>7, <3>8
  <2> QED
    BY <1>4, <2>1 DEF TurnSound
<1>7. ThreadSound'
  BY <1>1, <1>4 DEF SessionInv, ThreadSound, InBorn
<1>8. KeptSound'
  <2>1. Running' => Running /\ turn'.reply = turn.reply
    BY <1>4
  <2>2. Running => turn.reply.kind # "delivery"
    BY DEF SessionInv, KeptSound
  <2>3. Running' => turn'.cleared
    BY <1>4
  <2>4. thread.step \in {"read", "written"} => Running'
    BY <1>4 DEF SessionInv, ThreadSound, NoSave
  <2>5. kept' = {} /\ thread' = thread
    BY <1>1
  <2> QED
    BY <2>1, <2>2, <2>3, <2>4, <2>5 DEF KeptSound
<1>9. AnsweredIsKept'
  BY <1>1 DEF AnsweredIsKept
<1>10. ErasedSound'
  <2>1. ClearHolds'
    BY <1>1, NothingIsSound DEF ClearHolds
  <2>2. /\ thread # NoSave => erased' \cap Range(thread.safe) = {}
        /\ Running' => erased' \cap Range(turn'.original) = {}
    BY <1>1, <1>4 DEF SessionInv, ErasedSound, ThreadSound
  <2>3. ASSUME NEW m \in erased'
        PROVE  m \in Range(born') /\ Time(m)' <= since' /\ (Running' => Time(m)' <= turn'.from)
    <3>1. m \in Range(born)
      BY <1>1, <2>3 DEF SessionInv, ErasedSound, MemorySound, InBorn
    <3>2. Time(m)' = Time(m) /\ Time(m) \in 1..Len(born)
      BY <1>2, <3>1, TimeStays DEF SessionInv, BornSound
    <3>3. Running' => Time(m) <= turn.from
      BY <1>1, <1>4, <2>3 DEF SessionInv, ErasedSound
    <3> QED
      BY <1>1, <1>3, <1>4, <3>1, <3>2, <3>3
  <2> QED
    BY <1>1, <2>1, <2>2, <2>3 DEF ErasedSound
<1>11. CallsSound'
  BY <1>1 DEF SessionInv, CallsSound
<1> QED
  BY <1>2, <1>5, <1>6, <1>7, <1>8, <1>9, <1>10, <1>11 DEF SessionInv

\* A restart finds the row and the archive.
LEMMA CrashKeeps ==
    ASSUME SessionInv, Crash
    PROVE  SessionInv'
<1>1. /\ UNCHANGED <<row, archive, rowSince, born, delivered, kept, erased>>
      /\ conv' = row /\ evicted' = <<>> /\ since' = rowSince /\ queue' = <<>>
      /\ turn' = NoTurn /\ thread' = NoSave
      /\ call' = [c \in Calls |-> IF call[c].st \in {"waiting", "running"}
                                  THEN [st |-> "failed", answer |-> NoAnswer] ELSE call[c]]
  BY DEF Crash, disk
<1>2. since' = since /\ row \in Windows /\ row \in Seq(Messages)
  BY <1>1, ProperIs DEF SessionInv, MemorySound, Windows
<1>3. BornSound' /\ Continues(born, born') /\ Range(born) \subseteq Range(born')
  BY <1>1, BornStays DEF SessionInv
<1>4. MemorySound'
  <2>1. Foremost(conv', Range(evicted')) /\ evicted' \in Seq(Messages) /\ Range(evicted') = {}
    BY <1>1, <1>2, NothingIsSound
  <2> QED
    BY <1>1, <1>2, <2>1 DEF SessionInv, MemorySound, InBorn
<1>5. ~Running' /\ ~InAgent' /\ turn'.kind = "none" /\ thread'.step = "none"
  BY <1>1 DEF Running, InAgent, NoTurn, NoSave
<1>6. TurnSound' /\ ThreadSound'
  BY <1>1, <1>5 DEF TurnSound, ThreadSound
<1>7. AnsweredIsKept'
  BY <1>1 DEF SessionInv, AnsweredIsKept
<1>8. KeptSound'
  <2>1. kept' \subseteq Hers'
    BY <1>1 DEF SessionInv, AnsweredIsKept, Hers
  <2>2. \A m \in kept' : m.kind # "delivery"
    BY <1>1 DEF SessionInv, KeptSound
  <2> QED
    BY <1>5, <2>1, <2>2 DEF KeptSound
<1>9. ErasedSound'
  <2>1. ClearHolds'
    BY <1>1, NothingIsSound DEF SessionInv, ErasedSound, ClearHolds
  <2> QED
    BY <1>1, <1>2, <1>3, <1>5, <2>1, ErasedStays DEF SessionInv
<1>10. CallsSound'
  <2>1. queue' \in Seq(Calls)
    BY <1>1
  <2>2. call' = [c \in Calls |-> call'[c]]
    BY <1>1
  <2> QED
    BY <2>1, <2>2 DEF CallsSound
<1> QED
  BY <1>3, <1>4, <1>6, <1>7, <1>8, <1>9, <1>10 DEF SessionInv

LEMMA MemoryBecomes ==
    ASSUME MemorySound, NEW c \in Sound, conv' = c.conv, evicted' = c.evicted,
           Both(c) \subseteq Range(born'), Range(born) \subseteq Range(born'),
           UNCHANGED <<row, archive, since, rowSince>>
    PROVE  MemorySound' /\ Range(conv') \cup Range(evicted') = Both(c)
<1>1. c.conv \in Windows /\ c.evicted \in Seq(Messages) /\ Foremost(c.conv, Range(c.evicted))
  BY DEF Sound, Pairs
<1>2. Range(conv') \cup Range(evicted') = Both(c)
  BY DEF Both
<1> QED
  BY <1>1, <1>2 DEF MemorySound, InBorn

LEMMA MemoryIs ==
    ASSUME MemorySound, NEW c, c = [conv |-> conv, evicted |-> evicted]
    PROVE  c \in Sound /\ Both(c) = Range(conv) \cup Range(evicted) /\ Both(c) \subseteq Range(born)
<1>1. c \in Pairs /\ c.conv = conv /\ c.evicted = evicted
  BY DEF MemorySound, Pairs
<1> QED
  BY <1>1 DEF MemorySound, InBorn, Sound, Both

\* Deliveries are shown: those that the turn takes are younger than what was cleared before it.
LEMMA IncludeKeeps ==
    ASSUME SessionInv, Include
    PROVE  SessionInv'
<1>0. PICK fresh : fresh = { d \in delivered \ turn.archived : Time(Note(d)) > turn.from }
  OBVIOUS
<1>1. PICK c : c = [conv |-> conv, evicted |-> evicted]
  OBVIOUS
<1>2. PICK r : r = WithDeliveries(c, fresh)
  OBVIOUS
<1>3. /\ UNCHANGED <<row, archive, born, since, rowSince, cache, call, queue, thread, delivered, kept, erased>>
      /\ Running /\ turn.step = "inbox" /\ conv' = r.conv /\ evicted' = r.evicted
      /\ turn' = [turn EXCEPT !.step = IF turn.kind = "chat" THEN "agent" ELSE "save"]
  BY <1>0, <1>1, <1>2 DEF Include, disk, budget, Running
<1>4. born \in Seq(Messages) /\ fresh \subseteq Deliveries /\ fresh \subseteq delivered
  BY <1>0 DEF SessionInv, BornSound, Recorded
<1>5. c \in Sound /\ Both(c) = Range(conv) \cup Range(evicted) /\ Both(c) \subseteq Range(born)
  BY <1>1, MemoryIs DEF SessionInv
<1>6. r \in Sound /\ Both(c) \subseteq Both(r) /\ Both(r) \subseteq Both(c) \cup Notes(fresh)
  BY <1>2, <1>4, <1>5, DeliveriesKeep
<1>7. Notes(fresh) \subseteq Range(born)
  BY <1>4 DEF SessionInv, BornSound, Notes
<1>8. turn \in Turns /\ turn.kind # "regenerate" /\ ~InAgent /\ thread = NoSave
  BY <1>3, TurnIs DEF SessionInv, TurnSound, RegenerateSound, InAgent, ThreadSound
<1>9. /\ turn' \in Turns /\ turn'.kind = turn.kind /\ turn'.by = turn.by /\ turn'.of = turn.of
      /\ turn'.step = (IF turn.kind = "chat" THEN "agent" ELSE "save")
      /\ turn'.user = turn.user /\ turn'.from = turn.from /\ turn'.original = turn.original
      /\ turn'.reply = turn.reply /\ turn'.cleared = turn.cleared /\ turn'.ok = turn.ok
  BY <1>3, <1>8 DEF Turns
<1>10. Running' /\ (InAgent' => turn.kind = "chat")
  BY <1>3, <1>9 DEF Running, InAgent
<1>11. BornSound' /\ Continues(born, born') /\ Range(born) \subseteq Range(born')
  BY <1>3, BornStays DEF SessionInv
<1>12. MemorySound' /\ Range(conv') \cup Range(evicted') = Both(r)
  <2>1. Both(r) \subseteq Range(born')
    BY <1>3, <1>5, <1>6, <1>7
  <2> QED
    BY <1>3, <1>6, <1>11, <2>1, MemoryBecomes DEF SessionInv
<1>13. TurnSound'
  <2>1. CASE turn.kind = "chat"
    <3>1. ChatSound
      BY <1>3, <2>1 DEF SessionInv, TurnSound, ChatSound
    <3>2. /\ turn.by \in Callers /\ turn.of = Id(turn.by) /\ turn.of \in Requests /\ ~Cached(turn.of)
          /\ turn.original = <<>> /\ ~turn.user
          /\ User(turn.of) \notin Range(evicted) /\ User(turn.of) \notin Range(conv)
      BY <1>3, <2>1, <3>1 DEF ChatSound
    <3>3. User(turn.of) \notin Notes(fresh)
      BY <1>4, <3>2, MessagesAre DEF Notes
    <3>4. User(turn.of) \notin Range(conv') /\ User(turn.of) \notin Range(evicted')
      BY <1>5, <1>6, <1>12, <3>2, <3>3
    <3>5. \A k \in 1..Len(conv') : conv'[k] # User(turn.of)
      BY <1>12, <3>4, ProperIs DEF MemorySound, Windows
    <3>6. ChatSound'
      BY <1>3, <1>9, <3>2, <3>4, <3>5 DEF ChatSound, Cached
    <3>7. RegenerateSound' /\ OtherSound' /\ AgentSound'
      BY <1>9, <2>1, <3>2 DEF RegenerateSound, OtherSound, AgentSound
    <3> QED
      BY <1>9, <3>6, <3>7 DEF TurnSound
  <2>2. CASE turn.kind # "chat"
    <3>1. ChatSound' /\ RegenerateSound'
      BY <1>8, <1>9, <2>2 DEF ChatSound, RegenerateSound
    <3>2. OtherSound' /\ AgentSound'
      BY <1>3, <1>8, <1>9, <1>10, <2>2 DEF SessionInv, TurnSound, OtherSound, AgentSound
    <3> QED
      BY <1>9, <3>1, <3>2 DEF TurnSound
  <2> QED
    BY <2>1, <2>2
<1>14. ThreadSound'
  BY <1>3, <1>8 DEF ThreadSound
<1>15. Hers \subseteq Hers'
  BY <1>3, <1>5, <1>6, <1>12 DEF Hers
<1>16. KeptSound'
  <2>1. kept \subseteq Hers
    BY <1>8 DEF SessionInv, KeptSound
  <2>2. turn'.step = "save" => Due' = {}
    BY <1>8, <1>9 DEF Due
  <2>3. thread'.step = "none"
    BY <1>3, <1>8 DEF NoSave
  <2> QED
    BY <1>3, <1>8, <1>9, <1>10, <1>15, <2>1, <2>2, <2>3 DEF SessionInv, KeptSound
<1>17. AnsweredIsKept'
  BY <1>3 DEF SessionInv, AnsweredIsKept
<1>18. ErasedSound'
  <2>1. erased \cap Notes(fresh) = {}
    <3>1. ASSUME NEW d \in fresh PROVE Note(d) \notin erased
      <4>1. Time(Note(d)) > turn.from
        BY <1>0, <3>1
      <4>2. Note(d) \in Range(born)
        BY <1>7, <3>1 DEF Notes
      <4>3. Time(Note(d)) \in Nat /\ turn.from \in Nat
        <5>1. Time(Note(d)) \in 1..Len(born)
          BY <1>11, <4>2, TimeStays DEF SessionInv, BornSound
        <5> QED
          BY <1>8, <5>1 DEF Turns
      <4> QED
        BY <1>3, <4>1, <4>3 DEF SessionInv, ErasedSound
    <3> QED
      BY <3>1 DEF Notes
  <2>2. ClearHolds'
    BY <1>3, <1>5, <1>6, <1>12, <2>1 DEF SessionInv, ErasedSound, ClearHolds
  <2> QED
    BY <1>3, <1>8, <1>9, <1>11, <2>2, ErasedStays DEF SessionInv, Running
<1>19. CallsSound'
  BY <1>3 DEF SessionInv, CallsSound
<1> QED
  BY <1>11, <1>12, <1>13, <1>14, <1>16, <1>17, <1>18, <1>19 DEF SessionInv

\* The window with the user's message in it, as the agent is to answer it.
LEMMA AskedIs ==
    ASSUME SessionInv, InAgent, NEW u, u = User(turn.of),
           NEW w, w = IF turn.user THEN conv ELSE conv \o <<u>>
    PROVE  /\ turn \in Turns /\ Running /\ turn.kind \in {"chat", "regenerate"}
           /\ turn.of \in Requests /\ u \in Messages /\ u.kind = "user" /\ thread = NoSave
           /\ w \in Proper /\ Asks(w) /\ Foremost(w, Range(evicted))
           /\ Range(w) = Range(conv) \cup (IF turn.user THEN {} ELSE {u})
           /\ turn.kind = "regenerate" /\ ~turn.cleared =>
                 \E n \in 0..Len(turn.original) : w = SubSeq(turn.original, 1, n)
           /\ turn.kind = "regenerate" /\ turn.cleared => evicted = <<>> /\ (w = <<>> \/ w = <<u>>)
           /\ ~turn.cleared => u \in Range(w) \cup Range(evicted)
           /\ turn.kind = "chat" =>
                 u \notin Range(evicted) /\ \A k \in 1..Len(w) : w[k] = u => k = Len(w)
<1>1. turn \in Turns /\ Running /\ turn.step = "agent"
  BY TurnIs DEF SessionInv, InAgent, Running
<1>2. thread = NoSave
  BY <1>1 DEF SessionInv, ThreadSound
<1>3. ChatSound /\ RegenerateSound /\ OtherSound /\ AgentSound
  BY <1>1 DEF SessionInv, TurnSound
<1>4. turn.kind \in {"chat", "regenerate"}
  BY <1>1, <1>3 DEF OtherSound, Turns
<1>5. turn.of \in Requests
  BY <1>3, <1>4 DEF ChatSound, RegenerateSound
<1>6. u \in Messages /\ u.kind = "user"
  BY <1>5, MessagesAre
<1>7. /\ conv \in Proper /\ conv \in Seq(Messages) /\ Len(conv) \in Nat /\ Len(conv) <= Window
      /\ evicted \in Seq(Messages) /\ Foremost(conv, Range(evicted))
  BY ProperIs DEF SessionInv, MemorySound, Windows
<1>8. CASE turn.user
  <2>1. w = conv
    BY <1>8
  <2>2. Asks(w) /\ (~turn.cleared => u \in Range(w) \cup Range(evicted))
    BY <1>3, <1>8, <2>1 DEF AgentSound
  <2>3. turn.kind = "regenerate" /\ ~turn.cleared =>
           \E n \in 0..Len(turn.original) : w = SubSeq(turn.original, 1, n)
    BY <1>1, <1>3, <2>1 DEF RegenerateSound, Cut
  <2>4. turn.kind = "regenerate" /\ turn.cleared => evicted = <<>> /\ (w = <<>> \/ w = <<u>>)
    BY <1>1, <1>3, <2>1 DEF RegenerateSound
  <2>5. turn.kind = "chat" => u \notin Range(evicted) /\ \A k \in 1..Len(w) : w[k] = u => k = Len(w)
    BY <1>1, <1>3, <2>1 DEF ChatSound
  <2> QED
    BY <1>1, <1>2, <1>4, <1>5, <1>6, <1>7, <1>8, <2>1, <2>2, <2>3, <2>4, <2>5
<1>9. CASE ~turn.user
  <2>1. w = conv \o <<u>>
    BY <1>9
  <2>2. /\ w \in Seq(Messages) /\ Len(w) = Len(conv) + 1 /\ w[Len(conv) + 1] = u
        /\ \A i \in 1..Len(conv) : w[i] = conv[i]
        /\ Range(w) = Range(conv) \cup {u}
    BY <1>6, <1>7, <2>1, AppendIs
  <2>3. CASE turn.kind = "chat"
    <3>1. u \notin Range(conv) /\ u \notin Range(evicted)
      BY <1>1, <1>3, <1>9, <2>3 DEF ChatSound
    <3>2. w \in Proper /\ Asks(w) /\ Foremost(w, Range(evicted))
      BY <1>6, <1>7, <2>1, <3>1, UserJoins
    <3>3. ASSUME NEW k \in 1..Len(w), w[k] = u PROVE k = Len(w)
      <4>1. \A i \in 1..Len(conv) : conv[i] # u
        BY <1>7, <3>1, RangeIs
      <4>2. k \in 1..Len(conv) \/ k = Len(w)
        BY <1>7, <2>2
      <4> QED
        BY <2>2, <3>3, <4>1, <4>2
    <3> QED
      BY <1>1, <1>2, <1>5, <1>6, <1>9, <2>2, <2>3, <3>1, <3>2, <3>3
  <2>4. CASE turn.kind = "regenerate" /\ ~turn.cleared
    <3>1. PICK n \in 0..Len(turn.original) :
             /\ conv = SubSeq(turn.original, 1, n)
             /\ n < Len(turn.original) /\ turn.original[n + 1] = u
      BY <1>1, <1>3, <1>9, <2>4 DEF RegenerateSound, Cut
    <3>2. /\ turn.original \in Proper /\ turn.original \in Seq(Messages) /\ Len(turn.original) \in Nat
          /\ Foremost(turn.original, Range(evicted))
      BY <1>1, <1>3, <2>4, ProperIs DEF RegenerateSound, Windows
    <3>3. Len(conv) = n /\ \A i \in 1..n : conv[i] = turn.original[i]
      BY <3>1, <3>2
    <3>4. u \notin Range(conv)
      <4>0. \A i, j \in 1..Len(turn.original) : turn.original[i] = turn.original[j] => i = j
        BY <3>2, ProperIs
      <4>1. \A i \in 1..n : turn.original[i] # u
        BY <3>1, <3>2, <4>0
      <4> QED
        BY <1>7, <3>3, <4>1, RangeIs
    <3>5. u \in Range(evicted) => \A j \in 1..Len(conv) : conv[j].kind # "reply"
      <4>1. ASSUME u \in Range(evicted), NEW j \in 1..n PROVE turn.original[j].kind # "reply"
        <5>1. j \in 1..Len(turn.original) /\ n + 1 \in 1..Len(turn.original) /\ j < n + 1
          BY <3>1, <3>2
        <5> QED
          BY <1>6, <3>1, <3>2, <4>1, <5>1 DEF Foremost
      <4> QED
        BY <3>3, <4>1
    <3>6. w \in Proper /\ Asks(w) /\ Foremost(w, Range(evicted))
      BY <1>6, <1>7, <2>1, <3>4, <3>5, UserJoins
    <3>7. w = SubSeq(turn.original, 1, n + 1)
      <4>1. n + 1 \in 0..Len(turn.original)
        BY <3>1, <3>2
      <4>2. PICK v : v = SubSeq(turn.original, 1, n + 1)
        OBVIOUS
      <4>3. v \in Seq(Messages) /\ Len(v) = n + 1 /\ \A i \in 1..(n + 1) : v[i] = turn.original[i]
        <5>1. \A i \in 1..(n + 1) : turn.original[i] \in Messages
          BY <3>2, <4>1
        <5>2. v \in Seq(Messages) /\ Len(v) = IF 1 <= n + 1 THEN (n + 1) - 1 + 1 ELSE 0
          BY <3>2, <4>1, <4>2, <5>1, SubSeqProperties
        <5>3. \A i \in 1..(n + 1) : v[i] = turn.original[i]
          BY <3>2, <4>1, <4>2
        <5> QED
          BY <4>1, <5>2, <5>3
      <4>4. Len(w) = Len(v)
        BY <2>2, <3>3, <4>3
      <4>5. \A i \in 1..Len(w) : w[i] = v[i]
        <5>1. SUFFICES ASSUME NEW i \in 1..Len(w) PROVE w[i] = v[i]
          OBVIOUS
        <5>2. CASE i = n + 1
          BY <2>2, <3>1, <3>3, <4>3, <5>2
        <5>3. CASE i # n + 1
          <6>1. i \in 1..n /\ i \in 1..Len(conv) /\ i \in 1..(n + 1)
            BY <2>2, <3>3, <5>3
          <6> QED
            BY <2>2, <3>3, <4>3, <6>1
        <5> QED
          BY <5>2, <5>3
      <4>6. w \in Seq(Messages) /\ v \in Seq(Messages)
        BY <2>2, <4>3
      <4>7. w = v
        BY <4>4, <4>5, <4>6, SeqEqual
      <4> QED
        BY <4>2, <4>7
    <3>8. n + 1 \in 0..Len(turn.original)
      BY <3>1, <3>2
    <3>9. \E k \in 0..Len(turn.original) : w = SubSeq(turn.original, 1, k)
      BY <3>7, <3>8
    <3> QED
      BY <1>1, <1>2, <1>5, <1>6, <1>9, <2>2, <2>4, <3>6, <3>9
  <2>5. CASE turn.kind = "regenerate" /\ turn.cleared
    <3>1. evicted = <<>> /\ conv = <<>>
      BY <1>1, <1>3, <1>9, <2>5 DEF RegenerateSound
    <3>2. Range(evicted) = {} /\ Range(conv) = {} /\ Len(conv) = 0
      BY <3>1, NothingIsSound
    <3>3. w \in Proper /\ Asks(w) /\ Foremost(w, Range(evicted))
      <4>1. u \notin Range(conv) /\ u \notin Range(evicted)
        BY <3>2
      <4> QED
        BY <1>6, <1>7, <2>1, <4>1, UserJoins
    <3>4. w = <<u>>
      BY <1>6, <2>1, <3>1
    <3> QED
      BY <1>1, <1>2, <1>5, <1>6, <1>9, <2>2, <2>5, <3>1, <3>3, <3>4
  <2> QED
    BY <1>1, <1>4, <2>3, <2>4, <2>5 DEF Turns
<1> QED
  BY <1>1, <1>8, <1>9 DEF Turns

LEMMA BornWith ==
    ASSUME BornSound, NEW u \in Messages, u.kind = "user", born' = Stamp(born, u), delivered' = delivered
    PROVE  /\ BornSound' /\ Continues(born, born') /\ Range(born') = Range(born) \cup {u}
           /\ Range(born) \subseteq Range(born')
<1>1. Recorded(born') /\ Continues(born, born') /\ Range(born') = Range(born) \cup {u}
  BY StampIs DEF BornSound
<1>2. \A d \in Deliveries : Note(d) # u
  BY MessagesAre
<1> QED
  BY <1>1, <1>2 DEF BornSound

\* The agent takes the user's message into the window.
LEMMA AgentTakesKeeps ==
    ASSUME SessionInv, AgentTakes
    PROVE  SessionInv'
<1>1. PICK u : u = User(turn.of)
  OBVIOUS
<1>2. PICK w : w = conv \o <<u>>
  OBVIOUS
<1>3. PICK c : c = Trimmed(w, evicted)
  OBVIOUS
<1>4. /\ UNCHANGED <<row, archive, since, rowSince, cache, call, queue, thread, delivered, kept>>
      /\ InAgent /\ ~turn.user
      /\ conv' = c.conv /\ evicted' = c.evicted /\ born' = Stamp(born, u)
      /\ turn' = [turn EXCEPT !.user = TRUE] /\ erased' = erased \ {u}
  BY <1>1, <1>2, <1>3 DEF AgentTakes, Add, disk, budget
<1>5. w = IF turn.user THEN conv ELSE conv \o <<u>>
  BY <1>2, <1>4
<1>6. /\ turn \in Turns /\ Running /\ turn.kind \in {"chat", "regenerate"} /\ turn.of \in Requests
      /\ u \in Messages /\ u.kind = "user" /\ thread = NoSave
      /\ w \in Proper /\ Asks(w) /\ Foremost(w, Range(evicted))
      /\ Range(w) = Range(conv) \cup {u}
      /\ turn.kind = "regenerate" /\ ~turn.cleared =>
            \E n \in 0..Len(turn.original) : w = SubSeq(turn.original, 1, n)
      /\ turn.kind = "regenerate" /\ turn.cleared => evicted = <<>> /\ (w = <<>> \/ w = <<u>>)
      /\ turn.kind = "chat" => u \notin Range(evicted) /\ \A k \in 1..Len(w) : w[k] = u => k = Len(w)
  BY <1>1, <1>4, <1>5, AskedIs
<1>7. evicted \in Seq(Messages) /\ w \in Seq(Messages) /\ Len(w) \in Nat /\ Window \in Nat \ {0}
  BY <1>6, ProperIs, WindowAssumption DEF SessionInv, MemorySound
<1>8. /\ c \in Sound /\ Both(c) = Range(w) \cup Range(evicted) /\ Range(evicted) \subseteq Range(c.evicted)
      /\ Asks(c.conv)
      /\ Len(w) <= Window => c = [conv |-> w, evicted |-> evicted]
      /\ \A x \in Range(c.evicted) :
            x \in Range(evicted) \/ \E k \in 1..Len(w) : x = w[k] /\ k <= Len(w) - Window
      /\ \E o \in 0..Len(w) : /\ Len(c.conv) = Len(w) - o
                              /\ \A k \in 1..Len(c.conv) : c.conv[k] = w[k + o]
  <2>1. Foremost(w, Range(evicted)) \/ Window = 1
    BY <1>6
  <2>2. w \in Proper /\ evicted \in Seq(Messages) /\ Asks(w)
    BY <1>6, <1>7
  <2>3. Trims(c, w, evicted)
    BY <1>3, <2>1, <2>2, TrimsTo
  <2> QED
    BY <2>2, <2>3 DEF Trims
<1>9. /\ turn' \in Turns /\ turn'.user /\ turn'.kind = turn.kind /\ turn'.by = turn.by
      /\ turn'.step = "agent" /\ turn'.of = turn.of /\ turn'.from = turn.from
      /\ turn'.original = turn.original /\ turn'.reply = turn.reply
      /\ turn'.cleared = turn.cleared /\ turn'.ok = turn.ok
  BY <1>4, <1>6 DEF Turns, InAgent
<1>10. Running' /\ InAgent'
  BY <1>6, <1>9 DEF Running, InAgent
<1>11. /\ BornSound' /\ Continues(born, born') /\ Range(born') = Range(born) \cup {u}
       /\ Range(born) \subseteq Range(born')
  BY <1>4, <1>6, BornWith DEF SessionInv
<1>12. MemorySound' /\ Range(conv') \cup Range(evicted') = Range(conv) \cup {u} \cup Range(evicted)
  <2>1. Both(c) \subseteq Range(born')
    BY <1>6, <1>8, <1>11 DEF SessionInv, MemorySound, InBorn
  <2>2. MemorySound' /\ Range(conv') \cup Range(evicted') = Both(c)
    BY <1>4, <1>8, <1>11, <2>1, MemoryBecomes DEF SessionInv
  <2> QED
    BY <1>6, <1>8, <2>2
<1>13. turn.kind = "regenerate" => conv' = w /\ evicted' = evicted
  <2>1. SUFFICES ASSUME turn.kind = "regenerate" PROVE Len(w) <= Window
    BY <1>4, <1>8
  <2>2. turn.original \in Seq(Messages) /\ Len(turn.original) \in Nat /\ Len(turn.original) <= Window
    BY <1>6, <2>1, ProperIs DEF SessionInv, TurnSound, RegenerateSound, Windows
  <2>3. CASE turn.cleared
    <3>1. w = <<>> \/ w = <<u>>
      BY <1>6, <2>1, <2>3
    <3>2. Len(w) <= 1
      <4>1. CASE w = <<>>
        BY <4>1
      <4>2. CASE w = <<u>>
        BY <4>2
      <4> QED
        BY <3>1, <4>1, <4>2
    <3> QED
      BY <1>7, <3>2
  <2>4. CASE ~turn.cleared
    <3>1. PICK n \in 0..Len(turn.original) : w = SubSeq(turn.original, 1, n)
      BY <1>6, <2>1, <2>4
    <3>2. Len(w) = n
      BY <2>2, <3>1
    <3> QED
      BY <1>7, <2>2, <3>2
  <2> QED
    BY <2>3, <2>4
<1>14. ChatSound'
  <2>1. SUFFICES ASSUME turn.kind = "chat" PROVE ChatSound'
    BY <1>9 DEF ChatSound
  <2>2. /\ turn.by \in Callers /\ turn.of = Id(turn.by) /\ turn.of \in Requests /\ ~Cached(turn.of)
        /\ turn.original = <<>>
    BY <1>6, <2>1 DEF SessionInv, TurnSound, ChatSound
  <2>3. u \notin Range(evicted')
    <3>1. SUFFICES ASSUME u \in Range(c.evicted) PROVE FALSE
      BY <1>4
    <3>2. PICK k \in 1..Len(w) : u = w[k] /\ k <= Len(w) - Window
      BY <1>6, <1>8, <2>1, <3>1
    <3>3. k = Len(w)
      BY <1>6, <2>1, <3>2
    <3> QED
      BY <1>7, <3>2, <3>3
  <2>4. \A k \in 1..Len(conv') : conv'[k] = u => k = Len(conv')
    <3>1. PICK o \in 0..Len(w) : /\ Len(c.conv) = Len(w) - o
                                 /\ \A k \in 1..Len(c.conv) : c.conv[k] = w[k + o]
      BY <1>8
    <3>2. ASSUME NEW k \in 1..Len(c.conv), c.conv[k] = u PROVE k = Len(c.conv)
      <4>1. w[k + o] = u
        BY <3>1, <3>2
      <4>2. k + o \in 1..Len(w)
        BY <1>7, <3>1
      <4>3. k + o = Len(w)
        BY <1>6, <2>1, <4>1, <4>2
      <4> QED
        BY <1>7, <3>1, <4>3
    <3> QED
      BY <1>4, <3>2
  <2> QED
    BY <1>1, <1>4, <1>9, <2>2, <2>3, <2>4 DEF ChatSound, Cached
<1>15. RegenerateSound'
  <2>1. SUFFICES ASSUME turn.kind = "regenerate" PROVE RegenerateSound'
    BY <1>9 DEF RegenerateSound
  <2>2. RegenerateSound /\ turn.step = "agent" /\ conv' = w /\ evicted' = evicted
    BY <1>4, <1>6, <1>13, <2>1 DEF SessionInv, TurnSound, InAgent
  <2>3. InBorn(turn.original)'
    BY <1>9, <1>11, <2>1, <2>2 DEF RegenerateSound, InBorn
  <2>4. ~turn.cleared => \E n \in 0..Len(turn.original) : Cut(n)'
    <3>1. ASSUME NEW n \in 0..Len(turn.original), w = SubSeq(turn.original, 1, n) PROVE Cut(n)'
      BY <1>9, <2>2, <3>1 DEF Cut
    <3> QED
      BY <1>6, <2>1, <3>1
  <2>5. turn.cleared => evicted' = <<>> /\ (conv' = <<>> \/ conv' = <<u>>)
    BY <1>6, <2>1, <2>2
  <2> QED
    BY <1>1, <1>9, <2>1, <2>2, <2>3, <2>4, <2>5 DEF RegenerateSound
<1>16. OtherSound' /\ AgentSound'
  <2>1. Asks(conv')
    BY <1>4, <1>8
  <2>2. u \in Range(conv') \cup Range(evicted')
    BY <1>12
  <2> QED
    BY <1>1, <1>6, <1>9, <2>1, <2>2 DEF OtherSound, AgentSound
<1>17. TurnSound' /\ ThreadSound'
  BY <1>4, <1>6, <1>9, <1>14, <1>15, <1>16 DEF TurnSound, ThreadSound
<1>18. KeptSound'
  <2>1. kept \subseteq Hers \cup {u}
    BY <1>1, <1>6 DEF SessionInv, KeptSound
  <2>2. kept \subseteq Hers'
    BY <1>4, <1>12, <2>1 DEF Hers
  <2>3. turn.kind = "regenerate" /\ turn.ok => kept \subseteq Range(turn.original) \cup Range(evicted') \cup archive
    BY <1>13 DEF SessionInv, KeptSound
  <2>4. turn.reply.kind # "delivery" /\ (turn.cleared => kept = {}) /\ \A m \in kept : m.kind # "delivery"
    BY <1>6 DEF SessionInv, KeptSound
  <2>5. thread'.step = "none"
    BY <1>4, <1>6 DEF NoSave
  <2> QED
    BY <1>4, <1>9, <2>2, <2>3, <2>4, <2>5 DEF KeptSound
<1>19. AnsweredIsKept'
  BY <1>4 DEF SessionInv, AnsweredIsKept
<1>20. ErasedSound'
  <2>1. ClearHolds'
    BY <1>4, <1>12 DEF SessionInv, ErasedSound, ClearHolds
  <2> QED
    BY <1>4, <1>6, <1>9, <1>11, <2>1, ErasedStays DEF SessionInv
<1>21. CallsSound'
  BY <1>4 DEF SessionInv, CallsSound
<1> QED
  BY <1>11, <1>12, <1>17, <1>18, <1>19, <1>20, <1>21 DEF SessionInv

\* The reply that the agent gives now is the next of its request.
LEMMA ReplyIsNew ==
    ASSUME BornSound, NEW r \in Requests, NEW b, b = Stamp(born, User(r)), NEW m, m = NextReply(r),
           born' = Append(b, m), delivered' = delivered
    PROVE  /\ m \in Messages /\ m.kind = "reply" /\ m \notin Range(born) /\ m # User(r)
           /\ BornSound' /\ Continues(born, born') /\ Range(born') = Range(born) \cup {User(r), m}
           /\ Range(born) \subseteq Range(born')
<1>1. User(r) \in Messages /\ User(r).kind = "user"
  BY MessagesAre
<1>2. Recorded(b) /\ Continues(born, b) /\ Range(b) = Range(born) \cup {User(r)}
  BY <1>1, StampIs DEF BornSound
<1>3. RepliesIn(b, r) = RepliesIn(born, r)
  <2>1. \A x : x \in RepliesIn(b, r) <=> x \in RepliesIn(born, r)
    BY <1>1, <1>2 DEF RepliesIn
  <2> QED
    BY <2>1
<1>4. Cardinality(RepliesIn(born, r)) \in Nat
  <2>1. RepliesIn(born, r) \subseteq Range(born)
    BY DEF RepliesIn
  <2>2. IsFiniteSet(RepliesIn(born, r))
    BY <2>1, FS_Subset DEF BornSound, Recorded
  <2> QED
    BY <2>2, FS_CardinalityType
<1>5. m = Reply(r, Cardinality(RepliesIn(born, r)) + 1)
  BY DEF NextReply, Replies, RepliesIn
<1>6. /\ m \in Messages /\ m.kind = "reply" /\ m.of = r
      /\ m.nth = Cardinality(RepliesIn(born, r)) + 1
  BY <1>4, <1>5, MessagesAre
<1>7. m \notin Range(born)
  BY <1>4, <1>6 DEF BornSound, Recorded
<1>8. m # User(r) /\ m \notin Range(b)
  BY <1>1, <1>2, <1>6, <1>7
<1>9. Recorded(born') /\ Continues(b, born') /\ Range(born') = Range(b) \cup {m}
  <2>1. m.nth = Cardinality(RepliesIn(b, m.of)) + 1
    BY <1>3, <1>6
  <2>2. Recorded(b) /\ m \in Messages /\ m \notin Range(b) /\ born' = Append(b, m)
    BY <1>2, <1>6, <1>8
  <2>3. PICK then : then = born'
    OBVIOUS
  <2>4. Recorded(then) /\ Continues(b, then) /\ Range(then) = Range(b) \cup {m}
    BY <2>1, <2>2, <2>3, RecordedStays
  <2> QED
    BY <2>3, <2>4
<1>10. Continues(born, born')
  BY <1>2, <1>9, ContinuesOn DEF BornSound, Recorded
<1>11. \A d \in Deliveries : Note(d) # m /\ Note(d) # User(r)
  BY <1>1, <1>6, MessagesAre
<1>12. BornSound'
  BY <1>2, <1>9, <1>11 DEF BornSound
<1> QED
  BY <1>2, <1>6, <1>7, <1>8, <1>9, <1>10, <1>12

\* The agent answers.
LEMMA AgentAnswersKeeps ==
    ASSUME SessionInv, AgentAnswers
    PROVE  SessionInv'
<1>1. PICK u : u = User(turn.of)
  OBVIOUS
<1>2. PICK w : w = IF turn.user THEN conv ELSE conv \o <<u>>
  OBVIOUS
<1>3. PICK m : m = NextReply(turn.of)
  OBVIOUS
<1>4. /\ InAgent
      /\ Add((IF turn.user THEN <<>> ELSE <<User(turn.of)>>) \o <<m>>, Append(Stamp(born, User(turn.of)), m))
      /\ turn' = [turn EXCEPT !.step = "save", !.user = TRUE, !.reply = m]
      /\ erased' = erased \ {User(turn.of)}
      /\ UNCHANGED <<row, archive, since, rowSince, cache, call, queue, thread, delivered, kept>>
  BY <1>3 DEF AgentAnswers, disk, budget
<1>5. /\ turn \in Turns /\ Running /\ turn.kind \in {"chat", "regenerate"} /\ turn.of \in Requests
      /\ u \in Messages /\ u.kind = "user" /\ thread = NoSave
      /\ w \in Proper /\ Asks(w) /\ Foremost(w, Range(evicted))
      /\ Range(w) = Range(conv) \cup (IF turn.user THEN {} ELSE {u})
      /\ turn.kind = "regenerate" /\ ~turn.cleared =>
            \E n \in 0..Len(turn.original) : w = SubSeq(turn.original, 1, n)
      /\ turn.kind = "regenerate" /\ turn.cleared => evicted = <<>> /\ (w = <<>> \/ w = <<u>>)
      /\ ~turn.cleared => u \in Range(w) \cup Range(evicted)
      /\ turn.kind = "chat" => u \notin Range(evicted) /\ \A k \in 1..Len(w) : w[k] = u => k = Len(w)
  BY <1>1, <1>2, <1>4, AskedIs
<1>6. PICK b : b = Stamp(born, u)
  OBVIOUS
<1>7. born' = Append(b, m)
  BY <1>1, <1>4, <1>6 DEF Add
<1>8. /\ m \in Messages /\ m.kind = "reply" /\ m \notin Range(born) /\ m # u
      /\ BornSound' /\ Continues(born, born') /\ Range(born') = Range(born) \cup {u, m}
      /\ Range(born) \subseteq Range(born')
  BY <1>1, <1>3, <1>4, <1>5, <1>6, <1>7, ReplyIsNew DEF SessionInv
<1>9. /\ conv \in Seq(Messages) /\ evicted \in Seq(Messages) /\ w \in Seq(Messages)
      /\ Len(w) \in Nat /\ Window \in Nat \ {0}
  BY <1>5, ProperIs, WindowAssumption DEF SessionInv, MemorySound, Windows
<1>10. PICK v : v = w \o <<m>>
  OBVIOUS
<1>11. conv \o ((IF turn.user THEN <<>> ELSE <<User(turn.of)>>) \o <<m>>) = v
  <2>1. <<m>> \in Seq(Messages) /\ <<u>> \in Seq(Messages)
    BY <1>5, <1>8
  <2>2. CASE turn.user
    <3>1. v = conv \o <<m>>
      BY <1>2, <1>10, <2>2
    <3>2. <<>> \o <<m>> = <<m>>
      BY <2>1
    <3> QED
      BY <2>2, <3>1, <3>2
  <2>3. CASE ~turn.user
    <3>1. v = (conv \o <<u>>) \o <<m>>
      BY <1>2, <1>10, <2>3
    <3>2. (conv \o <<u>>) \o <<m>> = conv \o (<<u>> \o <<m>>)
      BY <1>9, <2>1, ConcatAssociative
    <3> QED
      BY <1>1, <2>3, <3>1, <3>2
  <2> QED
    BY <2>2, <2>3
<1>12. PICK c : c = Trimmed(v, evicted)
  OBVIOUS
<1>13. conv' = c.conv /\ evicted' = c.evicted
  BY <1>4, <1>11, <1>12 DEF Add
<1>14. m \notin Range(w) /\ m \notin Range(evicted)
  <2>1. Range(conv) \subseteq Range(born) /\ Range(evicted) \subseteq Range(born)
    BY DEF SessionInv, MemorySound, InBorn
  <2> QED
    BY <1>5, <1>8, <2>1
<1>15. v \in Proper /\ Foremost(v, Range(evicted))
  BY <1>5, <1>8, <1>10, <1>14, ReplyJoins
<1>16. /\ v \in Seq(Messages) /\ Len(v) = Len(w) + 1 /\ v[Len(w) + 1] = m
       /\ \A i \in 1..Len(w) : v[i] = w[i]
       /\ Range(v) = Range(w) \cup {m}
  BY <1>8, <1>9, <1>10, AppendIs
<1>17. Trims(c, v, evicted)
  BY <1>9, <1>12, <1>15, TrimsTo
<1>18. /\ c \in Sound /\ Both(c) = Range(v) \cup Range(evicted) /\ Range(evicted) \subseteq Range(c.evicted)
       /\ Len(v) <= Window => c = [conv |-> v, evicted |-> evicted]
       /\ \A x \in Range(c.evicted) :
             x \in Range(evicted) \/ \E k \in 1..Len(v) : x = v[k] /\ k <= Len(v) - Window
  BY <1>17 DEF Trims
<1>19. /\ turn' \in Turns /\ turn'.user /\ turn'.kind = turn.kind /\ turn'.by = turn.by
       /\ turn'.step = "save" /\ turn'.of = turn.of /\ turn'.from = turn.from
       /\ turn'.original = turn.original /\ turn'.reply = m
       /\ turn'.cleared = turn.cleared /\ turn'.ok = turn.ok
  BY <1>4, <1>5, <1>8 DEF Turns
<1>20. Running' /\ ~InAgent'
  BY <1>5, <1>19 DEF Running, InAgent
<1>21. MemorySound' /\ Range(conv') \cup Range(evicted') = Range(w) \cup {m} \cup Range(evicted)
  <2>1. Both(c) \subseteq Range(born')
    BY <1>5, <1>8, <1>16, <1>18 DEF SessionInv, MemorySound, InBorn
  <2>2. MemorySound' /\ Range(conv') \cup Range(evicted') = Both(c)
    BY <1>4, <1>8, <1>13, <1>18, <2>1, MemoryBecomes DEF SessionInv
  <2> QED
    BY <1>16, <1>18, <2>2
<1>22. ChatSound'
  <2>1. SUFFICES ASSUME turn.kind = "chat" PROVE ChatSound'
    BY <1>19 DEF ChatSound
  <2>2. /\ turn.by \in Callers /\ turn.of = Id(turn.by) /\ turn.of \in Requests /\ ~Cached(turn.of)
        /\ turn.original = <<>>
    BY <1>5, <2>1 DEF SessionInv, TurnSound, ChatSound
  <2>3. u \in Range(evicted') => Window = 1
    <3>1. SUFFICES ASSUME u \in Range(c.evicted) PROVE Window = 1
      BY <1>13
    <3>2. PICK k \in 1..Len(v) : u = v[k] /\ k <= Len(v) - Window
      BY <1>5, <1>18, <2>1, <3>1
    <3>3. k \in 1..Len(w)
      BY <1>8, <1>9, <1>16, <3>2
    <3>4. k = Len(w)
      BY <1>5, <1>16, <2>1, <3>2, <3>3
    <3> QED
      BY <1>9, <1>16, <3>2, <3>4
  <2> QED
    BY <1>1, <1>4, <1>19, <2>2, <2>3 DEF ChatSound, Cached
<1>23. RegenerateSound'
  <2>1. SUFFICES ASSUME turn.kind = "regenerate" PROVE RegenerateSound'
    BY <1>19 DEF RegenerateSound
  <2>2. /\ RegenerateSound /\ turn.step = "agent" /\ Foremost(turn.original, Range(evicted))
        /\ turn.original \in Proper /\ turn.original \in Seq(Messages)
        /\ Len(turn.original) \in Nat /\ Len(turn.original) <= Window
    BY <1>4, <1>5, <2>1, ProperIs DEF SessionInv, TurnSound, RegenerateSound, Windows, InAgent
  <2>3. InBorn(turn.original)'
    BY <1>8, <1>19, <2>1, <2>2 DEF RegenerateSound, InBorn
  <2>4. Foremost(turn.original, Range(c.evicted))
    <3>1. SUFFICES ASSUME NEW j \in 1..Len(turn.original), NEW k \in 1..Len(turn.original), j < k,
                          turn.original[k].kind = "user", turn.original[k] \in Range(c.evicted)
                   PROVE  turn.original[j].kind # "reply"
      BY DEF Foremost
    <3>2. CASE turn.original[k] \in Range(evicted)
      BY <2>2, <3>1, <3>2 DEF Foremost
    <3>3. CASE turn.original[k] \notin Range(evicted)
      <4>1. PICK i \in 1..Len(v) : turn.original[k] = v[i] /\ i <= Len(v) - Window
        BY <1>18, <3>1, <3>3
      <4>2. Window >= 2
        BY <1>9, <2>2, <3>1
      <4>3. CASE turn.cleared
        <5>1. Len(w) <= 1
          <6>1. w = <<>> \/ w = <<u>>
            BY <1>5, <2>1, <4>3
          <6>2. CASE w = <<>>
            BY <6>2
          <6>3. CASE w = <<u>>
            BY <6>3
          <6> QED
            BY <6>1, <6>2, <6>3
        <5> QED
          BY <1>9, <1>16, <4>1, <4>2, <5>1
      <4>4. CASE ~turn.cleared
        <5>1. PICK n \in 0..Len(turn.original) : w = SubSeq(turn.original, 1, n)
          BY <1>5, <2>1, <4>4
        <5>2. Len(w) = n /\ \A x \in 1..n : w[x] = turn.original[x]
          BY <2>2, <5>1
        <5>3. i = 1 /\ 1 \in 1..n /\ 1 \in 1..Len(w) /\ 1 \in 1..Len(turn.original)
          BY <1>9, <1>16, <2>2, <4>1, <4>2, <5>2
        <5>4. turn.original[k] = turn.original[1]
          BY <1>16, <4>1, <5>2, <5>3
        <5>5. k = 1
          BY <2>2, <5>3, <5>4, ProperIs
        <5> QED
          BY <3>1, <5>5
      <4> QED
        BY <4>3, <4>4
    <3> QED
      BY <3>2, <3>3
  <2>5. Foremost(turn'.original, Range(evicted'))
    BY <1>13, <1>19, <2>4
  <2> QED
    BY <1>19, <2>1, <2>2, <2>3, <2>5 DEF RegenerateSound
<1>24. OtherSound' /\ AgentSound'
  BY <1>5, <1>19, <1>20 DEF OtherSound, AgentSound
<1>25. TurnSound' /\ ThreadSound'
  BY <1>4, <1>5, <1>19, <1>22, <1>23, <1>24 DEF TurnSound, ThreadSound
<1>26. KeptSound'
  <2>1. kept \subseteq Hers'
    <3>1. kept \subseteq Hers \cup (IF turn.user THEN {} ELSE {u})
      BY <1>1 DEF SessionInv, KeptSound
    <3> QED
      BY <1>4, <1>5, <1>21, <3>1 DEF Hers
  <2>2. turn.kind = "regenerate" /\ turn.ok => kept \subseteq Range(turn.original) \cup Range(evicted') \cup archive
    BY <1>13, <1>18 DEF SessionInv, KeptSound
  <2>3. m.kind # "delivery" /\ (turn.cleared => kept = {}) /\ \A x \in kept : x.kind # "delivery"
    BY <1>5, <1>8 DEF SessionInv, KeptSound
  <2>4. ~turn.cleared => Due' \subseteq Hers'
    <3>1. Due' \subseteq {u, m}
      BY <1>1, <1>19 DEF Due
    <3>2. ~turn.cleared => u \in Hers' /\ m \in Hers'
      BY <1>5, <1>21 DEF Hers
    <3> QED
      BY <3>1, <3>2
  <2>5. thread'.step = "none"
    BY <1>4, <1>5 DEF NoSave
  <2> QED
    BY <1>4, <1>19, <1>20, <2>1, <2>2, <2>3, <2>4, <2>5 DEF KeptSound
<1>27. AnsweredIsKept'
  BY <1>4 DEF SessionInv, AnsweredIsKept
<1>28. ErasedSound'
  <2>1. m \notin erased
    BY <1>8 DEF SessionInv, ErasedSound
  <2>2. Range(w) \subseteq Range(conv) \cup {u}
    BY <1>5
  <2>3. ClearHolds'
    BY <1>1, <1>4, <1>21, <2>1, <2>2 DEF SessionInv, ErasedSound, ClearHolds
  <2> QED
    BY <1>4, <1>5, <1>8, <1>19, <2>3, ErasedStays DEF SessionInv
<1>29. CallsSound'
  BY <1>4 DEF SessionInv, CallsSound
<1> QED
  BY <1>8, <1>21, <1>25, <1>26, <1>27, <1>28, <1>29 DEF SessionInv

\* A failing turn leaves the user's message in memory, and a failing regeneration the old window.
LEMMA Recovers ==
    ASSUME SessionInv, Running, turn.kind \in {"chat", "regenerate"},
           turn.kind = "regenerate" => turn.ok, Recovered,
           delivered' = delivered, UNCHANGED <<row, archive, since, rowSince>>,
           NEW u, u = User(turn.of)
    PROVE  /\ MemorySound' /\ BornSound' /\ Continues(born, born') /\ Range(born) \subseteq Range(born')
           /\ Range(evicted) \subseteq Range(evicted')
           /\ turn.kind = "regenerate" => conv' = turn.original /\ evicted' = evicted
           /\ turn.kind = "chat" =>
                 /\ Range(conv') \cup Range(evicted') = Range(conv) \cup Range(evicted) \cup {u}
                 /\ u \in Range(evicted') => u \in Range(conv') \/ Window = 1
<1>1. turn \in Turns /\ ChatSound /\ RegenerateSound
  BY TurnIs DEF SessionInv, TurnSound
<1>2. turn.of \in Requests /\ u \in Messages /\ u.kind = "user"
  BY <1>1, MessagesAre DEF ChatSound, RegenerateSound
<1>3. /\ conv \in Proper /\ conv \in Seq(Messages) /\ evicted \in Seq(Messages)
      /\ Foremost(conv, Range(evicted)) /\ Window \in Nat \ {0} /\ MemorySound /\ BornSound
  BY ProperIs, WindowAssumption DEF SessionInv, MemorySound, Windows
<1>4. CASE turn.kind = "regenerate"
  <2>1. PICK w : w = turn.original
    OBVIOUS
  <2>2. PICK c : c = Trimmed(w, evicted)
    OBVIOUS
  <2>3. conv' = c.conv /\ evicted' = c.evicted /\ born' = born
    BY <1>4, <2>1, <2>2 DEF Recovered
  <2>4. /\ w \in Proper /\ Foremost(w, Range(evicted)) /\ Len(w) <= Window /\ Range(w) \subseteq Range(born)
    BY <1>1, <1>4, <2>1 DEF RegenerateSound, Windows, InBorn
  <2>5. Trims(c, w, evicted)
    BY <1>3, <2>2, <2>4, TrimsTo
  <2>6. c \in Sound /\ Both(c) = Range(w) \cup Range(evicted) /\ c = [conv |-> w, evicted |-> evicted]
    BY <2>4, <2>5 DEF Trims
  <2>7. conv' = w /\ evicted' = evicted
    BY <2>3, <2>6
  <2>8. BornSound' /\ Continues(born, born') /\ Range(born) \subseteq Range(born')
    BY <1>3, <2>3, BornStays
  <2>9. Both(c) \subseteq Range(born')
    BY <1>3, <2>4, <2>6, <2>8 DEF MemorySound, InBorn
  <2>10. MemorySound'
    BY <1>3, <2>3, <2>6, <2>8, <2>9, MemoryBecomes
  <2> QED
    BY <1>4, <2>1, <2>7, <2>8, <2>10
<1>5. CASE turn.kind = "chat" /\ u \in Range(conv)
  <2>1. UNCHANGED <<conv, evicted, born>>
    BY <1>5 DEF Recovered
  <2>2. BornSound' /\ Continues(born, born') /\ Range(born) \subseteq Range(born')
    BY <1>3, <2>1, BornStays
  <2>3. MemorySound'
    BY <1>3, <2>1, <2>2, MemoryStays
  <2> QED
    BY <1>5, <2>1, <2>2, <2>3
<1>6. CASE turn.kind = "chat" /\ u \notin Range(conv)
  <2>1. PICK w : w = conv \o <<u>>
    OBVIOUS
  <2>2. PICK c : c = Trimmed(w, evicted)
    OBVIOUS
  <2>3. conv' = c.conv /\ evicted' = c.evicted /\ born' = Stamp(born, u)
    BY <1>6, <2>1, <2>2 DEF Recovered, Add
  <2>4. /\ w \in Seq(Messages) /\ Len(w) = Len(conv) + 1 /\ w[Len(conv) + 1] = u
        /\ \A i \in 1..Len(conv) : w[i] = conv[i]
        /\ Range(w) = Range(conv) \cup {u}
    BY <1>2, <1>3, <2>1, AppendIs
  <2>5. w \in Proper /\ (Foremost(w, Range(evicted)) \/ Window = 1)
    <3>1. CASE u \notin Range(evicted)
      BY <1>2, <1>3, <1>6, <2>1, <3>1, UserJoins
    <3>2. CASE u \in Range(evicted)
      <4>1. Window = 1
        BY <1>1, <1>6, <3>2 DEF ChatSound
      <4>2. Foremost(conv, {})
        BY <1>3, NothingIsSound
      <4>3. w \in Proper
        BY <1>2, <1>3, <1>6, <2>1, <4>2, UserJoins
      <4> QED
        BY <4>1, <4>3
    <3> QED
      BY <3>1, <3>2
  <2>6. Trims(c, w, evicted)
    BY <1>3, <2>2, <2>5, TrimsTo
  <2>7. /\ c \in Sound /\ Both(c) = Range(w) \cup Range(evicted) /\ Range(evicted) \subseteq Range(c.evicted)
        /\ \A x \in Range(c.evicted) :
              x \in Range(evicted) \/ \E k \in 1..Len(w) : x = w[k] /\ k <= Len(w) - Window
    BY <2>6 DEF Trims
  <2>8. /\ BornSound' /\ Continues(born, born') /\ Range(born') = Range(born) \cup {u}
        /\ Range(born) \subseteq Range(born')
    BY <1>2, <1>3, <2>3, BornWith
  <2>9. Both(c) \subseteq Range(born')
    BY <1>3, <2>4, <2>7, <2>8 DEF MemorySound, InBorn
  <2>10. MemorySound' /\ Range(conv') \cup Range(evicted') = Both(c)
    BY <1>3, <2>3, <2>7, <2>8, <2>9, MemoryBecomes
  <2>11. u \in Range(evicted') => Window = 1
    <3>1. SUFFICES ASSUME u \in Range(c.evicted), u \notin Range(evicted) PROVE FALSE
      BY <1>1, <1>6, <2>3 DEF ChatSound
    <3>2. PICK k \in 1..Len(w) : u = w[k] /\ k <= Len(w) - Window
      BY <2>7, <3>1
    <3>3. k \in 1..Len(conv)
      BY <1>3, <2>4, <3>2
    <3> QED
      BY <1>3, <1>6, <2>4, <3>2, <3>3, RangeIs
  <2> QED
    BY <1>6, <2>3, <2>4, <2>7, <2>8, <2>10, <2>11
<1> QED
  BY <1>4, <1>5, <1>6


\* A turn that fails goes on to save what it leaves.
LEMMA TurnFails ==
    ASSUME SessionInv, Running, turn.kind \in {"chat", "regenerate"}, Recovered,
           turn.kind = "regenerate" => turn.ok, NEW u, u = User(turn.of),
           UNCHANGED <<row, archive, since, rowSince, cache, call, queue, delivered, kept>>,
           thread' = NoSave, erased' = erased \ {u},
           turn' \in Turns, turn'.step = "save", ~turn'.ok, turn'.kind = turn.kind, turn'.by = turn.by,
           turn'.of = turn.of, turn'.from = turn.from, turn'.original = turn.original,
           turn'.cleared = turn.cleared, turn'.reply.kind # "delivery",
           turn.kind = "regenerate" => turn'.reply \in {NoAnswer} \cup Range(turn.original)
    PROVE  SessionInv'
<1>1. /\ MemorySound' /\ BornSound' /\ Continues(born, born') /\ Range(born) \subseteq Range(born')
      /\ Range(evicted) \subseteq Range(evicted')
      /\ turn.kind = "regenerate" => conv' = turn.original /\ evicted' = evicted
      /\ turn.kind = "chat" =>
            /\ Range(conv') \cup Range(evicted') = Range(conv) \cup Range(evicted) \cup {u}
            /\ u \in Range(evicted') => u \in Range(conv') \/ Window = 1
  BY Recovers
<1>2. Running' /\ ~InAgent' /\ thread'.step = "none" /\ ChatSound /\ RegenerateSound
  BY DEF Running, InAgent, NoSave, SessionInv, TurnSound
<1>3. ChatSound'
  <2>1. SUFFICES ASSUME turn.kind = "chat" PROVE ChatSound'
    BY DEF ChatSound
  <2>2. /\ turn.by \in Callers /\ turn.of = Id(turn.by) /\ turn.of \in Requests /\ ~Cached(turn.of)
        /\ turn.original = <<>>
    BY <1>2, <2>1 DEF ChatSound
  <2> QED
    BY <1>1, <2>1, <2>2 DEF ChatSound, Cached
<1>4. RegenerateSound'
  <2>1. SUFFICES ASSUME turn.kind = "regenerate" PROVE RegenerateSound'
    BY DEF RegenerateSound
  <2>2. InBorn(turn.original)'
    BY <1>1, <1>2, <2>1 DEF RegenerateSound, InBorn
  <2> QED
    BY <1>2, <2>1, <2>2 DEF RegenerateSound
<1>5. TurnSound' /\ ThreadSound'
  BY <1>2, <1>3, <1>4 DEF TurnSound, ThreadSound, OtherSound, AgentSound
<1>6. KeptSound'
  <2>1. (turn.cleared => kept = {}) /\ \A m \in kept : m.kind # "delivery"
    BY DEF SessionInv, KeptSound
  <2>2. kept \subseteq Hers' /\ Due' \subseteq Hers'
    <3>1. CASE turn.kind = "chat"
      <4>1. kept \subseteq Hers
        BY <3>1 DEF SessionInv, KeptSound
      <4>2. Hers \subseteq Hers'
        BY <1>1, <3>1 DEF Hers
      <4>3. Due' = {}
        BY <3>1 DEF Due
      <4> QED
        BY <4>1, <4>2, <4>3
    <3>2. CASE turn.kind = "regenerate"
      <4>1. kept \subseteq Range(turn.original) \cup Range(evicted) \cup archive
        BY <3>2 DEF SessionInv, KeptSound
      <4>2. Hers' = Range(turn.original) \cup Range(evicted) \cup archive
        BY <1>1, <3>2 DEF Hers
      <4>3. Due' \subseteq Range(turn.original)
        BY <3>2 DEF Due
      <4> QED
        BY <4>1, <4>2, <4>3
    <3> QED
      BY <3>1, <3>2
  <2> QED
    BY <1>2, <2>1, <2>2 DEF KeptSound
<1>7. AnsweredIsKept'
  BY DEF SessionInv, AnsweredIsKept
<1>8. ErasedSound'
  <2>1. erased \cap Range(turn.original) = {} /\ ClearHolds
    BY DEF SessionInv, ErasedSound
  <2>2. ClearHolds'
    BY <1>1, <2>1 DEF ClearHolds
  <2> QED
    BY <1>1, <2>2, ErasedStays DEF SessionInv
<1>9. CallsSound'
  BY DEF SessionInv, CallsSound
<1> QED
  BY <1>1, <1>5, <1>6, <1>7, <1>8, <1>9 DEF SessionInv

\* The agent fails.
LEMMA AgentFailsKeeps ==
    ASSUME SessionInv, AgentFails
    PROVE  SessionInv'
<1>1. PICK u : u = User(turn.of)
  OBVIOUS
<1>2. /\ UNCHANGED <<row, archive, since, rowSince, cache, call, queue, thread, delivered, kept>>
      /\ InAgent /\ Recovered
      /\ turn' = [turn EXCEPT !.step = "save", !.ok = FALSE] /\ erased' = erased \ {u}
  BY <1>1 DEF AgentFails, disk
<1>3. PICK w : w = IF turn.user THEN conv ELSE conv \o <<u>>
  OBVIOUS
<1>4. turn \in Turns /\ Running /\ turn.kind \in {"chat", "regenerate"} /\ thread = NoSave
  BY <1>1, <1>2, <1>3, AskedIs
<1>5. turn.kind = "regenerate" => turn.ok /\ turn.reply \in {NoAnswer} \cup Range(turn.original)
  BY <1>2, <1>4 DEF SessionInv, TurnSound, RegenerateSound, InAgent
<1>6. /\ turn' \in Turns /\ turn'.step = "save" /\ ~turn'.ok /\ turn'.kind = turn.kind
      /\ turn'.by = turn.by /\ turn'.of = turn.of /\ turn'.from = turn.from
      /\ turn'.original = turn.original /\ turn'.cleared = turn.cleared /\ turn'.reply = turn.reply
  BY <1>2, <1>4 DEF Turns
<1>7. turn.reply.kind # "delivery"
  BY <1>4 DEF SessionInv, KeptSound
<1> QED
  BY <1>1, <1>2, <1>4, <1>5, <1>6, <1>7, TurnFails

\* The save fails: a turn that had an answer fails with it, another ends here.
LEMMA SaveFailsKeeps ==
    ASSUME SessionInv, SaveFails
    PROVE  SessionInv'
<1>1. /\ UNCHANGED <<row, archive, since, rowSince, cache, queue, delivered, kept>>
      /\ thread.step = "read" /\ thread' = NoSave
  BY DEF SaveFails, disk
<1>2. turn \in Turns /\ Running /\ turn.step = "save" /\ ~InAgent
  BY <1>1, TurnIs DEF SessionInv, ThreadSound, NoSave, InAgent
<1>3. CASE turn.ok /\ turn.kind \in {"chat", "regenerate"}
  <2>1. PICK u : u = User(turn.of)
    OBVIOUS
  <2>2. PICK last : last = IF turn.kind = "chat" \/ turn.original = <<>> THEN NoAnswer ELSE Last(turn.original)
    OBVIOUS
  <2>3. /\ Recovered /\ turn' = [turn EXCEPT !.ok = FALSE, !.reply = last] /\ erased' = erased \ {u}
        /\ call' = call
    BY <1>3, <2>1, <2>2 DEF SaveFails
  <2>4. /\ turn.kind = "regenerate" => last \in {NoAnswer} \cup Range(turn.original)
        /\ last \in Messages \cup {NoAnswer} /\ last.kind # "delivery"
    <3>1. CASE turn.kind = "chat"
      BY <2>2, <3>1, MessagesAre
    <3>2. CASE turn.kind = "regenerate"
      <4>1. turn.original \in Seq(Messages) /\ turn.original # <<>> /\ Last(turn.original).kind # "delivery"
        BY <1>2, <3>2, ProperIs DEF SessionInv, TurnSound, RegenerateSound, Windows
      <4>2. last = turn.original[Len(turn.original)] /\ last.kind # "delivery"
        BY <2>2, <3>2, <4>1 DEF Last
      <4>3. Len(turn.original) \in 1..Len(turn.original)
        BY <4>1
      <4> QED
        BY <4>1, <4>2, <4>3, RangeIs
    <3> QED
      BY <1>3, <3>1, <3>2
  <2>5. /\ turn' \in Turns /\ turn'.step = "save" /\ ~turn'.ok /\ turn'.kind = turn.kind
        /\ turn'.by = turn.by /\ turn'.of = turn.of /\ turn'.from = turn.from
        /\ turn'.original = turn.original /\ turn'.cleared = turn.cleared /\ turn'.reply = last
    BY <1>2, <2>3, <2>4 DEF Turns
  <2> QED
    BY <1>1, <1>2, <1>3, <2>1, <2>3, <2>4, <2>5, TurnFails
<1>4. CASE ~(turn.ok /\ turn.kind \in {"chat", "regenerate"})
  <2>1. turn' = NoTurn /\ Ends(turn.by, "failed", NoAnswer) /\ UNCHANGED <<conv, evicted, born, erased>>
    BY <1>4 DEF SaveFails
  <2>2. ~Running' /\ ~InAgent' /\ turn'.kind = "none" /\ thread'.step = "none"
    BY <1>1, <2>1 DEF Running, InAgent, NoTurn, NoSave
  <2>3. BornSound' /\ Continues(born, born') /\ Range(born) \subseteq Range(born')
    BY <1>1, <2>1, BornStays DEF SessionInv
  <2>4. MemorySound'
    BY <1>1, <2>1, <2>3, MemoryStays DEF SessionInv
  <2>5. TurnSound' /\ ThreadSound'
    BY <1>1, <2>1, <2>2 DEF TurnSound, ThreadSound
  <2>6. AnsweredIsKept'
    BY <1>1 DEF SessionInv, AnsweredIsKept
  <2>7. KeptSound'
    <3>1. kept' \subseteq Hers' /\ \A m \in kept' : m.kind # "delivery"
      BY <1>1, <1>2, <2>1 DEF SessionInv, KeptSound, Hers
    <3> QED
      BY <2>2, <3>1 DEF KeptSound
  <2>8. ErasedSound'
    <3>1. ClearHolds'
      BY <1>1, <2>1 DEF SessionInv, ErasedSound, ClearHolds
    <3> QED
      BY <1>1, <2>1, <2>2, <2>3, <3>1, ErasedStays DEF SessionInv
  <2>9. CallsSound'
    BY <1>1, <2>1 DEF SessionInv, CallsSound, Ends
  <2> QED
    BY <2>3, <2>4, <2>5, <2>6, <2>7, <2>8, <2>9 DEF SessionInv
<1> QED
  BY <1>3, <1>4

\* The first messages of a window are a window.
LEMMA PrefixIs ==
    ASSUME NEW s \in Windows, NEW n \in 0..Len(s), NEW t, t = SubSeq(s, 1, n), NEW gone, Foremost(s, gone)
    PROVE  /\ t \in Windows /\ Foremost(t, gone) /\ Len(t) = n /\ \A k \in 1..n : t[k] = s[k]
           /\ Range(t) = { s[k] : k \in 1..n } /\ Range(t) \subseteq Range(s)
<1>1. s \in Proper /\ s \in Seq(Messages) /\ Len(s) \in Nat /\ Len(s) <= Window /\ Window \in Nat
  BY ProperIs, WindowAssumption DEF Windows
<1>2. \A i \in 1..n : s[i] \in Messages
  BY <1>1
<1>3. t \in Seq(Messages) /\ Len(t) = n
  <2>1. t \in Seq(Messages) /\ Len(t) = IF 1 <= n THEN n - 1 + 1 ELSE 0
    BY <1>1, <1>2, SubSeqProperties
  <2> QED
    BY <1>1, <2>1
<1>4. \A k \in 1..n : t[k] = s[k]
  BY <1>1
<1>5. Range(t) = { t[k] : k \in 1..Len(t) } /\ Range(s) = { s[k] : k \in 1..Len(s) }
  <2>1. t \in Seq(Messages) /\ s \in Seq(Messages)
    BY <1>1, <1>3
  <2>2. ASSUME NEW q \in Seq(Messages) PROVE Range(q) = { q[k] : k \in 1..Len(q) }
    BY RangeIs
  <2> QED
    BY <2>1, <2>2
<1>6. Range(t) = { s[k] : k \in 1..n } /\ Range(t) \subseteq Range(s)
  <2>1. \A x : x \in Range(t) <=> \E k \in 1..n : x = s[k]
    BY <1>3, <1>4, <1>5
  <2>2. \A k \in 1..n : k \in 1..Len(s)
    BY <1>1
  <2> QED
    BY <1>5, <2>1, <2>2
<1>7. \A i, j \in 1..Len(t) : t[i] = t[j] => i = j
  <2>1. SUFFICES ASSUME NEW i \in 1..Len(t), NEW j \in 1..Len(t), t[i] = t[j] PROVE i = j
    OBVIOUS
  <2>2. i \in 1..n /\ j \in 1..n /\ i \in 1..Len(s) /\ j \in 1..Len(s)
    BY <1>1, <1>3
  <2>3. s[i] = s[j]
    BY <1>4, <2>1, <2>2
  <2> QED
    BY <1>1, <2>2, <2>3, ProperIs
<1>8. Alternates(t)
  <2>1. SUFFICES ASSUME NEW j \in 1..Len(t), NEW k \in 1..Len(t), j < k, t[j].kind = "reply",
                        t[k].kind = "reply"
                 PROVE  \E l \in 1..Len(t) : j < l /\ l < k /\ t[l].kind = "user"
    BY DEF Alternates
  <2>2. j \in 1..n /\ k \in 1..n /\ j \in 1..Len(s) /\ k \in 1..Len(s)
    BY <1>1, <1>3
  <2>3. s[j].kind = "reply" /\ s[k].kind = "reply"
    BY <1>4, <2>1, <2>2
  <2>4. Alternates(s)
    BY <1>1, ProperIs
  <2>5. PICK l \in 1..Len(s) : j < l /\ l < k /\ s[l].kind = "user"
    BY <2>1, <2>2, <2>3, <2>4 DEF Alternates
  <2>6. l \in 1..n /\ l \in 1..Len(t)
    BY <1>1, <1>3, <2>2, <2>5
  <2> QED
    BY <1>4, <2>5, <2>6
<1>9. Foremost(t, gone)
  <2>1. SUFFICES ASSUME NEW j \in 1..Len(t), NEW k \in 1..Len(t), j < k, t[k].kind = "user", t[k] \in gone
                 PROVE  t[j].kind # "reply"
    BY DEF Foremost
  <2>2. j \in 1..n /\ k \in 1..n /\ j \in 1..Len(s) /\ k \in 1..Len(s)
    BY <1>1, <1>3
  <2>3. t[j] = s[j] /\ t[k] = s[k]
    BY <1>4, <2>2
  <2> QED
    BY <2>1, <2>2, <2>3 DEF Foremost
<1>10. t \in Windows
  <2>1. t \in Proper
    BY <1>3, <1>7, <1>8, IsProper
  <2> QED
    BY <1>1, <1>3, <2>1 DEF Windows
<1> QED
  BY <1>3, <1>4, <1>6, <1>9, <1>10

LEMMA StartedIs ==
    ASSUME NEW c \in Calls, NEW kind \in {"chat", "regenerate", "history", "activate"},
           NEW step \in {"archived", "agent", "save"}, NEW of \in Requests \cup Others, since \in Nat,
           NEW t, t = Started(c, kind, step, of)
    PROVE  /\ t \in Turns /\ t # NoTurn /\ t.kind = kind /\ t.by = c /\ t.step = step /\ t.of = of
           /\ ~t.user /\ t.from = since /\ t.original = <<>> /\ t.reply = NoAnswer /\ ~t.cleared /\ t.ok
<1>1. <<>> \in Seq(Messages) /\ {} \in SUBSET Deliveries /\ NoAnswer \in Messages \cup {NoAnswer}
  OBVIOUS
<1>2. t = [kind |-> kind, by |-> c, step |-> step, of |-> of, user |-> FALSE, archived |-> {},
           from |-> since, original |-> <<>>, reply |-> NoAnswer, cleared |-> FALSE, ok |-> TRUE]
  BY DEF Started
<1>3. t \in Turns
  BY <1>1, <1>2 DEF Turns
<1> QED
  BY <1>2, <1>3 DEF NoTurn

\* What was cleared is older than a turn that begins now.
LEMMA ErasedBegins ==
    ASSUME ErasedSound, BornSound, erased' \subseteq erased, UNCHANGED <<born, since>>, thread' = NoSave,
           ClearHolds', Running' => turn'.from = since /\ erased \cap Range(turn'.original) = {}
    PROVE  ErasedSound'
<1>1. ASSUME NEW m \in erased' PROVE Time(m)' = Time(m)
  BY DEF Time
<1>2. \A m \in erased' : m \in Range(born') /\ Time(m)' <= since' /\ (Running' => Time(m)' <= turn'.from)
  BY <1>1 DEF ErasedSound
<1> QED
  BY <1>2 DEF ErasedSound

\* A turn begins, or the call is answered at once.
LEMMA BeginRefuses ==
    ASSUME SessionInv, Begin, UNCHANGED <<turn, conv, evicted>>, NEW s, NEW a, Ends(Head(queue), s, a)
    PROVE  SessionInv'
<1>1. /\ UNCHANGED <<born, since, row, archive, rowSince, cache, thread, delivered>>
      /\ turn = NoTurn /\ thread = NoSave /\ queue # <<>> /\ queue' = Tail(queue)
      /\ kept' = IF turn'.kind = "regenerate" THEN kept \ {turn'.reply} ELSE kept
      /\ erased' = IF turn'.kind = "activate" THEN erased \ (Range(conv') \cup Range(evicted')) ELSE erased
  BY DEF Begin, disk
<1>2. kept' = kept /\ erased' = erased
  BY <1>1 DEF NoTurn
<1>3. BornSound' /\ Continues(born, born') /\ Range(born) \subseteq Range(born')
  BY <1>1, BornStays DEF SessionInv
<1>4. MemorySound' /\ TurnSound'
  BY <1>1, <1>3, MemoryStays, TurnStays DEF SessionInv
<1>5. ThreadSound'
  BY <1>1 DEF ThreadSound
<1>6. KeptSound' /\ AnsweredIsKept'
  BY <1>1, <1>2, KeptStays DEF SessionInv
<1>7. ErasedSound'
  BY <1>1, <1>2, <1>3, ErasedStays DEF SessionInv, ErasedSound, ClearHolds, Running
<1>8. CallsSound'
  <2>1. queue' \in Seq(Calls)
    BY <1>1 DEF SessionInv, CallsSound
  <2>2. call' = [c \in Calls |-> call'[c]]
    BY DEF SessionInv, CallsSound, Ends
  <2> QED
    BY <2>1, <2>2 DEF CallsSound
<1> QED
  BY <1>3, <1>4, <1>5, <1>6, <1>7, <1>8 DEF SessionInv

LEMMA BeginsWithoutReply ==
    ASSUME SessionInv, Begin, NEW kind \in {"chat", "history"}, NEW of \in Requests \cup Others,
           Ends(Head(queue), "running", NoAnswer), UNCHANGED <<conv, evicted>>,
           turn' = Started(Head(queue), kind, "archived", of),
           kind = "chat" => /\ Head(queue) \in Callers /\ of = Id(Head(queue))
                            /\ ~Cached(of) /\ ~IdTaken(of),
           kind = "history" => Head(queue) \in Others
    PROVE  SessionInv'
<1>1. /\ UNCHANGED <<born, since, row, archive, rowSince, cache, thread, delivered>>
      /\ turn = NoTurn /\ thread = NoSave /\ queue # <<>> /\ queue' = Tail(queue)
      /\ kept' = IF turn'.kind = "regenerate" THEN kept \ {turn'.reply} ELSE kept
      /\ erased' = IF turn'.kind = "activate" THEN erased \ (Range(conv') \cup Range(evicted')) ELSE erased
  BY DEF Begin, disk
<1>2. Head(queue) \in Calls /\ since \in Nat
  BY <1>1 DEF SessionInv, CallsSound, MemorySound
<1>3. /\ turn' \in Turns /\ turn' # NoTurn /\ turn'.kind = kind /\ turn'.by = Head(queue)
      /\ turn'.step = "archived" /\ turn'.of = of /\ ~turn'.user /\ turn'.from = since
      /\ turn'.original = <<>> /\ turn'.reply = NoAnswer /\ ~turn'.cleared /\ turn'.ok
  BY <1>2, StartedIs
<1>4. kept' = kept /\ erased' = erased /\ ~InAgent /\ ~InAgent' /\ thread'.step = "none"
  BY <1>1, <1>3 DEF InAgent, NoTurn, NoSave
<1>5. BornSound' /\ Continues(born, born') /\ Range(born) \subseteq Range(born')
  BY <1>1, BornStays DEF SessionInv
<1>6. MemorySound'
  BY <1>1, <1>5, MemoryStays DEF SessionInv
<1>7. ChatSound'
  <2>1. SUFFICES ASSUME kind = "chat" PROVE ChatSound'
    BY <1>3 DEF ChatSound
  <2>2. User(of) \notin Range(conv) /\ User(of) \notin Range(evicted)
    BY <2>1 DEF IdTaken
  <2>3. \A k \in 1..Len(conv) : conv[k] # User(of)
    BY <2>2, ProperIs DEF SessionInv, MemorySound, Windows
  <2>4. of \in Requests
    BY <2>1, CallersAre
  <2> QED
    BY <1>1, <1>3, <2>1, <2>2, <2>3, <2>4 DEF ChatSound, Cached
<1>8. TurnSound' /\ ThreadSound'
  BY <1>1, <1>3, <1>7 DEF TurnSound, RegenerateSound, OtherSound, AgentSound, ThreadSound
<1>9. KeptSound' /\ AnsweredIsKept'
  <2>1. kept' \subseteq Hers' /\ (\A m \in kept' : m.kind # "delivery") /\ AnsweredIsKept'
    BY <1>1, <1>4 DEF SessionInv, KeptSound, Hers, AnsweredIsKept
  <2> QED
    BY <1>3, <1>4, <2>1, MessagesAre DEF KeptSound
<1>10. ErasedSound'
  <2>1. ClearHolds'
    BY <1>1, <1>4 DEF SessionInv, ErasedSound, ClearHolds
  <2> QED
    BY <1>1, <1>3, <1>4, <2>1, ErasedBegins, NothingIsSound DEF SessionInv
<1>11. CallsSound'
  <2>1. queue' \in Seq(Calls)
    BY <1>1 DEF SessionInv, CallsSound
  <2>2. call' = [c \in Calls |-> call'[c]]
    BY DEF SessionInv, CallsSound, Ends
  <2> QED
    BY <2>1, <2>2 DEF CallsSound
<1> QED
  BY <1>5, <1>6, <1>8, <1>9, <1>10, <1>11 DEF SessionInv

LEMMA BeginsWithDelivery ==
    ASSUME SessionInv, Begin, BeginActivate(Head(queue))
    PROVE  SessionInv'
<1>1. /\ UNCHANGED <<born, since, row, archive, rowSince, cache, thread, delivered>>
      /\ turn = NoTurn /\ thread = NoSave /\ queue # <<>> /\ queue' = Tail(queue)
      /\ kept' = IF turn'.kind = "regenerate" THEN kept \ {turn'.reply} ELSE kept
      /\ erased' = IF turn'.kind = "activate" THEN erased \ (Range(conv') \cup Range(evicted')) ELSE erased
  BY DEF Begin, disk
<1>2. /\ Head(queue) \in Others /\ Ends(Head(queue), "running", NoAnswer)
      /\ turn' = Started(Head(queue), "activate", "save", Head(queue))
  BY DEF BeginActivate
<1>3. PICK c : c = [conv |-> conv, evicted |-> evicted]
  OBVIOUS
<1>4. PICK d \in delivered : conv' = WithDelivery(c, d).conv /\ evicted' = WithDelivery(c, d).evicted
  BY <1>3 DEF BeginActivate
<1>5. PICK r : r = WithDelivery(c, d)
  OBVIOUS
<1>6. conv' = r.conv /\ evicted' = r.evicted
  BY <1>4, <1>5
<1>7. c \in Sound /\ Both(c) = Range(conv) \cup Range(evicted) /\ Both(c) \subseteq Range(born)
  BY <1>3, MemoryIs DEF SessionInv
<1>8. d \in Deliveries /\ Note(d) \in Range(born)
  BY DEF SessionInv, BornSound
<1>9. r \in Sound /\ Both(c) \subseteq Both(r) /\ Both(r) \subseteq Both(c) \cup {Note(d)}
  BY <1>5, <1>7, <1>8, DeliveryKeeps
<1>10. /\ turn' \in Turns /\ turn' # NoTurn /\ turn'.kind = "activate" /\ turn'.by = Head(queue)
       /\ turn'.step = "save" /\ ~turn'.user /\ turn'.from = since
       /\ turn'.original = <<>> /\ turn'.reply = NoAnswer /\ ~turn'.cleared /\ turn'.ok
  BY <1>2, CallersAre, StartedIs DEF SessionInv, MemorySound
<1>11. /\ kept' = kept /\ erased' = erased \ (Range(conv') \cup Range(evicted'))
       /\ ~InAgent /\ ~InAgent' /\ thread'.step = "none"
  BY <1>1, <1>10 DEF InAgent, NoTurn, NoSave
<1>12. BornSound' /\ Continues(born, born') /\ Range(born) \subseteq Range(born')
  BY <1>1, BornStays DEF SessionInv
<1>13. MemorySound' /\ Range(conv') \cup Range(evicted') = Both(r)
  <2>1. Both(r) \subseteq Range(born')
    BY <1>1, <1>7, <1>8, <1>9
  <2> QED
    BY <1>1, <1>6, <1>9, <1>12, <2>1, MemoryBecomes DEF SessionInv
<1>14. TurnSound' /\ ThreadSound'
  BY <1>1, <1>2, <1>10 DEF TurnSound, ChatSound, RegenerateSound, OtherSound, AgentSound, InAgent, ThreadSound
<1>15. KeptSound' /\ AnsweredIsKept'
  <2>1. Hers \subseteq Hers'
    BY <1>1, <1>7, <1>9, <1>13 DEF Hers
  <2>2. kept' \subseteq Hers' /\ (\A m \in kept' : m.kind # "delivery") /\ AnsweredIsKept'
    BY <1>1, <1>11, <2>1 DEF SessionInv, KeptSound, AnsweredIsKept
  <2>3. Due' = {}
    BY <1>10 DEF Due
  <2> QED
    BY <1>10, <1>11, <2>2, <2>3, MessagesAre DEF KeptSound
<1>16. ErasedSound'
  <2>1. ClearHolds'
    BY <1>1, <1>11 DEF SessionInv, ErasedSound, ClearHolds
  <2>2. erased' \subseteq erased
    BY <1>11
  <2>3. Range(turn'.original) = {}
    BY <1>10, NothingIsSound
  <2> QED
    BY <1>1, <1>10, <2>1, <2>2, <2>3, ErasedBegins DEF SessionInv
<1>17. CallsSound'
  <2>1. queue' \in Seq(Calls)
    BY <1>1 DEF SessionInv, CallsSound
  <2>2. call' = [x \in Calls |-> call'[x]]
    BY <1>2 DEF SessionInv, CallsSound, Ends
  <2> QED
    BY <2>1, <2>2 DEF CallsSound
<1> QED
  BY <1>12, <1>13, <1>14, <1>15, <1>16, <1>17 DEF SessionInv

LEMMA KindsAre ==
    ASSUME NEW m \in Messages
    PROVE  m.kind \in {"user", "reply", "delivery"}
BY DEF Messages, User, Reply, Note

\* The window as regenerate cuts it: what it takes away is the user's message and the reply.
CutWindow(w, last, inPlace) ==
    /\ last \in Messages /\ last \in Range(conv) /\ last.of \in Requests
    /\ w \in Windows /\ Foremost(w, Range(evicted)) /\ Range(w) \subseteq Range(conv)
    /\ \E n \in 0..Len(conv) :
          /\ w = SubSeq(conv, 1, n)
          /\ ~inPlace => n < Len(conv) /\ conv[n + 1] = User(last.of)
    /\ inPlace => Asks(w) /\ User(last.of) \in Range(w)
    /\ \A m \in Range(conv) : m.kind # "delivery" /\ (last.kind = "reply" => m # last) =>
          m \in Range(w) \/ (~inPlace /\ m = User(last.of))

LEMMA RegenerateCuts ==
    ASSUME MemorySound, NEW last, last = Last(conv), conv # <<>>, last.kind \in {"reply", "user"},
           NEW i \in 1..Len(conv), conv[i] = User(last.of),
           \A j \in (i + 1)..Len(conv) : conv[j].kind # "user",
           NEW inPlace \in BOOLEAN,
           NEW w, w = IF ~inPlace THEN SubSeq(conv, 1, i - 1)
                      ELSE IF last.kind = "reply" THEN Front(conv) ELSE conv
    PROVE  CutWindow(w, last, inPlace)
<1>1. /\ conv \in Windows /\ conv \in Proper /\ conv \in Seq(Messages) /\ Len(conv) \in Nat \ {0}
      /\ Foremost(conv, Range(evicted)) /\ Alternates(conv)
  BY ProperIs DEF MemorySound, Windows
<1>2. last = conv[Len(conv)] /\ Len(conv) \in 1..Len(conv)
  BY <1>1 DEF Last
<1>3. last \in Messages /\ last \in Range(conv) /\ last.of \in Requests
  <2>1. last \in Messages /\ last \in Range(conv)
    BY <1>1, <1>2, RangeIs
  <2> QED
    BY <2>1, MessagesAre
<1>4. User(last.of).kind = "user" /\ last.kind = "user" => i = Len(conv)
  BY <1>1, <1>2
<1>5. User(last.of).kind = "user"
  BY <1>3, MessagesAre
<1>6. last.kind = "reply" => i < Len(conv)
  <2>1. SUFFICES ASSUME last.kind = "reply", i = Len(conv) PROVE FALSE
    BY <1>1
  <2> QED
    BY <1>2, <1>5, <2>1
<1>7. PICK n \in 0..Len(conv) :
         n = IF ~inPlace THEN i - 1 ELSE IF last.kind = "reply" THEN Len(conv) - 1 ELSE Len(conv)
  <2>1. i - 1 \in 0..Len(conv) /\ Len(conv) - 1 \in 0..Len(conv) /\ Len(conv) \in 0..Len(conv)
    BY <1>1
  <2>2. (IF ~inPlace THEN i - 1 ELSE IF last.kind = "reply" THEN Len(conv) - 1 ELSE Len(conv)) \in 0..Len(conv)
    BY <2>1
  <2> QED
    BY <2>2
<1>8. w = SubSeq(conv, 1, n)
  <2>1. CASE ~inPlace
    BY <1>7, <2>1
  <2>2. CASE inPlace /\ last.kind = "reply"
    BY <1>7, <2>2 DEF Front
  <2>3. CASE inPlace /\ last.kind # "reply"
    BY <1>1, <1>7, <2>3, SubSeqFull
  <2> QED
    BY <2>1, <2>2, <2>3
<1>9. /\ w \in Windows /\ Foremost(w, Range(evicted)) /\ Len(w) = n /\ \A k \in 1..n : w[k] = conv[k]
      /\ Range(w) = { conv[k] : k \in 1..n } /\ Range(w) \subseteq Range(conv)
  BY <1>1, <1>8, PrefixIs
<1>10. ~inPlace => n < Len(conv) /\ conv[n + 1] = User(last.of)
  BY <1>1, <1>7
<1>11. inPlace => i \in 1..n
  BY <1>1, <1>6, <1>7
<1>12. inPlace => User(last.of) \in Range(w)
  BY <1>9, <1>11
<1>13. inPlace => Asks(w)
  <2>1. SUFFICES ASSUME inPlace, NEW j \in 1..n, conv[j].kind = "reply"
                 PROVE  \E l \in 1..n : j < l /\ conv[l].kind = "user"
    BY <1>9 DEF Asks
  <2>2. j \in 1..Len(conv) /\ conv[Len(conv)] = last
    BY <1>1, <1>2
  <2>3. CASE last.kind = "reply"
    <3>1. j < Len(conv)
      BY <1>1, <1>7, <2>1, <2>3
    <3>2. PICK l \in 1..Len(conv) : j < l /\ l < Len(conv) /\ conv[l].kind = "user"
      BY <1>1, <1>2, <2>1, <2>2, <2>3, <3>1 DEF Alternates
    <3>3. l \in 1..n
      BY <1>1, <1>7, <2>1, <2>3, <3>2
    <3> QED
      BY <3>2, <3>3
  <2>4. CASE last.kind = "user"
    <3>1. n = Len(conv) /\ j # Len(conv)
      BY <1>7, <2>1, <2>2, <2>4
    <3>2. Len(conv) \in 1..n /\ j < Len(conv)
      BY <1>1, <3>1
    <3> QED
      BY <2>2, <2>4, <3>2
  <2> QED
    BY <2>3, <2>4
<1>14. ASSUME NEW m \in Range(conv), m.kind # "delivery", last.kind = "reply" => m # last
       PROVE  m \in Range(w) \/ (~inPlace /\ m = User(last.of))
  <2>1. PICK k \in 1..Len(conv) : m = conv[k]
    BY <1>1, <1>14, RangeIs
  <2>2. CASE k \in 1..n
    BY <1>9, <2>1, <2>2
  <2>3. CASE k \notin 1..n /\ inPlace
    <3>1. last.kind = "reply" /\ k = Len(conv)
      BY <1>1, <1>7, <2>3
    <3> QED
      BY <1>2, <1>14, <2>1, <3>1
  <2>4. CASE k \notin 1..n /\ ~inPlace /\ k # i
    <3>1. k \in (i + 1)..Len(conv)
      BY <1>1, <1>7, <2>4
    <3>2. m.kind # "user" /\ m \in Messages
      BY <1>1, <2>1, <3>1
    <3>3. m.kind = "reply"
      BY <1>14, <3>2, KindsAre
    <3>4. Len(conv) \in (i + 1)..Len(conv)
      BY <1>1, <3>1
    <3>5. last.kind = "reply" /\ k < Len(conv)
      BY <1>1, <1>2, <1>14, <2>1, <3>1, <3>4
    <3>6. conv[k].kind = "reply" /\ conv[Len(conv)].kind = "reply"
      BY <1>2, <2>1, <3>3, <3>5
    <3>7. PICK l \in 1..Len(conv) : k < l /\ l < Len(conv) /\ conv[l].kind = "user"
      BY <1>1, <1>2, <3>5, <3>6 DEF Alternates
    <3>8. l \in (i + 1)..Len(conv)
      BY <1>1, <3>1, <3>7
    <3> QED
      BY <3>7, <3>8
  <2>5. CASE ~inPlace /\ k = i
    BY <2>1, <2>5
  <2> QED
    BY <2>2, <2>3, <2>4, <2>5
<1> QED
  BY <1>3, <1>8, <1>9, <1>10, <1>12, <1>13, <1>14 DEF CutWindow

LEMMA BeginsAgain ==
    ASSUME SessionInv, Begin, BeginRegenerate(Head(queue))
    PROVE  SessionInv'
<1>1. /\ UNCHANGED <<born, since, row, archive, rowSince, cache, thread, delivered>>
      /\ turn = NoTurn /\ thread = NoSave /\ queue # <<>> /\ queue' = Tail(queue)
      /\ kept' = IF turn'.kind = "regenerate" THEN kept \ {turn'.reply} ELSE kept
      /\ erased' = IF turn'.kind = "activate" THEN erased \ (Range(conv') \cup Range(evicted')) ELSE erased
  BY DEF Begin, disk
<1>2. PICK last : last = Last(conv)
  OBVIOUS
<1>3. PICK i \in 1..Len(conv) :
         /\ conv[i] = User(last.of)
         /\ \A j \in (i + 1)..Len(conv) : conv[j].kind # "user"
         /\ \E inPlace \in BOOLEAN :
              /\ conv' = IF ~inPlace THEN SubSeq(conv, 1, i - 1)
                         ELSE IF last.kind = "reply" THEN Front(conv) ELSE conv
              /\ turn' = [Started(Head(queue), "regenerate", "agent", last.of)
                            EXCEPT !.user = inPlace, !.original = conv,
                                   !.reply = IF last.kind = "reply" THEN last ELSE NoAnswer]
  BY <1>2 DEF BeginRegenerate
<1>4. PICK inPlace \in BOOLEAN :
         /\ conv' = IF ~inPlace THEN SubSeq(conv, 1, i - 1)
                    ELSE IF last.kind = "reply" THEN Front(conv) ELSE conv
         /\ turn' = [Started(Head(queue), "regenerate", "agent", last.of)
                       EXCEPT !.user = inPlace, !.original = conv,
                              !.reply = IF last.kind = "reply" THEN last ELSE NoAnswer]
  BY <1>3
<1>5. /\ Head(queue) \in Others /\ conv # <<>> /\ last.kind \in {"reply", "user"}
      /\ Ends(Head(queue), "running", NoAnswer) /\ evicted' = evicted
  BY <1>2 DEF BeginRegenerate
<1>6. PICK w : w = IF ~inPlace THEN SubSeq(conv, 1, i - 1)
                   ELSE IF last.kind = "reply" THEN Front(conv) ELSE conv
  OBVIOUS
<1>7. conv' = w
  BY <1>4, <1>6
<1>8. /\ last \in Messages /\ last \in Range(conv) /\ last.of \in Requests
      /\ w \in Windows /\ Foremost(w, Range(evicted)) /\ Range(w) \subseteq Range(conv)
      /\ \E n \in 0..Len(conv) :
            /\ w = SubSeq(conv, 1, n)
            /\ ~inPlace => n < Len(conv) /\ conv[n + 1] = User(last.of)
      /\ inPlace => Asks(w) /\ User(last.of) \in Range(w)
      /\ \A m \in Range(conv) : m.kind # "delivery" /\ (last.kind = "reply" => m # last) =>
            m \in Range(w) \/ (~inPlace /\ m = User(last.of))
  <2>1. CutWindow(w, last, inPlace)
    <3>1. /\ MemorySound /\ last = Last(conv) /\ conv # <<>> /\ last.kind \in {"reply", "user"}
          /\ i \in 1..Len(conv) /\ conv[i] = User(last.of)
          /\ \A j \in (i + 1)..Len(conv) : conv[j].kind # "user"
      BY <1>2, <1>3, <1>5 DEF SessionInv
    <3> QED
      BY <1>6, <3>1, RegenerateCuts, Zenon
  <2> QED
    BY <2>1 DEF CutWindow
<1>9. /\ conv \in Windows /\ conv \in Seq(Messages) /\ InBorn(conv) /\ Foremost(conv, Range(evicted))
      /\ since \in Nat
  BY ProperIs DEF SessionInv, MemorySound, Windows
<1>10. PICK reply : reply = IF last.kind = "reply" THEN last ELSE NoAnswer
  OBVIOUS
<1>11. /\ reply \in {NoAnswer} \cup Range(conv) /\ reply \in Messages \cup {NoAnswer}
       /\ reply.kind # "delivery" /\ (last.kind = "reply" => reply = last)
  BY <1>5, <1>8, <1>10, MessagesAre
<1>12. /\ turn' \in Turns /\ turn' # NoTurn /\ turn'.kind = "regenerate" /\ turn'.by = Head(queue)
       /\ turn'.step = "agent" /\ turn'.of = last.of /\ turn'.user = inPlace /\ turn'.from = since
       /\ turn'.original = conv /\ turn'.reply = reply /\ ~turn'.cleared /\ turn'.ok
  <2>1. PICK t : t = Started(Head(queue), "regenerate", "agent", last.of)
    OBVIOUS
  <2>2. /\ t \in Turns /\ t.kind = "regenerate" /\ t.by = Head(queue)
        /\ t.step = "agent" /\ t.of = last.of /\ t.from = since /\ ~t.cleared /\ t.ok
    BY <1>5, <1>8, <1>9, <2>1, CallersAre, StartedIs
  <2>3. turn' = [t EXCEPT !.user = inPlace, !.original = conv, !.reply = reply]
    BY <1>4, <1>10, <2>1
  <2> QED
    BY <1>9, <1>11, <2>2, <2>3 DEF Turns, NoTurn
<1>13. /\ kept' = kept \ {reply} /\ erased' = erased
       /\ ~InAgent /\ InAgent' /\ Running' /\ thread'.step = "none"
  BY <1>1, <1>12 DEF InAgent, Running, NoTurn, NoSave
<1>14. BornSound' /\ Continues(born, born') /\ Range(born) \subseteq Range(born')
  BY <1>1, BornStays DEF SessionInv
<1>15. MemorySound'
  BY <1>1, <1>5, <1>7, <1>8, <1>9 DEF SessionInv, MemorySound, InBorn
<1>16. RegenerateSound'
  <2>1. \E n \in 0..Len(turn'.original) : Cut(n)'
    <3>1. PICK n \in 0..Len(conv) : /\ w = SubSeq(conv, 1, n)
                                    /\ ~inPlace => n < Len(conv) /\ conv[n + 1] = User(last.of)
      BY <1>8
    <3>2. Cut(n)'
      BY <1>7, <1>12, <3>1 DEF Cut
    <3> QED
      BY <1>12, <3>2
  <2>2. InBorn(turn.original)'
    BY <1>1, <1>9, <1>12 DEF InBorn
  <2>3. Last(turn'.original).kind # "delivery"
    BY <1>2, <1>5, <1>12
  <2> QED
    BY <1>5, <1>8, <1>9, <1>11, <1>12, <2>1, <2>2, <2>3 DEF RegenerateSound
<1>17. AgentSound'
  BY <1>7, <1>8, <1>12 DEF AgentSound
<1>18. TurnSound' /\ ThreadSound'
  BY <1>1, <1>12, <1>16, <1>17 DEF TurnSound, ChatSound, OtherSound, ThreadSound
<1>19. KeptSound'
  <2>1. kept \subseteq Hers /\ \A m \in kept : m.kind # "delivery"
    BY <1>13 DEF SessionInv, KeptSound
  <2>2. kept' \subseteq Hers' \cup (IF ~inPlace THEN {User(last.of)} ELSE {})
    <3>1. SUFFICES ASSUME NEW m \in kept, m # reply, ~(m \in Range(evicted) \cup archive)
                   PROVE  m \in Range(w) \/ (~inPlace /\ m = User(last.of))
      BY <1>1, <1>5, <1>7, <1>13 DEF Hers
    <3>2. m \in Range(conv) /\ m.kind # "delivery"
      BY <2>1, <3>1 DEF Hers
    <3> QED
      BY <1>8, <1>11, <3>1, <3>2
  <2>3. kept' \subseteq Range(conv) \cup Range(evicted') \cup archive'
    BY <1>1, <1>5, <1>13, <2>1 DEF Hers
  <2> QED
    BY <1>11, <1>12, <1>13, <2>1, <2>2, <2>3 DEF KeptSound
<1>20. AnsweredIsKept'
  BY <1>1, <1>13 DEF SessionInv, AnsweredIsKept
<1>21. ErasedSound'
  <2>1. erased \cap Range(conv) = {}
    BY DEF SessionInv, ErasedSound, ClearHolds
  <2>2. ClearHolds'
    BY <1>1, <1>5, <1>7, <1>8, <1>13 DEF SessionInv, ErasedSound, ClearHolds
  <2> QED
    BY <1>1, <1>12, <1>13, <2>1, <2>2, ErasedBegins DEF SessionInv
<1>22. CallsSound'
  <2>1. queue' \in Seq(Calls)
    BY <1>1 DEF SessionInv, CallsSound
  <2>2. call' = [x \in Calls |-> call'[x]]
    BY <1>5 DEF SessionInv, CallsSound, Ends
  <2> QED
    BY <2>1, <2>2 DEF CallsSound
<1> QED
  BY <1>14, <1>15, <1>18, <1>19, <1>20, <1>21, <1>22 DEF SessionInv

LEMMA BeginKeeps ==
    ASSUME SessionInv, Begin
    PROVE  SessionInv'
<1>1. CASE BeginChat(Head(queue))
  <2>1. Head(queue) \in Callers /\ UNCHANGED <<conv, evicted>>
    BY <1>1 DEF BeginChat
  <2>2. CASE Cached(Id(Head(queue)))
    <3>1. UNCHANGED turn /\ Ends(Head(queue), "answered", CachedAnswer(Id(Head(queue))))
      BY <1>1, <2>2 DEF BeginChat
    <3> QED
      BY <2>1, <3>1, BeginRefuses
  <2>3. CASE ~Cached(Id(Head(queue))) /\ IdTaken(Id(Head(queue)))
    <3>1. UNCHANGED turn /\ Ends(Head(queue), "failed", NoAnswer)
      BY <1>1, <2>3 DEF BeginChat
    <3> QED
      BY <2>1, <3>1, BeginRefuses
  <2>4. CASE ~Cached(Id(Head(queue))) /\ ~IdTaken(Id(Head(queue)))
    <3>1. PICK of \in Requests \cup Others : of = Id(Head(queue))
      BY <2>1, CallersAre
    <3>2. /\ Ends(Head(queue), "running", NoAnswer)
          /\ turn' = Started(Head(queue), "chat", "archived", of)
      BY <1>1, <2>4, <3>1 DEF BeginChat
    <3> QED
      BY <2>1, <2>4, <3>1, <3>2, BeginsWithoutReply
  <2> QED
    BY <2>2, <2>3, <2>4
<1>2. CASE BeginHistory(Head(queue))
  <2>1. /\ Head(queue) \in Others /\ UNCHANGED <<conv, evicted>>
        /\ Ends(Head(queue), "running", NoAnswer)
        /\ turn' = Started(Head(queue), "history", "archived", Head(queue))
    BY <1>2 DEF BeginHistory
  <2>2. PICK of \in Requests \cup Others : of = Head(queue)
    BY <2>1
  <2> QED
    BY <2>1, <2>2, BeginsWithoutReply
<1> QED
  BY <1>1, <1>2, BeginsAgain, BeginsWithDelivery DEF Begin

LEMMA SessionStep == ASSUME SessionInv, [SessionNext]_sessionVars PROVE SessionInv'
<1>1. ASSUME Step PROVE SessionInv'
  BY <1>1, BeginKeeps, ReadArchivedKeeps, IncludeKeeps, AgentTakesKeeps, AgentAnswersKeeps,
     AgentFailsKeeps, SaveReadsKeeps, SaveWritesKeeps, SettleKeeps, SaveFailsKeeps DEF Step
<1>2. ASSUME NEW c \in Calls, Arrive(c) PROVE SessionInv'
  BY <1>2, ArriveKeeps
<1>3. ASSUME NEW d \in Deliveries, Deliver(d) PROVE SessionInv'
  BY <1>3, DeliverKeeps
<1> QED
  BY <1>1, <1>2, <1>3, ClearKeeps, CrashKeeps, SessionStutters DEF SessionNext

\* The invariant of the session.
THEOREM SessionInvariance == SessionSpec => []SessionInv
<1>1. SessionInit => SessionInv
  BY SessionBegins
<1>2. SessionInv /\ [SessionNext]_sessionVars => SessionInv'
  BY SessionStep
<1> QED
  BY <1>1, <1>2, PTL DEF SessionSpec

\* No message stands twice in the window or in the stored row, whatever was trimmed,
\* regenerated, delivered again or restored, and however small the window is.
THEOREM NoMessageIsShownTwice == SessionSpec => []ShownOnce
<1>1. SessionInv => ShownOnce
  BY DEF SessionInv, MemorySound, Windows, Proper, ShownOnce
<1> QED
  BY <1>1, SessionInvariance, PTL

\* What a client was answered, and the message it answers, is on disk until the owner clears
\* the session or regenerates the reply: no failure, eviction, failing save or restart loses it.
THEOREM AnswersAreKept == SessionSpec => []AnsweredIsKept
<1>1. SessionInv => AnsweredIsKept
  BY DEF SessionInv
<1> QED
  BY <1>1, SessionInvariance, PTL

\* What was cleared while no turn was running stays cleared, in memory and in the stored row.
THEOREM ClearedStaysCleared == SessionSpec => []ClearHolds
<1>1. SessionInv => ClearHolds
  BY DEF SessionInv, ErasedSound
<1> QED
  BY <1>1, SessionInvariance, PTL

\* A repeated request whose first answer is kept is given that answer: it is neither refused
\* nor run a second time, wherever it was waiting.
THEOREM KeptAnswersAreServed == SessionSpec => RepeatIsServed
<1>1. SessionInv /\ crashes \in Nat /\ [SessionNext]_sessionVars =>
         [\A c \in Callers : (call'[c].st # call[c].st /\ call'[c].st \in {"running", "failed"}
                              /\ crashes' = crashes)
               => ~Cached(Id(c))]_sessionVars
  <2>1. SUFFICES ASSUME SessionInv, crashes \in Nat, SessionNext, NEW c \in Callers, call'[c].st # call[c].st,
                        call'[c].st \in {"running", "failed"}, crashes' = crashes
                 PROVE  ~Cached(Id(c))
    BY DEF RepeatIsServed
  <2>2. c \in Calls /\ c \notin Others /\ call = [x \in Calls |-> call[x]] /\ crashes = crashes'
    BY <2>1, CallersAre DEF SessionInv, CallsSound
  <2>3. ASSUME NEW e, NEW s, NEW a, Ends(e, s, a) PROVE e = c /\ call'[c].st = s
    <3>1. call' = [call EXCEPT ![e] = [st |-> s, answer |-> a]]
      BY <2>3 DEF Ends
    <3>2. e = c
      BY <2>1, <2>2, <3>1
    <3>3. call'[c] = [st |-> s, answer |-> a]
      BY <2>2, <3>1, <3>2
    <3> QED
      BY <3>2, <3>3
  <2>4. CASE Begin
    <3>1. ASSUME BeginChat(Head(queue)) PROVE ~Cached(Id(c))
      <4>1. CASE Cached(Id(Head(queue)))
        <5>1. Ends(Head(queue), "answered", CachedAnswer(Id(Head(queue))))
          BY <3>1, <4>1 DEF BeginChat
        <5>2. call'[c].st = "answered"
          BY <2>3, <5>1
        <5> QED
          BY <2>1, <5>2
      <4>2. CASE ~Cached(Id(Head(queue)))
        <5>1. Ends(Head(queue), "failed", NoAnswer) \/ Ends(Head(queue), "running", NoAnswer)
          BY <3>1, <4>2 DEF BeginChat
        <5>2. Head(queue) = c
          BY <2>3, <5>1
        <5> QED
          BY <4>2, <5>2
      <4> QED
        BY <4>1, <4>2
    <3>2. ASSUME Head(queue) \in Others, Ends(Head(queue), "running", NoAnswer) PROVE FALSE
      <4>1. Head(queue) = c
        BY <2>3, <3>2
      <4> QED
        BY <2>2, <3>2, <4>1
    <3> QED
      BY <2>4, <3>1, <3>2 DEF Begin, BeginRegenerate, BeginHistory, BeginActivate
  <2>5. ASSUME Running, turn.by = c PROVE ~Cached(Id(c))
    <3>1. turn \in Turns /\ ChatSound /\ RegenerateSound /\ OtherSound
      BY <2>1, <2>5, TurnIs DEF SessionInv, TurnSound
    <3>2. turn.kind = "chat"
      <4>1. turn.kind \in {"chat", "regenerate", "history", "activate"}
        BY <3>1 DEF Turns
      <4> QED
        BY <2>2, <2>5, <3>1, <4>1 DEF RegenerateSound, OtherSound
    <3> QED
      BY <2>5, <3>1, <3>2 DEF ChatSound
  <2>6. CASE Settle
    <3>1. Running
      BY <2>1, <2>6 DEF Settle, SessionInv, ThreadSound, NoSave
    <3>2. PICK s, a : Ends(turn.by, s, a)
      BY <2>6 DEF Settle
    <3> QED
      BY <2>3, <2>5, <3>1, <3>2
  <2>7. CASE SaveFails
    <3>1. Running
      BY <2>1, <2>7 DEF SaveFails, SessionInv, ThreadSound, NoSave
    <3>2. Ends(turn.by, "failed", NoAnswer)
      BY <2>1, <2>7 DEF SaveFails
    <3> QED
      BY <2>3, <2>5, <3>1, <3>2
  <2>8. ASSUME NEW e \in Calls, Arrive(e) PROVE FALSE
    <3>1. PICK s, a : Ends(e, s, a) /\ s \in {"answered", "waiting"}
      BY <2>8 DEF Arrive
    <3>2. call'[c].st = s
      BY <2>3, <3>1
    <3> QED
      BY <2>1, <3>1, <3>2
  <2>9. ~Crash
    BY <2>1 DEF Crash
  <2>10. call' # call
    BY <2>1
  <2>11. Begin \/ Settle \/ SaveFails \/ \E e \in Calls : Arrive(e)
    BY <2>1, <2>9, <2>10 DEF SessionNext, Step, ReadArchived, Include, AgentTakes, AgentAnswers,
       AgentFails, SaveReads, SaveWrites, Clear, Deliver
  <2> QED
    BY <2>4, <2>6, <2>7, <2>8, <2>11
<1>2. SessionInit => crashes \in Nat
  BY DEF SessionInit
<1>3. crashes \in Nat /\ [SessionNext]_sessionVars => (crashes \in Nat)'
  <2>1. SUFFICES ASSUME crashes \in Nat, [SessionNext]_sessionVars PROVE crashes' \in Nat
    OBVIOUS
  <2>2. crashes' = crashes \/ crashes' = crashes + 1
    BY <2>1 DEF SessionNext, sessionVars, Arrive, Step, Begin, ReadArchived, Include, AgentTakes,
       AgentAnswers, AgentFails, SaveReads, SaveWrites, Settle, SaveFails, Clear, Deliver, Crash, budget
  <2> QED
    BY <2>1, <2>2
<1> QED
  BY <1>1, <1>2, <1>3, SessionInvariance, PTL DEF SessionSpec, RepeatIsServed
=============================================================================
