---------------------------- MODULE PlannerProofs ----------------------------
(***************************************************************************)
(* Proofs that the planner keeps within the attempts allowed and executes  *)
(* nothing once cancelled, for any tools, limits, plans, answers of the    *)
(* model, cuts and restarts.                                               *)
(***************************************************************************)
EXTENDS Planner, WellFoundedInduction, TLAPS

StepStatuses == {"pending", "running", "completed", "failed", "skipped", "cancelled"}
GoalStatuses == {"pending", "planning", "running", "waiting_for_user", "waiting_for_permission"}
                \cup Terminal

\* What was tried is within the limit.
StepRows == [status : StepStatuses, tries : [Tools -> 0..MaxAttempts]]
Plans == UNION { [1..n -> StepRows] : n \in 0..MaxPlan }
Goals == [status : GoalStatuses, plan : Plans, replans : Nat, wait : Tools \cup {None}]

Places ==
    [at : {"idle", "start", "save", "round", "enter", "model", "calls", "finish", "tool",
           "fail", "resume", "approve", "approved", "deny"},
     then : {"start", "round", "enter", "return", "end"},
     tool : Tools \cup {None}, step : 0..MaxPlan]

TypeOK ==
    /\ db \in Goals /\ goal \in Goals
    /\ pc \in Places
    /\ flag \in BOOLEAN
    /\ pend \in [tool : Tools \cup {None}, plan : Nat, step : 0..MaxPlan]
    /\ cancelling \in [at : {"idle", "loaded", "save"}, goal : Goals]
    /\ runs \in [1..MaxPlan -> [Tools -> Nat]]
    /\ lost \in BOOLEAN

\* No more executions than the goal tells of attempts.
Covers(g) ==
    \A i \in 1..MaxPlan, t \in Tools :
        runs[i][t] <= IF i \in DOMAIN g.plan THEN g.plan[i].tries[t] ELSE 0
Tells(g) == lost \/ Covers(g)

\* There is an attempt at t in step i that was counted and not executed.
Room(g, i, t) == i \in DOMAIN g.plan /\ t \in Tools /\ runs[i][t] + 1 <= g.plan[i].tries[t]

\* The places between a save that leads into _execute and its end.
Working == \/ pc.at \in {"start", "round", "enter", "model", "calls", "finish", "tool"}
           \/ pc.at = "save" /\ pc.then \in {"start", "round", "enter"}
Returning == pc.at = "save" /\ pc.then = "return"

\* The goals from which a new call goes on.
Loadable == {"pending", "waiting_for_user", "waiting_for_permission"}
EntryOf(g) == Entry(g.wait, g, CurrentStep(g))
WaitIsBacked(g) ==
    g.status = "waiting_for_permission" =>
        Remaining(g) # {} /\ (question = "open" => lost \/ Room(g, CurrentStep(g), g.wait))

Bounded == lost \/ \A i \in 1..MaxPlan, t \in Tools : runs[i][t] <= MaxAttempts

StoreInv == (db.status \in Loadable => Tells(db)) /\ WaitIsBacked(db)

WorkInv ==
    Working =>
        /\ Tells(goal) /\ pend = NoEntry
        /\ IF pc.at = "start" \/ (pc.at = "save" /\ pc.then = "start") THEN goal = NewGoal
           ELSE goal.status \in {"planning", "running"}
        /\ pc.at \notin {"start", "save"} => db.status \notin Loadable
        /\ pc.at = "tool" => pc.tool \in Tools /\ Remaining(goal) # {}

ReturnInv ==
    /\ Returning => /\ Tells(goal) /\ WaitIsBacked(goal)
                    /\ db.status \notin Loadable /\ goal.status # "pending"
                    /\ goal.status = "waiting_for_permission" => pend \in {NoEntry, EntryOf(goal)}
                    /\ goal.status # "waiting_for_permission" => pend = NoEntry
    /\ pc.at = "save" /\ pc.then = "end" => goal.status = "failed"

LoadInv ==
    /\ pc.at = "resume" /\ goal.status = "waiting_for_user" => Tells(goal) /\ pend = NoEntry
    /\ pc.at = "approve" =>
          /\ pend # NoEntry \/ question # "open"
          /\ goal = db \/ db.status = "cancelled"
          /\ goal.status = "waiting_for_permission" =>
                Tells(goal) /\ (question = "open" => lost \/ Room(goal, pc.step, pc.tool))
    /\ pc.at = "approved" => Tells(goal)
    /\ pc.at = "deny" => pend = NoEntry /\ (Tells(goal) \/ goal.status \in Terminal)

EntryInv ==
    pend # NoEntry =>
        /\ ~flag
        /\ db.status \notin {"pending", "waiting_for_user"}
        /\ db.status = "waiting_for_permission" => pend = EntryOf(db)
        /\ Returning \/ Tells(db) \/ db.status \in Terminal

CancelInv == cancelling.at = "save" => cancelling.goal.status = "cancelled"

IInv == /\ TypeOK /\ Bounded /\ StoreInv /\ WorkInv /\ ReturnInv /\ LoadInv /\ EntryInv /\ CancelInv

-----------------------------------------------------------------------------
(* Plans and goals.                                                        *)

LEMMA LeastIs ==
    ASSUME NEW S, S \subseteq Nat, S # {}
    PROVE  (CHOOSE i \in S : \A j \in S : i <= j) \in S
<1>1. PICK x \in S : \A y \in S : ~ (<<y, x>> \in OpToRel(<, Nat))
  BY NatLessThanWellFounded, WFMin, Zenon
<1>2. \A y \in S : x <= y
  <2> TAKE y \in S
  <2>1. <<y, x>> \in Nat \X Nat
    OBVIOUS
  <2>2. ~ (y < x)
    BY <1>1, <2>1, Zenon DEF OpToRel
  <2> QED
    BY <2>2
<1> QED
  BY <1>1, <1>2

LEMMA PlanIs ==
    ASSUME NEW g \in Goals
    PROVE  /\ g.plan \in Plans
           /\ \E n \in 0..MaxPlan : g.plan \in [1..n -> StepRows]
           /\ DOMAIN g.plan \subseteq 1..MaxPlan /\ Remaining(g) \subseteq DOMAIN g.plan
<1>1. g.plan \in Plans
  BY DEF Goals
<1>2. PICK n \in 0..MaxPlan : g.plan \in [1..n -> StepRows]
  BY <1>1 DEF Plans
<1> QED
  BY <1>1, <1>2, PlannerAssumption DEF Remaining

LEMMA CurrentStepIs ==
    ASSUME NEW g \in Goals, Remaining(g) # {}
    PROVE  CurrentStep(g) \in Remaining(g) /\ CurrentStep(g) \in DOMAIN g.plan
           /\ CurrentStep(g) \in 1..MaxPlan
<1>1. Remaining(g) \subseteq Nat
  BY PlanIs
<1>2. CurrentStep(g) \in Remaining(g)
  BY <1>1, LeastIs DEF CurrentStep
<1> QED
  BY <1>2, PlanIs

LEMMA TriesAre ==
    ASSUME NEW g \in Goals, NEW i \in DOMAIN g.plan, NEW t \in Tools
    PROVE  g.plan[i].tries[t] \in Nat /\ g.plan[i].tries[t] <= MaxAttempts
<1>1. g.plan[i] \in StepRows
  BY PlanIs
<1> QED
  BY <1>1, PlannerAssumption DEF StepRows

\* The same steps with the same attempts.
SameTries(g, n) ==
    DOMAIN n.plan = DOMAIN g.plan /\ \A i \in DOMAIN g.plan : n.plan[i].tries = g.plan[i].tries

LEMMA TellsTheSame ==
    ASSUME NEW g, NEW n, SameTries(g, n), Tells(g) PROVE Tells(n)
BY DEF SameTries, Tells, Covers

\* A row of the plan is replaced.
LEMMA RowIs ==
    ASSUME NEW g \in Goals, NEW i \in DOMAIN g.plan, NEW row \in StepRows
    PROVE  LET n == [g EXCEPT !.plan = [g.plan EXCEPT ![i] = row]]
           IN  /\ n \in Goals /\ DOMAIN n.plan = DOMAIN g.plan
               /\ n.status = g.status /\ n.replans = g.replans /\ n.wait = g.wait
               /\ n.plan[i] = row /\ \A j \in DOMAIN g.plan : j # i => n.plan[j] = g.plan[j]
<1> DEFINE rows == [g.plan EXCEPT ![i] = row]
<1>1. PICK k \in 0..MaxPlan : g.plan \in [1..k -> StepRows]
  BY PlanIs
<1>2. rows \in [1..k -> StepRows] /\ rows[i] = row /\ \A j \in DOMAIN g.plan : j # i => rows[j] = g.plan[j]
  BY <1>1
<1>3. rows \in Plans
  BY <1>2 DEF Plans
<1> HIDE DEF rows
<1> QED
  BY <1>1, <1>2, <1>3 DEF Goals

LEMMA SetStepIs ==
    ASSUME NEW g \in Goals, NEW i, NEW st \in StepStatuses
    PROVE  LET n == SetStep(g, i, st)
           IN  /\ n \in Goals /\ SameTries(g, n)
               /\ n.status = g.status /\ n.replans = g.replans /\ n.wait = g.wait
               /\ i \in Remaining(g) /\ st \notin {"completed", "skipped"} => Remaining(n) = Remaining(g)
<1>1. CASE i \in DOMAIN g.plan
  <2> DEFINE row == [g.plan[i] EXCEPT !.status = st]
             n == SetStep(g, i, st)
  <2>1. g.plan[i] \in StepRows
    BY <1>1, PlanIs
  <2>2. row \in StepRows /\ row.status = st /\ row.tries = g.plan[i].tries
    BY <2>1 DEF StepRows
  <2>3. n = [g EXCEPT !.plan = [g.plan EXCEPT ![i] = row]]
    BY <1>1 DEF SetStep, Goals
  <2> HIDE DEF row
  <2>4. /\ n \in Goals /\ DOMAIN n.plan = DOMAIN g.plan
        /\ n.status = g.status /\ n.replans = g.replans /\ n.wait = g.wait
        /\ n.plan[i] = row /\ \A j \in DOMAIN g.plan : j # i => n.plan[j] = g.plan[j]
    BY <1>1, <2>2, <2>3, RowIs
  <2> HIDE DEF n
  <2>5. SameTries(g, n)
    BY <2>2, <2>4 DEF SameTries
  <2>6. i \in Remaining(g) /\ st \notin {"completed", "skipped"} => Remaining(n) = Remaining(g)
    BY <2>2, <2>4 DEF Remaining, Done
  <2> QED
    BY <2>4, <2>5, <2>6 DEF n
<1>2. CASE i \notin DOMAIN g.plan
  <2>1. SetStep(g, i, st) = g
    BY <1>2, PlanIs DEF SetStep, Goals
  <2> QED
    BY <1>2, <2>1 DEF SameTries, Remaining
<1> QED
  BY <1>1, <1>2

\* An attempt is counted.
TriedOnce(g, i, t) == [g EXCEPT !.plan[i].tries[t] = @ + 1]

LEMMA TriedIs ==
    ASSUME NEW g \in Goals, NEW i \in Remaining(g), NEW t \in Tools, MayTry(g, i, t)
    PROVE  LET n == TriedOnce(g, i, t)
           IN  /\ n \in Goals /\ DOMAIN n.plan = DOMAIN g.plan
               /\ n.status = g.status /\ n.replans = g.replans /\ n.wait = g.wait
               /\ n.plan[i].tries[t] = g.plan[i].tries[t] + 1
               /\ \A j \in DOMAIN g.plan, u \in Tools :
                     j # i \/ u # t => n.plan[j].tries[u] = g.plan[j].tries[u]
               /\ Remaining(n) = Remaining(g)
<1> DEFINE row == [g.plan[i] EXCEPT !.tries[t] = @ + 1]
           n == TriedOnce(g, i, t)
<1>1. i \in DOMAIN g.plan /\ g.plan[i] \in StepRows
  BY PlanIs
<1>2. g.plan[i].tries \in [Tools -> 0..MaxAttempts] /\ g.plan[i].tries[t] + 1 \in 0..MaxAttempts
  BY <1>1, PlannerAssumption DEF StepRows, MayTry
<1>3. /\ row \in StepRows /\ row.status = g.plan[i].status
      /\ row.tries[t] = g.plan[i].tries[t] + 1
      /\ \A u \in Tools : u # t => row.tries[u] = g.plan[i].tries[u]
  BY <1>1, <1>2 DEF StepRows
<1>4. n = [g EXCEPT !.plan = [g.plan EXCEPT ![i] = row]]
  BY <1>1, <1>2 DEF TriedOnce, Goals, StepRows
<1> HIDE DEF row
<1>5. /\ n \in Goals /\ DOMAIN n.plan = DOMAIN g.plan
      /\ n.status = g.status /\ n.replans = g.replans /\ n.wait = g.wait
      /\ n.plan[i] = row /\ \A j \in DOMAIN g.plan : j # i => n.plan[j] = g.plan[j]
  BY <1>1, <1>3, <1>4, RowIs
<1> HIDE DEF n
<1>6. Remaining(n) = Remaining(g)
  BY <1>3, <1>5 DEF Remaining, Done
<1>7. \A j \in DOMAIN g.plan, u \in Tools : j # i \/ u # t => n.plan[j].tries[u] = g.plan[j].tries[u]
  BY <1>3, <1>5
<1> QED
  BY <1>3, <1>5, <1>6, <1>7 DEF n

\* The goal gets a status, and a wait.
LEMMA StatusIs ==
    ASSUME NEW g \in Goals, NEW st \in GoalStatuses, NEW w \in Tools \cup {None}
    PROVE  /\ [g EXCEPT !.status = st] \in Goals
           /\ [g EXCEPT !.status = st].status = st /\ [g EXCEPT !.status = st].plan = g.plan
           /\ [g EXCEPT !.status = st].replans = g.replans /\ [g EXCEPT !.status = st].wait = g.wait
           /\ [g EXCEPT !.status = st, !.wait = w] \in Goals
           /\ [g EXCEPT !.status = st, !.wait = w].status = st
           /\ [g EXCEPT !.status = st, !.wait = w].wait = w
           /\ [g EXCEPT !.status = st, !.wait = w].plan = g.plan
           /\ [g EXCEPT !.status = st, !.wait = w].replans = g.replans
BY DEF Goals

\* A plan just made: nothing was tried.
LEMMA NewPlanIs ==
    ASSUME NEW n \in 1..MaxPlan
    PROVE  /\ NewPlan(n) \in Plans /\ DOMAIN NewPlan(n) = 1..n
           /\ \A i \in 1..n, t \in Tools : NewPlan(n)[i].tries[t] = 0
<1>1. NewStep \in StepRows /\ \A t \in Tools : NewStep.tries[t] = 0
  BY PlannerAssumption DEF NewStep, StepRows, StepStatuses
<1>2. NewPlan(n) \in [1..n -> StepRows] /\ \A i \in 1..n : NewPlan(n)[i] = NewStep
  BY <1>1 DEF NewPlan
<1>3. n \in 0..MaxPlan
  BY PlannerAssumption
<1> QED
  BY <1>1, <1>2, <1>3 DEF Plans

LEMMA NewGoalIs ==
    /\ NewGoal \in Goals /\ NewGoal.status = "pending" /\ NewGoal.plan = << >>
    /\ NewGoal.replans = 0 /\ NewGoal.wait = None
<1>1. << >> \in [1..0 -> StepRows] /\ 0 \in 0..MaxPlan
  BY PlannerAssumption
<1>2. << >> \in Plans
  BY <1>1 DEF Plans
<1> QED
  BY <1>2 DEF NewGoal, Goals, GoalStatuses

\* A goal that stands as it is keeps what it tells.
LEMMA TellsStays ==
    ASSUME NEW g, UNCHANGED <<runs, lost>>, Tells(g) PROVE Tells(g)'
BY DEF Tells, Covers

-----------------------------------------------------------------------------
(* What the runner's operations share.                                     *)

\* The call ends, or the runner is left to fail, with no goal to be saved.
LEMMA EndedKeeps ==
    ASSUME IInv, ~Returning, UNCHANGED db, Environment,
           Ended \/ (pc' = At("fail") /\ UNCHANGED goal)
    PROVE  IInv'
<1>1. goal' \in Goals /\ pc'.at \in {"idle", "fail"}
      /\ pc' \in [at : {"idle", "fail"}, then : {"return"}, tool : {None}, step : {0}]
  BY NewGoalIs DEF Ended, Idle, At, IInv, TypeOK
<1>2. UNCHANGED <<db, flag, pend, question, cancelling, runs, lost>>
  BY DEF Environment, history
<1>3. TypeOK' /\ Bounded' /\ CancelInv'
  BY <1>1, <1>2, PlannerAssumption DEF IInv, TypeOK, Places, Bounded, CancelInv
<1>4. StoreInv'
  BY <1>2 DEF IInv, StoreInv, Tells, Covers, WaitIsBacked, Room
<1>5. WorkInv' /\ ReturnInv' /\ LoadInv' /\ ~Returning'
  BY <1>1 DEF WorkInv, ReturnInv, LoadInv, Working, Returning
<1>6. EntryInv'
  BY <1>2, <1>5 DEF IInv, EntryInv, Tells, Covers, EntryOf
<1> QED
  BY <1>3, <1>4, <1>5, <1>6 DEF IInv

\* What may be saved, and what is to follow.
MaySave(n, then) ==
    /\ n \in Goals
    /\ \/ then \in {"round", "enter"} /\ n.status \in {"planning", "running"}
             /\ Tells(n) /\ pend = NoEntry
       \/ then = "start" /\ n = NewGoal /\ Tells(n) /\ pend = NoEntry
       \/ then = "return" /\ n.status \notin {"pending", "waiting_for_permission"}
             /\ Tells(n) /\ pend = NoEntry /\ db.status \notin Loadable
       \/ then = "end" /\ n.status = "failed" /\ ~Returning

LEMMA SaveKeeps ==
    ASSUME IInv, UNCHANGED db, Environment, NEW n, NEW then, Save(n, then), MaySave(n, then)
    PROVE  IInv'
<1>1. goal' = n /\ pc' = [at |-> "save", then |-> then, tool |-> None, step |-> 0]
  BY DEF Save, At
<1>2. UNCHANGED <<db, flag, pend, question, cancelling, runs, lost>>
  BY DEF Environment, history
<1>3. then \in {"start", "round", "enter", "return", "end"} /\ n \in Goals
  BY DEF MaySave
<1>4. TypeOK' /\ Bounded' /\ CancelInv'
  BY <1>1, <1>2, <1>3, PlannerAssumption DEF IInv, TypeOK, Places, Bounded, CancelInv
<1>5. StoreInv'
  BY <1>2 DEF IInv, StoreInv, Tells, Covers, WaitIsBacked, Room
<1>6. Tells(n) => Tells(goal)'
  BY <1>1, <1>2 DEF Tells, Covers
<1>7. WorkInv'
  BY <1>1, <1>2, <1>6 DEF WorkInv, Working, MaySave
<1>8. ReturnInv'
  BY <1>1, <1>2, <1>6 DEF ReturnInv, Returning, MaySave, WaitIsBacked
<1>9. LoadInv'
  BY <1>1 DEF LoadInv
<1>10. EntryInv'
  BY <1>2 DEF IInv, EntryInv, Tells, Covers, EntryOf, MaySave
<1> QED
  BY <1>4, <1>5, <1>7, <1>8, <1>9, <1>10 DEF IInv

\* The places of a round, after its first save.
InRound == pc.at \in {"round", "enter", "model", "calls", "finish", "tool"}

LEMMA InRoundIs ==
    ASSUME IInv, InRound
    PROVE  /\ goal \in Goals /\ goal.status \in {"planning", "running"} /\ Tells(goal)
           /\ pend = NoEntry /\ db.status \notin Loadable /\ ~Returning
BY DEF InRound, IInv, TypeOK, WorkInv, Working, Returning

\* The round goes on with a goal that tells of what was executed.
LEMMA RoundGoesOn ==
    ASSUME IInv, InRound, UNCHANGED db, Environment,
           NEW n \in Goals, n.status \in {"planning", "running"}, Tells(n), goal' = n,
           NEW p \in {"round", "model", "calls", "finish"}, pc' = At(p)
    PROVE  IInv'
<1>1. pc' = [at |-> p, then |-> "return", tool |-> None, step |-> 0]
  BY DEF At
<1>2. UNCHANGED <<db, flag, pend, question, cancelling, runs, lost>>
  BY DEF Environment, history
<1>3. TypeOK' /\ Bounded' /\ CancelInv'
  BY <1>1, <1>2, PlannerAssumption DEF IInv, TypeOK, Places, Bounded, CancelInv
<1>4. StoreInv'
  BY <1>2 DEF IInv, StoreInv, Tells, Covers, WaitIsBacked, Room
<1>5. Tells(goal)'
  BY <1>2 DEF Tells, Covers
<1>6. WorkInv'
  BY <1>1, <1>2, <1>5, InRoundIs DEF WorkInv, Working
<1>7. ReturnInv' /\ LoadInv'
  BY <1>1 DEF ReturnInv, Returning, LoadInv
<1>8. EntryInv'
  BY <1>2, InRoundIs DEF EntryInv
<1> QED
  BY <1>3, <1>4, <1>6, <1>7, <1>8 DEF IInv

LEMMA AnsweredKeeps ==
    ASSUME IInv, InRound, Environment, NEW n \in Goals, Answered(n),
           n.status \in {"planning", "running"}, Tells(n)
    PROVE  IInv'
<1>1. UNCHANGED db
  BY DEF Answered
<1>2. CASE left = 1
  <2>1. MaySave(n, "round") /\ Save(n, "round")
    BY <1>2, InRoundIs DEF MaySave, Answered
  <2> QED
    BY <1>1, <2>1, SaveKeeps
<1>3. CASE left # 1
  <2>1. goal' = n /\ pc' = At("calls")
    BY <1>3 DEF Answered
  <2> QED
    BY <1>1, <2>1, RoundGoesOn
<1> QED
  BY <1>2, <1>3

-----------------------------------------------------------------------------
(* The round.                                                              *)

LEMMA RaisesKeeps ==
    ASSUME IInv, ~Returning, Raises, Environment PROVE IInv'
BY EndedKeeps DEF Raises

LEMMA WrittenKeeps == ASSUME IInv, Written PROVE IInv'
<1>1. pc.at = "save" /\ db' = goal /\ UNCHANGED <<flag, pend, question, cancelling, runs, lost>>
  BY DEF Written, Environment, history
<1>2. goal \in Goals
  BY DEF IInv, TypeOK
<1>3. CASE pc.then \in {"return", "end"}
  <2>1. goal' = NewGoal /\ pc' = [at |-> "idle", then |-> "return", tool |-> None, step |-> 0]
    BY <1>3 DEF Written, Ended, Idle, At
  <2>2. TypeOK' /\ Bounded' /\ CancelInv'
    <3>1. goal' \in Goals /\ pc' \in Places
      BY <2>1, NewGoalIs, PlannerAssumption DEF Places
    <3>2. TypeOK'
      BY <1>1, <1>2, <3>1 DEF IInv, TypeOK
    <3>3. Bounded' /\ CancelInv'
      BY <1>1 DEF IInv, Bounded, CancelInv
    <3> QED
      BY <3>2, <3>3
  <2>3. WorkInv' /\ ReturnInv' /\ LoadInv' /\ ~Returning'
    BY <2>1 DEF WorkInv, ReturnInv, LoadInv, Working, Returning
  <2>4. CASE pc.then = "return"
    <3>1. Returning /\ Tells(goal) /\ WaitIsBacked(goal) /\ goal.status # "pending"
          /\ (goal.status = "waiting_for_permission" => pend \in {NoEntry, EntryOf(goal)})
          /\ (goal.status # "waiting_for_permission" => pend = NoEntry)
      BY <1>1, <2>4 DEF Returning, IInv, ReturnInv
    <3>2. StoreInv'
      BY <1>1, <3>1 DEF StoreInv, Tells, Covers, WaitIsBacked, Room
    <3>3. EntryInv'
      BY <1>1, <2>3, <3>1 DEF EntryInv, IInv, Tells, Covers, EntryOf
    <3> QED
      BY <2>2, <2>3, <3>2, <3>3 DEF IInv
  <2>5. CASE pc.then = "end"
    <3>1. goal.status = "failed"
      BY <1>1, <2>5 DEF IInv, ReturnInv
    <3>2. StoreInv' /\ EntryInv'
      BY <1>1, <3>1 DEF StoreInv, Loadable, WaitIsBacked, EntryInv, Terminal, IInv
    <3> QED
      BY <2>2, <2>3, <3>2 DEF IInv
  <2> QED
    BY <1>3, <2>4, <2>5
<1>4. CASE pc.then \notin {"return", "end"}
  <2>1. pc.then \in {"start", "round", "enter"} /\ Working /\ UNCHANGED goal
        /\ pc' = [at |-> pc.then, then |-> "return", tool |-> None, step |-> 0]
    BY <1>1, <1>4 DEF Written, At, IInv, TypeOK, Places, Working
  <2>2. /\ Tells(goal) /\ pend = NoEntry
        /\ (pc.then = "start" => goal = NewGoal)
        /\ (pc.then # "start" => goal.status \in {"planning", "running"})
    BY <1>1, <2>1 DEF IInv, WorkInv
  <2>3. TypeOK' /\ Bounded' /\ CancelInv'
    <3>1. goal' \in Goals /\ pc' \in Places
      BY <1>2, <2>1, PlannerAssumption DEF Places
    <3>2. TypeOK'
      BY <1>1, <1>2, <3>1 DEF IInv, TypeOK
    <3>3. Bounded' /\ CancelInv'
      BY <1>1 DEF IInv, Bounded, CancelInv
    <3> QED
      BY <3>2, <3>3
  <2>4. Tells(goal)' /\ Tells(db)'
    BY <1>1, <2>1, <2>2 DEF Tells, Covers
  <2>5. StoreInv'
    BY <1>1, <2>2, <2>4, NewGoalIs DEF StoreInv, WaitIsBacked
  <2>6. WorkInv'
    BY <1>1, <2>1, <2>2, <2>4 DEF WorkInv, Working, Loadable
  <2>7. ReturnInv' /\ LoadInv' /\ EntryInv'
    BY <1>1, <2>1, <2>2 DEF ReturnInv, Returning, LoadInv, EntryInv
  <2> QED
    BY <2>3, <2>5, <2>6, <2>7 DEF IInv
<1> QED
  BY <1>3, <1>4

LEMMA FailKeeps == ASSUME IInv, Fail PROVE IInv'
<1>1. ~Returning /\ UNCHANGED db /\ Environment /\ db \in Goals
  BY DEF Fail, Returning, IInv, TypeOK
<1>2. CASE Ended
  BY <1>1, <1>2, EndedKeeps
<1>3. CASE Save([db EXCEPT !.status = "failed"], "end")
  <2> DEFINE n == [db EXCEPT !.status = "failed"]
  <2>a. "failed" \in GoalStatuses /\ None \in Tools \cup {None}
    BY DEF GoalStatuses, Terminal
  <2>1. n \in Goals /\ n.status = "failed"
    BY <1>1, <2>a, StatusIs
  <2> HIDE DEF n
  <2>2. MaySave(n, "end")
    BY <1>1, <2>1 DEF MaySave
  <2> QED
    BY <1>1, <1>3, <2>2, SaveKeeps DEF n
<1> QED
  BY <1>2, <1>3 DEF Fail

\* A goal whose status alone changed tells as much.
LEMMA TellsOn ==
    ASSUME NEW g, NEW n, n.plan = g.plan, Tells(g) PROVE Tells(n)
BY DEF Tells, Covers

LEMMA PlanKeeps == ASSUME IInv, Plan PROVE IInv'
<1> DEFINE n == [goal EXCEPT !.status = "planning"]
<1>1. pc.at = "start" /\ UNCHANGED db /\ Environment /\ goal \in Goals
  BY DEF Plan, IInv, TypeOK
<1>2. Tells(goal) /\ pend = NoEntry
  BY <1>1 DEF IInv, WorkInv, Working
<1>a. "planning" \in GoalStatuses /\ None \in Tools \cup {None}
  BY DEF GoalStatuses
<1>3. n \in Goals /\ n.status = "planning" /\ n.plan = goal.plan
  BY <1>1, <1>a, StatusIs
<1> HIDE DEF n
<1>4. MaySave(n, "round")
  BY <1>2, <1>3, TellsOn DEF MaySave
<1> QED
  BY <1>1, <1>4, SaveKeeps DEF Plan, n

LEMMA BeginRoundKeeps == ASSUME IInv, BeginRound PROVE IInv'
<1>1. InRound /\ UNCHANGED db /\ Environment
  BY DEF BeginRound, InRound
<1>2. CASE Ended \/ (pc' = At("fail") /\ UNCHANGED goal)
  BY <1>1, <1>2, EndedKeeps, InRoundIs
<1>3. CASE pc' = At("model") /\ UNCHANGED goal
  BY <1>1, <1>3, RoundGoesOn, InRoundIs
<1> QED
  BY <1>2, <1>3 DEF BeginRound

\* The goal is saved with the status it ends or waits with.
LEMMA LeavesRound ==
    ASSUME IInv, InRound, UNCHANGED db, Environment,
           NEW st \in {"failed", "completed", "waiting_for_user"},
           Save([goal EXCEPT !.status = st], "return")
    PROVE  IInv'
<1> DEFINE n == [goal EXCEPT !.status = st]
<1>a. goal \in Goals /\ st \in GoalStatuses /\ None \in Tools \cup {None}
  BY InRoundIs DEF GoalStatuses, Terminal
<1>1. n \in Goals /\ n.status = st /\ n.plan = goal.plan
  BY <1>a, StatusIs
<1> HIDE DEF n
<1>2. MaySave(n, "return")
  BY <1>1, InRoundIs, TellsOn DEF MaySave
<1> QED
  BY <1>2, SaveKeeps DEF n

LEMMA EmergencyKeeps == ASSUME IInv, Emergency PROVE IInv'
BY LeavesRound DEF Emergency, InRound

LEMMA ProviderFailsKeeps == ASSUME IInv, ProviderFails PROVE IInv'
BY RaisesKeeps DEF ProviderFails, InModel, Returning

LEMMA FinishResultKeeps ==
    ASSUME IInv, InRound, FinishResult(goal), Environment PROVE IInv'
<1>1. CASE MayBecome(goal, "completed")
  BY <1>1, LeavesRound DEF FinishResult
<1>2. CASE ~MayBecome(goal, "completed")
  BY <1>2, RaisesKeeps, InRoundIs DEF FinishResult
<1> QED
  BY <1>1, <1>2

LEMMA ReplyKeeps == ASSUME IInv, Reply PROVE IInv'
<1>1. InRound /\ Environment
  BY DEF Reply, InModel, InRound
<1>2. CASE Ended /\ UNCHANGED db
  BY <1>1, <1>2, EndedKeeps, InRoundIs
<1>3. CASE FinishResult(goal)
  BY <1>1, <1>3, FinishResultKeeps
<1>4. CASE pc' = At("round") /\ UNCHANGED <<db, goal, rounds, left>>
  BY <1>1, <1>4, RoundGoesOn, InRoundIs
<1> QED
  BY <1>2, <1>3, <1>4 DEF Reply

LEMMA RespondKeeps == ASSUME IInv, Respond PROVE IInv'
<1>1. InRound /\ Environment /\ UNCHANGED db
  BY DEF Respond, InModel, InRound
<1>2. CASE Ended
  BY <1>1, <1>2, EndedKeeps, InRoundIs
<1>3. CASE (pc' = At("finish") \/ pc' = At("calls")) /\ UNCHANGED goal
  BY <1>1, <1>3, RoundGoesOn, InRoundIs
<1> QED
  BY <1>2, <1>3 DEF Respond

-----------------------------------------------------------------------------
(* A call.                                                                 *)

LEMMA NothingDoneKeeps == ASSUME IInv, NothingDone PROVE IInv'
BY AnsweredKeeps, InRoundIs DEF NothingDone, InCalls, InRound

LEMMA CreatePlanKeeps == ASSUME IInv, CreatePlan PROVE IInv'
<1>1. InRound /\ Environment /\ goal.plan = << >>
  BY DEF CreatePlan, InCalls, InRound
<1>2. PICK k \in 1..MaxPlan : Answered([goal EXCEPT !.plan = NewPlan(k), !.status = "running"])
  BY DEF CreatePlan
<1> DEFINE n == [goal EXCEPT !.plan = NewPlan(k), !.status = "running"]
<1>3. n \in Goals /\ n.status = "running" /\ n.plan = NewPlan(k)
  BY <1>1, InRoundIs, NewPlanIs DEF Goals, GoalStatuses
<1> HIDE DEF n
<1>4. Tells(n)
  <2>1. DOMAIN goal.plan = {}
    BY <1>1
  <2>2. Tells(goal)
    BY <1>1, InRoundIs
  <2> QED
    BY <1>3, <2>1, <2>2, NewPlanIs DEF Tells, Covers
<1> QED
  BY <1>1, <1>2, <1>3, <1>4, AnsweredKeeps DEF n

LEMMA AskUserKeeps == ASSUME IInv, AskUser PROVE IInv'
BY LeavesRound DEF AskUser, InCalls, InRound

LEMMA FinishTaskKeeps == ASSUME IInv, FinishTask PROVE IInv'
<1>1. InRound /\ Environment
  BY DEF FinishTask, InCalls, InRound
<1>2. CASE FinishResult(goal)
  BY <1>1, <1>2, FinishResultKeeps
<1>3. CASE Answered(goal)
  BY <1>1, <1>3, AnsweredKeeps, InRoundIs
<1> QED
  BY <1>2, <1>3 DEF FinishTask

LEMMA ToolRetryCancelledKeeps == ASSUME IInv, ToolRetryCancelled PROVE IInv'
BY EndedKeeps, InRoundIs DEF ToolRetryCancelled, InTool, InRound

\* A step's result is answered.
LEMMA ResultAnswered ==
    ASSUME IInv, InRound, Environment, NEW i, NEW st \in StepStatuses,
           Answered(SetStep(goal, i, st))
    PROVE  IInv'
<1>1. /\ SetStep(goal, i, st) \in Goals /\ SameTries(goal, SetStep(goal, i, st))
      /\ SetStep(goal, i, st).status = goal.status
  BY InRoundIs, SetStepIs
<1>2. Tells(SetStep(goal, i, st))
  BY <1>1, InRoundIs, TellsTheSame
<1> QED
  BY <1>1, <1>2, InRoundIs, AnsweredKeeps

LEMMA ToolEndsKeeps == ASSUME IInv, ToolEnds PROVE IInv'
<1>1. InRound /\ Environment
  BY DEF ToolEnds, InTool, InRound
<1>2. PICK st \in {"completed", "failed"} : Answered(SetStep(goal, CurrentStep(goal), st))
  BY DEF ToolEnds
<1>3. st \in StepStatuses
  BY DEF StepStatuses
<1> QED
  BY <1>1, <1>2, <1>3, ResultAnswered

LEMMA ReplanKeeps == ASSUME IInv, Replan PROVE IInv'
<1>1. InRound /\ runs' = NoRuns /\ UNCHANGED <<flag, pend, question, cancelling, lost>>
  BY DEF Replan, InCalls, InRound
<1>2. PICK k \in 1..MaxPlan : Answered(Revised(k))
  BY DEF Replan
<1> DEFINE n == Revised(k)
<1>3. n \in Goals /\ n.status = goal.status /\ DOMAIN n.plan = 1..k
      /\ \A i \in 1..k, t \in Tools : n.plan[i].tries[t] = 0
  <2>1. goal \in Goals /\ NewPlan(k) \in Plans
    BY <1>1, InRoundIs, NewPlanIs
  <2>2. n \in Goals /\ n.status = goal.status /\ n.plan = NewPlan(k)
    <3>1. goal.replans + 1 \in Nat
      BY <2>1 DEF Goals
    <3>2. n = [[goal EXCEPT !.plan = NewPlan(k)] EXCEPT !.replans = goal.replans + 1]
      BY <2>1 DEF Revised, Goals
    <3>3. /\ [goal EXCEPT !.plan = NewPlan(k)] \in Goals
          /\ [goal EXCEPT !.plan = NewPlan(k)].plan = NewPlan(k)
          /\ [goal EXCEPT !.plan = NewPlan(k)].status = goal.status
      BY <2>1 DEF Goals
    <3> QED
      BY <3>1, <3>2, <3>3 DEF Goals
  <2> QED
    BY <2>2, NewPlanIs
<1> HIDE DEF n
<1>4. /\ goal' = n /\ UNCHANGED db
      /\ pc' \in [at : {"save", "calls"}, then : {"round", "return"}, tool : {None}, step : {0}]
      /\ pc'.at = "save" => pc'.then = "round"
  BY <1>2 DEF Answered, Save, At, n
<1>5. runs' \in [1..MaxPlan -> [Tools -> Nat]] /\ \A i \in 1..MaxPlan, t \in Tools : runs'[i][t] = 0
  BY <1>1 DEF NoRuns
<1>6. TypeOK' /\ Bounded' /\ CancelInv'
  BY <1>1, <1>3, <1>4, <1>5, PlannerAssumption DEF IInv, TypeOK, Places, Bounded, CancelInv
<1>7. Tells(goal)'
  BY <1>3, <1>4, <1>5, PlannerAssumption DEF Tells, Covers
<1>8. StoreInv' /\ EntryInv'
  BY <1>1, <1>4, InRoundIs DEF StoreInv, WaitIsBacked, Loadable, EntryInv
<1>9. WorkInv'
  BY <1>1, <1>3, <1>4, <1>7, InRoundIs DEF WorkInv, Working
<1>10. ReturnInv' /\ LoadInv'
  BY <1>4 DEF ReturnInv, Returning, LoadInv
<1> QED
  BY <1>6, <1>7, <1>8, <1>9, <1>10 DEF IInv

\* An execution is counted.
Executed(i, t) == runs' = [runs EXCEPT ![i][t] = @ + 1]

LEMMA ExecutedIs ==
    ASSUME runs \in [1..MaxPlan -> [Tools -> Nat]], NEW i \in 1..MaxPlan, NEW t \in Tools, Executed(i, t)
    PROVE  /\ runs' \in [1..MaxPlan -> [Tools -> Nat]]
           /\ runs'[i][t] = runs[i][t] + 1
           /\ \A j \in 1..MaxPlan, u \in Tools : j # i \/ u # t => runs'[j][u] = runs[j][u]
BY DEF Executed

\* An attempt is counted and the tool executed.
LEMMA AttemptedKeeps ==
    ASSUME IInv, InRound, NEW g \in Goals, NEW i \in Remaining(g), NEW t \in Tools,
           MayTry(g, i, t), g.status \in {"planning", "running"}, Tells(g),
           goal' = TriedOnce(g, i, t), Executed(i, t),
           pc' \in Places, pc'.at = "tool", pc'.tool = t,
           UNCHANGED <<db, flag, pend, question, cancelling, lost>>
    PROVE  IInv'
<1> DEFINE n == TriedOnce(g, i, t)
<1>1. /\ n \in Goals /\ DOMAIN n.plan = DOMAIN g.plan /\ n.status = g.status
      /\ n.plan[i].tries[t] = g.plan[i].tries[t] + 1
      /\ \A j \in DOMAIN g.plan, u \in Tools :
            j # i \/ u # t => n.plan[j].tries[u] = g.plan[j].tries[u]
      /\ Remaining(n) = Remaining(g)
  BY TriedIs
<1> HIDE DEF n
<1>2. i \in 1..MaxPlan /\ i \in DOMAIN g.plan
  BY PlanIs
<1>3. runs \in [1..MaxPlan -> [Tools -> Nat]]
  BY DEF IInv, TypeOK
<1>4. /\ runs' \in [1..MaxPlan -> [Tools -> Nat]]
      /\ runs'[i][t] = runs[i][t] + 1
      /\ \A j \in 1..MaxPlan, u \in Tools : j # i \/ u # t => runs'[j][u] = runs[j][u]
  BY <1>2, <1>3, ExecutedIs
<1>5. TypeOK' /\ CancelInv'
  BY <1>1, <1>4, PlannerAssumption DEF IInv, TypeOK, CancelInv, n
<1>6. Tells(goal)'
  <2> SUFFICES ASSUME ~lost, NEW j \in 1..MaxPlan, NEW u \in Tools
               PROVE  runs'[j][u] <= IF j \in DOMAIN n.plan THEN n.plan[j].tries[u] ELSE 0
    BY DEF Tells, Covers, n
  <2>1. runs[j][u] <= IF j \in DOMAIN g.plan THEN g.plan[j].tries[u] ELSE 0
    BY DEF Tells, Covers
  <2>2. CASE j = i /\ u = t
    <3>1. g.plan[i].tries[t] \in Nat /\ runs[i][t] \in Nat
      BY <1>2, <1>3, TriesAre
    <3> QED
      BY <1>1, <1>2, <1>4, <2>1, <2>2, <3>1
  <2>3. CASE j # i \/ u # t
    BY <1>1, <1>4, <2>1, <2>3
  <2> QED
    BY <2>2, <2>3
<1>7. Bounded'
  <2> SUFFICES ASSUME ~lost, NEW j \in 1..MaxPlan, NEW u \in Tools
               PROVE  runs'[j][u] <= MaxAttempts
    BY DEF Bounded
  <2>1. runs'[j][u] <= IF j \in DOMAIN n.plan THEN n.plan[j].tries[u] ELSE 0
    BY <1>6 DEF Tells, Covers, n
  <2>2. j \in DOMAIN n.plan => n.plan[j].tries[u] \in 0..MaxAttempts
    <3>1. PICK m \in 0..MaxPlan : n.plan \in [1..m -> StepRows]
      BY <1>1, PlanIs
    <3>2. j \in DOMAIN n.plan => n.plan[j] \in StepRows
      BY <3>1
    <3> QED
      BY <3>2 DEF StepRows
  <2>3. runs'[j][u] \in Nat
    BY <1>4
  <2> QED
    BY <2>1, <2>2, <2>3, PlannerAssumption
<1>8. StoreInv' /\ EntryInv'
  BY InRoundIs DEF StoreInv, WaitIsBacked, Loadable, EntryInv
<1>9. WorkInv'
  <2>1. goal'.status \in {"planning", "running"} /\ Remaining(goal') # {}
    BY <1>1 DEF n
  <2>2. Remaining(goal)' = Remaining(goal')
    BY DEF Remaining
  <2> QED
    BY <1>6, <2>1, <2>2, InRoundIs DEF WorkInv
<1>10. ReturnInv' /\ LoadInv'
  BY DEF ReturnInv, Returning, LoadInv
<1> QED
  BY <1>5, <1>6, <1>7, <1>8, <1>9, <1>10 DEF IInv

\* An attempt that has to be confirmed is counted, and the goal is to wait.
LEMMA AskedKeeps ==
    ASSUME IInv, InRound, ~flag, NEW g \in Goals, NEW i, Remaining(g) # {}, i = CurrentStep(g),
           NEW t \in Tools, MayTry(g, i, t), Tells(g),
           Save([TriedOnce(g, i, t) EXCEPT !.status = "waiting_for_permission", !.wait = t], "return"),
           pend' = Entry(t, g, i), question' = "open",
           UNCHANGED <<db, flag, cancelling, runs, lost>>
    PROVE  IInv'
<1> DEFINE m == TriedOnce(g, i, t)
           n == [m EXCEPT !.status = "waiting_for_permission", !.wait = t]
<1>1. i \in Remaining(g) /\ i \in DOMAIN g.plan /\ i \in 1..MaxPlan
  BY CurrentStepIs
<1>2. /\ m \in Goals /\ DOMAIN m.plan = DOMAIN g.plan /\ m.replans = g.replans
      /\ m.plan[i].tries[t] = g.plan[i].tries[t] + 1
      /\ \A j \in DOMAIN g.plan, u \in Tools :
            j # i \/ u # t => m.plan[j].tries[u] = g.plan[j].tries[u]
      /\ Remaining(m) = Remaining(g)
  BY <1>1, TriedIs
<1> HIDE DEF m
<1>3. m \in Goals /\ "waiting_for_permission" \in GoalStatuses
  BY <1>2 DEF GoalStatuses
<1>4. /\ n \in Goals /\ n.status = "waiting_for_permission" /\ n.wait = t
      /\ n.plan = m.plan /\ n.replans = m.replans
  BY <1>3 DEF Goals
<1> HIDE DEF n
<1>5. Remaining(n) = Remaining(g) /\ CurrentStep(n) = i
  BY <1>2, <1>4 DEF Remaining, CurrentStep
<1>6. goal' = n /\ pc' = [at |-> "save", then |-> "return", tool |-> None, step |-> 0]
  BY DEF Save, At, m, n
<1>7. EntryOf(n) = Entry(t, g, i) /\ Entry(t, g, i) \in [tool : Tools, plan : Nat, step : 1..MaxPlan]
  BY <1>1, <1>2, <1>4, <1>5 DEF EntryOf, Entry, Goals
<1>8. TypeOK' /\ Bounded' /\ CancelInv'
  <2>1. goal' \in Goals /\ pc' \in Places
    BY <1>4, <1>6, PlannerAssumption DEF Places
  <2>2. pend' \in [tool : Tools \cup {None}, plan : Nat, step : 0..MaxPlan]
    BY <1>7, PlannerAssumption DEF IInv, TypeOK
  <2>3. TypeOK'
    BY <2>1, <2>2 DEF IInv, TypeOK
  <2>4. Bounded' /\ CancelInv'
    BY DEF IInv, Bounded, CancelInv
  <2> QED
    BY <2>3, <2>4
<1>9. ~lost => runs[i][t] <= g.plan[i].tries[t]
      /\ \A j \in 1..MaxPlan, u \in Tools :
            runs[j][u] <= IF j \in DOMAIN n.plan THEN n.plan[j].tries[u] ELSE 0
  <2> SUFFICES ASSUME ~lost
               PROVE  /\ runs[i][t] <= g.plan[i].tries[t]
                      /\ \A j \in 1..MaxPlan, u \in Tools :
                            runs[j][u] <= IF j \in DOMAIN n.plan THEN n.plan[j].tries[u] ELSE 0
    OBVIOUS
  <2>1. \A j \in 1..MaxPlan, u \in Tools :
            runs[j][u] <= IF j \in DOMAIN g.plan THEN g.plan[j].tries[u] ELSE 0
    BY DEF Tells, Covers
  <2>2. runs[i][t] <= g.plan[i].tries[t]
    BY <1>1, <2>1
  <2>3. g.plan[i].tries[t] \in Nat /\ runs[i][t] \in Nat
    BY <1>1, TriesAre DEF IInv, TypeOK
  <2>4. runs[i][t] <= n.plan[i].tries[t]
    BY <1>2, <1>4, <2>2, <2>3
  <2> QED
    BY <1>1, <1>2, <1>4, <2>1, <2>2, <2>4
<1>10. Tells(goal)'
  BY <1>6, <1>9 DEF Tells, Covers
<1>11. g.plan[i].tries[t] \in Nat /\ runs[i][t] \in Nat
  BY <1>1, TriesAre DEF IInv, TypeOK
<1>12. ~lost => runs[i][t] + 1 <= n.plan[i].tries[t]
  BY <1>2, <1>4, <1>9, <1>11
<1>13. WaitIsBacked(goal)'
  <2>1. Remaining(n) # {} /\ (lost \/ Room(n, i, t))
    BY <1>1, <1>2, <1>4, <1>5, <1>12 DEF Room
  <2>2. WaitIsBacked(goal)' <=>
           (n.status = "waiting_for_permission" =>
              Remaining(n) # {} /\ (question' = "open" => lost \/ Room(n, CurrentStep(n), n.wait)))
    BY <1>6 DEF WaitIsBacked, Remaining, CurrentStep, Room
  <2> QED
    BY <1>4, <1>5, <2>1, <2>2
<1>14. EntryOf(goal)' = EntryOf(n)
  BY <1>6 DEF EntryOf, CurrentStep, Remaining, Entry
<1>15. StoreInv'
  BY InRoundIs DEF StoreInv, WaitIsBacked, Loadable
<1>16. ReturnInv'
  BY <1>4, <1>6, <1>7, <1>10, <1>13, <1>14, InRoundIs DEF ReturnInv
<1>17. WorkInv' /\ LoadInv'
  BY <1>6 DEF WorkInv, Working, LoadInv
<1>18. EntryInv'
  BY <1>6, InRoundIs DEF EntryInv, Returning, Loadable
<1> QED
  BY <1>8, <1>15, <1>16, <1>17, <1>18 DEF IInv

LEMMA CallToolKeeps == ASSUME IInv, NEW t \in Tools, CallTool(t) PROVE IInv'
<1> DEFINE i == CurrentStep(goal)
           s == Started(goal, i)
           g == [s EXCEPT !.status = "running"]
<1>1. InRound /\ Remaining(goal) # {}
  BY DEF CallTool, InCalls, InRound
<1>2. i \in Remaining(goal)
  BY <1>1, InRoundIs, CurrentStepIs
<1>3. s \in Goals /\ SameTries(goal, s) /\ Remaining(s) = Remaining(goal)
  BY <1>1, <1>2, InRoundIs, SetStepIs DEF Started, StepStatuses
<1>4. /\ IF MayTry(g, i, t) THEN Attempt(g, i, t) ELSE Answered(g) /\ Environment
  BY DEF CallTool
<1> HIDE DEF s
<1>a. "running" \in GoalStatuses /\ None \in Tools \cup {None}
  BY DEF GoalStatuses
<1>5. g \in Goals /\ g.status = "running" /\ g.plan = s.plan
  BY <1>a, <1>3, StatusIs
<1> HIDE DEF g
<1>6. Tells(g)
  BY <1>1, <1>3, <1>5, InRoundIs, TellsTheSame, TellsOn
<1>7. Remaining(g) = Remaining(goal) /\ CurrentStep(g) = i
  BY <1>3, <1>5 DEF Remaining, CurrentStep
<1> HIDE DEF i
<1>8. CASE ~MayTry(g, i, t)
  BY <1>1, <1>4, <1>5, <1>6, <1>8, AnsweredKeeps
<1>9. CASE MayTry(g, i, t) /\ flag
  <2>1. Ended /\ UNCHANGED db /\ Environment
    BY <1>4, <1>9 DEF Attempt, Cancelled, Environment, history
  <2> QED
    BY <1>1, <2>1, EndedKeeps, InRoundIs
<1>10. CASE MayTry(g, i, t) /\ ~flag /\ t \in Confirmed
  <2>1. /\ Save([TriedOnce(g, i, t) EXCEPT !.status = "waiting_for_permission", !.wait = t], "return")
        /\ pend' = Entry(t, g, i) /\ question' = "open"
        /\ UNCHANGED <<db, flag, cancelling, runs, lost>>
    BY <1>4, <1>10 DEF Attempt, Cancelled, TriedOnce, history
  <2> QED
    BY <1>1, <1>5, <1>6, <1>7, <1>10, <2>1, AskedKeeps
<1>11. CASE MayTry(g, i, t) /\ ~flag /\ t \notin Confirmed
  <2>1. /\ goal' = TriedOnce(g, i, t) /\ Executed(i, t)
        /\ pc' \in Places /\ pc'.at = "tool" /\ pc'.tool = t
        /\ UNCHANGED <<db, flag, pend, question, cancelling, lost>>
    BY <1>4, <1>11, PlannerAssumption DEF Attempt, Cancelled, TriedOnce, Executed, At, Places
  <2> QED
    BY <1>1, <1>2, <1>5, <1>6, <1>7, <1>11, <2>1, AttemptedKeeps
<1> QED
  BY <1>8, <1>9, <1>10, <1>11

LEMMA ToolRetriesKeeps == ASSUME IInv, ToolRetries PROVE IInv'
<1> DEFINE i == CurrentStep(goal)
<1>1. InRound /\ pc.tool \in Tools /\ Remaining(goal) # {}
  BY DEF ToolRetries, InTool, InRound, IInv, WorkInv, Working
<1>2. i \in Remaining(goal)
  BY <1>1, InRoundIs, CurrentStepIs
<1>3. CASE MayTry(goal, i, pc.tool)
  <2>1. /\ goal' = TriedOnce(goal, i, pc.tool) /\ Executed(i, pc.tool) /\ UNCHANGED pc
        /\ UNCHANGED <<db, flag, pend, question, cancelling, lost>>
    BY <1>3 DEF ToolRetries, TriedOnce, Executed
  <2>2. PICK t \in Tools : t = pc.tool
    BY <1>1
  <2>3. PICK k : k = i
    OBVIOUS
  <2> HIDE DEF i
  <2>4. /\ goal' = TriedOnce(goal, k, t) /\ Executed(k, t) /\ MayTry(goal, k, t) /\ k \in Remaining(goal)
    BY <1>2, <1>3, <2>1, <2>2, <2>3
  <2>5. pc' \in Places /\ pc'.at = "tool" /\ pc'.tool = t
    BY <2>1, <2>2 DEF ToolRetries, InTool, IInv, TypeOK
  <2>6. goal \in Goals /\ goal.status \in {"planning", "running"} /\ Tells(goal)
    BY <1>1, InRoundIs
  <2> QED
    BY <1>1, <2>1, <2>4, <2>5, <2>6, AttemptedKeeps
<1>4. CASE ~MayTry(goal, i, pc.tool)
  <2>1. Answered(SetStep(goal, i, "failed")) /\ Environment
    BY <1>4 DEF ToolRetries
  <2> QED
    BY <1>1, <2>1, ResultAnswered DEF StepStatuses
<1> QED
  BY <1>3, <1>4

-----------------------------------------------------------------------------
(* The operations that lead into _execute.                                 *)

LEMMA RunKeeps == ASSUME IInv, Run PROVE IInv'
<1>1. pc.at = "idle" /\ db = NewGoal /\ Save(NewGoal, "start") /\ UNCHANGED db /\ Environment
  BY DEF Run, Idling
<1>2. Tells(NewGoal) /\ pend = NoEntry
  BY <1>1, NewGoalIs DEF IInv, StoreInv, EntryInv, Loadable
<1>3. MaySave(NewGoal, "start")
  BY <1>2, NewGoalIs DEF MaySave
<1> QED
  BY <1>1, <1>3, SaveKeeps

\* The goal is loaded, from an idle runner.
LEMMA AnswerIs ==
    ASSUME IInv, NEW how, NEW entry, Answer(how, entry)
    PROVE  /\ goal' = db /\ goal' \in Goals /\ pend' = entry
           /\ pc' = [at |-> how, then |-> "return", tool |-> pend.tool, step |-> StepOf(db)]
           /\ pend.tool \in Tools \cup {None} /\ StepOf(db) \in 0..MaxPlan
           /\ UNCHANGED <<db, flag, question, cancelling, runs, lost>>
           /\ ~Returning /\ pc.at = "idle"
<1>1. pend.tool \in Tools \cup {None} /\ StepOf(db) \in 0..MaxPlan
  BY PlannerAssumption DEF IInv, TypeOK, StepOf
<1> QED
  BY <1>1 DEF Answer, At, history, Idling, Returning, IInv, TypeOK

LEMMA AnswerKeeps ==
    ASSUME IInv, NEW how \in {"resume", "approve", "deny"}, NEW entry \in {pend, NoEntry},
           Answer(how, entry),
           how = "resume" \/ (how = "approve" /\ pend # NoEntry /\ entry = pend)
                          \/ (how = "deny" /\ entry = NoEntry /\ pend # NoEntry),
           how = "resume" => entry = pend
    PROVE  IInv'
<1>1. pc' \in Places /\ pend' \in [tool : Tools \cup {None}, plan : Nat, step : 0..MaxPlan]
  BY AnswerIs, PlannerAssumption DEF Places, IInv, TypeOK, NoEntry
<1>2. TypeOK' /\ Bounded' /\ CancelInv'
  BY <1>1, AnswerIs DEF IInv, TypeOK, Bounded, CancelInv
<1>3. StoreInv' /\ (Tells(db) => Tells(goal)')
  BY AnswerIs DEF IInv, StoreInv, Tells, Covers, WaitIsBacked, Room
<1>4. pc'.at = how /\ pc'.then = "return" /\ pc'.tool = pend.tool /\ pc'.step = StepOf(db)
  BY AnswerIs
<1>5. WorkInv' /\ ReturnInv'
  BY <1>4 DEF WorkInv, ReturnInv, Working, Returning
<1>6. EntryInv'
  BY AnswerIs DEF IInv, EntryInv, Tells, Covers, EntryOf
<1>7. LoadInv'
  <2>1. CASE how = "resume"
    <3>1. db.status = "waiting_for_user" => Tells(db) /\ pend = NoEntry
      BY DEF IInv, StoreInv, EntryInv, Loadable
    <3> QED
      BY <1>3, <1>4, <2>1, <3>1, AnswerIs DEF LoadInv
  <2>2. CASE how = "approve"
    <3>1. pend # NoEntry /\ pend' = pend
      BY <2>2, AnswerIs
    <3>2. ASSUME db.status = "waiting_for_permission", question = "open"
          PROVE  lost \/ Room(db, StepOf(db), pend.tool)
      <4>1. pend = EntryOf(db) /\ Remaining(db) # {} /\ (lost \/ Room(db, CurrentStep(db), db.wait))
        BY <3>1, <3>2 DEF IInv, EntryInv, StoreInv, WaitIsBacked
      <4>2. CurrentStep(db) \in DOMAIN db.plan
        BY <4>1, CurrentStepIs DEF IInv, TypeOK
      <4>3. StepOf(db) = CurrentStep(db) /\ pend.tool = db.wait
        BY <4>1, <4>2 DEF StepOf, EntryOf, Entry
      <4> QED
        BY <4>1, <4>3
    <3>3. lost \/ Room(db, StepOf(db), pend.tool) => (lost \/ Room(goal, pc.step, pc.tool))'
      BY <1>4, AnswerIs DEF Room
    <3>4. db.status = "waiting_for_permission" => Tells(goal)'
      BY <1>3 DEF IInv, StoreInv, Loadable
    <3> QED
      BY <1>4, <2>2, <3>1, <3>2, <3>3, <3>4, AnswerIs DEF LoadInv
  <2>3. CASE how = "deny"
    <3>1. Tells(db) \/ db.status \in Terminal
      BY <2>3, AnswerIs DEF IInv, EntryInv
    <3> QED
      BY <1>3, <1>4, <2>3, <3>1, AnswerIs DEF LoadInv
  <2> QED
    BY <2>1, <2>2, <2>3
<1> QED
  BY <1>2, <1>3, <1>5, <1>6, <1>7 DEF IInv

LEMMA LoadsKeep == ASSUME IInv, ResumeLoads \/ ApproveLoads \/ DenyLoads PROVE IInv'
BY AnswerKeeps DEF ResumeLoads, ApproveLoads, DenyLoads

LEMMA ResumeKeeps == ASSUME IInv, Resume PROVE IInv'
<1>1. pc.at = "resume" /\ UNCHANGED db /\ Environment /\ goal \in Goals /\ ~Returning
  BY DEF Resume, IInv, TypeOK, Returning
<1>2. CASE goal.status = "waiting_for_user"
  <2>1. PICK st \in {"planning", "running"} : Save([goal EXCEPT !.status = st], "enter")
    BY <1>2 DEF Resume
  <2> DEFINE n == [goal EXCEPT !.status = st]
  <2>a. st \in GoalStatuses /\ None \in Tools \cup {None}
    BY DEF GoalStatuses
  <2>2. n \in Goals /\ n.status = st /\ n.plan = goal.plan
    BY <1>1, <2>a, StatusIs
  <2> HIDE DEF n
  <2>3. Tells(goal) /\ pend = NoEntry
    BY <1>1, <1>2 DEF IInv, LoadInv
  <2>4. MaySave(n, "enter")
    BY <2>2, <2>3, TellsOn DEF MaySave
  <2> QED
    BY <1>1, <2>1, <2>4, SaveKeeps DEF n
<1>3. CASE goal.status # "waiting_for_user"
  BY <1>1, <1>3, EndedKeeps DEF Resume
<1> QED
  BY <1>2, <1>3

LEMMA ApproveKeeps == ASSUME IInv, Approve PROVE IInv'
<1>1. pc.at = "approve" /\ UNCHANGED <<db, flag, pend, cancelling, lost>> /\ ~Returning
      /\ pc \in Places /\ goal \in Goals
  BY DEF Approve, Returning, IInv, TypeOK
<1>2. CASE ~(goal.status = "waiting_for_permission" /\ question = "open")
  <2>1. Ended /\ Environment
    BY <1>2 DEF Approve, Environment, history
  <2> QED
    BY <1>1, <2>1, EndedKeeps
<1>3. CASE goal.status = "waiting_for_permission" /\ question = "open"
  <2>1. question' = "spent" /\ Executed(pc.step, pc.tool) /\ UNCHANGED goal
        /\ pc' = [pc EXCEPT !.at = "approved"]
    BY <1>3 DEF Approve, Executed
  <2>2. Tells(goal) /\ (lost \/ Room(goal, pc.step, pc.tool)) /\ (goal = db \/ db.status = "cancelled")
    BY <1>1, <1>3 DEF IInv, LoadInv
  <2>3. runs \in [1..MaxPlan -> [Tools -> Nat]]
    BY DEF IInv, TypeOK
  <2>4. runs' \in [1..MaxPlan -> [Tools -> Nat]]
    <3>1. CASE pc.step \notin 1..MaxPlan
      BY <2>1, <2>3, <3>1 DEF Executed
    <3>2. CASE pc.step \in 1..MaxPlan /\ pc.tool \in Tools
      BY <2>1, <2>3, <3>2, ExecutedIs
    <3>3. CASE pc.step \in 1..MaxPlan /\ pc.tool \notin Tools
      BY <2>1, <2>3, <3>3 DEF Executed
    <3> QED
      BY <3>1, <3>2, <3>3
  <2>5. pc' \in Places /\ pc'.at = "approved"
    BY <1>1, <2>1 DEF Places
  <2>6. TypeOK' /\ CancelInv'
    BY <1>1, <2>1, <2>4, <2>5 DEF IInv, TypeOK, CancelInv
  <2>7. Tells(goal)' /\ Bounded'
    <3>1. CASE lost
      BY <1>1, <3>1 DEF Tells, Bounded
    <3>2. CASE ~lost
      <4>1. PICK i \in DOMAIN goal.plan, t \in Tools : i = pc.step /\ t = pc.tool
        BY <2>2, <3>2 DEF Room
      <4>2. i \in 1..MaxPlan /\ runs[i][t] + 1 <= goal.plan[i].tries[t]
        BY <1>1, <2>2, <3>2, <4>1, PlanIs DEF Room
      <4>3. /\ runs'[i][t] = runs[i][t] + 1
            /\ \A j \in 1..MaxPlan, u \in Tools : j # i \/ u # t => runs'[j][u] = runs[j][u]
        BY <2>1, <2>3, <4>1, <4>2, ExecutedIs
      <4>4. \A j \in 1..MaxPlan, u \in Tools :
               runs'[j][u] <= IF j \in DOMAIN goal.plan THEN goal.plan[j].tries[u] ELSE 0
        BY <2>2, <3>2, <4>2, <4>3 DEF Tells, Covers
      <4>5. \A j \in 1..MaxPlan, u \in Tools : runs'[j][u] <= MaxAttempts
        <5> TAKE j \in 1..MaxPlan, u \in Tools
        <5>1. runs'[j][u] <= IF j \in DOMAIN goal.plan THEN goal.plan[j].tries[u] ELSE 0
          BY <4>4
        <5>2. j \in DOMAIN goal.plan =>
                 goal.plan[j].tries[u] \in Nat /\ goal.plan[j].tries[u] <= MaxAttempts
          BY <1>1, TriesAre
        <5>3. runs'[j][u] \in Nat
          BY <2>4
        <5> QED
          BY <5>1, <5>2, <5>3, PlannerAssumption
      <4> QED
        BY <2>1, <4>4, <4>5 DEF Tells, Covers, Bounded
    <3> QED
      BY <3>1, <3>2
  <2>8. db.status = "cancelled" \/ Tells(db)'
    BY <1>1, <2>1, <2>2, <2>7 DEF Tells, Covers
  <2>9. StoreInv'
    BY <1>1, <2>1, <2>8 DEF IInv, StoreInv, WaitIsBacked, Remaining, Loadable
  <2>10. WorkInv' /\ ReturnInv' /\ LoadInv'
    BY <2>5, <2>7 DEF WorkInv, Working, ReturnInv, Returning, LoadInv
  <2>11. EntryInv'
    BY <1>1, <2>8 DEF IInv, EntryInv, EntryOf, CurrentStep, Remaining, Entry, Terminal
  <2> QED
    BY <2>6, <2>7, <2>9, <2>10, <2>11 DEF IInv
<1> QED
  BY <1>2, <1>3

\* The step has its result, and the goal runs again.
LEMMA RunsAgain ==
    ASSUME NEW g \in Goals, NEW i, NEW st \in StepStatuses, Tells(g)
    PROVE  LET n == [SetStep(g, i, st) EXCEPT !.status = "running", !.wait = None]
           IN  n \in Goals /\ n.status = "running" /\ Tells(n)
<1> DEFINE m == SetStep(g, i, st)
           n == [m EXCEPT !.status = "running", !.wait = None]
<1>1. m \in Goals /\ SameTries(g, m)
  BY SetStepIs
<1> HIDE DEF m
<1>2. n \in Goals /\ n.status = "running" /\ n.plan = m.plan
  BY <1>1 DEF Goals, GoalStatuses
<1> HIDE DEF n
<1>3. Tells(n)
  BY <1>1, <1>2, TellsTheSame, TellsOn
<1> QED
  BY <1>2, <1>3 DEF n, m

\* The goal runs again, its entry gone.
LEMMA EntersAgain ==
    ASSUME IInv, ~Returning, NEW n \in Goals, n.status = "running", Tells(n), Save(n, "enter"),
           pend' = NoEntry, question' = question \/ question' = Refused,
           UNCHANGED <<db, flag, cancelling, runs, lost>>
    PROVE  IInv'
<1>1. goal' = n /\ pc' = [at |-> "save", then |-> "enter", tool |-> None, step |-> 0]
  BY DEF Save, At
<1>2. TypeOK' /\ Bounded' /\ CancelInv'
  BY <1>1, PlannerAssumption DEF IInv, TypeOK, Places, Bounded, CancelInv, NoEntry
<1>3. question' = "open" => question = "open"
  BY DEF Refused
<1>4. StoreInv'
  BY <1>3 DEF IInv, StoreInv, Tells, Covers, WaitIsBacked, Room
<1>5. Tells(goal)'
  BY <1>1 DEF Tells, Covers
<1>6. WorkInv' /\ ReturnInv' /\ LoadInv' /\ EntryInv'
  BY <1>1, <1>5 DEF WorkInv, Working, ReturnInv, Returning, LoadInv, EntryInv, NoEntry
<1> QED
  BY <1>2, <1>4, <1>6 DEF IInv

LEMMA ApprovedEndsKeeps == ASSUME IInv, ApprovedEnds PROVE IInv'
<1>1. pc.at = "approved" /\ ~Returning /\ goal \in Goals /\ Tells(goal) /\ pend' = NoEntry
      /\ UNCHANGED <<db, flag, question, cancelling, pauses, runs, lost>>
  BY DEF ApprovedEnds, Returning, IInv, TypeOK, LoadInv, history
<1>2. CASE pend = NoEntry
  BY <1>1, <1>2, EndedKeeps DEF ApprovedEnds, Environment, history
<1>3. CASE pend # NoEntry
  <2>1. PICK st \in {"completed", "failed"} :
            Save([SetStep(goal, pc.step, st) EXCEPT !.status = "running", !.wait = None], "enter")
    BY <1>3 DEF ApprovedEnds
  <2>2. st \in StepStatuses
    BY DEF StepStatuses
  <2>3. PICK n : n = [SetStep(goal, pc.step, st) EXCEPT !.status = "running", !.wait = None]
    OBVIOUS
  <2>4. n \in Goals /\ n.status = "running" /\ Tells(n) /\ Save(n, "enter")
    BY <1>1, <2>1, <2>2, <2>3, RunsAgain
  <2> QED
    BY <1>1, <2>4, EntersAgain
<1> QED
  BY <1>2, <1>3

LEMMA DenyKeeps == ASSUME IInv, Deny PROVE IInv'
<1>1. pc.at = "deny" /\ ~Returning /\ goal \in Goals /\ pend = NoEntry /\ question' = Refused
      /\ UNCHANGED <<db, flag, pend, cancelling, pauses, runs, lost>>
  BY DEF Deny, Returning, IInv, TypeOK, LoadInv, history
<1>2. CASE /\ pc.step # 0 /\ MayBecome(goal, "running")
           /\ goal.plan[pc.step].status \in {"running", "failed"}
  <2>1. Tells(goal)
    BY <1>1, <1>2 DEF IInv, LoadInv, MayBecome, Successors, Terminal
  <2>2. PICK n : n = [SetStep(goal, pc.step, "failed") EXCEPT !.status = "running", !.wait = None]
    OBVIOUS
  <2>3. n \in Goals /\ n.status = "running" /\ Tells(n)
    BY <1>1, <2>1, <2>2, RunsAgain DEF StepStatuses
  <2>4. Save(n, "enter")
    BY <1>2, <2>2 DEF Deny
  <2> QED
    BY <1>1, <2>3, <2>4, EntersAgain
<1>3. CASE ~(/\ pc.step # 0 /\ MayBecome(goal, "running")
             /\ goal.plan[pc.step].status \in {"running", "failed"})
  <2>1. Ended
    BY <1>3 DEF Deny
  <2>2. goal' \in Goals /\ pc' = [at |-> "idle", then |-> "return", tool |-> None, step |-> 0]
    BY <2>1, NewGoalIs DEF Ended, Idle, At
  <2>3. question' = "open" => question = "open"
    BY <1>1 DEF Refused
  <2>4. TypeOK' /\ Bounded' /\ CancelInv'
    BY <1>1, <2>2, PlannerAssumption DEF IInv, TypeOK, Places, Bounded, CancelInv
  <2>5. StoreInv'
    BY <1>1, <2>3 DEF IInv, StoreInv, Tells, Covers, WaitIsBacked, Room
  <2>6. WorkInv' /\ ReturnInv' /\ LoadInv' /\ EntryInv'
    BY <1>1, <2>2 DEF WorkInv, Working, ReturnInv, Returning, LoadInv, EntryInv
  <2> QED
    BY <2>4, <2>5, <2>6 DEF IInv
<1> QED
  BY <1>2, <1>3

-----------------------------------------------------------------------------
(* cancel; cuts and restarts.                                              *)

LEMMA CancelledGoalIs ==
    ASSUME NEW g \in Goals
    PROVE  CancelledGoal(g) \in Goals /\ CancelledGoal(g).status = "cancelled"
<1> DEFINE row(j) == IF Done(g.plan[j]) THEN g.plan[j] ELSE [g.plan[j] EXCEPT !.status = "cancelled"]
           rows == [j \in DOMAIN g.plan |-> row(j)]
<1>1. PICK k \in 0..MaxPlan : g.plan \in [1..k -> StepRows]
  BY PlanIs
<1>2. \A j \in 1..k : row(j) \in StepRows
  BY <1>1 DEF StepRows, StepStatuses
<1> HIDE DEF row
<1>3. rows \in [1..k -> StepRows]
  BY <1>1, <1>2
<1>4. rows \in Plans
  BY <1>3 DEF Plans
<1>5. CancelledGoal(g) = [g EXCEPT !.status = "cancelled", !.wait = None, !.plan = rows]
  BY DEF CancelledGoal, row
<1> HIDE DEF rows
<1> QED
  BY <1>4, <1>5 DEF Goals, GoalStatuses, Terminal

\* The runner is not disturbed, and no question opens.
LEMMA RunnerKeeps ==
    ASSUME IInv, Runner, UNCHANGED db, pend' \in {pend, NoEntry}, flag' \in BOOLEAN,
           pend' # NoEntry => flag' = flag,
           question' = "open" => question = "open",
           pend' = NoEntry => pend = NoEntry \/ question' # "open",
           cancelling' \in [at : {"idle", "loaded", "save"}, goal : Goals], CancelInv'
    PROVE  IInv'
<1>1. UNCHANGED <<goal, pc, runs, lost, db>>
  BY DEF Runner, history
<1>2. TypeOK' /\ Bounded'
  BY <1>1, PlannerAssumption DEF IInv, TypeOK, Bounded, NoEntry
<1>3. StoreInv'
  BY <1>1 DEF IInv, StoreInv, Tells, Covers, WaitIsBacked, Room
<1>4. Tells(goal)' <=> Tells(goal)
  BY <1>1 DEF Tells, Covers
<1>5. WorkInv'
  BY <1>1, <1>4 DEF IInv, WorkInv, Working, Remaining
<1>6. ReturnInv'
  <2>1. WaitIsBacked(goal) => WaitIsBacked(goal)'
    BY <1>1 DEF WaitIsBacked, Room, Remaining, CurrentStep
  <2>2. EntryOf(goal)' = EntryOf(goal)
    BY <1>1 DEF EntryOf, Entry, CurrentStep, Remaining
  <2> QED
    BY <1>1, <1>4, <2>1, <2>2 DEF IInv, ReturnInv, Returning
<1>7. LoadInv'
  <2>1. Room(goal, pc.step, pc.tool)' <=> Room(goal, pc.step, pc.tool)
    BY <1>1 DEF Room
  <2> QED
    BY <1>1, <1>4, <2>1 DEF IInv, LoadInv
<1>8. EntryInv'
  <2>1. EntryOf(db)' = EntryOf(db) /\ (Tells(db)' <=> Tells(db)) /\ (Returning' <=> Returning)
    BY <1>1 DEF EntryOf, Entry, CurrentStep, Remaining, Tells, Covers, Returning
  <2> QED
    BY <1>1, <2>1 DEF IInv, EntryInv
<1> QED
  BY <1>2, <1>3, <1>5, <1>6, <1>7, <1>8 DEF IInv

LEMMA CancelLoadsKeeps == ASSUME IInv, CancelLoads PROVE IInv'
<1>1. /\ cancelling' = [at |-> "loaded", goal |-> db] /\ UNCHANGED <<db, flag, pend, question>> /\ Runner
  BY DEF CancelLoads
<1>2. cancelling' \in [at : {"idle", "loaded", "save"}, goal : Goals] /\ CancelInv'
  BY <1>1 DEF IInv, TypeOK, CancelInv
<1> QED
  BY <1>1, <1>2, RunnerKeeps DEF IInv, TypeOK

LEMMA CancelKeeps == ASSUME IInv, Cancel PROVE IInv'
<1>1. UNCHANGED db /\ Runner /\ cancelling.goal \in Goals
  BY DEF Cancel, IInv, TypeOK
<1>2. CASE cancelling.goal.status \in Terminal
  <2>1. cancelling' = [at |-> "idle", goal |-> NewGoal] /\ UNCHANGED <<flag, pend, question>>
    BY <1>2 DEF Cancel, Quiet
  <2>2. cancelling' \in [at : {"idle", "loaded", "save"}, goal : Goals] /\ CancelInv'
    BY <2>1, NewGoalIs DEF CancelInv
  <2> QED
    BY <1>1, <2>1, <2>2, RunnerKeeps DEF IInv, TypeOK
<1>3. CASE cancelling.goal.status \notin Terminal
  <2>1. /\ flag' = TRUE /\ question' = (IF pend # NoEntry THEN Refused ELSE question) /\ pend' = NoEntry
        /\ cancelling' = [at |-> "save", goal |-> CancelledGoal(cancelling.goal)]
    BY <1>3 DEF Cancel
  <2>2. cancelling' \in [at : {"idle", "loaded", "save"}, goal : Goals] /\ CancelInv'
    BY <1>1, <2>1, CancelledGoalIs DEF CancelInv
  <2> QED
    BY <1>1, <2>1, <2>2, RunnerKeeps DEF Refused
<1> QED
  BY <1>2, <1>3

LEMMA ExpireKeeps == ASSUME IInv, Expire PROVE IInv'
BY RunnerKeeps DEF Expire, IInv, TypeOK, CancelInv

LEMMA CancelWrittenKeeps == ASSUME IInv, CancelWritten PROVE IInv'
<1>1. /\ db' = cancelling.goal /\ db' \in Goals /\ db'.status = "cancelled"
      /\ cancelling' = [at |-> "idle", goal |-> NewGoal]
      /\ UNCHANGED <<flag, pend, question, goal, pc, runs, lost>>
  BY DEF CancelWritten, Quiet, Runner, history, IInv, TypeOK, CancelInv
<1>2. TypeOK' /\ Bounded' /\ CancelInv'
  BY <1>1, NewGoalIs DEF IInv, TypeOK, Bounded, CancelInv
<1>3. StoreInv'
  BY <1>1 DEF StoreInv, Loadable, WaitIsBacked
<1>4. Tells(goal)' <=> Tells(goal)
  BY <1>1 DEF Tells, Covers
<1>5. WorkInv'
  BY <1>1, <1>4 DEF IInv, WorkInv, Working, Remaining, Loadable
<1>6. ReturnInv'
  <2>1. WaitIsBacked(goal) => WaitIsBacked(goal)'
    BY <1>1 DEF WaitIsBacked, Room, Remaining, CurrentStep
  <2>2. EntryOf(goal)' = EntryOf(goal)
    BY <1>1 DEF EntryOf, Entry, CurrentStep, Remaining
  <2> QED
    BY <1>1, <1>4, <2>1, <2>2 DEF IInv, ReturnInv, Returning, Loadable
<1>7. LoadInv'
  <2>1. Room(goal, pc.step, pc.tool)' <=> Room(goal, pc.step, pc.tool)
    BY <1>1 DEF Room
  <2> QED
    BY <1>1, <1>4, <2>1 DEF IInv, LoadInv
<1>8. EntryInv'
  BY <1>1 DEF IInv, EntryInv, Terminal
<1> QED
  BY <1>2, <1>3, <1>5, <1>6, <1>7, <1>8 DEF IInv

\* What the store may hold after a cut, and what it tells then.
LEMMA CutStore ==
    ASSUME IInv, UNCHANGED <<runs, question>>, db' = db \/ (pc.at = "save" /\ db' = goal), Forgets
    PROVE  /\ db' \in Goals /\ lost' \in BOOLEAN /\ Bounded' /\ StoreInv'
           /\ (lost => lost') /\ (Tells(db') => Tells(db)')
<1>1. db' \in Goals /\ lost' \in BOOLEAN /\ (lost => lost')
  BY DEF IInv, TypeOK, Forgets
<1>2. Bounded'
  BY <1>1 DEF IInv, Bounded
<1>3. Tells(db') => Tells(db)'
  BY <1>1 DEF Tells, Covers
<1>4. WaitIsBacked(db') => WaitIsBacked(db)'
  BY <1>1 DEF WaitIsBacked, Remaining, CurrentStep, Room
<1>5. CASE db' = db
  BY <1>1, <1>2, <1>3, <1>4, <1>5 DEF IInv, StoreInv
<1>6. CASE pc.at = "save" /\ db' = goal
  <2>1. CASE pc.then = "return"
    BY <1>1, <1>2, <1>3, <1>4, <1>6, <2>1 DEF StoreInv, IInv, ReturnInv, Returning
  <2>2. CASE pc.then = "end"
    BY <1>1, <1>2, <1>3, <1>6, <2>2 DEF StoreInv, IInv, ReturnInv, Loadable, WaitIsBacked
  <2>3. CASE pc.then \in {"start", "round", "enter"}
    <3>1. Tells(goal) /\ goal.status # "waiting_for_permission"
      BY <1>6, <2>3, NewGoalIs DEF IInv, WorkInv, Working
    <3> QED
      BY <1>1, <1>2, <1>3, <1>6, <3>1 DEF StoreInv, WaitIsBacked
  <2> QED
    BY <1>6, <2>1, <2>2, <2>3 DEF IInv, TypeOK, Places
<1> QED
  BY <1>1, <1>2, <1>3, <1>5, <1>6

\* An entry survives a cut of the runner.
LEMMA CutEntry ==
    ASSUME IInv, UNCHANGED <<flag, pend, question, runs>>,
           db' = db \/ (pc.at = "save" /\ db' = goal), ~Idling, Forgets, ~Returning'
    PROVE  EntryInv'
<1> SUFFICES ASSUME pend # NoEntry
             PROVE  /\ ~flag /\ db'.status \notin {"pending", "waiting_for_user"}
                    /\ db'.status = "waiting_for_permission" => pend = EntryOf(db')
                    /\ Tells(db)' \/ db'.status \in Terminal
  BY DEF EntryInv, EntryOf, Entry, CurrentStep, Remaining
<1>1. ~flag
  BY DEF IInv, EntryInv
<1>2. (lost => lost') /\ (lost' \/ goal.plan = db'.plan)
  BY DEF Forgets
<1>3. CASE db' = goal /\ pc.at = "save"
  <2>1. CASE pc.then = "return"
    <3>1. Tells(goal) /\ goal.status = "waiting_for_permission" /\ pend = EntryOf(goal)
      BY <1>3, <2>1 DEF IInv, ReturnInv, Returning
    <3>2. Tells(db)'
      BY <1>2, <1>3, <3>1 DEF Tells, Covers
    <3> QED
      BY <1>1, <1>3, <3>1, <3>2
  <2>2. CASE pc.then = "end"
    BY <1>1, <1>3, <2>2 DEF IInv, ReturnInv, Terminal
  <2>3. CASE pc.then \in {"start", "round", "enter"}
    BY <1>3, <2>3 DEF IInv, WorkInv, Working
  <2> QED
    BY <1>3, <2>1, <2>2, <2>3 DEF IInv, TypeOK, Places
<1>4. CASE db' = db
  <2>1. db.status \notin {"pending", "waiting_for_user"}
        /\ (db.status = "waiting_for_permission" => pend = EntryOf(db))
        /\ (Returning \/ Tells(db) \/ db.status \in Terminal)
    BY DEF IInv, EntryInv
  <2>2. Tells(db) => Tells(db)'
    BY <1>2, <1>4 DEF Tells, Covers
  <2>3. Returning => Tells(db)'
    <3> SUFFICES ASSUME Returning, ~lost' PROVE Tells(db)'
      BY DEF Tells
    <3>1. Tells(goal) /\ goal.plan = db'.plan
      BY <1>2 DEF IInv, ReturnInv
    <3> QED
      BY <1>2, <3>1 DEF Tells, Covers
  <2> QED
    BY <1>1, <1>4, <2>1, <2>2, <2>3
<1> QED
  BY <1>3, <1>4

LEMMA TotalTimeoutKeeps == ASSUME IInv, TotalTimeout PROVE IInv'
<1>1. /\ pc' = [at |-> "fail", then |-> "return", tool |-> None, step |-> 0]
      /\ ~Idling
      /\ UNCHANGED <<goal, flag, pend, question, cancelling, runs>> /\ Forgets
  BY DEF TotalTimeout, At, Idling
<1>2. db' = db \/ (pc.at = "save" /\ db' = goal)
  BY DEF TotalTimeout, MaybeWritten
<1>3. WorkInv' /\ ReturnInv' /\ LoadInv' /\ ~Returning'
  BY <1>1 DEF WorkInv, Working, ReturnInv, Returning, LoadInv
<1>4. TypeOK' /\ CancelInv'
  BY <1>1, <1>2, CutStore, PlannerAssumption DEF IInv, TypeOK, Places, CancelInv
<1> QED
  BY <1>1, <1>2, <1>3, <1>4, CutStore, CutEntry DEF IInv

LEMMA CutShortKeeps == ASSUME IInv, CutShort PROVE IInv'
<1>1. /\ goal' = NewGoal /\ pc' = [at |-> "idle", then |-> "return", tool |-> None, step |-> 0]
      /\ ~Idling
      /\ UNCHANGED <<flag, pend, question, cancelling, runs>> /\ Forgets
  BY DEF CutShort, At, Ended, Idle
<1>2. db' = db \/ (pc.at = "save" /\ db' = goal)
  BY DEF CutShort, MaybeWritten
<1>3. WorkInv' /\ ReturnInv' /\ LoadInv' /\ ~Returning'
  BY <1>1 DEF WorkInv, Working, ReturnInv, Returning, LoadInv
<1>4. TypeOK' /\ CancelInv'
  BY <1>1, <1>2, CutStore, NewGoalIs, PlannerAssumption DEF IInv, TypeOK, Places, CancelInv
<1> QED
  BY <1>1, <1>2, <1>3, <1>4, CutStore, CutEntry DEF IInv

LEMMA RestartKeeps == ASSUME IInv, Restart PROVE IInv'
<1>1. /\ goal' = NewGoal /\ pc' = [at |-> "idle", then |-> "return", tool |-> None, step |-> 0]
      /\ UNCHANGED <<question, runs>> /\ Forgets
      /\ flag' = FALSE /\ cancelling' = [at |-> "idle", goal |-> NewGoal]
      /\ pend' = IF db'.status = "waiting_for_permission" THEN EntryOf(db') ELSE NoEntry
  BY DEF Restart, At, Ended, Idle, Quiet, EntryOf
<1>2. db' \in Goals /\ lost' \in BOOLEAN /\ Bounded' /\ StoreInv'
  <2>1. CASE db' = db \/ (pc.at = "save" /\ db' = goal)
    BY <1>1, <2>1, CutStore
  <2>2. CASE cancelling.at = "save" /\ db' = cancelling.goal
    <3>1. db' \in Goals /\ db'.status = "cancelled"
      BY <2>2 DEF IInv, TypeOK, CancelInv
    <3>2. lost' \in BOOLEAN /\ (lost => lost')
      BY <1>1 DEF IInv, TypeOK, Forgets
    <3>3. Bounded'
      BY <1>1, <3>2 DEF IInv, Bounded
    <3> QED
      BY <3>1, <3>2, <3>3 DEF StoreInv, Loadable, WaitIsBacked
  <2> QED
    BY <2>1, <2>2 DEF Restart
<1>3. pend' \in [tool : Tools \cup {None}, plan : Nat, step : 0..MaxPlan]
  <2>1. CASE db'.status = "waiting_for_permission"
    <3>1. Remaining(db') # {}
      BY <1>2, <2>1 DEF StoreInv, WaitIsBacked, Remaining
    <3>2. CurrentStep(db') \in 1..MaxPlan
      BY <1>2, <3>1, CurrentStepIs
    <3>3. db'.wait \in Tools \cup {None} /\ db'.replans \in Nat
      BY <1>2 DEF Goals
    <3> QED
      BY <1>1, <2>1, <3>2, <3>3, PlannerAssumption DEF EntryOf, Entry
  <2>2. CASE db'.status # "waiting_for_permission"
    BY <1>1, <2>2, PlannerAssumption DEF NoEntry
  <2> QED
    BY <2>1, <2>2
<1>4. TypeOK' /\ CancelInv'
  <2>1. goal' \in Goals /\ pc' \in Places
    BY <1>1, NewGoalIs, PlannerAssumption DEF Places
  <2>2. flag' \in BOOLEAN /\ cancelling' \in [at : {"idle", "loaded", "save"}, goal : Goals]
    BY <1>1, NewGoalIs
  <2>3. UNCHANGED runs
    BY <1>1
  <2>4. TypeOK'
    BY <1>2, <1>3, <2>1, <2>2, <2>3 DEF IInv, TypeOK
  <2> QED
    BY <1>1, <2>4 DEF CancelInv
<1>5. WorkInv' /\ ReturnInv' /\ LoadInv'
  BY <1>1 DEF WorkInv, Working, ReturnInv, Returning, LoadInv
<1>6. EntryInv'
  <2>1. EntryOf(db)' = EntryOf(db')
    BY DEF EntryOf, Entry, CurrentStep, Remaining
  <2> QED
    BY <1>1, <1>2, <2>1 DEF EntryInv, StoreInv, Loadable
<1> QED
  BY <1>2, <1>4, <1>5, <1>6 DEF IInv

-----------------------------------------------------------------------------
(* The theorems.                                                           *)

LEMMA RoundKeeps == ASSUME IInv, Round PROVE IInv'
BY PlanKeeps, BeginRoundKeeps, ReplyKeeps, RespondKeeps, ProviderFailsKeeps, EmergencyKeeps,
   NothingDoneKeeps, CreatePlanKeeps, ReplanKeeps, AskUserKeeps, FinishTaskKeeps, CallToolKeeps,
   ToolEndsKeeps, ToolRetriesKeeps, ToolRetryCancelledKeeps DEF Round

LEMMA OperationKeeps == ASSUME IInv, Operation PROVE IInv'
BY RunKeeps, LoadsKeep, ResumeKeeps, ApproveKeeps, ApprovedEndsKeeps, DenyKeeps DEF Operation

LEMMA StutterKeeps == ASSUME IInv, UNCHANGED vars PROVE IInv'
<1>1. UNCHANGED <<db, goal, pc, flag, pend, question, cancelling, pauses, runs, lost>>
  BY DEF vars, history
<1>2. TypeOK' /\ Bounded' /\ CancelInv'
  BY <1>1 DEF IInv, TypeOK, Bounded, CancelInv
<1>3. StoreInv' /\ EntryInv'
  BY <1>1 DEF IInv, StoreInv, EntryInv, Tells, Covers, WaitIsBacked, Room, EntryOf, Returning
<1>4. WorkInv' /\ ReturnInv' /\ LoadInv'
  BY <1>1 DEF IInv, WorkInv, ReturnInv, LoadInv, Tells, Covers, WaitIsBacked, Room, EntryOf,
              Returning, Working
<1> QED
  BY <1>2, <1>3, <1>4 DEF IInv

\* At any time a goal from which a call may go on tells of every execution.
THEOREM PlannerInvariance == Spec => []IInv
<1>1. Init => IInv
  <2> SUFFICES ASSUME Init PROVE IInv
    OBVIOUS
  <2>1. \A i \in 1..MaxPlan, t \in Tools : runs[i][t] = 0
    BY DEF Init, NoRuns
  <2>2. Tells(NewGoal) /\ Bounded
    BY <2>1, NewGoalIs, PlannerAssumption DEF Tells, Covers, Bounded
  <2>3. TypeOK
    <3>1. pc \in Places
      BY PlannerAssumption DEF Init, Places, Idle, At
    <3>2. pend \in [tool : Tools \cup {None}, plan : Nat, step : 0..MaxPlan]
      BY PlannerAssumption DEF Init, NoEntry
    <3>3. cancelling \in [at : {"idle", "loaded", "save"}, goal : Goals]
      BY NewGoalIs DEF Init, Quiet
    <3>4. runs \in [1..MaxPlan -> [Tools -> Nat]]
      BY DEF Init, NoRuns
    <3> QED
      BY <3>1, <3>2, <3>3, <3>4, NewGoalIs DEF Init, TypeOK
  <2>4. StoreInv /\ EntryInv /\ CancelInv
    BY <2>2, NewGoalIs DEF Init, StoreInv, WaitIsBacked, EntryInv, CancelInv, Quiet
  <2>5. WorkInv /\ ReturnInv /\ LoadInv
    BY DEF Init, WorkInv, Working, ReturnInv, Returning, LoadInv, Idle, At
  <2> QED
    BY <2>2, <2>3, <2>4, <2>5 DEF IInv
<1>2. IInv /\ [Next]_vars => IInv'
  BY WrittenKeeps, FailKeeps, RoundKeeps, OperationKeeps, CancelLoadsKeeps, CancelKeeps,
     CancelWrittenKeeps, TotalTimeoutKeeps, CutShortKeeps, ExpireKeeps, RestartKeeps, StutterKeeps
     DEF Next
<1> QED
  BY <1>1, <1>2, PTL DEF Spec

\* For each step a tool is executed at most as often as attempts are allowed:
\* _execute_tool counts an attempt before it executes, and what is loaded again
\* holds the count.
THEOREM AttemptsAreBounded == Spec => []AttemptsBounded
<1>1. IInv => AttemptsBounded
  BY DEF IInv, Bounded, AttemptsBounded
<1> QED
  BY <1>1, PlannerInvariance, PTL

LEMMA NothingRuns ==
    ASSUME IInv, Next, flag PROVE \A i \in 1..MaxPlan, t \in Tools : runs'[i][t] <= runs[i][t]
<1>1. \A i \in 1..MaxPlan, t \in Tools : runs[i][t] \in Nat
  BY DEF IInv, TypeOK
<1>2. UNCHANGED runs \/ runs' = NoRuns
  <2>1. pend = NoEntry
    BY DEF IInv, EntryInv
  <2>2. CASE Approve
    BY <2>1, <2>2 DEF Approve, IInv, LoadInv
  <2>3. CASE Round
    <3>1. ASSUME NEW t \in Tools, CallTool(t) PROVE UNCHANGED runs
      BY <3>1 DEF CallTool, Attempt, Cancelled, Environment, history
    <3>2. CASE ToolRetries
      BY <3>2 DEF ToolRetries, Cancelled, Environment, history
    <3>3. CASE Replan
      BY <3>3 DEF Replan
    <3> QED
      BY <2>3, <3>1, <3>2, <3>3
         DEF Round, Plan, BeginRound, Reply, Respond, ProviderFails, Emergency, NothingDone,
             CreatePlan, AskUser, FinishTask, ToolEnds, ToolRetryCancelled, Environment, history
  <2>4. CASE Operation /\ ~Approve
    BY <2>4 DEF Operation, Run, ResumeLoads, Resume, ApproveLoads, ApprovedEnds, DenyLoads, Deny,
                Answer, Environment, history
  <2>5. CASE CancelLoads \/ Cancel \/ CancelWritten \/ Expire
    BY <2>5 DEF CancelLoads, Cancel, CancelWritten, Expire, Runner, history
  <2>6. CASE Written \/ Fail \/ TotalTimeout \/ CutShort \/ Restart
    BY <2>6 DEF Written, Fail, TotalTimeout, CutShort, Restart, Environment, history
  <2> QED
    BY <2>2, <2>3, <2>4, <2>5, <2>6 DEF Next
<1>3. CASE UNCHANGED runs
  BY <1>1, <1>3
<1>4. CASE runs' = NoRuns
  BY <1>1, <1>4 DEF NoRuns
<1> QED
  BY <1>2, <1>3, <1>4

\* Once cancel has raised its signal nothing is executed for the goal, whatever
\* the runner was about to do and whatever confirmation was being approved.
THEOREM NothingRunsAfterCancel == Spec => NothingRunsOnceCancelled
<1>1. IInv /\ [Next]_vars =>
        [flag => \A i \in 1..MaxPlan, t \in Tools : runs'[i][t] <= runs[i][t]]_vars
  BY NothingRuns
<1> QED
  BY <1>1, PlannerInvariance, PTL DEF Spec, NothingRunsOnceCancelled
=============================================================================
