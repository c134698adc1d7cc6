---------------------------- MODULE Maintenance ----------------------------
(***************************************************************************)
(* The durable queue of work after a turn.                                 *)
(*   interfaces/maintenance.py  PostTurnMaintenanceQueue                   *)
(*                                                                         *)
(* A job runs the queue's named phases one after another in one worker     *)
(* task, which gives way to a turn in the foreground between two phases.   *)
(* What a phase does is its handler's (Cognition models one of them); here *)
(* it succeeds or fails.                                                   *)
(***************************************************************************)
EXTENDS Integers, Sequences, FiniteSets

CONSTANTS Jobs,          \* request ids and external event ids
          Phases,        \* the queue's phases, in order
          BatchOf,       \* [Jobs -> a batch key, or NoBatch]
          NoBatch,
          Priority,      \* [Jobs -> Nat]
          BatchLimit, Limit,
          MaxTurns, MaxClears, MaxRestarts   \* bounds on what happens around the queue

ASSUME PhasesAssumption == Len(Phases) \in Nat \ {0}
ASSUME PriorityAssumption == Priority \in [Jobs -> Nat]
ASSUME NamesAssumption == "none" \notin Jobs
ASSUME LimitsAssumption == BatchLimit \in Nat \ {0} /\ Limit \in Nat \ {0}

VARIABLES
    table,     \* the stored rows; "absent" before the job is enqueued
    order,     \* rowid: jobs in the order they were inserted
    worker,    \* the worker task: "none", "asleep", "phase", "stopping"
    current,   \* the job and the phase it is in
    busy,      \* a turn holds the gateway's lock
    starts,    \* history: how often each phase of each job was begun
    handled,   \* history: the triggers each job's first phase was given
    revoked,   \* history: jobs a clear has cancelled
    turns, clears, restarts

vars == <<table, order, worker, current, busy, starts, handled, revoked, turns, clears, restarts>>
bounds == <<turns, clears, restarts>>

Absent == [status |-> "absent", recorded |-> <<>>, attempts |-> 0, triggers |-> {}, priority |-> 0,
           ripe |-> FALSE, parent |-> "none"]
NoPhase == [job |-> "none", phase |-> 0, triggers |-> {}]
Live == { j \in Jobs : table[j].status \in {"queued", "running"} }
Queued == { j \in Jobs : table[j].status = "queued" }
Row(j) == CHOOSE i \in 1..Len(order) : order[i] = j

Init ==
    /\ table = [j \in Jobs |-> Absent] /\ order = <<>>
    /\ worker = "none" /\ current = NoPhase /\ busy = FALSE
    /\ starts = [j \in Jobs |-> [p \in 1..Len(Phases) |-> 0]]
    /\ handled = [j \in Jobs |-> {}] /\ revoked = {}
    /\ turns = 0 /\ clears = 0 /\ restarts = 0

\* start: a worker that is being cancelled is not done() yet.
WorkerStarted == IF worker = "none" THEN "asleep" ELSE worker

-----------------------------------------------------------------------------
\* Mutant: any queued job of the batch takes the newcomer in.
ParentsAnyAttempt(j) ==
    { p \in Jobs : /\ table[p].status \in {"queued", "running"} /\ BatchOf[p] = BatchOf[j]
                   /\ Cardinality(table[p].triggers \cup {j}) <= BatchLimit }

\* The newest queued job of the batch that was never picked, if there is room.
Parents(j) ==
    LET same == { p \in Jobs : /\ table[p].status = "queued" /\ table[p].attempts = 0
                               /\ BatchOf[p] = BatchOf[j] }
    IN  { p \in same : /\ \A q \in same : Row(q) <= Row(p)
                       /\ Cardinality(table[p].triggers \cup {j}) <= BatchLimit }

Full == Cardinality(Live) >= Limit

\* enqueue of a new id (an id that is stored already is left as it is).
Enqueue(j) ==
    /\ table[j] = Absent
    /\ order' = Append(order, j)
    /\ worker' = WorkerStarted
    /\ IF BatchOf[j] # NoBatch /\ Parents(j) # {}
       THEN \E p \in Parents(j) :
              table' = [table EXCEPT
                 ![p].triggers = @ \cup {j},
                 ![p].priority = IF Priority[j] > @ THEN Priority[j] ELSE @,
                 ![j] = [Absent EXCEPT !.status = "coalesced", !.parent = p]]
       ELSE table' = [table EXCEPT ![j] =
              [Absent EXCEPT !.status = IF Full THEN "rejected" ELSE "queued",
                             !.triggers = {j}, !.priority = Priority[j],
                             !.ripe = BatchOf[j] = NoBatch]]
    /\ UNCHANGED <<current, busy, starts, handled, revoked, bounds>>

\* The delay of a batch has passed.
Ripen(j) ==
    /\ j \in Queued /\ ~table[j].ripe
    /\ table' = [table EXCEPT ![j].ripe = TRUE]
    /\ UNCHANGED <<order, worker, current, busy, starts, handled, revoked, bounds>>

\* A phase of job j begins, with the payload the worker read when it picked j.
PhaseBegins(j, p, triggers) ==
    /\ worker' = "phase"
    /\ current' = [job |-> j, phase |-> p, triggers |-> triggers]
    /\ starts' = [starts EXCEPT ![j][p] = @ + 1]
    /\ handled' = IF p = 1 THEN [handled EXCEPT ![j] = triggers] ELSE handled

\* The first phase that is not recorded.
NextPhase(recorded) == Len(recorded) + 1

\* ORDER BY priority DESC, rowid LIMIT 1.
Best(ready) ==
    { j \in ready : \A k \in ready :
        \/ table[j].priority > table[k].priority
        \/ table[j].priority = table[k].priority /\ Row(j) <= Row(k) }

Pick ==
    /\ worker = "asleep" /\ ~busy
    /\ \E j \in Best({ k \in Queued : table[k].ripe }) :
          /\ table' = [table EXCEPT ![j].status = "running", ![j].attempts = @ + 1]
          /\ PhaseBegins(j, NextPhase(table[j].recorded), table[j].triggers)
    /\ UNCHANGED <<order, busy, revoked, bounds>>

\* Mutant: nothing is ready, so the worker ends.
LeaveUnripe ==
    /\ worker = "asleep" /\ \A j \in Queued : ~table[j].ripe
    /\ worker' = "none"
    /\ UNCHANGED <<table, order, current, busy, starts, handled, revoked, bounds>>

\* Nothing is queued any more: the worker ends.
Leave ==
    /\ worker = "asleep" /\ Queued = {}
    /\ worker' = "none"
    /\ UNCHANGED <<table, order, current, busy, starts, handled, revoked, bounds>>

Outcome(recorded) ==
    LET failed == { p \in 1..Len(Phases) : recorded[p] = "failed" }
    IN  IF Cardinality(failed) = Len(Phases) THEN "failed"
        ELSE IF failed # {} THEN "partial_failed" ELSE "completed"

\* The handler returns or raises: the phase is recorded, whatever came of it.
\* With phases left the job gives way to a turn in the foreground, or goes on.
PhaseEnds(outcome) ==
    /\ worker = "phase"
    /\ LET j == current.job
           recorded == Append(table[j].recorded, outcome)
           left == Len(recorded) < Len(Phases)
       IN  \/ /\ left /\ busy
              /\ table' = [table EXCEPT ![j].recorded = recorded, ![j].status = "queued"]
              /\ worker' = "asleep" /\ current' = NoPhase /\ UNCHANGED <<starts, handled>>
           \/ /\ left /\ ~busy
              /\ table' = [table EXCEPT ![j].recorded = recorded]
              /\ PhaseBegins(j, Len(recorded) + 1, current.triggers)
           \/ /\ ~left
              /\ table' = [table EXCEPT ![j].recorded = recorded, ![j].status = Outcome(recorded)]
              /\ worker' = "asleep" /\ current' = NoPhase /\ UNCHANGED <<starts, handled>>
    /\ UNCHANGED <<order, busy, revoked, bounds>>

Revoked(t) == [j \in Jobs |-> IF t[j].status \in {"queued", "running"}
                              THEN [t[j] EXCEPT !.status = "cancelled"] ELSE t[j]]

\* Mutant: the rows are cancelled, the worker is not.
InvalidateRows ==
    /\ clears < MaxClears /\ clears' = clears + 1
    /\ table' = Revoked(table) /\ revoked' = revoked \cup Live
    /\ UNCHANGED <<order, worker, current, busy, starts, handled, turns, restarts>>

\* invalidate, from clear: what waits or runs is cancelled, the worker with it.
Invalidate ==
    /\ clears < MaxClears /\ clears' = clears + 1
    /\ table' = Revoked(table) /\ revoked' = revoked \cup Live
    /\ worker' = IF worker = "none" THEN "none" ELSE "stopping"
    /\ UNCHANGED <<order, current, busy, starts, handled, turns, restarts>>

\* The cancelled task runs once more and ends; it does not touch a cancelled row.
WorkerStops ==
    /\ worker = "stopping"
    /\ worker' = "none" /\ current' = NoPhase
    /\ UNCHANGED <<table, order, busy, starts, handled, revoked, bounds>>

\* Mutant: an interrupted job goes back to the queue.
RestoredReplays(t) == [j \in Jobs |-> IF t[j].status = "running"
                                      THEN [t[j] EXCEPT !.status = "queued"] ELSE t[j]]

\* The constructor: a job that was running when the process ended is uncertain.
Restored(t) == [j \in Jobs |-> IF t[j].status = "running"
                               THEN [t[j] EXCEPT !.status = "uncertain"] ELSE t[j]]

\* The process ends, in order (shutdown cancels the worker after its grace time,
\* which leaves the same rows) or not, and starts again with a worker.
Restart ==
    /\ restarts < MaxRestarts /\ restarts' = restarts + 1
    /\ table' = Restored(table) /\ worker' = "asleep" /\ current' = NoPhase /\ busy' = FALSE
    /\ UNCHANGED <<order, starts, handled, revoked, turns, clears>>

TurnBegins ==
    /\ ~busy /\ turns < MaxTurns /\ turns' = turns + 1 /\ busy' = TRUE
    /\ UNCHANGED <<table, order, worker, current, starts, handled, revoked, clears, restarts>>
TurnEnds ==
    /\ busy /\ busy' = FALSE
    /\ UNCHANGED <<table, order, worker, current, starts, handled, revoked, bounds>>

Next ==
    \/ \E j \in Jobs : Enqueue(j) \/ Ripen(j)
    \/ \E outcome \in {"completed", "failed"} : PhaseEnds(outcome)
    \/ Pick \/ Leave \/ Invalidate \/ WorkerStops \/ Restart \/ TurnBegins \/ TurnEnds

\* A handler returns, delays pass and turns end; the worker is a task of the event loop.
Fairness ==
    /\ WF_vars(Pick) /\ WF_vars(Leave) /\ WF_vars(WorkerStops) /\ WF_vars(TurnEnds)
    /\ WF_vars(\E outcome \in {"completed", "failed"} : PhaseEnds(outcome))
    /\ \A j \in Jobs : WF_vars(Ripen(j))

Spec == Init /\ [][Next]_vars /\ Fairness

-----------------------------------------------------------------------------
\* No phase of a job is begun twice, however often the job gives way to a turn, is
\* cancelled, or is cut short by the end of the process.
PhaseOnce == \A j \in Jobs : \A p \in 1..Len(Phases) : starts[j][p] <= 1

\* A burst's trigger that was merged into another job is part of what that job's
\* first phase was given: the job was not picked before the merge.
MergedIsHandled ==
    \A j \in Jobs : LET p == table[j].parent
                    IN  p # "none" /\ starts[p][1] > 0 => j \in handled[p]

\* After the session is cleared, nothing that was waiting or running then begins
\* another phase or changes its outcome.
NothingAfterClear ==
    [][\A j \in revoked : starts'[j] = starts[j] /\ table'[j].status = "cancelled"]_vars

\* A job that is queued gets an outcome once the turns in the foreground end, unless
\* a clear was still stopping the worker when the job was enqueued.
Stranded == worker = "none" /\ clears > 0
JobSettles ==
    \A j \in Jobs : table[j].status = "queued"
                        ~> (table[j].status \notin {"queued", "running"} \/ Stranded)
=============================================================================
