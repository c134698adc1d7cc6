------------------------------ MODULE Proactive ------------------------------
(***************************************************************************)
(* Reminders, and remarks the assistant makes of its own accord.           *)
(*   proactive/scheduler.py      Scheduler.tick, _fire                     *)
(*   proactive/buffer.py         EventBuffer.add, ready                    *)
(*   proactive/worker.py         DecisionWorker._tick, deliver, resolve    *)
(*   proactive/runtime.py        ProactiveRuntime.process, flush_deferred  *)
(*   proactive/notifications.py  InboxNotificationSink.deliver             *)
(*   proactive/scoring.py, policy.py   score_event, InterruptPolicy.decide *)
(*   internal_activity/activities/legacy.py   proactive                    *)
(*                                                                         *)
(* Two coroutines share the store: the heartbeat adds events, the worker   *)
(* decides about them.  Every store call is an await, so each write is a   *)
(* step of its own, made from a copy that may be stale.  A user who starts *)
(* to talk cancels the worker at any await.                                *)
(***************************************************************************)
EXTENDS Integers, FiniteSets

CONSTANTS
    MaxTime,     \* bound: the last time of the clock
    Grace,       \* misfire_grace
    Starts,      \* what a run may start with: the reminder's [kind, misfire], and
                 \* known: the sensed events that were dealt with before
    Sensed,      \* events of sensors, named by their dedupe keys
    Urgent,      \* those of priority URGENT
    Expiry,      \* expires_at of sensed events
    Rank(_),     \* importance + urgency of an event
    Capacity,    \* EventBuffer.capacity
    MaxUpsets    \* bound: crashes, cancellations, errors, changes of mode

\* An occurrence of the reminder is named by the time it is due, its dedupe key.
Occurrences == 1..MaxTime
Events == Occurrences \cup Sensed

ASSUME ProactiveAssumption ==
    /\ MaxTime \in Nat /\ Expiry \in Nat /\ Grace \in Nat /\ Capacity \in Nat \ {0} /\ MaxUpsets \in Nat
    /\ Starts \subseteq [kind : {"once", "interval"}, misfire : {"skip", "fire_once", "expire"},
                         known : SUBSET Sensed]
    /\ Urgent \subseteq Sensed /\ Sensed \cap Occurrences = {}
    /\ \A e \in Events : Rank(e) \in Nat

VARIABLES
    now,         \* the clock
    schedule,    \* the reminder's row
    events,      \* rows of proactive_events
    deliveries,  \* rows of proactive_deliveries, named by their first event
    heart,       \* the heartbeat: where it stands and its local copies
    worker,      \* the worker: where it stands and its local copies
    mode,        \* PolicyState and the user's presence, in memory
    upsets,      \* how much of MaxUpsets is used
    told         \* history: how often the user was told of each event

store   == <<schedule, events, deliveries>>
proactiveVars == <<now, schedule, events, deliveries, heart, worker, mode, upsets, told>>

\* An event's row.  Whether next_decision_at, or the age the buffer asks for, has come is
\* left to each round of the worker.
NoEvent    == [status |-> "none", attempts |-> 0]
PendingRow == [status |-> "pending", attempts |-> 0]
HandledRow == [status |-> "handled", attempts |-> 0]   \* nobody reads its attempts again

\* A delivery's row; aloud: of a higher priority than INFO.
NoDelivery == [status |-> "none", covers |-> {}, aloud |-> FALSE]

HeartRest == [at |-> "rest", due |-> 0, time |-> 0, event |-> 0, lowest |-> 0, full |-> FALSE]

\* A delivery on its way to the store, and where its sender goes on (back).  overtaken,
\* history: the clock or the mode has moved on since it was decided.
NoLetter == [first |-> 0, covers |-> {}, status |-> "none", aloud |-> FALSE, back |-> "rest",
             overtaken |-> FALSE]

\* tried: the attempts in the worker's copies of the rows.
WorkerRest == [at |-> "rest", queue |-> {}, tried |-> [e \in Events |-> 0], batch |-> {},
               todo |-> {}, letter |-> NoLetter]

Calm == [enabled |-> TRUE, quiet |-> FALSE, user |-> "free"]

ProactiveInit ==
    /\ now = 0
    /\ \E s \in Starts :
          /\ schedule = [kind |-> s.kind, misfire |-> s.misfire, enabled |-> TRUE, next |-> 1]
          /\ events = [e \in Events |-> IF e \in s.known THEN HandledRow ELSE NoEvent]
    /\ deliveries = [e \in Events |-> NoDelivery]
    /\ heart = HeartRest
    /\ worker = WorkerRest
    /\ mode = Calm
    /\ upsets = 0
    /\ told = [e \in Events |-> 0]

Stale == IF now >= Expiry THEN Sensed ELSE {}

Pending(e) == events[e].status = "pending"
Deferred(e) == deliveries[e].status = "deferred"
\* Mutant: any earlier row counts as a delivery.
DeliveredOnRecord(e) == deliveries[e].status # "none"

\* delivered_at is set; opening the message only adds an acknowledgement.
Delivered(e) == deliveries[e].status = "delivered"

\* Mutant: only the event a delivery is named by.
CoveredFirst == { e \in Events : deliveries[e].status # "none" }

\* event_id and related_event_ids of every delivery on record, deferred ones too.
Covered == UNION { deliveries[e].covers : e \in Events }

-----------------------------------------------------------------------------
(* The heartbeat: the scheduler.                                           *)

\* tick reads the clock and the schedules that are due.
SchedulerReads ==
    /\ heart.at = "rest"
    /\ schedule.enabled /\ schedule.next <= now
    /\ heart' = [HeartRest EXCEPT !.at = "fire", !.due = schedule.next, !.time = now]
    /\ UNCHANGED <<now, store, worker, mode, upsets, told>>

Misfired == heart.time - heart.due > Grace

Emits == Misfired => schedule.misfire = "fire_once"

\* add_event of the occurrence; its dedupe key is unique.
AddOccurrence(due) ==
    IF events[due].status = "none"
    THEN events' = [events EXCEPT ![due] = PendingRow]
    ELSE UNCHANGED events

Fire ==
    /\ heart.at = "fire"
    /\ heart' = [heart EXCEPT !.at = "save"]
    /\ IF Emits THEN AddOccurrence(heart.due) ELSE UNCHANGED events
    /\ UNCHANGED <<now, schedule, deliveries, worker, mode, upsets, told>>

\* The interval is one unit of the clock.
NextFire == IF heart.due + 1 <= heart.time THEN heart.time + 1 ELSE heart.due + 1

SaveSchedule ==
    /\ heart.at = "save"
    /\ schedule' = IF schedule.kind = "once" \/ (Misfired /\ schedule.misfire = "expire")
                   THEN [schedule EXCEPT !.enabled = FALSE]
                   ELSE [schedule EXCEPT !.next = NextFire]
    /\ heart' = HeartRest
    /\ UNCHANGED <<now, events, deliveries, worker, mode, upsets, told>>

-----------------------------------------------------------------------------
(* The heartbeat: sensors and the buffer.                                  *)

PendingNow == { e \in Events : Pending(e) }

\* What pending_events may return: at most so many; which are the oldest is left open.
PendingUpTo(limit) ==
    { rows \in SUBSET PendingNow :
        /\ Cardinality(rows) <= limit
        /\ Cardinality(rows) < limit => rows = PendingNow }

Lowest(rows) == { e \in rows : \A o \in rows : Rank(e) <= Rank(o) }

\* add: the buffer reads what is pending; when it is full, the newcomer or the
\* event of the lowest rank is given up.
Sense(e) ==
    /\ heart.at = "rest" /\ mode.enabled
    /\ events[e].status = "none"
    /\ IF Cardinality(PendingNow) < Capacity
       THEN heart' = [HeartRest EXCEPT !.at = "add", !.event = e]
       ELSE \E rows \in PendingUpTo(Capacity + 1) : \E low \in Lowest(rows) :
               heart' = IF Rank(low) >= Rank(e)
                        THEN [HeartRest EXCEPT !.at = "add", !.event = e, !.full = TRUE]
                        ELSE [HeartRest EXCEPT !.at = "evict", !.event = e, !.lowest = low]
    /\ UNCHANGED <<now, store, worker, mode, upsets, told>>

Evict ==
    /\ heart.at = "evict"
    /\ events' = [events EXCEPT ![heart.lowest] = HandledRow]
    /\ heart' = [heart EXCEPT !.at = "add", !.lowest = 0]
    /\ UNCHANGED <<now, schedule, deliveries, worker, mode, upsets, told>>

AddSensed ==
    /\ heart.at = "add"
    /\ events' = [events EXCEPT ![heart.event] = IF heart.full THEN HandledRow ELSE PendingRow]
    /\ heart' = HeartRest
    /\ UNCHANGED <<now, schedule, deliveries, worker, mode, upsets, told>>

Heartbeat == SchedulerReads \/ Fire \/ SaveSchedule \/ Evict \/ AddSensed

-----------------------------------------------------------------------------
(* What may be said now.                                                   *)

Absent == {"away", "asleep"}

\* score_event.  Whether an ordinary event is worth it, too soon after the last
\* remark or bad timing for the desktop is the environment's choice.
Gate(e) ==
    IF ~mode.enabled THEN {"drop"}
    ELSE IF (mode.quiet /\ e \notin Urgent) \/ mode.user = "busy" THEN {"defer"}
    ELSE IF e \notin Sensed \ Urgent THEN {"urgent"}
    ELSE IF mode.user \in Absent THEN {"inbox"}
    ELSE {"defer", "inbox", "drop", "candidate"}

\* InterruptPolicy.decide for a reminder, by the status its delivery is to have.
Decide == IF ~mode.enabled THEN "suppressed" ELSE IF mode.quiet THEN "deferred" ELSE "delivered"

-----------------------------------------------------------------------------
(* Deliveries.                                                             *)

\* A delivery goes to the sink or, deferred or suppressed, straight to the store; its
\* sender, who stands where w says, waits for that.
Posts(w, first, covers, status, aloud) ==
    worker' = [w EXCEPT !.at = IF status = "delivered" THEN "look" ELSE "store",
                        !.letter = [first |-> first, covers |-> covers, status |-> status,
                                    aloud |-> aloud, back |-> w.at, overtaken |-> FALSE]]

Back == [worker EXCEPT !.at = worker.letter.back, !.letter = NoLetter]

\* InboxNotificationSink.deliver, get_delivery: what was delivered before is not delivered
\* again.
Look ==
    /\ worker.at = "look"
    /\ worker' = IF Delivered(worker.letter.first) THEN Back ELSE [worker EXCEPT !.at = "store"]
    /\ UNCHANGED <<now, store, heart, mode, upsets, told>>

\* save_delivery: the delivery is as it was decided, whatever the hour is by now.
SaveDelivery ==
    /\ worker.at = "store"
    /\ LET l == worker.letter
       IN  /\ deliveries' = [deliveries EXCEPT ![l.first] =
                                [status |-> l.status, covers |-> l.covers, aloud |-> l.aloud]]
           /\ told' = [e \in Events |->
                         told[e] + IF l.status = "delivered" /\ e \in l.covers THEN 1 ELSE 0]
    /\ worker' = Back
    /\ UNCHANGED <<now, schedule, events, heart, mode, upsets>>

\* process of a reminder, unless it was processed before; w: the worker afterwards.
Process(w, e) ==
    IF deliveries[e].status # "none" THEN worker' = w
    ELSE Posts(w, e, {e}, Decide, Decide = "delivered")

-----------------------------------------------------------------------------
(* The worker.                                                             *)

\* ready: expired events are settled, and those whose time has come are copied.
Ready(at) ==
    \E rows \in PendingUpTo(Capacity) : \E due \in SUBSET (rows \ Stale) :
        /\ events' = [e \in Events |-> IF e \in rows \cap Stale THEN HandledRow ELSE events[e]]
        /\ worker' = [worker EXCEPT !.at = at, !.queue = due,
                         !.tried = [e \in Events |-> IF e \in due THEN events[e].attempts ELSE 0]]

\* A round starts with the deferred deliveries whose time has come, when the user is
\* there, and goes straight to the events otherwise.
TickBegins ==
    /\ worker.at = "rest"
    /\ IF mode.user \in Absent THEN Ready("away")
       ELSE \E due \in SUBSET { e \in Events : Deferred(e) } :
               /\ worker' = [worker EXCEPT !.at = "flush", !.queue = due]
               /\ UNCHANGED events
    /\ UNCHANGED <<now, schedule, deliveries, heart, mode, upsets, told>>

\* flush_deferred decides again.
Flush(e) ==
    /\ worker.at = "flush" /\ e \in worker.queue
    /\ LET w == [worker EXCEPT !.queue = @ \ {e}]
       IN  IF Decide = "deferred" \/ (Decide = "delivered" /\ mode.user = "busy")
           THEN worker' = w
           ELSE Posts(w, e, {e}, Decide, Decide = "delivered")
    /\ UNCHANGED <<now, store, heart, mode, upsets, told>>

ReadPending ==
    /\ worker.at = "flush" /\ worker.queue = {}
    /\ Ready("gate")
    /\ UNCHANGED <<now, schedule, deliveries, heart, mode, upsets, told>>

Write(e, row) == events' = [events EXCEPT ![e] = row]

\* update_event writes the whole copy, and with it the status the copy has.
Copy(e) == [status |-> "pending", attempts |-> worker.tried[e]]

\* The worker is done with an event of its queue.
Done(e) == [worker EXCEPT !.queue = @ \ {e}, !.tried[e] = 0]

Reached(e) == worker.at = "gate" /\ e \in worker.queue

\* Decided about twice, or told already: a crash came between the two.
SettleOld(e) ==
    /\ Reached(e)
    /\ worker.tried[e] >= 2 \/ e \in Covered
    /\ Write(e, HandledRow)
    /\ worker' = Done(e)
    /\ UNCHANGED <<now, schedule, deliveries, heart, mode, upsets, told>>

Open(e) == Reached(e) /\ e \notin Covered /\ worker.tried[e] < 2

PutOff(e) ==
    /\ Open(e) /\ "defer" \in Gate(e)
    /\ Write(e, Copy(e))
    /\ worker' = Done(e)
    /\ UNCHANGED <<now, schedule, deliveries, heart, mode, upsets, told>>

Drop(e) ==
    /\ Open(e) /\ "drop" \in Gate(e)
    /\ Write(e, HandledRow)
    /\ worker' = Done(e)
    /\ UNCHANGED <<now, schedule, deliveries, heart, mode, upsets, told>>

\* Straight to the inbox, without a model.
ToInbox(e) ==
    /\ Open(e) /\ "inbox" \in Gate(e)
    /\ Posts([worker EXCEPT !.at = "resolve", !.queue = @ \ {e}, !.todo = {e}],
             e, {e}, "delivered", FALSE)
    /\ UNCHANGED <<now, store, heart, mode, upsets, told>>

\* A reminder needs no model either; process decides once more, after an await.
TakeReminder(e) ==
    /\ Open(e) /\ "urgent" \in Gate(e) /\ e \notin Sensed
    /\ worker' = [worker EXCEPT !.at = "process", !.todo = {e}, !.queue = @ \ {e}]
    /\ UNCHANGED <<now, store, heart, mode, upsets, told>>

\* Mutant: the reminder is resolved before it is processed.
ProcessLast(e) ==
    IF Pending(e) THEN Write(e, HandledRow) /\ UNCHANGED worker
    ELSE UNCHANGED events /\ Process([worker EXCEPT !.at = "resolve"], e)

ProcessFirst(e) == UNCHANGED events /\ Process([worker EXCEPT !.at = "resolve"], e)

ProcessReminder ==
    /\ worker.at = "process"
    /\ \E e \in worker.todo : ProcessFirst(e)
    /\ UNCHANGED <<now, schedule, deliveries, heart, mode, upsets, told>>

ToBatch(e) ==
    /\ Open(e) /\ e \in Sensed /\ Gate(e) \cap {"urgent", "candidate"} # {}
    /\ worker' = [worker EXCEPT !.queue = @ \ {e}, !.batch = @ \cup {e}]
    /\ UNCHANGED <<now, store, heart, mode, upsets, told>>

\* The batch is gated again; if the pause between decisions is over (\E asks), the attempt
\* is written down and the model is asked.
Ask ==
    /\ worker.at = "gate" /\ worker.queue = {}
    /\ \E late \in SUBSET worker.batch, asks \in BOOLEAN :
          /\ \A e \in late : "defer" \in Gate(e)
          /\ \A e \in worker.batch \ late : Gate(e) # {"defer"}
          /\ LET batch    == IF asks THEN worker.batch \ late ELSE {}
                 tried(e) == worker.tried[e] + IF e \in batch THEN 1 ELSE 0
             IN  /\ events' = [e \in Events |->
                                 IF e \in late \cup batch THEN [Copy(e) EXCEPT !.attempts = tried(e)]
                                 ELSE events[e]]
                 /\ worker' = IF batch = {} THEN WorkerRest
                              ELSE [WorkerRest EXCEPT !.at = "ask", !.batch = batch,
                                      !.tried = [e \in Events |-> IF e \in batch THEN tried(e) ELSE 0]]
    /\ UNCHANGED <<now, schedule, deliveries, heart, mode, upsets, told>>

\* What may be said of an event when the answer has come.
\* Mutant: nobody looks again.
RecheckNever(e) == {"candidate"}

Recheck(e) == IF e \in Stale THEN {"drop"} ELSE Gate(e)

Spoken  == {"urgent", "candidate"}

Resolving(todo) == [worker EXCEPT !.at = "resolve", !.todo = todo, !.batch = {}]

\* The model's answer meets the gates as they are now.
Answer ==
    /\ worker.at = "ask"
    /\ \E action \in {"silent", "defer", "speak"},
          hint \in [worker.batch -> {"drop", "defer", "inbox"} \cup Spoken] :
       /\ \A e \in worker.batch : hint[e] \in Recheck(e)
       /\ LET all(kinds) == \A e \in worker.batch : hint[e] \in kinds
              speaks == action = "speak" /\ (all({"inbox"}) \/ all(Spoken))
              putOff == action = "defer"
                        \/ (action = "speak" /\ \E e \in worker.batch : hint[e] = "defer")
          IN  IF speaks
              THEN \E first \in worker.batch :
                      Posts(Resolving(worker.batch), first, worker.batch, "delivered", all(Spoken))
              ELSE worker' = Resolving(IF putOff THEN { e \in worker.batch : worker.tried[e] >= 2 }
                                       ELSE worker.batch)
    /\ UNCHANGED <<now, store, heart, mode, upsets, told>>

\* The user is away: only reminders and urgent events, which nobody subscribes to.
WhileAway(e) ==
    /\ worker.at = "away" /\ e \in worker.queue
    /\ LET w == [worker EXCEPT !.at = "resolve_away", !.queue = @ \ {e}, !.todo = {e}]
       IN  IF e \in Urgent THEN worker' = w
           ELSE IF e \notin Sensed /\ mode.user = "away" THEN Process(w, e)
           ELSE worker' = Done(e)
    /\ UNCHANGED <<now, store, heart, mode, upsets, told>>

AwayEnds ==
    /\ worker.at = "away" /\ worker.queue = {}
    /\ worker' = WorkerRest
    /\ UNCHANGED <<now, store, heart, mode, upsets, told>>

\* resolve, one event at a time, then back to where it was called.
Resolve(e) ==
    /\ worker.at \in {"resolve", "resolve_away"} /\ e \in worker.todo
    /\ Write(e, HandledRow)
    /\ worker' = [worker EXCEPT !.todo = @ \ {e}, !.tried[e] = 0]
    /\ UNCHANGED <<now, schedule, deliveries, heart, mode, upsets, told>>

Resolved ==
    /\ worker.at \in {"resolve", "resolve_away"} /\ worker.todo = {}
    /\ worker' = CASE worker.at = "resolve_away" -> [worker EXCEPT !.at = "away"]
                   [] worker.at = "resolve" -> [worker EXCEPT !.at = "gate"]
    /\ UNCHANGED <<now, store, heart, mode, upsets, told>>
Worker ==
    \/ TickBegins \/ ReadPending \/ ProcessReminder \/ Ask \/ Answer \/ AwayEnds \/ Resolved
    \/ Look \/ SaveDelivery
    \/ \E e \in Events :
          \/ Flush(e) \/ SettleOld(e) \/ PutOff(e) \/ Drop(e) \/ ToInbox(e)
          \/ TakeReminder(e) \/ ToBatch(e) \/ WhileAway(e) \/ Resolve(e)

-----------------------------------------------------------------------------
(* Time, the user and faults.                                              *)

Overtakes == worker' = IF worker.letter = NoLetter THEN worker
                       ELSE [worker EXCEPT !.letter.overtaken = TRUE]

ClockTicks ==
    /\ now < MaxTime
    /\ now' = now + 1 /\ Overtakes
    /\ UNCHANGED <<store, heart, mode, upsets, told>>

QuietEnds ==
    /\ mode.quiet
    /\ mode' = [mode EXCEPT !.quiet = FALSE]
    /\ UNCHANGED <<now, store, heart, worker, upsets, told>>

UserIsFree ==
    /\ mode.user # "free"
    /\ mode' = [mode EXCEPT !.user = "free"]
    /\ UNCHANGED <<now, store, heart, worker, upsets, told>>

Enable ==
    /\ ~mode.enabled
    /\ mode' = [mode EXCEPT !.enabled = TRUE]
    /\ UNCHANGED <<now, store, heart, worker, upsets, told>>

Upset == upsets < MaxUpsets /\ upsets' = upsets + 1

\* The user switches the assistant's initiative off, asks for quiet (or night falls),
\* sends a message, or leaves.
ModeChanges ==
    /\ Upset
    /\ \/ mode.enabled /\ mode' = [mode EXCEPT !.enabled = FALSE]
       \/ ~mode.quiet  /\ mode' = [mode EXCEPT !.quiet = TRUE]
       \/ \E user \in {"busy", "away", "asleep"} \ {mode.user} :
             mode' = [mode EXCEPT !.user = user]
    /\ Overtakes
    /\ UNCHANGED <<now, store, heart, told>>

\* foreground_enter cancels the activity that runs the worker; an error ends it too.
WorkerCutShort ==
    /\ Upset
    /\ worker.at # "rest"
    /\ worker' = WorkerRest
    /\ UNCHANGED <<now, store, heart, mode, told>>

HeartbeatFails ==
    /\ Upset
    /\ heart.at # "rest"
    /\ heart' = HeartRest
    /\ UNCHANGED <<now, store, worker, mode, told>>

\* The process dies and starts again; what is in memory, quiet mode too, is lost.
CrashAndRestart ==
    /\ Upset
    /\ heart' = HeartRest
    /\ worker' = WorkerRest
    /\ mode' = Calm
    /\ UNCHANGED <<now, store, told>>

ProactiveNext ==
    \/ Heartbeat \/ Worker
    \/ \E e \in Sensed : Sense(e)
    \/ ClockTicks \/ QuietEnds \/ UserIsFree \/ Enable
    \/ ModeChanges \/ WorkerCutShort \/ HeartbeatFails \/ CrashAndRestart

\* A round in which every waiting time is over.
FlushesAll == TickBegins /\ worker'.at = "flush" /\ worker'.queue = { e \in Events : Deferred(e) }
ReadsAll   == ReadPending /\ worker'.queue \cap Occurrences = PendingNow \cap Occurrences

\* Both coroutines run for ever, waiting times end, quiet ends at quiet_until or in the
\* morning, and the user has time again.
ProactiveFairness ==
    /\ WF_proactiveVars(Heartbeat) /\ WF_proactiveVars(Worker) /\ WF_proactiveVars(ClockTicks)
    /\ SF_proactiveVars(FlushesAll) /\ SF_proactiveVars(ReadsAll)
    /\ WF_proactiveVars(QuietEnds) /\ WF_proactiveVars(UserIsFree)

ProactiveSpec == ProactiveInit /\ [][ProactiveNext]_proactiveVars /\ ProactiveFairness

-----------------------------------------------------------------------------
(* Properties.                                                             *)

\* The user is told of an event at most once: alone, in a batch, after a deferral, however
\* the worker is cancelled or the process dies between the delivery and its events' rows.
ToldOnce == \A e \in Events : told[e] <= 1

\* A reminder that came due is never just forgotten: its event is settled only with a
\* delivery on record, unless initiative is switched off or a full buffer gives it up.
ReminderIsNotSwallowed ==
    [][\A e \in Occurrences : Pending(e) /\ events'[e].status = "handled" =>
         \/ deliveries[e].status # "none"
         \/ ~mode.enabled
         \/ heart.at = "evict" /\ heart.lowest = e]_proactiveVars

\* What is said aloud suits the moment it is said, not the moment it was thought of: a
\* remark does not burst into quiet hours, into a reply being prepared or an empty room,
\* unless that began during the two store calls that follow the last look.
SpeaksWhenWelcome ==
    [][\A e \in Events :
         deliveries'[e].aloud /\ ~deliveries[e].aloud /\ ~worker.letter.overtaken =>
         /\ mode.enabled
         /\ \A o \in deliveries'[e].covers :
               /\ mode.quiet => o \in Urgent
               /\ o \in Sensed => o \notin Stale /\ mode.user # "busy"
               /\ o \in Sensed \ Urgent => mode.user \notin Absent]_proactiveVars

\* Every reminder that came due is settled in the end, a deferred one too.
EveryReminderSettles ==
    \A e \in Occurrences : Pending(e) \/ Deferred(e) ~> ~Pending(e) /\ ~Deferred(e)
=============================================================================
