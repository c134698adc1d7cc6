-------------------------- MODULE InternalActivity --------------------------
(***************************************************************************)
(* The background activities: one tick at a time looks at every registered *)
(* activity, orders those that are due and runs them one after another;    *)
(* a foreground request takes the place of whatever is running.            *)
(*   internal_activity/runtime.py    InternalActivityRuntime               *)
(*   internal_activity/scheduler.py  ActivityScheduler.select_registered   *)
(*   internal_activity/budget.py     TickBudget                            *)
(*   internal_activity/activities/social.py  social_wander                 *)
(*                                                                         *)
(* Time is counted in heartbeats.  An activity's cooldown (its interval,   *)
(* longer after failures, from last_run_at on) is kept as the heartbeats   *)
(* that are left of it.  What a handler does is external, except that the  *)
(* Readers read the group and the activity Wander speaks in it.  The event *)
(* loop runs one step up to its next await: between the reservation of a   *)
(* message and its sending only the process can end.                       *)
(***************************************************************************)
EXTENDS Integers, Sequences, FiniteSets, SequencesExt

CONSTANTS Activities,     \* registered activities
          Registered,     \* their order in the registry
          Readers,        \* those that read the group: social_lurk, social_wander
          Wander,         \* the one of them that may speak there
          Work,           \* category COGNITION, MEMORY or MAINTENANCE
          Play,           \* category LEISURE or SOCIAL
          Steadfast,      \* not preemptible
          PriorityOf,     \* [Activities -> 0..100]
          Interval,       \* [Activities -> Nat], in heartbeats
          Needs,          \* [Activities -> SUBSET Resources], TickBudget.resources
          Resources, TickLimit, DayLimit,  \* [Resources -> Nat]
          DailyLimit,     \* [Activities -> Nat]
          Policy,         \* [Activities -> [Presences -> {"AUTO", "MANUAL_ONLY", "DISABLED"}]]
          MaxPerTick,     \* max_activities_per_tick
          MaxFactor,      \* longest backoff, as a multiple of the interval (8 in the code)
          MaxFailures,    \* failures are counted up to here; 2^(MaxFailures-1) reaches MaxFactor
          MaxStreak,      \* selections in a row are counted up to here
          MaxUnanswered,  \* unanswered messages that lengthen the group's cooldown (3 in the code)
          GroupCooldown,  \* between two messages to the group
          MessageLimit,   \* social_wander_daily_message_limit
          MaxElapsed,     \* bound: heartbeats that pass during one tick
          MaxDisturb      \* bound: requests, absences, switches, debug runs, errors, crashes

Presences == {"ACTIVE", "SEMI_ACTIVE", "AWAY"}
NoOne == "nobody"

ASSUME ActivityAssumption ==
    /\ IsFiniteSet(Activities) /\ NoOne \notin Activities
    /\ Registered \in Seq(Activities) /\ Range(Registered) = Activities /\ IsInjective(Registered)
    /\ Wander \in Readers /\ Readers \subseteq Play /\ Work \cup Play \cup Steadfast \subseteq Activities
    /\ Work \cap Play = {} /\ Interval \in [Activities -> Nat]
    /\ PriorityOf \in [Activities -> 0..100] /\ Needs \in [Activities -> SUBSET Resources]
    /\ MaxFactor \in Nat \ {0} /\ MaxFailures \in Nat /\ MaxStreak \in Nat
    /\ GroupCooldown \in Nat /\ MaxUnanswered \in Nat /\ MessageLimit \in Nat

VARIABLES
    item,     \* state[name], in memory: dirty, failure_count, cooldown left, selection_streak
    stored,   \* ... as saved
    due,      \* the activity's candidate() would report something to do
    on,       \* the owner lets Wander run (social_wander_enabled)
    tick,     \* the tick that holds the lock
    chosen,   \* last_selected
    run,      \* the activity in progress
    fg,       \* _foreground_count
    presence, \* Interaction.state
    day,      \* _daily, saved at once: successes, resources, messages
    group,    \* the group's entry, saved at once: the last message's age, counted from the
              \* beginning of the visit that left it, and the unanswered messages
    said,     \* history: messages sent today
    quiet,    \* history: heartbeats left of the rest the last message gave the group
    owed,     \* history: work that has waited, ready, dirty and untried, since before the tick
    disturb

activityVars == <<item, stored, due, on, tick, chosen, run, fg, presence, day, group, said, quiet, owed, disturb>>
program == <<item, stored, due, on, tick, chosen, run, fg, presence, day, group>>
owner == <<fg, presence, on>>
social == <<group, said, quiet>>

-----------------------------------------------------------------------------
Smaller(x, y) == IF x < y THEN x ELSE y
Left(n) == IF n > 0 THEN n - 1 ELSE 0

\* _cooldown: the interval, doubled by every failure after the first.
Cooldown(a, failures) ==
    Interval[a] * (IF failures < 2 THEN 1 ELSE Smaller(MaxFactor, 2 ^ (failures - 1)))

\* What is left of it when last_run_at is the start of this tick.
WaitFrom(a, failures) ==
    LET n == Cooldown(a, failures) - tick.elapsed IN IF n > 0 THEN n ELSE 0

NoTick == [step |-> "none"]
NoRun == [name |-> NoOne]
Running(a) == run.name = a /\ a # NoOne
Today == [count |-> [a \in Activities |-> 0], used |-> [r \in Resources |-> 0], messages |-> 0]
Saved(a) == stored' = [stored EXCEPT ![a] = item'[a]]

\* Only an await lets anything else run.
AtAwait == run.name # NoOne => run.step # "reserved"

Disturbs == disturb < MaxDisturb /\ disturb' = disturb + 1

Longest == GroupCooldown * (1 + MaxUnanswered)
Fresh == [dirty |-> FALSE, failures |-> 0, wait |-> 0, streak |-> 0]

ActivityInit ==
    /\ item = [a \in Activities |-> Fresh] /\ stored = item
    /\ due = [a \in Activities |-> FALSE] /\ on = TRUE
    /\ tick = NoTick /\ chosen = {} /\ run = NoRun
    /\ fg = 0 /\ presence = "SEMI_ACTIVE"
    /\ day = Today /\ group = [age |-> Longest, unanswered |-> 0]
    /\ said = 0 /\ quiet = 0 /\ owed = {} /\ disturb = 0

-----------------------------------------------------------------------------
\* Mutant: what has failed need not wait.
RestedOrDirty(items, g) ==
    { a \in Activities :
        \/ items[a].dirty
        \/ items[a].wait = 0 /\ (a = Wander => g.age >= GroupCooldown * (1 + g.unanswered)) }

\* Cooled down, and for Wander the group has had its rest (eligible_group); both
\* are judged by the time at which the tick began.
Rested(items, g) ==
    { a \in Activities :
        items[a].wait = 0 /\ (a = Wander => g.age >= GroupCooldown * (1 + g.unanswered)) }

\* run_tick takes the lock.
TickStart(force, manual, confirmed) ==
    /\ tick = NoTick
    /\ tick' = [step |-> "examine", force |-> force, manual |-> manual, confirmed |-> confirmed,
                left |-> IF force = NoOne THEN Registered ELSE <<force>>, candidates |-> {},
                used |-> [r \in Resources |-> 0], debt |-> FALSE, elapsed |-> 0, previous |-> chosen,
                rested |-> Rested(item', group')]
    /\ chosen' = {}

Passed(items) == [a \in Activities |-> [items[a] EXCEPT !.wait = Left(@)]]

\* One heartbeat's time passes, and the worker wants its tick: it returns at once
\* while another one holds the lock.
Heartbeat ==
    /\ AtAwait
    /\ item' = Passed(item) /\ stored' = Passed(stored)
    /\ group' = [group EXCEPT !.age = Smaller(Longest, @ + 1)]
    /\ quiet' = Left(quiet)
    /\ IF tick = NoTick THEN TickStart(NoOne, FALSE, FALSE)
       ELSE /\ tick.elapsed < MaxElapsed /\ tick' = [tick EXCEPT !.elapsed = @ + 1]
            /\ UNCHANGED chosen
    /\ run' = IF Running(Wander) /\ run.step = "reading" THEN [run EXCEPT !.age = @ + 1] ELSE run
    /\ UNCHANGED <<due, owner, day, said, disturb>>

\* run_manual, and the debug page's tick.  Wander is only started with the
\* owner's word; a tick for all activities may carry it too.
Debug ==
    /\ Disturbs
    /\ UNCHANGED <<item, stored, due, owner, run, day, social>>
    /\ \E force \in Activities \cup {NoOne}, confirmed \in BOOLEAN :
         /\ (force = Wander => confirmed) /\ (confirmed => force \in {Wander, NoOne})
         /\ TickStart(force, TRUE, confirmed)

\* The gates of _candidates, up to candidate() itself; a debug run of one
\* activity passes the cooldown, except that of a social one.
Permitted(a) ==
    /\ a = Wander => on
    /\ Policy[a][presence] \in IF tick.manual THEN {"AUTO", "MANUAL_ONLY"} ELSE {"AUTO"}
    /\ fg = 0
    /\ day.count[a] < DailyLimit[a]
    /\ a \in tick.rested \/ (tick.force = a /\ a \notin Play)

\* candidate(): what the signals say, and for Wander the day's messages (wander_due).
ReportsDue(a) ==
    \/ due[a] /\ (a = Wander => day.messages < MessageLimit)
    \/ tick.force = a /\ a \notin Play

\* Selected in a row, an activity loses up to 20 points.
Rank(a) ==
    (IF item[a].dirty /\ a \in Work THEN 100 ELSE PriorityOf[a])
    - (IF a \in tick.previous THEN Smaller(20, item[a].streak * 3) ELSE 0)

\* Mutant: what failed before is a candidate like any other.
CandidateAsEver(a) == [name |-> a, rank |-> PriorityOf[a], recovery |-> FALSE]

Candidate(a) == [name |-> a, rank |-> Rank(a), recovery |-> item[a].dirty /\ a \in Work]

\* Runnable debt: an activity of priority 60 or more, or a recovery, among the
\* candidates.  It is counted once, before the first of them is run.
Debt(candidates) == \E c \in candidates : PriorityOf[c.name] >= 60 \/ c.recovery

NextSpec == Head(tick.left)
Examined(more) ==
    LET all == tick.candidates \cup more
    IN  tick' = [tick EXCEPT !.left = Tail(@), !.candidates = all, !.debt = Debt(all),
                             !.step = IF Len(tick.left) = 1 THEN "select" ELSE "examine"]

\* One activity is looked at: it is a candidate or it is skipped.
Examine ==
    /\ tick.step = "examine"
    /\ LET a == NextSpec
       IN  Examined(IF Permitted(a) /\ ReportsDue(a) THEN {Candidate(a)} ELSE {})
    /\ UNCHANGED <<item, stored, due, owner, chosen, run, day, social, disturb>>

\* candidate() raises: the activity has failed without having run.
ExamineFails ==
    /\ tick.step = "examine" /\ Permitted(NextSpec)
    /\ LET a == NextSpec
           f == Smaller(MaxFailures, item[a].failures + 1)
       IN  /\ item' = [item EXCEPT ![a] = [@ EXCEPT !.dirty = TRUE, !.failures = f, !.wait = WaitFrom(a, f)]]
           /\ Saved(a)
    /\ Examined({}) /\ Disturbs
    /\ UNCHANGED <<due, owner, chosen, run, day, social>>

\* sorted(candidates, reverse=True): the highest rank first, then the later name.
Position(a) == CHOOSE i \in 1..Len(Registered) : Registered[i] = a
Before(c, d) == c.rank > d.rank \/ (c.rank = d.rank /\ Position(c.name) > Position(d.name))
Ahead(c) == { d \in tick.candidates : Before(d, c) }

\* The candidates of `looked' that select_registered lets through: one after the
\* other, as debt does not keep them out and TickBudget.reserve has room for them.
Usage(taken) == [r \in Resources |-> tick.used[r] + Cardinality({ c \in taken : r \in Needs[c.name] })]
HasRoom(c, taken) ==
    /\ ~(tick.debt /\ c.name \in Play)
    /\ \A r \in Needs[c.name] : Usage(taken \cap Ahead(c))[r] < TickLimit[r]
Reserved(taken, looked) == taken \subseteq looked /\ \A c \in looked : c \in taken <=> HasRoom(c, taken)

\* The day's limits, in the resources the activity needs (reserve_daily).
FitsDay(a) == \A r \in Needs[a] : day.used[r] < DayLimit[r]

\* Looked at again when its turn comes: the owner may be back by now.
\* Mutant: the foreground is not looked at again.
StandsUnaware(a) == Policy[a][presence] # "DISABLED" /\ Cardinality(chosen) < MaxPerTick

Stands(a) == fg = 0 /\ Policy[a][presence] # "DISABLED" /\ Cardinality(chosen) < MaxPerTick

\* The loop around it runs the first that stands; one that does not keeps what it
\* reserved.
Starts(c, taken) ==
    /\ Reserved(taken, Ahead(c) \cup {c}) /\ c \in taken
    /\ \A d \in taken : Stands(d.name) /\ FitsDay(d.name) <=> d = c
Begins(a) ==
    /\ day' = [day EXCEPT !.used = [r \in Resources |-> @[r] + IF r \in Needs[a] THEN 1 ELSE 0]]
    /\ item' = [item EXCEPT ![a] = [@ EXCEPT
                  !.wait = WaitFrom(a, item[a].failures),
                  !.streak = IF a \in tick.previous THEN Smaller(MaxStreak, @ + 1) ELSE Smaller(MaxStreak, 1)]]
    /\ chosen' = chosen \cup {a}
    /\ run' = [name |-> a, step |-> "work", cancelled |-> FALSE, age |-> 0]

Start ==
    /\ tick.step = "select"
    /\ \E c \in tick.candidates, taken \in SUBSET tick.candidates :
         /\ Starts(c, taken) /\ Begins(c.name)
         /\ tick' = [tick EXCEPT !.step = "run", !.used = Usage(taken),
                                 !.candidates = @ \ (Ahead(c) \cup {c})]
    /\ UNCHANGED <<stored, due, owner, social, disturb>>

TickEnds ==
    /\ tick.step = "select"
    /\ \E taken \in SUBSET tick.candidates :
         Reserved(taken, tick.candidates) /\ \A c \in taken : ~(Stands(c.name) /\ FitsDay(c.name))
    /\ tick' = NoTick
    /\ UNCHANGED <<item, stored, due, owner, chosen, run, day, social, disturb>>

-----------------------------------------------------------------------------
Back == tick' = [tick EXCEPT !.step = "select"] /\ run' = NoRun
Result(a, f, dirty) ==
    /\ item' = [item EXCEPT ![a] = [@ EXCEPT !.failures = f, !.dirty = dirty, !.wait = WaitFrom(a, f)]]
    /\ Saved(a)

\* The handler returns; a visit of Wander may also end without a message, and a
\* message that could not be sent counts as no message.
Succeeds(a) ==
    /\ Running(a) /\ ~run.cancelled /\ run.step \in {"work", "reading", "sending"}
    /\ Result(a, 0, FALSE) /\ Back
    /\ due' = [due EXCEPT ![a] = FALSE]
    /\ day' = [day EXCEPT !.count[a] = @ + 1]
    /\ UNCHANGED <<owner, chosen, social, disturb>>

Fails(a) ==
    /\ Running(a) /\ ~run.cancelled /\ run.step # "reserved"
    /\ Result(a, Smaller(MaxFailures, item[a].failures + 1), TRUE) /\ Back
    /\ UNCHANGED <<due, owner, chosen, day, social, disturb>>

\* The cancellation reaches the task: what it has not done is owed.
Preempted(a) ==
    /\ Running(a) /\ run.cancelled
    /\ Result(a, item[a].failures, TRUE) /\ Back
    /\ UNCHANGED <<due, owner, chosen, day, social, disturb>>

\* snapshot: the group has been read; an answer to Wander's last message is seen.
Snapshot ==
    /\ \E answered \in BOOLEAN : group' = [group EXCEPT !.unanswered = IF answered THEN 0 ELSE @]
    /\ stored' = [a \in Activities |-> IF a \in Readers THEN item[a] ELSE stored[a]]

\* The handler begins with its clock, run.age, and a look at the group.
Reads(a) ==
    /\ Running(a) /\ ~run.cancelled /\ run.step = "work"
    /\ run' = [run EXCEPT !.step = "reading"] /\ Snapshot
    /\ UNCHANGED <<item, due, owner, tick, chosen, day, said, quiet, disturb>>

\* The model wants to speak.  The switch, the owner's presence, the day's messages
\* and the owner's word are asked for again.
MayStillSpeak ==
    /\ on /\ fg = 0 /\ presence = "SEMI_ACTIVE" /\ day.messages < MessageLimit
    /\ tick.manual => tick.confirmed

\* Mutant: only the day's count is written down before the message is sent.
ReserveCountOnly ==
    /\ Running(Wander) /\ ~run.cancelled /\ run.step = "reading" /\ MayStillSpeak
    /\ run' = [run EXCEPT !.step = "reserved"]
    /\ day' = [day EXCEPT !.messages = @ + 1]
    /\ UNCHANGED <<item, stored, due, owner, tick, chosen, group, said, quiet, disturb>>

\* The message is written down before it is sent: group, day, then the network.  Its
\* time is that at which the visit began, before the model was asked.
Reserve ==
    /\ Running(Wander) /\ ~run.cancelled /\ run.step = "reading" /\ MayStillSpeak
    /\ run' = [run EXCEPT !.step = "reserved"]
    /\ group' = [age |-> run.age, unanswered |-> Smaller(MaxUnanswered, group.unanswered + 1)]
    /\ day' = [day EXCEPT !.messages = @ + 1]
    /\ UNCHANGED <<item, stored, due, owner, tick, chosen, said, quiet, disturb>>

Send ==
    /\ Running(Wander) /\ run.step = "reserved"
    /\ run' = [run EXCEPT !.step = "sending"]
    /\ said' = said + 1
    /\ quiet' = IF run.age < GroupCooldown THEN GroupCooldown - run.age ELSE 0
    /\ UNCHANGED <<item, stored, due, owner, tick, chosen, day, group, disturb>>

-----------------------------------------------------------------------------
\* foreground_enter: an activity that may be interrupted is; a message on its way
\* is not called back.
ForegroundEnter ==
    /\ AtAwait /\ Disturbs
    /\ fg' = fg + 1 /\ presence' = "ACTIVE"
    /\ run' = IF run.name \in Activities \ Steadfast /\ run.step # "sending"
              THEN [run EXCEPT !.cancelled = TRUE] ELSE run
    /\ UNCHANGED <<item, stored, due, on, tick, chosen, day, social>>

ForegroundExit ==
    /\ AtAwait /\ fg > 0 /\ fg' = fg - 1
    /\ UNCHANGED <<item, stored, due, on, tick, chosen, run, presence, day, social, disturb>>

\* The conversation cools; the owner leaves and comes back.
Cools ==
    /\ AtAwait /\ presence # "SEMI_ACTIVE" /\ presence' = "SEMI_ACTIVE"
    /\ UNCHANGED <<item, stored, due, on, tick, chosen, run, fg, day, social, disturb>>
Leaves ==
    /\ AtAwait /\ presence # "AWAY" /\ presence' = "AWAY" /\ Disturbs
    /\ UNCHANGED <<item, stored, due, on, tick, chosen, run, fg, day, social>>
Switches ==
    /\ AtAwait /\ on' = ~on /\ Disturbs
    /\ UNCHANGED <<item, stored, due, tick, chosen, run, fg, presence, day, social>>

\* Something to do turns up.
Signal(a) ==
    /\ AtAwait /\ ~due[a] /\ due' = [due EXCEPT ![a] = TRUE]
    /\ UNCHANGED <<item, stored, owner, tick, chosen, run, day, social, disturb>>

\* Midnight: the day's counts start again, and with them the day's messages.
NewDay ==
    /\ AtAwait /\ day # Today /\ day' = Today /\ said' = 0
    /\ UNCHANGED <<item, stored, due, owner, tick, chosen, run, group, quiet, disturb>>

\* The process starts again from what is stored.
Restarted ==
    /\ tick' = NoTick /\ run' = NoRun /\ chosen' = {} /\ fg' = 0 /\ presence' = "SEMI_ACTIVE"
    /\ UNCHANGED <<due, on, day, social>>

Crash == Disturbs /\ item' = stored /\ UNCHANGED stored /\ Restarted

\* An orderly end cancels the tick itself, which leaves what it was doing dirty.
Stop ==
    /\ Disturbs /\ AtAwait /\ run.name # NoOne
    /\ Result(run.name, item[run.name].failures, TRUE) /\ Restarted

TickStep == Examine \/ Start \/ TickEnds
Work1(a) == Succeeds(a) \/ Fails(a) \/ Preempted(a)
Step ==
    \/ Heartbeat \/ Debug \/ TickStep
    \/ \E a \in Activities : Work1(a) \/ Signal(a)
    \/ (\E a \in Readers : Reads(a)) \/ Reserve \/ Send
    \/ ForegroundEnter \/ ForegroundExit \/ Cools \/ Leaves \/ Switches
    \/ NewDay \/ Crash \/ Stop

\* Dirty work that its schedule lets run, and that nothing of the owner's holds up.
Ready(w) ==
    /\ item[w].dirty /\ item[w].wait = 0 /\ due[w] /\ day.count[w] < DailyLimit[w]
    /\ Policy[w][presence] = "AUTO" /\ fg = 0
\* Work whose check has just failed has had its turn.
Remembers(tried) ==
    owed' = IF tick' = NoTick THEN {}
            ELSE { w \in IF tick = NoTick THEN Work ELSE owed \ tried : Ready(w)' }
ActivityNext == (Step /\ Remembers({})) \/ (ExamineFails /\ Remembers({NextSpec}))

ActivitySpec == ActivityInit /\ [][ActivityNext]_activityVars

\* Time passes and every heartbeat is looked at; a tick goes on, as its handlers
\* return (they run under the provider's timeouts); requests end, the conversation
\* cools, days go by.
Progress == TickStep \/ Send \/ \E a \in Activities : Work1(a)
ActivityFairness ==
    /\ WF_program(Heartbeat) /\ WF_program(Progress) /\ WF_program(ForegroundExit)
    /\ WF_program(Cools) /\ WF_program(NewDay)
FairSpec == ActivitySpec /\ ActivityFairness
-----------------------------------------------------------------------------
\* While a request is in the foreground nothing that may be interrupted goes on,
\* whenever the request came: during a candidate's check, before the first step of
\* an activity or in its middle.  Only a message on its way is let go.
YieldsToForeground ==
    fg > 0 /\ run.name \in Activities \ Steadfast /\ run.step # "sending" => run.cancelled

\* Every message to the group is allowed at the moment it goes out: switched on,
\* the owner neither talking nor away, the day's messages not used up, and the group's
\* rest over, counted from the beginning of the visit that left the last message,
\* those of before a crash included.
SpeaksInTurn ==
    [][said' > said => on /\ fg = 0 /\ presence = "SEMI_ACTIVE" /\ quiet = 0 /\ said < MessageLimit]_activityVars

\* Work that failed or was interrupted comes before play: a tick for all activities
\* plays only if no dirty work has been ready to run since before the tick began,
\* work apart whose check failed in that very tick.
WorkBeforePlay ==
    [][run'.name \in Play /\ run.name = NoOne /\ tick.force = NoOne => owed = {}]_activityVars

\* A walk that is due is started in the end, however often the work fails: debt
\* blocks play only while it can be worked off (runtime.py:313), and neither the
\* budgets, nor the backoff, nor requests in the foreground starve it.
PlayIsNotStarved == due[Wander] ~> (run.name = Wander \/ ~on)
=============================================================================
