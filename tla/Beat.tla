--------------------------------- MODULE Beat ---------------------------------
(***************************************************************************)
(* Remarks the assistant adds to a conversation that is still warm.        *)
(*   proactive/beat.py          ConversationBeatLoop, ConversationSession  *)
(*   proactive/worker.py        DecisionWorker._beat, _send_beat, poke     *)
(*   proactive/interaction.py   Interaction                                *)
(*   interfaces/gateway.py      the turns that note the owner's messages   *)
(*   internal_activity/foreground.py   foreground_activity                 *)
(*                                                                         *)
(* Everything but the stored remarks is in memory.  A worker thinks of a   *)
(* remark while the owner may speak, leave, clear the conversation or have *)
(* the worker cancelled; it sends under the lock of the turns.  A point of *)
(* time is a number that grows with every stamp the code keeps; whether a  *)
(* silence, a cool-down or quiet hours are over is left open.              *)
(***************************************************************************)
EXTENDS Integers

CONSTANTS Initial,    \* active_beat_initial_budget
          Maximum,    \* active_beat_max_budget
          MaxStamps, MaxCalls, MaxBeats  \* bounds on stamps, open calls, remarks of a conversation

BudgetAssumption ==
    /\ Initial \in Nat /\ Maximum \in Nat \ {0}
    /\ MaxStamps \in Nat /\ MaxCalls \in Nat /\ MaxBeats \in Nat

VARIABLES
    clock,       \* the last stamp given
    presence,    \* Interaction.state
    since,       \* Interaction.active_since, 0 when there is none
    touched,     \* Interaction.last_user_interaction_at
    session,     \* ConversationBeatLoop.session
    calls,       \* foreground calls that have entered and not left
    turn,        \* who holds the conversation's lock
    worker,      \* the remark being made
    stored,      \* remarks in proactive_deliveries
    shown,       \* remarks in the conversation's window
    unanswered,  \* history: remarks of this conversation since the owner's last touch
    unpaid       \* history: those of them no budget was taken for

vars == <<clock, presence, since, touched, session, calls, turn, worker, stored, shown,
          unanswered, unpaid>>
place == <<presence, since, touched>>
count == <<unanswered, unpaid>>

NoSession == [started |-> 0, last |-> 0, budget |-> 0, beats |-> 0, awaiting |-> FALSE]

\* A worker that looks at the conversation or is at rest.  changed: what has happened to the
\* conversation since the model was asked.
Worker(at, forced) == [at |-> at, forced |-> forced, started |-> 0, last |-> 0, beat |-> 0,
                       changed |-> "no"]
Rest == Worker("rest", FALSE)

Init ==
    /\ clock = 0 /\ presence = "idle" /\ since = 0 /\ touched = 0
    /\ session = NoSession /\ calls = 0 /\ turn = "free" /\ worker = Rest
    /\ stored = {} /\ shown = {} /\ unanswered = 0 /\ unpaid = 0

-----------------------------------------------------------------------------
Least(a, b) == IF a <= b THEN a ELSE b

\* sync, for a conversation that became active at `start' after a touch at `touch'.
Fresh(start, touch) == [started |-> start, last |-> touch, budget |-> Least(Initial, Maximum),
                        beats |-> 0, awaiting |-> FALSE]
Synced(p, start, touch) ==
    IF p # "active" THEN NoSession
    ELSE IF session.started # start THEN Fresh(start, touch) ELSE session

Stamped == clock < MaxStamps /\ clock' = clock + 1

\* Interaction.interact, at the next stamp: the conversation is active from now on
\* or since it was.
ActiveSince == IF presence = "active" THEN since ELSE clock + 1

Interacts ==
    /\ Stamped
    /\ presence' = "active" /\ since' = ActiveSince /\ touched' = clock + 1

Remark == [started |-> worker.started, beat |-> worker.beat]

\* A remark that reaches the store counts for the conversation it was begun in.
CountsNow == worker.started = since

\* The worker's coroutine ends and gives the lock back.
Freed == IF turn = "beat" THEN "free" ELSE turn

-----------------------------------------------------------------------------
(* The owner.                                                              *)

\* foreground_enter: the call interacts and cancels the activity the worker runs
\* in; a remark that was being stored may be stored all the same.  A poke is no
\* activity and goes on.
Enter ==
    /\ Interacts
    /\ calls < MaxCalls /\ calls' = calls + 1
    /\ \/ /\ worker.at = "rest" \/ worker.forced
          /\ unanswered' = 0 /\ unpaid' = 0
          /\ UNCHANGED <<worker, turn, stored>>
       \/ /\ worker.at # "rest" /\ ~worker.forced
          /\ worker' = Rest /\ turn' = Freed
          /\ \/ unanswered' = 0 /\ unpaid' = 0 /\ UNCHANGED stored
             \/ /\ worker.at = "deliver" /\ Remark \notin stored
                /\ stored' = stored \cup {Remark}
                /\ unanswered' = IF CountsNow THEN 1 ELSE 0
                /\ unpaid' = unanswered'
    /\ UNCHANGED <<session, shown>>

\* Something was said: a remark begun before knows nothing of it.
Overtaken(what) == IF worker.at \in {"model", "deliver"} THEN [worker EXCEPT !.changed = what]
                   ELSE worker

\* note_user_message: an answer to a remark buys a new one; opening a delivery is
\* noted without a text.
Noted(s, text) ==
    [started |-> s.started, last |-> clock + 1, beats |-> s.beats,
     budget |-> IF s.awaiting /\ text THEN Least(Maximum, s.budget + 1) ELSE s.budget,
     awaiting |-> s.awaiting /\ ~text]

\* chat and resolve_permission note a text, activate_delivery an empty one.
Speaks(text) ==
    /\ calls > 0 /\ turn = "free"
    /\ turn' = IF text THEN "talk" ELSE "other"
    /\ Interacts
    /\ session' = Noted(Synced("active", ActiveSince, clock + 1), text)
    /\ unanswered' = 0 /\ unpaid' = 0
    /\ worker' = Overtaken("said")
    /\ UNCHANGED <<calls, stored, shown>>

\* Turns that note nothing: regenerate, and history, which is no foreground call.
OtherTurn ==
    /\ turn = "free"
    /\ turn' \in IF calls > 0 THEN {"other", "view"} ELSE {"view"}
    /\ UNCHANGED <<clock, place, session, calls, worker, stored, shown, count>>

TurnEnds ==
    /\ turn \in {"talk", "other", "view"}
    /\ turn' = "free"
    /\ UNCHANGED <<clock, place, session, calls, worker, stored, shown, count>>

\* foreground_exit and note_assistant renew the window: a conversation that cooled
\* down during the call is active again.
Exit ==
    /\ calls > IF turn \in {"talk", "other"} THEN 1 ELSE 0
    /\ calls' = calls - 1
    /\ \/ UNCHANGED <<clock, presence, since, count>>
       \/ /\ presence \in {"semi", "idle"}
          /\ Stamped /\ presence' = "active" /\ since' = clock + 1
          /\ unanswered' = 0 /\ unpaid' = 0
    /\ UNCHANGED <<touched, session, turn, worker, stored, shown>>

\* clear takes no lock.
Clear ==
    /\ session' = NoSession
    /\ presence' = IF presence = "away" THEN "away" ELSE "semi"
    /\ since' = 0
    /\ unanswered' = 0 /\ unpaid' = 0
    /\ worker' = IF worker.changed = "no" THEN Overtaken("cleared") ELSE worker
    /\ shown' = {}
    /\ UNCHANGED <<clock, touched, calls, turn, stored>>

\* refresh and observe: the windows end, the owner leaves and comes back.
Cools ==
    /\ presence' \in {"semi", "idle", "away"} /\ presence' # presence
    /\ presence = "away" => presence' = "semi"
    /\ since' = 0
    /\ unanswered' = 0 /\ unpaid' = 0
    /\ UNCHANGED <<clock, touched, session, calls, turn, worker, stored, shown>>

\* set_timing: a longer window makes the conversation active again.
Retimed ==
    /\ presence \in {"semi", "idle"}
    /\ Stamped /\ presence' = "active" /\ since' = clock + 1
    /\ unanswered' = 0 /\ unpaid' = 0
    /\ UNCHANGED <<touched, session, calls, turn, worker, stored, shown>>

\* diagnostics, gate and note_assistant synchronise the session.
Looks ==
    /\ session' = Synced(presence, since, touched)
    /\ UNCHANGED <<clock, place, calls, turn, worker, stored, shown, count>>

-----------------------------------------------------------------------------
(* The worker.                                                             *)

\* gate lets a remark of the assistant's own through.  A message delivered since
\* the owner last spoke makes the session wait for a reply.
Seen(s) == { s, [s EXCEPT !.awaiting = TRUE] }

Tick ==
    /\ worker.at = "rest" /\ calls = 0 /\ turn # "talk"
    /\ presence = "active"
    /\ session' \in Seen(Synced(presence, since, touched))
    /\ session'.budget > 0
    /\ worker' = Worker("pending", FALSE)
    /\ UNCHANGED <<clock, place, calls, turn, stored, shown, count>>

\* The owner asks for a remark.
Poke ==
    /\ worker.at = "rest"
    /\ Interacts
    /\ session' = LET s == Synced("active", ActiveSince, clock + 1)
                  IN  [s EXCEPT !.budget = IF @ >= 1 THEN @ ELSE 1]
    /\ worker' = Worker("pending", TRUE)
    /\ unanswered' = 0 /\ unpaid' = 0
    /\ UNCHANGED <<calls, turn, stored, shown>>

\* The pending events have been read: reserve, and the model is asked.
Reserve ==
    /\ worker.at = "pending" /\ session # NoSession /\ session.beats < MaxBeats
    /\ session' = [session EXCEPT !.beats = @ + 1]
    /\ worker' = [worker EXCEPT !.at = "model", !.started = session.started,
                                !.last = session.last, !.beat = session.beats + 1]
    /\ UNCHANGED <<clock, place, calls, turn, stored, shown, count>>

\* A reminder is pending, the session is gone (an AttributeError), the model is
\* silent, the moment has passed, or the write fails.
GivesUp ==
    /\ worker.at # "rest"
    /\ worker' = Rest /\ turn' = Freed
    /\ UNCHANGED <<clock, place, session, calls, stored, shown, count>>

\* The token of reserve: the conversation, and the owner's last word in it.
SameMoment(s) == s.started = worker.started /\ s.last = worker.last

\* _send_beat, once it has the lock: gate looks again, and the conversation must
\* be the one the model was shown.
Send ==
    /\ worker.at = "model" /\ turn = "free"
    /\ presence = "active"
    /\ session' \in Seen(Synced(presence, since, touched))
    /\ worker.forced \/ session'.budget > 0
    /\ SameMoment(session')
    /\ worker' = [worker EXCEPT !.at = "deliver", !.beat = session'.beats]
    /\ turn' = "beat"
    /\ UNCHANGED <<clock, place, calls, stored, shown, count>>

\* The sink has stored the remark: sent, add_delivery.  Without a session the
\* code fails here, after the remark is stored.
Deliver ==
    /\ worker.at = "deliver"
    /\ stored' = stored \cup {Remark}
    /\ unanswered' = IF CountsNow /\ Remark \notin stored THEN unanswered + 1 ELSE unanswered
    /\ IF session = NoSession THEN UNCHANGED <<session, shown>>
       ELSE /\ session' = [session EXCEPT !.budget = @ - 1, !.awaiting = TRUE]
            /\ shown' = shown \cup {Remark}
    /\ worker' = Rest /\ turn' = "free"
    /\ UNCHANGED <<clock, place, calls, unpaid>>

\* The process ends and starts again.
Crash ==
    /\ presence' = "idle" /\ since' = 0 /\ touched' = 0
    /\ session' = NoSession /\ calls' = 0 /\ turn' = "free" /\ worker' = Rest
    /\ unanswered' = 0 /\ unpaid' = 0
    /\ shown' \in SUBSET shown
    /\ UNCHANGED <<clock, stored>>

Next ==
    \/ Enter \/ Speaks(TRUE) \/ Speaks(FALSE) \/ OtherTurn \/ TurnEnds \/ Exit
    \/ Clear \/ Cools \/ Retimed \/ Looks
    \/ Tick \/ Poke \/ Reserve \/ GivesUp \/ Send \/ Deliver
    \/ Crash

Spec == Init /\ [][Next]_vars

-----------------------------------------------------------------------------
(* Properties.                                                             *)

Sessions == [started : Nat, last : Nat, budget : Int, beats : Nat, awaiting : BOOLEAN]
Remarks  == [started : Nat, beat : Nat]

\* Every part of the state is well formed.
TypeOK ==
    /\ clock \in Nat /\ since \in Nat /\ touched \in Nat /\ calls \in Nat
    /\ presence \in {"active", "semi", "idle", "away"}
    /\ session \in Sessions
    /\ turn \in {"free", "talk", "other", "view", "beat"}
    /\ worker \in [at : {"rest", "pending", "model", "deliver"}, forced : BOOLEAN,
                   started : Nat, last : Nat, beat : Nat, changed : {"no", "said", "cleared"}]
    /\ stored \subseteq Remarks /\ shown \subseteq Remarks
    /\ unanswered \in Nat /\ unpaid \in Nat

\* A remark reaches the owner only while nothing has been said since the model was
\* asked for it: an answer to what was silence then would talk past the owner.
SpeaksToThisMoment == [][stored' # stored => worker.changed # "said"]_vars

\* In one conversation the assistant speaks unasked at most Maximum times after the
\* owner's last touch, and once more when the touch cut a remark short.
SilentInTheEnd == unanswered <= Maximum + 1

\* No remark is taken for an older one: its id is new, so the sink stores it.
NoRemarkIsMistaken == worker.at = "deliver" => Remark \notin stored
=============================================================================
