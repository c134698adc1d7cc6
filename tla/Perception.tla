----------------------------- MODULE Perception -----------------------------
(***************************************************************************)
(* Messages from outside: QQ over NapCat, from the socket to the answer,   *)
(* and the group talk that is digested into snapshots and looked at later. *)
(*   zhaoxi_ext/qq_napcat/plugin.py, transport.py, outbound.py             *)
(*   plugins/source_router.py     PerceptionSink                           *)
(*   perception/runtime.py        PerceptionRuntime                        *)
(*   perception/store.py          PerceptionStore                          *)
(*   perception/reply_guard.py    non_owner_reply_block_reason             *)
(*                                                                         *)
(* All messages are those of one group.  Every message has a task of its   *)
(* own, which a lost connection cancels at its next await; what runs from  *)
(* one await to the next is one step.  A directed message is named by its  *)
(* first part while parts of the same sender join it, and its row by its   *)
(* last.  Answers are counted by the time at which they are recorded.      *)
(***************************************************************************)
EXTENDS Integers, Sequences, FiniteSets, SequencesExt, FiniteSetsExt

CONSTANTS Direct,       \* messages that address her
          Ambient,      \* the group's other messages
          Actor,        \* [Direct -> Actors]
          Owner,        \* the owner among the actors
          Bots,         \* actors known to be bots
          Loads,        \* the sets of messages that may be on their way
          Lookback,     \* answers the guard looks at (30 in the code)
          MaxMerged,    \* messages that are merged into one (8 in the code)
          Segments,     \* parts of an answer
          BatchMax,     \* perception_batch_max_messages
          MaxAttempts,  \* perception_cognition_max_attempts
          MaxDisturb    \* bound: lost connections, repeated messages, crashes, expiries, failed digests

Messages == Direct \cup Ambient
Nobody == "nobody"
Review == "review"

ASSUME PerceptionAssumption ==
    /\ IsFiniteSet(Messages) /\ Direct \cap Ambient = {} /\ {Nobody, Review} \cap Messages = {}
    /\ Loads \subseteq SUBSET Messages /\ Owner \notin Bots
    /\ BatchMax \in Nat \ {0} /\ MaxAttempts \in Nat \ {0} /\ Segments \in Nat \ {0}
    /\ Lookback \in Nat \ {0}

VARIABLES
    up,       \* connected, and the account verified
    at,       \* what the task of a message is doing
    own,      \* what the task knows: the messages merged into this one (batch), its
              \* received_at as the number of answers recorded by then (seen), gate_reason
              \* (blocked) with the owner's last word (spoke) and the answers recorded (looked)
              \* by then, parts sent (out)
    row,      \* observations: the status of the row with this raw_ref
    line,     \* tasks that wait for _direct_lock
    inside,   \* the one that holds it
    talk,     \* who holds conversation_lock
    replies,  \* answers recorded in the experience stream
    recent,   \* the last of them is younger than EXTERNAL_SESSION_COOLDOWN
    spoke,    \* the owner's last word in the stream, as seen; -1 for none
    flush,    \* the batch that is being digested
    snaps,    \* snapshots with their place in snapshot_cognition
    review,   \* process_pending_snapshot
    answered, \* history: answers begun, by row
    disturb

task == <<at, own, line, inside>>
stream == <<replies, recent, spoke>>
social == <<flush, snaps, review>>
vars == <<up, task, row, talk, stream, social, answered, disturb>>
program == <<up, task, row, talk, stream, social>>
-----------------------------------------------------------------------------
Foreground == { m \in Messages : at[m] \in {"waiting", "inside", "reply"} }
Ref(m) == Last(own[m].batch)
Disturbs == disturb < MaxDisturb /\ disturb' = disturb + 1
Fresh(m) == [batch |-> <<m>>, seen |-> 0, blocked |-> FALSE, spoke |-> -1, looked |-> 0, out |-> 0]
Begun(batch) ==
    [batch |-> batch, seen |-> Len(replies), blocked |-> FALSE, spoke |-> -1, looked |-> 0, out |-> 0]

\* A task goes on to its next stage, or ends.
Goes(m, stage) == at' = [at EXCEPT ![m] = stage] /\ UNCHANGED own
Ends(m) == at' = [at EXCEPT ![m] = "over"] /\ own' = [own EXCEPT ![m] = Fresh(m)]

NoFlush == [by |-> Nobody]
NoReview == [of |-> 0]
Buffered == { m \in Ambient : row[m] = "BUFFERED" }

Init ==
    /\ up = TRUE
    /\ \E load \in Loads : at = [m \in Messages |-> IF m \in load THEN "away" ELSE "over"]
    /\ own = [m \in Direct |-> Fresh(m)] /\ answered = [m \in Direct |-> 0]
    /\ row = [m \in Messages |-> "none"]
    /\ line = <<>> /\ inside = Nobody /\ talk = Nobody
    /\ replies = <<>> /\ recent = FALSE /\ spoke = -1
    /\ flush = NoFlush /\ snaps = <<>> /\ review = NoReview
    /\ disturb = 0

\* foreground_enter: the review in progress is cancelled.
Preempted == IF review = NoReview THEN review ELSE [review EXCEPT !.cancelled = TRUE]

-----------------------------------------------------------------------------
\* _debounce_direct: the message joins the sender's last one while that is held
\* back, or is held back itself.
Holders(m) == { h \in Direct : at[h] = "held" /\ Actor[h] = Actor[m] /\ Len(own[h].batch) < MaxMerged }

Arrive(m) ==
    /\ up /\ at[m] = "away"
    /\ IF Holders(m) # {}
       THEN LET h == CHOOSE h \in Holders(m) : TRUE
            IN  /\ own' = [own EXCEPT ![h] = Begun(Append(@.batch, m))]
                /\ at' = [at EXCEPT ![m] = "over"]
       ELSE /\ own' = [own EXCEPT ![m] = Begun(<<m>>)]
            /\ at' = [at EXCEPT ![m] = "held"]
    /\ UNCHANGED <<up, row, line, inside, talk, stream, social, answered, disturb>>

\* Mutant: any earlier word of the owner's lets a bot be answered again.
IntervenedEver(k) == spoke >= 0

\* The owner was heard after the k-th answer had been recorded.
Intervened(k) == spoke >= k

\* recent_replies_in_session: the newest answers in the group, whoever they went to.
InSight(k) == k \in 1..Len(replies) /\ k > Len(replies) - Lookback

\* non_owner_reply_block_reason for a bot with a request: it has been answered and
\* the owner has not spoken since, or anyone has just been.
Blocked(m) ==
    /\ Actor[m] \in Bots
    /\ \/ \E k \in DOMAIN replies : InSight(k) /\ replies[k].to = Actor[m] /\ ~Intervened(k)
       \/ recent

\* Mutant: only what is still being worked on is recognised.
SeenBeforeNow(m) == row[Ref(m)] = "PENDING"

\* INSERT OR IGNORE, unique by source and raw_ref.
SeenBefore(m) == row[Ref(m)] # "none"

\* ingest up to the direct lock: the row, the guard's answer, the event.
Ingest(m) ==
    /\ at[m] = "held"
    /\ review' = Preempted
    /\ IF SeenBefore(m)
       THEN Ends(m) /\ UNCHANGED <<row, line, spoke>>
       ELSE /\ at' = [at EXCEPT ![m] = "waiting"]
            /\ row' = [row EXCEPT ![Ref(m)] = "PENDING"]
            /\ own' = [own EXCEPT ![m].blocked = Blocked(m), ![m].spoke = spoke,
                                          ![m].looked = Len(replies)]
            /\ line' = Append(line, m)
            /\ spoke' = IF Actor[m] = Owner THEN Max({spoke, own[m].seen}) ELSE spoke
    /\ UNCHANGED <<up, inside, talk, replies, recent, flush, snaps, answered, disturb>>

Settled(m, status) == row' = [row EXCEPT ![Ref(m)] = status] /\ inside' = Nobody

\* asyncio.Lock is fair.
Enters(m) ==
    /\ line # <<>> /\ Head(line) = m /\ inside = Nobody
    /\ line' = Tail(line) /\ inside' = m /\ Goes(m, "inside")
    /\ UNCHANGED <<up, row, talk, stream, social, answered, disturb>>

Declines(m) ==
    /\ at[m] = "inside" /\ own[m].blocked
    /\ Settled(m, "PROCESSED") /\ Ends(m)
    /\ UNCHANGED <<up, line, talk, stream, social, answered, disturb>>

Talks(m) ==
    /\ at[m] = "inside" /\ ~own[m].blocked /\ talk = Nobody
    /\ talk' = m /\ Goes(m, "reply")
    /\ UNCHANGED <<up, row, line, inside, stream, social, answered, disturb>>

\* The model's answer is there; the row is done with before anything is sent.
Replies(m) ==
    /\ at[m] = "reply"
    /\ Settled(m, "PROCESSED") /\ talk' = Nobody /\ Goes(m, "sending")
    /\ UNCHANGED <<up, line, stream, social, answered, disturb>>

\* The session's save or the model raises.
Fails(m) ==
    /\ at[m] \in {"inside", "reply"} /\ Settled(m, "FAILED")
    /\ talk' = (IF talk = m THEN Nobody ELSE talk) /\ Ends(m)
    /\ UNCHANGED <<up, line, stream, social, answered, disturb>>

\* send_reply, one part after the other.
Sends(m) ==
    /\ at[m] = "sending" /\ up /\ own[m].out < Segments
    /\ own' = [own EXCEPT ![m].out = @ + 1]
    /\ answered' = IF own[m].out = 0 THEN [answered EXCEPT ![Ref(m)] = @ + 1] ELSE answered
    /\ UNCHANGED <<up, at, row, line, inside, talk, stream, social, disturb>>

\* A part is refused or not confirmed in time: the answer counts as not sent.
SendFails(m) ==
    /\ at[m] = "sending" /\ Ends(m)
    /\ UNCHANGED <<up, row, line, inside, talk, stream, social, answered, disturb>>

\* reply_sent: the last part is confirmed.
Recorded(m) ==
    /\ at[m] = "sending" /\ own[m].out = Segments
    /\ replies' = Append(replies, [to |-> Actor[m], seen |-> own[m].seen, spoke |-> own[m].spoke,
                                    looked |-> own[m].looked])
    /\ Ends(m)
    /\ recent' = (recent \/ Actor[m] # Owner)
    /\ UNCHANGED <<up, row, line, inside, talk, spoke, social, answered, disturb>>

CoolsDown ==
    /\ recent /\ recent' = FALSE
    /\ UNCHANGED <<up, task, row, talk, replies, spoke, social, answered, disturb>>

-----------------------------------------------------------------------------
\* ingest of group talk: buffered, and the one that fills the batch flushes it.
Overhear(m) ==
    /\ up /\ at[m] = "away"
    /\ IF row[m] # "none" THEN at' = [at EXCEPT ![m] = "over"] /\ UNCHANGED row
       ELSE /\ row' = [row EXCEPT ![m] = "BUFFERED"]
            /\ at' = [at EXCEPT ![m] = IF Cardinality(Buffered) + 1 >= BatchMax THEN "flush" ELSE "over"]
    /\ UNCHANGED <<up, own, line, inside, talk, stream, social, answered, disturb>>

\* flush under its lock, for a message or for the runtime's loop (Nobody).  The
\* batch is what is buffered now; it may be small if it is old.
FlushStarts(by) ==
    /\ flush = NoFlush /\ Buffered # {}
    /\ by \in Ambient => at[by] = "flush"
    /\ flush' = [by |-> by, items |-> Buffered]
    /\ UNCHANGED <<up, task, row, talk, stream, snaps, review, answered, disturb>>

\* It was another's turn to digest what has been buffered.
FlushSkips(m) ==
    /\ flush = NoFlush /\ at[m] = "flush" /\ Cardinality(Buffered) < BatchMax
    /\ at' = [at EXCEPT ![m] = "over"]
    /\ UNCHANGED <<up, own, row, line, inside, talk, stream, social, answered, disturb>>

FlushEnds == flush' = NoFlush /\ at' = [m \in Messages |-> IF flush.by = m THEN "over" ELSE at[m]]

\* Mutant: all that is buffered by then.
TakenOfBucket(items) == [m \in Messages |-> IF row[m] = "BUFFERED" THEN "PROCESSED" ELSE row[m]]

\* commit_batch, one transaction: the messages of the batch leave the buffer.
Taken(items) == [m \in Messages |-> IF m \in items /\ row[m] = "BUFFERED" THEN "PROCESSED" ELSE row[m]]

Commits ==
    /\ flush # NoFlush
    /\ row' = Taken(flush.items)
    /\ snaps' = Append(snaps, [items |-> flush.items, status |-> "PENDING", attempts |-> 0, wait |-> 0])
    /\ FlushEnds
    /\ UNCHANGED <<up, own, line, inside, talk, stream, review, answered, disturb>>

FlushFails ==
    /\ flush # NoFlush /\ Disturbs /\ FlushEnds
    /\ UNCHANGED <<up, own, row, line, inside, talk, stream, snaps, review, answered>>

-----------------------------------------------------------------------------
\* pending_snapshots: the first that is pending and due.
Due == { s \in DOMAIN snaps : snaps[s].status = "PENDING" /\ snaps[s].wait = 0 }

\* The background takes up a review when nothing is in the foreground.
ReviewStarts ==
    /\ review = NoReview /\ Foreground = {} /\ Due # {}
    /\ review' = [of |-> Min(Due), step |-> "queued", cancelled |-> FALSE]
    /\ UNCHANGED <<up, task, row, talk, stream, flush, snaps, answered, disturb>>

ReviewTalks ==
    /\ review # NoReview /\ review.step = "queued" /\ ~review.cancelled /\ talk = Nobody
    /\ talk' = Review /\ review' = [review EXCEPT !.step = "call"]
    /\ UNCHANGED <<up, task, row, stream, flush, snaps, answered, disturb>>

ReviewEnds == review' = NoReview /\ talk' = (IF talk = Review THEN Nobody ELSE talk)

Reviewed ==
    /\ review # NoReview /\ review.step = "call" /\ ~review.cancelled
    /\ snaps' = [snaps EXCEPT ![review.of].status = IF @ = "GONE" THEN @ ELSE "PROCESSED"]
    /\ ReviewEnds
    /\ UNCHANGED <<up, task, row, stream, flush, answered, disturb>>

\* Mutant: a failure is not written down.
AfterFailureUnnoticed(snap) == snap

\* record_snapshot_failure: quarantined, or to be tried again after a time that
\* doubles; nothing is left to write once the snapshot has expired.
AfterFailure(snap) ==
    LET n == snap.attempts + 1
    IN  IF snap.status # "PENDING" THEN snap
        ELSE [snap EXCEPT !.attempts = n, !.status = IF n >= MaxAttempts THEN "FAILED" ELSE "PENDING",
                          !.wait = IF n >= MaxAttempts THEN 0 ELSE 2 ^ (n - 1)]

ReviewFails ==
    /\ review # NoReview /\ review.step = "call" /\ ~review.cancelled
    /\ snaps' = [snaps EXCEPT ![review.of] = AfterFailure(@)]
    /\ ReviewEnds
    /\ UNCHANGED <<up, task, row, stream, flush, answered, disturb>>

\* A cancelled review leaves its snapshot as it was.
ReviewCancelled ==
    /\ review # NoReview /\ review.cancelled
    /\ ReviewEnds
    /\ UNCHANGED <<up, task, row, stream, flush, snaps, answered, disturb>>

TimePasses ==
    /\ \E s \in DOMAIN snaps : snaps[s].wait > 0
    /\ snaps' = [s \in DOMAIN snaps |-> [snaps[s] EXCEPT !.wait = IF @ > 0 THEN @ - 1 ELSE 0]]
    /\ UNCHANGED <<up, task, row, talk, stream, flush, review, answered, disturb>>

\* clear_expired takes a snapshot away, under review or not.
Expires(s) ==
    /\ snaps[s].status # "GONE" /\ Disturbs
    /\ snaps' = [snaps EXCEPT ![s] = [@ EXCEPT !.status = "GONE", !.wait = 0]]
    /\ UNCHANGED <<up, task, row, talk, stream, flush, review, answered>>

-----------------------------------------------------------------------------
\* Every task that a message has started ends, wherever it is.
TasksEnd ==
    /\ at' = [m \in Messages |-> IF at[m] = "away" THEN "away" ELSE "over"]
    /\ own' = [m \in Direct |-> Fresh(m)] /\ line' = <<>> /\ inside' = Nobody

\* The connection is lost: a row whose task is cancelled stays as it is.
Disconnect ==
    /\ up /\ up' = FALSE /\ Disturbs /\ TasksEnd
    /\ talk' = (IF talk = Review THEN talk ELSE Nobody)
    /\ flush' = IF flush.by \in Ambient THEN NoFlush ELSE flush
    /\ UNCHANGED <<row, stream, snaps, review, answered>>

Reconnect ==
    /\ ~up /\ up' = TRUE
    /\ UNCHANGED <<task, row, talk, stream, social, answered, disturb>>

\* A message comes a second time.
ComesAgain(m) ==
    /\ at[m] = "over" /\ Disturbs /\ at' = [at EXCEPT ![m] = "away"]
    /\ UNCHANGED <<up, own, row, line, inside, talk, stream, social, answered>>

\* The process starts again: fail_inflight.
Crash ==
    /\ Disturbs /\ TasksEnd
    /\ up' = FALSE /\ talk' = Nobody /\ flush' = NoFlush /\ review' = NoReview
    /\ row' = [m \in Messages |-> IF row[m] = "PENDING" THEN "FAILED" ELSE row[m]]
    /\ UNCHANGED <<stream, snaps, answered>>

Handles(m) ==
    \/ Ingest(m) \/ Enters(m) \/ Declines(m) \/ Talks(m) \/ Replies(m) \/ Fails(m)
    \/ Sends(m) \/ SendFails(m) \/ Recorded(m)
Digests == Commits \/ \E by \in Ambient \cup {Nobody} : FlushStarts(by)
Reviews == ReviewStarts \/ ReviewTalks \/ Reviewed \/ ReviewFails \/ ReviewCancelled
Next ==
    \/ \E m \in Direct : Arrive(m) \/ Handles(m)
    \/ \E m \in Ambient : Overhear(m) \/ FlushSkips(m)
    \/ \E m \in Messages : ComesAgain(m)
    \/ Digests \/ FlushFails \/ CoolsDown
    \/ Reviews \/ TimePasses \/ \E s \in DOMAIN snaps : Expires(s)
    \/ Disconnect \/ Reconnect \/ Crash

Spec == Init /\ [][Next]_vars

\* The model answers within its timeout, a part of an answer is confirmed or given
\* up after ten seconds, the transport reconnects, the background keeps its ticks.
Fairness ==
    /\ \A m \in Direct : WF_program(Handles(m))
    /\ WF_program(Reviews) /\ WF_program(TimePasses) /\ WF_program(Reconnect)
FairSpec == Spec /\ Fairness
-----------------------------------------------------------------------------
\* However often a message comes, before or after a lost connection or a restart,
\* its row is answered at most once.
AnsweredOnce == \A m \in Direct : answered[m] <= 1

\* Of two answers to one bot, the message of the later one was there before the
\* earlier one was recorded, or the owner had been heard in between, or the earlier
\* one was no longer among the newest Lookback in the group when the guard looked.
BotWaitsForOwner ==
    \A l \in DOMAIN replies : \A k \in 1..(l - 1) :
        replies[k].to = replies[l].to /\ replies[k].to \in Bots =>
            \/ replies[l].seen < k \/ replies[l].spoke >= k
            \/ replies[l].looked >= k + Lookback

\* A message of the group is in one snapshot once it has left the buffer, and in
\* none before: whatever arrives, fails or ends while a batch is being digested.
DigestedOnce ==
    \A m \in Ambient :
        Cardinality({ s \in DOMAIN snaps : m \in snaps[s].items }) = IF row[m] = "PROCESSED" THEN 1 ELSE 0

\* No snapshot waits forever behind one that keeps failing.
Unsettled(s) == s \in DOMAIN snaps /\ snaps[s].status = "PENDING"
SnapshotSettles == \A s \in 1..Cardinality(Ambient) : Unsettled(s) ~> ~Unsettled(s)
=============================================================================
