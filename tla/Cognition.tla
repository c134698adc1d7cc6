----------------------------- MODULE Cognition -----------------------------
(***************************************************************************)
(* The current-cognition journal and those who write it.                   *)
(*   current_cognition/maintainer.py, service.py, editor.py, store.py      *)
(*   cognitive_stream/store.py           ExperienceStream                  *)
(*   internal_activity/activities/cognitive.py  fast_digest, gardening     *)
(*                                                                         *)
(* Messages enter an append-only stream and expire from it.  Maintenance   *)
(* reads the owner's messages after a cursor, asks the model under a lock, *)
(* and applies its patch to the journal as it is then; the digest of fast  *)
(* chat does so with a cursor of its own; the owner edits meanwhile.       *)
(***************************************************************************)
EXTENDS Integers, Sequences, FiniteSets, FiniteSetsExt

CONSTANTS Jobs,          \* maintenance jobs of the queue (Maintenance says when they run)
          Background,    \* the background activity that maintains
          Digest,        \* the background activity that digests fast chat
          Topics,        \* keys of the journal's threads
          Page, Batch,   \* rows read at once; messages the background takes of them
          MaxEvents, MaxEdits, MaxWeeks   \* bounds

ASSUME ReadsAssumption == Page \in Nat \ {0} /\ Batch \in Nat \ {0}

VARIABLES
    log,       \* the stream: "signal" and "small" are the owner's, "other" is not
    live,      \* rows that have not expired
    cursor,    \* last_processed_message_id, 0 for none
    digested,  \* fast_digest_cursor
    journal,   \* threads and manual_suppressions
    revision,  \* the newest manual revision
    lock,      \* holders of the maintainer's lock
    act,       \* what each writer is doing
    seen,      \* history: messages a maintenance has accounted for
    passedOver, \* history: messages a job let go of before the cursor passed them
    edits, weeks

history == <<seen, passedOver>>
vars == <<log, live, cursor, digested, journal, revision, lock, act, history, edits, weeks>>

Actors == Jobs \cup {Background, Digest}

\* msgs: the messages it goes by, in the order of its list; cut, history: those that a job
\* had in its list before.
Idle == [stage |-> "idle", base |-> 0, msgs |-> <<>>, cut |-> {}]

NoThread == [there |-> FALSE, manual |-> "NORMAL", source |-> "AUTO", refs |-> {}, stale |-> FALSE]
NoDenial == [on |-> FALSE, refs |-> {}]
EmptyJournal == [thread |-> [t \in Topics |-> NoThread], denial |-> [t \in Topics |-> NoDenial]]
NoRevision == [undone |-> TRUE, before |-> EmptyJournal, after |-> EmptyJournal]

Init ==
    /\ log = <<>> /\ live = {} /\ cursor = 0 /\ digested = 0 /\ seen = {} /\ passedOver = {}
    /\ journal = EmptyJournal
    /\ revision = NoRevision
    /\ lock = {} /\ act = [a \in Actors |-> Idle]
    /\ edits = 0 /\ weeks = 0

-----------------------------------------------------------------------------
(* The stream. *)

First(n, S) == { e \in S : Cardinality({ x \in S : x < e }) < n }

\* events_after: a marker that has expired is no marker.
PageAfter(marker) ==
    First(Page, { e \in live : e > (IF marker \in live THEN marker ELSE 0) })

OwnersIn(S) == { e \in S : log[e] # "other" }

\* S as a list, in the order of the stream.
InOrder(S) ==
    { list \in [1..Cardinality(S) -> S] :
        Range(list) = S /\ \A i, j \in DOMAIN list : i < j => list[i] < list[j] }

Message(kind) ==
    /\ Len(log) < MaxEvents
    /\ log' = Append(log, kind) /\ live' = live \cup {Len(log) + 1}
    /\ UNCHANGED <<cursor, digested, journal, revision, lock, act, history, edits, weeks>>

-----------------------------------------------------------------------------
(* The journal. *)

NotEmpty(j) == \E t \in Topics : j.thread[t].there

\* _decay: a thread that had no evidence for a week goes, unless the owner holds it.
Decayed(j) ==
    [j EXCEPT !.thread = [t \in Topics |->
        IF j.thread[t].stale /\ j.thread[t].manual = "NORMAL" THEN NoThread ELSE j.thread[t]]]

\* suppressed
Suppressed(j, t, refs) ==
    j.denial[t].on /\ (j.denial[t].refs = {} \/ refs \subseteq j.denial[t].refs)

\* Mutant: a PINNED or LOCKED thread is like any other.
NeverHeld(thread, kind) == FALSE

\* The owner holds the thread against this operation.
Held(thread, kind) ==
    /\ thread.there
    /\ \/ thread.manual = "LOCKED"
       \/ thread.manual = "PINNED" /\ kind = "remove"

\* The thread with new evidence, begun by it if need be.
Refreshed(thread, refs) ==
    IF thread.there THEN [thread EXCEPT !.refs = @ \cup refs, !.stale = FALSE]
    ELSE [NoThread EXCEPT !.there = TRUE, !.refs = refs]

\* Mutant: a new thread is not checked against the owner's deletions.
UpsertUnchecked(j, t, refs) == [j EXCEPT !.thread[t] = Refreshed(@, refs)]

Upsert(j, t, refs) ==
    IF Suppressed(j, t, refs) THEN j ELSE [j EXCEPT !.thread[t] = Refreshed(@, refs)]

\* One thread operation of a patch.
Operated(j, op) ==
    IF Held(j.thread[op.topic], op.kind) THEN j
    ELSE IF op.kind = "remove" THEN [j EXCEPT !.thread[op.topic] = NoThread]
    ELSE Upsert(j, op.topic, op.refs)

\* apply of a patch (<<>> when it changes nothing) to the stored journal.
Patched(j, ops) == IF ops = <<>> THEN Decayed(j) ELSE Operated(Decayed(j), ops[1])

\* The operations a model can answer, given the messages it is asked about.
Operations(msgs) ==
    { <<[kind |-> "upsert", topic |-> t, refs |-> {e}]>> : t \in Topics, e \in msgs }
    \cup { <<[kind |-> "remove", topic |-> t, refs |-> {}]>> : t \in Topics } \cup {<<>>}

-----------------------------------------------------------------------------
(* Maintenance. *)

Rest == <<log, live, cursor, digested, journal, revision, lock, history, edits, weeks>>

\* The end of a list that has grown too long.
Newest(list) == IF Len(list) <= Page THEN list ELSE SubSeq(list, Len(list) - Page + 1, Len(list))

\* A job is enqueued with the messages after the cursor; when a later one is merged into
\* it, those that are new to it come last, though they may be older.
Snapshot(a) ==
    /\ a \in Jobs /\ act[a].stage \in {"idle", "held"}
    /\ LET held == act[a].msgs
       IN  \E new \in InOrder(OwnersIn(PageAfter(cursor)) \ Range(held)) :
              LET msgs == Newest(held \o new)
              IN  act' = [act EXCEPT ![a] =
                            [stage |-> "held", msgs |-> msgs,
                             base |-> IF act[a].stage = "held" THEN act[a].base ELSE cursor,
                             cut |-> act[a].cut \cup (Range(held \o new) \ Range(msgs))]]
    /\ UNCHANGED Rest

\* Others have taken the cursor past what the job holds.
Superseded(a) == cursor # act[a].base /\ cursor \notin Range(act[a].msgs)

\* Its phase begins: it is over at once, or it waits for the lock.
Begins(a) ==
    /\ act[a].stage = "held"
    /\ act' = [act EXCEPT ![a] = IF Superseded(a) THEN Idle
                              ELSE [act[a] EXCEPT !.stage = "waiting", !.base = 0]]
    /\ UNCHANGED Rest

\* The activities run one at a time.
NoActivity == act[Background].stage = "idle" /\ act[Digest].stage = "idle"

BackgroundReads ==
    /\ NoActivity
    /\ \E msgs \in InOrder(First(Batch, OwnersIn(PageAfter(cursor)))) :
          act' = [act EXCEPT ![Background] = [Idle EXCEPT !.stage = "waiting", !.msgs = msgs]]
    /\ UNCHANGED <<log, live, cursor, digested, journal, revision, lock, history, edits, weeks>>

\* A job whose list holds the message the cursor is at, and its place there.
Resumes(a) == a # Background /\ cursor \in Range(act[a].msgs)
Place(a) == CHOOSE i \in DOMAIN act[a].msgs : act[a].msgs[i] = cursor

\* Mutant: a job goes on from its last message.
PendingLast(a) == IF act[a].msgs = <<>> THEN <<>> ELSE <<act[a].msgs[Len(act[a].msgs)]>>

\* pending: the background keeps what it read, a job drops its list up to the cursor.
Pending(a) ==
    IF Resumes(a) THEN SubSeq(act[a].msgs, Place(a) + 1, Len(act[a].msgs)) ELSE act[a].msgs

\* What the job had in its list, before the place of the cursor or cut off.
LetGo(a) ==
    act[a].cut \cup IF Resumes(a) THEN { act[a].msgs[i] : i \in 1..(Place(a) - 1) } ELSE {}

\* The cursor moves to the end of the list, though that need not be the newest.
Advanced(msgs, cut) ==
    /\ cursor' = IF msgs = <<>> THEN cursor ELSE msgs[Len(msgs)]
    /\ seen' = seen \cup Range(msgs)
    /\ passedOver' = passedOver \cup { e \in cut : cursor < e /\ e <= cursor' }

\* A message that calls for the model.
HasSignal(msgs) == \E e \in Range(msgs) : log[e] = "signal"

LockFree == lock = {}

\* The lock is free: without a signal the patch is empty and the cursor moves only over
\* a journal that holds something; with one the model is asked, the lock held.
Enters(a) ==
    /\ act[a].stage = "waiting" /\ a # Digest /\ LockFree
    /\ LET pending == Pending(a)
       IN  IF ~HasSignal(pending)
           THEN /\ journal' = Patched(journal, <<>>)
                /\ IF NotEmpty(journal) THEN Advanced(pending, LetGo(a)) ELSE UNCHANGED <<cursor, history>>
                /\ act' = [act EXCEPT ![a] = Idle] /\ UNCHANGED lock
           ELSE /\ act' = [act EXCEPT ![a] = [@ EXCEPT !.stage = "asking", !.msgs = pending,
                                                      !.cut = LetGo(a)]]
                /\ lock' = lock \cup {a} /\ UNCHANGED <<journal, cursor, history>>
    /\ UNCHANGED <<log, live, digested, revision, edits, weeks>>

\* The model's patch is applied to the journal as it is now.
Applies(a, ops) ==
    /\ act[a].stage = "asking" /\ a # Digest
    /\ ops \in Operations(Range(act[a].msgs))
    /\ journal' = Patched(journal, ops)
    /\ Advanced(act[a].msgs, act[a].cut)
    /\ act' = [act EXCEPT ![a] = Idle] /\ lock' = lock \ {a}
    /\ UNCHANGED <<log, live, digested, revision, edits, weeks>>

\* The patch is rejected: the decay is stored, the cursor stays.
Rejected(a) ==
    /\ act[a].stage = "asking" /\ a # Digest
    /\ journal' = Patched(journal, <<>>)
    /\ act' = [act EXCEPT ![a] = Idle] /\ lock' = lock \ {a}
    /\ UNCHANGED <<log, live, cursor, digested, revision, history, edits, weeks>>

\* The model fails, the worker or the activity is cancelled, or the process ends:
\* nothing is applied.
GivesUp(a) ==
    /\ act[a].stage \in {"held", "waiting", "asking"}
    /\ act' = [act EXCEPT ![a] = Idle] /\ lock' = lock \ {a}
    /\ UNCHANGED <<log, live, cursor, digested, journal, revision, history, edits, weeks>>

-----------------------------------------------------------------------------
(* The digest of fast chat: it asks without the lock and applies under it. *)

DigestReads ==
    /\ NoActivity /\ PageAfter(digested) # {}
    /\ \E msgs \in InOrder(OwnersIn(PageAfter(digested))) :
          act' = [act EXCEPT ![Digest] = [Idle EXCEPT !.stage = "waiting", !.msgs = msgs,
                                                      !.base = Max(PageAfter(digested))]]
    /\ UNCHANGED <<log, live, cursor, digested, journal, revision, lock, history, edits, weeks>>

\* (The model has answered; what it answered is known to nobody before.)
DigestApplies(ops) ==
    /\ act[Digest].stage = "waiting" /\ LockFree
    /\ ops \in Operations(Range(act[Digest].msgs))
    /\ journal' = Patched(journal, ops)
    /\ digested' = act[Digest].base
    /\ act' = [act EXCEPT ![Digest] = Idle]
    /\ UNCHANGED <<log, live, cursor, revision, lock, history, edits, weeks>>

\* cognition_gardening: one step, without the lock.
Gardening ==
    /\ NoActivity
    /\ LET thread == Decayed(journal).thread
       IN  journal' = [journal EXCEPT !.thread = [t \in Topics |->
              IF thread[t].source = "AUTO" THEN [thread[t] EXCEPT !.refs = @ \cap live] ELSE thread[t]]]
    /\ UNCHANGED <<log, live, cursor, digested, revision, lock, act, history, edits, weeks>>

-----------------------------------------------------------------------------
(* The owner. *)

Manual(thread, state) == [thread EXCEPT !.there = TRUE, !.manual = state, !.source = "OWNER_MANUAL"]

\* Another thread is merged into it.
Merged(thread, refs) == Manual([thread EXCEPT !.refs = @ \cup refs], thread.manual)

\* _suppress and remove: an older suppression of the key is replaced.
Deleted(j, t) ==
    [j EXCEPT !.denial[t] = [on |-> TRUE, refs |-> j.thread[t].refs],
              !.thread[t] = NoThread]

\* What one edit of thread t leaves.
Edits(j, t) ==
    IF j.thread[t].there
    THEN { [j EXCEPT !.thread[t] = Manual(@, s)] : s \in {"NORMAL", "PINNED", "LOCKED"} }
         \cup {Deleted(j, t)}
         \cup { [Deleted(j, u) EXCEPT !.thread[t] = Merged(@, j.thread[u].refs)]
                : u \in { x \in Topics \ {t} : j.thread[x].there } }
    ELSE { [j EXCEPT !.thread[t] = Manual(NoThread, "NORMAL")] }

OwnerEdits(t) ==
    /\ edits < MaxEdits /\ edits' = edits + 1
    /\ journal' \in Edits(journal, t)
    /\ revision' = [undone |-> FALSE, before |-> journal, after |-> journal']
    /\ UNCHANGED <<log, live, cursor, digested, lock, act, history, weeks>>

\* Threads that the newest edit changed.
Affected == { t \in Topics : revision.before.thread[t] # revision.after.thread[t] }

\* undo, once, and only while what the edit changed is as the edit left it.
OwnerUndoes ==
    /\ ~revision.undone /\ edits < MaxEdits /\ edits' = edits + 1
    /\ \A t \in Affected : journal.thread[t] = revision.after.thread[t]
    /\ journal' = [field \in DOMAIN journal |-> [t \in Topics |->
          IF revision.before[field][t] # revision.after[field][t]
          THEN revision.before[field][t] ELSE journal[field][t]]]
    /\ revision' = NoRevision
    /\ UNCHANGED <<log, live, cursor, digested, lock, act, history, weeks>>

\* A week or more older: evidence is stale, suppressions have lapsed.
Aged(j) == [thread |-> [t \in Topics |-> [j.thread[t] EXCEPT !.stale = j.thread[t].there]],
            denial |-> [t \in Topics |-> [j.denial[t] EXCEPT !.on = FALSE]]]

\* clear_expired runs daily; a live summary's evidence stays, so any rows may go.
WeekPasses ==
    /\ weeks < MaxWeeks /\ weeks' = weeks + 1
    /\ \A a \in Actors : act[a].stage \notin {"waiting", "asking"}
    /\ live' \in SUBSET live
    /\ journal' = Aged(journal)
    /\ revision' = [revision EXCEPT !.before = Aged(@), !.after = Aged(@)]
    /\ UNCHANGED <<log, cursor, digested, lock, act, history, edits>>

Next ==
    \/ \E kind \in {"signal", "small", "other"} : Message(kind)
    \/ BackgroundReads \/ DigestReads \/ Gardening
    \/ \E a \in Actors :
         \/ Snapshot(a) \/ Begins(a) \/ Enters(a) \/ Rejected(a) \/ GivesUp(a)
         \/ \E ops \in Operations(Range(act[a].msgs)) : Applies(a, ops)
    \/ \E ops \in Operations(Range(act[Digest].msgs)) : DigestApplies(ops)
    \/ \E t \in Topics : OwnerEdits(t)
    \/ OwnerUndoes \/ WeekPasses

Spec == Init /\ [][Next]_vars

-----------------------------------------------------------------------------
\* Whatever maintenance raced with, a message of the owner that the cursor has passed
\* was accounted for by some maintenance, or had expired, or a merged job, whose list was
\* out of order, had let go of it.
NoEventSkipped ==
    \A e \in OwnersIn(DOMAIN log) : e <= cursor /\ e \in live => e \in seen \cup passedOver

\* Only the owner changes a thread he has locked, or removes one he has pinned, whatever
\* was under way when he did.
OwnerHolds ==
    [][edits' = edits /\ weeks' = weeks => \A t \in Topics :
         LET thread == journal.thread[t]
         IN  /\ thread.manual = "LOCKED" => journal'.thread[t] = thread
             /\ thread.manual = "PINNED" => journal'.thread[t].there]_vars

Returns(t) == edits' = edits /\ ~journal.thread[t].there /\ journal'.thread[t].there

\* A thread the owner deleted comes back within a week only on evidence that the
\* deletion still in force does not list.
DeletedStaysGone ==
    [][\A t \in Topics : Returns(t) /\ journal.denial[t].on =>
          ~(journal'.thread[t].refs \subseteq journal.denial[t].refs)]_vars

=============================================================================
