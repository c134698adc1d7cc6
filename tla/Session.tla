------------------------------ MODULE Session ------------------------------
(***************************************************************************)
(* The local session behind the interface gateway: turns under one lock,   *)
(* the conversation's window, the answers kept for repeated requests, and  *)
(* the thread that writes the session to disk.                             *)
(*   interfaces/gateway.py   chat, regenerate, activate_delivery, history, *)
(*                           clear, the response cache                     *)
(*   core/conversation.py    Conversation                                  *)
(*   session/sqlite.py       SQLiteSessionStore.save_sync                  *)
(*                                                                         *)
(* Only visible messages are modelled; a message is its identity.  The     *)
(* agent's work inside a turn is external (modules AgentLoop, ModelCalls). *)
(* DELETE /api/session calls clear without the lock, so a clear may come   *)
(* between any two steps of a turn.                                        *)
(***************************************************************************)
EXTENDS Integers, Sequences, FiniteSets, SequencesExt

CONSTANTS Requests,    \* request ids of chat messages; each has one client message id
          Callers,     \* HTTP calls of chat; two callers may repeat one request
          RequestOf,   \* [Callers -> Requests]
          Deliveries,  \* proactive messages that reach the inbox meanwhile
          Others,      \* calls of regenerate, history and activate_delivery
          Window,      \* Conversation.max_messages
          CacheSize,   \* response_cache_size
          MaxFaults,   \* bound on failing turns and failing saves
          MaxClears, MaxCrashes

ASSUME WindowAssumption == Window \in Nat \ {0} /\ CacheSize \in Nat \ {0}
ASSUME CallersAssumption == RequestOf \in [Callers -> Requests] /\ Callers \cap Others = {}

VARIABLES
    conv,       \* Conversation._messages
    evicted,    \* Conversation.evicted: left the window, not archived yet
    row,        \* the stored session row (messages_json)
    archive,    \* session_history, as a set
    born,       \* every message ever created, in the order of its timestamp
    since,      \* session.created_at, as a position in born
    rowSince,   \* ... as stored
    cache,      \* _responses: <<request, answer>>, oldest first
    call,       \* state of each call: "idle", "waiting", "running", "answered", "failed"
    queue,      \* calls waiting for the lock (asyncio.Lock is first come, first served)
    turn,       \* what the holder of the lock is doing
    thread,     \* the save running in a worker thread
    delivered,  \* deliveries the proactive store lists
    kept,       \* history: messages of answers the client has been given
    erased,     \* history: messages cleared while no turn held the lock
    faults, clears, crashes

sessionVars == <<conv, evicted, row, archive, born, since, rowSince, cache, call, queue,
                 turn, thread, delivered, kept, erased, faults, clears, crashes>>
memory == <<conv, evicted, born, since>>
disk == <<row, archive, rowSince>>
budget == <<faults, clears, crashes>>

-----------------------------------------------------------------------------
User(r)     == [kind |-> "user", of |-> r, nth |-> 0]
Reply(r, n) == [kind |-> "reply", of |-> r, nth |-> n]
Note(d)     == [kind |-> "delivery", of |-> d, nth |-> 0]

NoTurn == [kind |-> "none"]
NoSave == [step |-> "none"]
NoAnswer == [kind |-> "none"]

Replies(r) == { m \in Range(born) : m.kind = "reply" /\ m.of = r }
NextReply(r) == Reply(r, Cardinality(Replies(r)) + 1)

\* A message created now gets the latest timestamp; a restored one keeps its own.
Stamp(b, m) == IF m \in Range(b) THEN b ELSE Append(b, m)
Time(m) == CHOOSE i \in 1..Len(born) : born[i] = m

\* Conversation.add and _trim.  The pair is the window and what has left it.
Trimmed(window, gone) ==
    LET over == Len(window) - Window
    IN  IF over <= 0 THEN [conv |-> window, evicted |-> gone]
        ELSE [conv |-> SubSeq(window, over + 1, Len(window)),
              evicted |-> gone \o SubSeq(window, 1, over)]

\* Conversation.add_delivery: into its place by time, once.
WithDelivery(c, d) ==
    IF Note(d) \in Range(c.conv) THEN c
    ELSE LET later == { i \in 1..Len(c.conv) : Time(c.conv[i]) > Time(Note(d)) }
             at    == IF later = {} THEN Len(c.conv) + 1 ELSE Min(later)
         IN  Trimmed(InsertAt(c.conv, at, Note(d)), c.evicted)

\* _sync_deliveries, after both stores were read: old ones first.
WithDeliveries(c, ds) ==
    LET shown[i \in 0..Len(born)] ==
            IF i = 0 THEN c
            ELSE IF \E d \in ds : born[i] = Note(d) THEN WithDelivery(shown[i - 1], born[i].of)
            ELSE shown[i - 1]
    IN  shown[Len(born)]

Cached(r) == \E i \in 1..Len(cache) : cache[i][1] = r
CachedAnswer(r) == cache[CHOOSE i \in 1..Len(cache) : cache[i][1] = r][2]
\* _cache: a bounded map, oldest out first.
WithAnswer(r, m) ==
    LET q == Append(SelectSeq(cache, LAMBDA e : e[1] # r), <<r, m>>)
    IN  IF Len(q) > CacheSize THEN Tail(q) ELSE q

Calls == Callers \cup Others
Id(c) == IF c \in Callers THEN RequestOf[c] ELSE c
Ends(c, outcome, answer) == call' = [call EXCEPT ![c] = [st |-> outcome, answer |-> answer]]

SessionInit ==
    /\ conv = <<>> /\ evicted = <<>> /\ row = <<>> /\ archive = {}
    /\ born = <<>> /\ since = 0 /\ rowSince = 0 /\ cache = <<>>
    /\ call = [c \in Calls |-> [st |-> "idle", answer |-> NoAnswer]]
    /\ queue = <<>> /\ turn = NoTurn /\ thread = NoSave /\ delivered = {}
    /\ kept = {} /\ erased = {} /\ faults = 0 /\ clears = 0 /\ crashes = 0

-----------------------------------------------------------------------------
\* A call arrives: an answer kept for its request id is given at once, before
\* the lock; otherwise the call waits for the lock.
Arrive(c) ==
    /\ call[c].st = "idle"
    /\ IF Cached(Id(c))
       THEN Ends(c, "answered", CachedAnswer(Id(c))) /\ UNCHANGED queue
       ELSE Ends(c, "waiting", NoAnswer) /\ queue' = Append(queue, c)
    /\ UNCHANGED <<memory, disk, cache, turn, thread, delivered, kept, erased, budget>>

\* The message id of the client must be new, in the session and in its archive.
IdTaken(r) == User(r) \in Range(conv) \cup Range(evicted) \cup archive

Started(c, kind, step, of) ==
    [kind |-> kind, by |-> c, step |-> step, of |-> of, user |-> FALSE, archived |-> {},
     from |-> since, original |-> <<>>, reply |-> NoAnswer, cleared |-> FALSE, ok |-> TRUE]

\* Mutant: one look at the cache is enough.
BeginChatOnce(c) ==
    /\ c \in Callers
    /\ \/ /\ IdTaken(Id(c))
          /\ Ends(c, "failed", NoAnswer) /\ UNCHANGED turn
       \/ /\ ~IdTaken(Id(c))
          /\ Ends(c, "running", NoAnswer)
          /\ turn' = Started(c, "chat", "archived", Id(c))
    /\ UNCHANGED <<conv, evicted>>

\* chat, once it has the lock: the cache again, then the client's message id.
BeginChat(c) ==
    /\ c \in Callers
    /\ \/ /\ Cached(Id(c))
          /\ Ends(c, "answered", CachedAnswer(Id(c))) /\ UNCHANGED turn
       \/ /\ ~Cached(Id(c)) /\ IdTaken(Id(c))
          /\ Ends(c, "failed", NoAnswer) /\ UNCHANGED turn
       \/ /\ ~Cached(Id(c)) /\ ~IdTaken(Id(c))
          /\ Ends(c, "running", NoAnswer)
          /\ turn' = Started(c, "chat", "archived", Id(c))
    /\ UNCHANGED <<conv, evicted>>

\* regenerate: only the last reply, or the last message left without one.
\* A reply that followed tool calls is hidden in place; otherwise the window is
\* cut before the user's message, which the agent puts back.
BeginRegenerate(c) ==
    /\ c \in Others
    /\ conv # <<>> /\ Last(conv).kind \in {"reply", "user"}
    /\ \E i \in 1..Len(conv) :
         /\ conv[i] = User(Last(conv).of)
         /\ \A j \in (i + 1)..Len(conv) : conv[j].kind # "user"
         /\ \E inPlace \in BOOLEAN :
              /\ conv' = IF ~inPlace THEN SubSeq(conv, 1, i - 1)
                         ELSE IF Last(conv).kind = "reply" THEN Front(conv) ELSE conv
              /\ turn' = [Started(c, "regenerate", "agent", Last(conv).of)
                            EXCEPT !.user = inPlace, !.original = conv,
                                   !.reply = IF Last(conv).kind = "reply" THEN Last(conv) ELSE NoAnswer]
    /\ Ends(c, "running", NoAnswer)
    /\ UNCHANGED evicted

\* history and activate_delivery.  The latter shows one delivery first.
BeginHistory(c) ==
    /\ c \in Others
    /\ turn' = Started(c, "history", "archived", c)
    /\ Ends(c, "running", NoAnswer)
    /\ UNCHANGED <<conv, evicted>>

BeginActivate(c) ==
    /\ c \in Others
    /\ \E d \in delivered :
         LET shown == WithDelivery([conv |-> conv, evicted |-> evicted], d)
         IN  conv' = shown.conv /\ evicted' = shown.evicted
    /\ turn' = Started(c, "activate", "save", c)
    /\ Ends(c, "running", NoAnswer)

Begin ==
    /\ turn = NoTurn /\ thread = NoSave /\ queue # <<>>
    /\ \/ BeginChat(Head(queue)) \/ BeginRegenerate(Head(queue))
       \/ BeginHistory(Head(queue)) \/ BeginActivate(Head(queue))
    /\ queue' = Tail(queue)
    /\ kept' = IF turn'.kind = "regenerate" THEN kept \ {turn'.reply} ELSE kept
    /\ erased' = IF turn'.kind = "activate" THEN erased \ (Range(conv') \cup Range(evicted')) ELSE erased
    /\ UNCHANGED <<born, since, disk, cache, thread, delivered, budget>>

-----------------------------------------------------------------------------
\* _sync_deliveries: created_at is read first, then the archive, then the inbox.
ReadArchived ==
    /\ turn.kind # "none" /\ turn.step = "archived"
    /\ turn' = [turn EXCEPT !.step = "inbox",
                            !.archived = { m.of : m \in { a \in archive : a.kind = "delivery" } }]
    /\ UNCHANGED <<memory, disk, cache, call, queue, thread, delivered, kept, erased, budget>>

\* Mutant: the time the session was created is not asked for.
IncludeAll ==
    /\ turn.kind # "none" /\ turn.step = "inbox"
    /\ LET shown == WithDeliveries([conv |-> conv, evicted |-> evicted], delivered \ turn.archived)
       IN  conv' = shown.conv /\ evicted' = shown.evicted
    /\ turn' = [turn EXCEPT !.step = IF turn.kind = "chat" THEN "agent" ELSE "save"]
    /\ UNCHANGED <<born, since, disk, cache, call, queue, thread, delivered, kept, erased, budget>>

Include ==
    /\ turn.kind # "none" /\ turn.step = "inbox"
    /\ LET fresh == { d \in delivered \ turn.archived : Time(Note(d)) > turn.from }
           shown == WithDeliveries([conv |-> conv, evicted |-> evicted], fresh)
       IN  conv' = shown.conv /\ evicted' = shown.evicted
    /\ turn' = [turn EXCEPT !.step = IF turn.kind = "chat" THEN "agent" ELSE "save"]
    /\ UNCHANGED <<born, since, disk, cache, call, queue, thread, delivered, kept, erased, budget>>

Add(ms, b) ==
    LET c == Trimmed(conv \o ms, evicted)
    IN  conv' = c.conv /\ evicted' = c.evicted /\ born' = b

InAgent == turn.kind # "none" /\ turn.step = "agent"

\* The standard path adds the user's message before it asks the model.
AgentTakes ==
    /\ InAgent /\ ~turn.user
    /\ Add(<<User(turn.of)>>, Stamp(born, User(turn.of)))
    /\ turn' = [turn EXCEPT !.user = TRUE]
    /\ erased' = erased \ {User(turn.of)}
    /\ UNCHANGED <<since, disk, cache, call, queue, thread, delivered, kept, budget>>

\* The agent answers; the fast path adds the user's message only now.
AgentAnswers ==
    /\ InAgent
    /\ LET m    == NextReply(turn.of)
           user == IF turn.user THEN <<>> ELSE <<User(turn.of)>>
       IN  /\ Add(user \o <<m>>, Append(Stamp(born, User(turn.of)), m))
           /\ turn' = [turn EXCEPT !.step = "save", !.user = TRUE, !.reply = m]
    /\ erased' = erased \ {User(turn.of)}
    /\ UNCHANGED <<since, disk, cache, call, queue, thread, delivered, kept, budget>>

\* Mutant: the user's message is added whenever a turn fails.
RecoveredAgain ==
    CASE turn.kind = "regenerate" ->
           LET c == Trimmed(turn.original, evicted)
           IN  conv' = c.conv /\ evicted' = c.evicted /\ born' = born
      [] turn.kind = "chat" -> Add(<<User(turn.of)>>, Stamp(born, User(turn.of)))
      [] OTHER -> UNCHANGED <<conv, evicted, born>>

\* The turn fails.  chat keeps exactly one message of the user; regenerate puts
\* the window back as it was.
Recovered ==
    CASE turn.kind = "regenerate" ->
           LET c == Trimmed(turn.original, evicted)
           IN  conv' = c.conv /\ evicted' = c.evicted /\ born' = born
      [] turn.kind = "chat" ->
           IF User(turn.of) \in Range(conv) THEN UNCHANGED <<conv, evicted, born>>
           ELSE Add(<<User(turn.of)>>, Stamp(born, User(turn.of)))
      [] OTHER -> UNCHANGED <<conv, evicted, born>>

AgentFails ==
    /\ InAgent /\ faults < MaxFaults /\ faults' = faults + 1
    /\ Recovered
    /\ turn' = [turn EXCEPT !.step = "save", !.ok = FALSE]
    /\ erased' = erased \ {User(turn.of)}
    /\ UNCHANGED <<since, disk, cache, call, queue, thread, delivered, kept, clears, crashes>>

-----------------------------------------------------------------------------
\* The messages of a window that are not in S.
Without(window, S) ==
    LET rest[i \in 0..Len(window)] ==
            IF i = 0 THEN <<>>
            ELSE IF window[i] \in S THEN rest[i - 1] ELSE Append(rest[i - 1], window[i])
    IN  rest[Len(window)]

\* save_sync, in a thread: what has left the window goes to the archive, what is
\* in the window to the row; a message that is in both is archived only.
SaveReads ==
    /\ turn.kind # "none" /\ turn.step = "save" /\ thread.step = "none"
    /\ thread' = [step |-> "read", gone |-> evicted,
                  safe |-> Without(conv, Range(evicted))]
    /\ UNCHANGED <<memory, disk, cache, call, queue, turn, delivered, kept, erased, budget>>

\* Mutant: only the row is written.
SaveWritesRow ==
    /\ thread.step = "read"
    /\ row' = thread.safe /\ archive' = archive
    /\ rowSince' = since
    /\ thread' = [thread EXCEPT !.step = "written"]
    /\ UNCHANGED <<memory, cache, call, queue, turn, delivered, kept, erased, budget>>

SaveWrites ==
    /\ thread.step = "read"
    /\ row' = thread.safe /\ archive' = archive \cup Range(thread.gone)
    /\ rowSince' = since
    /\ thread' = [thread EXCEPT !.step = "written"]
    /\ UNCHANGED <<memory, cache, call, queue, turn, delivered, kept, erased, budget>>

DropEvicted(n) == evicted' = SubSeq(evicted, n + 1, Len(evicted))

\* The save has returned: the turn ends.  A turn that failed keeps nothing in the
\* cache; the call of a failed turn may be repeated.
Settle ==
    /\ thread.step = "written"
    /\ DropEvicted(Len(thread.gone))
    /\ thread' = NoSave /\ turn' = NoTurn
    /\ LET answers == turn.ok /\ turn.kind \in {"chat", "regenerate"}
       IN  /\ Ends(turn.by, IF turn.ok THEN "answered" ELSE "failed",
                    IF answers THEN turn.reply ELSE NoAnswer)
           /\ cache' = IF answers THEN WithAnswer(Id(turn.by), turn.reply) ELSE cache
           /\ kept' = IF turn.cleared THEN kept
                      ELSE IF answers THEN kept \cup {User(turn.of), turn.reply}
                      ELSE IF turn.kind = "regenerate" THEN kept \cup ({turn.reply} \ {NoAnswer})
                      ELSE kept
    /\ UNCHANGED <<conv, born, since, disk, queue, delivered, erased, budget>>

\* The save fails (a locked or full disk): a turn that had an answer takes the
\* path of a failed turn and saves once more; otherwise the error ends the turn.
SaveFails ==
    /\ thread.step = "read" /\ faults < MaxFaults /\ faults' = faults + 1
    /\ thread' = NoSave
    /\ IF turn.ok /\ turn.kind \in {"chat", "regenerate"}
       THEN /\ Recovered
            /\ turn' = [turn EXCEPT !.ok = FALSE,
                          !.reply = IF turn.kind = "chat" \/ turn.original = <<>> THEN NoAnswer
                                    ELSE Last(turn.original)]
            /\ erased' = erased \ {User(turn.of)}
            /\ UNCHANGED call
       ELSE /\ turn' = NoTurn /\ Ends(turn.by, "failed", NoAnswer)
            /\ UNCHANGED <<conv, evicted, born, erased>>
    /\ UNCHANGED <<since, disk, cache, queue, delivered, kept, clears, crashes>>

-----------------------------------------------------------------------------
\* clear, from DELETE /api/session: it does not take the lock.
Clear ==
    /\ clears < MaxClears /\ clears' = clears + 1
    /\ conv' = <<>> /\ evicted' = <<>> /\ cache' = <<>>
    /\ since' = Len(born) /\ row' = <<>> /\ rowSince' = since'
    /\ kept' = {}
    /\ erased' = IF turn = NoTurn THEN erased \cup Range(conv) \cup Range(evicted) ELSE erased
    /\ turn' = IF turn = NoTurn THEN turn ELSE [turn EXCEPT !.cleared = TRUE]
    /\ UNCHANGED <<archive, born, call, queue, thread, delivered, faults, crashes>>

\* The proactive runtime puts a message into the inbox.
Deliver(d) ==
    /\ d \notin delivered
    /\ delivered' = delivered \cup {d} /\ born' = Append(born, Note(d))
    /\ UNCHANGED <<conv, evicted, since, disk, cache, call, queue, turn, thread, kept, erased, budget>>

\* The process ends and starts again: the row is what is left of the session.
Crash ==
    /\ crashes < MaxCrashes /\ crashes' = crashes + 1
    /\ conv' = row /\ evicted' = <<>> /\ since' = rowSince /\ cache' = <<>>
    /\ queue' = <<>> /\ turn' = NoTurn /\ thread' = NoSave
    /\ call' = [c \in Calls |-> IF call[c].st \in {"waiting", "running"}
                                THEN [st |-> "failed", answer |-> NoAnswer] ELSE call[c]]
    /\ UNCHANGED <<disk, born, delivered, kept, erased, faults, clears>>

Step == Begin \/ ReadArchived \/ Include \/ AgentTakes \/ AgentAnswers \/ AgentFails
        \/ SaveReads \/ SaveWrites \/ Settle \/ SaveFails
SessionNext ==
    \/ \E c \in Calls : Arrive(c)
    \/ Step
    \/ Clear
    \/ \E d \in Deliveries : Deliver(d)
    \/ Crash

SessionSpec == SessionInit /\ [][SessionNext]_sessionVars

-----------------------------------------------------------------------------
Messages == { User(r) : r \in Requests } \cup { Reply(r, n) : r \in Requests, n \in Nat }
            \cup { Note(d) : d \in Deliveries }

\* No message stands twice in the window or in the stored row: not the user's
\* message of a turn that failed and was regenerated, not a delivery that was
\* synchronised, activated, evicted and synchronised again.
ShownOnce == IsInjective(conv) /\ IsInjective(row)

\* What a client was answered, and the message it answers, is on disk, in the row
\* or in the archive, until the owner clears the session or regenerates the
\* reply: no later failure, eviction, failing save or restart loses it.
AnsweredIsKept == kept \subseteq Range(row) \cup archive

\* What was cleared while no turn was running stays cleared: no delivery of before
\* comes back unless the owner opens it, no save and no restart restores a message,
\* unless its own request is sent again.
ClearHolds == erased \cap (Range(conv) \cup Range(evicted) \cup Range(row)) = {}

\* A repeated request whose first answer is kept is given that answer: it is never
\* refused and never runs a second time, wherever it was waiting.
RepeatIsServed ==
    [][\A c \in Callers : (call'[c].st # call[c].st /\ call'[c].st \in {"running", "failed"}
                           /\ crashes' = crashes)
            => ~Cached(Id(c))]_sessionVars
=============================================================================
