---------------------------- MODULE SpeechProofs ----------------------------
(***************************************************************************)
(* Proofs that what comes from outside is answered and digested once       *)
(* (module Perception), for any messages, actors and limits; that          *)
(* reminders and messages of her own are told once, at a welcome moment    *)
(* (module Proactive), for any events and any time; and that remarks into  *)
(* a conversation suit it (module Beat), for any budgets and any number of *)
(* turns, remarks and restarts.                                            *)
(*                                                                         *)
(* A row is answered once because its task is the only one that knows of   *)
(* it (Answering), whoever else comes with the same message.  The guard    *)
(* looks before the task waits: what it was told stays true of every       *)
(* answer recorded by then, and the message had arrived before any later   *)
(* one (Guarding).                                                         *)
(***************************************************************************)
EXTENDS Perception, Proactive, FiniteSetTheorems, SequenceTheorems, TLAPS

-----------------------------------------------------------------------------
(* The inductive invariant.                                                *)

Stages == {"away", "over", "held", "waiting", "inside", "reply", "sending", "flush"}
Statuses == {"none", "PENDING", "PROCESSED", "FAILED", "BUFFERED"}
Actors == { Actor[m] : m \in Direct }

Tasks == [batch : Seq(Direct) \ {<<>>}, seen : Nat, blocked : BOOLEAN, spoke : Int, looked : Nat, out : Nat]
Batches == [by : Ambient \cup {Nobody}, items : SUBSET Ambient]

\* A snapshot; the time until it is tried again is left open.
Shaped(snap) ==
    snap \in [items : SUBSET Ambient, status : {"PENDING", "PROCESSED", "FAILED", "GONE"},
              attempts : {snap.attempts}, wait : {snap.wait}]

TaskTypes ==
    /\ at \in [Messages -> Stages]
    /\ own \in [Direct -> Tasks]
    /\ row \in [Messages -> Statuses] /\ \A m \in Direct : row[m] # "BUFFERED"
    /\ line \in Seq(Direct)
    /\ answered \in [Direct -> Nat]
Answers == [to : Actors, seen : Nat, spoke : Int, looked : Nat]
StreamTypes == replies \in Seq(Answers) /\ spoke \in Int
SnapTypes ==
    /\ Len(snaps) \in Nat /\ snaps = [s \in 1..Len(snaps) |-> snaps[s]]
    /\ \A s \in DOMAIN snaps : Shaped(snaps[s])
TypeOK == TaskTypes /\ StreamTypes /\ SnapTypes /\ flush \in {NoFlush} \cup Batches

\* The message has been ingested and its task has not ended.
Active(m) == at[m] \in {"waiting", "inside", "reply", "sending"}

\* Those in the line wait, each once.
Queue ==
    /\ \A i \in DOMAIN line : at[line[i]] = "waiting"
    /\ \A i, j \in DOMAIN line : line[i] = line[j] => i = j

\* A task is the only one of its row, which is stored; a row is answered by its task.
Answering ==
    /\ \A m \in Direct : Active(m) =>
          /\ row[Ref(m)] # "none"
          /\ own[m].out = 0 => answered[Ref(m)] = 0
          /\ \A n \in Direct : Active(n) /\ Ref(n) = Ref(m) => n = m
    /\ \A m \in Direct : answered[m] <= 1 /\ (answered[m] # 0 => row[m] # "none")

\* A bot's message that is not blocked has an owner's word, or its own arrival, after
\* each answer to that bot which the guard could see.
Clear(m, k) == own[m].seen < k \/ own[m].spoke >= k \/ own[m].looked >= k + Lookback
Guarding ==
    /\ \A m \in Direct : own[m].seen <= Len(replies)
    /\ \A m \in Direct : Active(m) /\ ~own[m].blocked /\ Actor[m] \in Bots =>
          \A k \in 1..Len(replies) : replies[k].to = Actor[m] => Clear(m, k)
    /\ \A m \in Direct : at[m] \in {"reply", "sending"} => ~own[m].blocked
    /\ BotWaitsForOwner

\* The snapshots that have message m.
Having(m) == { s \in DOMAIN snaps : m \in snaps[s].items }

Digesting ==
    /\ flush # NoFlush => \A m \in flush.items : row[m] = "BUFFERED"
    /\ \A m \in Ambient : IF row[m] = "PROCESSED" THEN \E s \in DOMAIN snaps : Having(m) = {s}
                          ELSE Having(m) = {}

IInv == TypeOK /\ Queue /\ Answering /\ Guarding /\ Digesting

-----------------------------------------------------------------------------
(* Helpers.                                                                *)

LEMMA Names ==
    /\ Direct \subseteq Messages /\ Ambient \subseteq Messages
    /\ \A m \in Direct, n \in Ambient : m # n
    /\ Nobody \notin Messages
BY PerceptionAssumption DEF Messages

LEMMA RefIs ==
    ASSUME TaskTypes, NEW m \in Direct
    PROVE  Ref(m) \in Direct /\ own[m] \in Tasks
<1>1. own[m] \in Tasks /\ own[m].batch \in Seq(Direct) /\ own[m].batch # <<>>
  BY DEF TaskTypes, Tasks
<1>2. Len(own[m].batch) \in 1..Len(own[m].batch)
  BY <1>1
<1> QED
  BY <1>1, <1>2 DEF Ref, Last

\* What keeps the digest: no message of the group leaves the buffer or a snapshot.
LEMMA DigestKeeps ==
    ASSUME Digesting, flush' \in {flush, NoFlush}, DOMAIN snaps' = DOMAIN snaps,
           flush \in {NoFlush} \cup Batches,
           \A s \in DOMAIN snaps : snaps'[s].items = snaps[s].items,
           \A m \in Ambient : /\ row'[m] = "PROCESSED" <=> row[m] = "PROCESSED"
                              /\ row[m] = "BUFFERED" => row'[m] = "BUFFERED"
    PROVE  Digesting'
<1>1. \A m \in Ambient : Having(m)' = Having(m)
  BY DEF Having
<1>2. flush' # NoFlush => \A m \in flush'.items : row'[m] = "BUFFERED"
  BY DEF Digesting, Batches
<1>3. ASSUME NEW m \in Ambient
      PROVE  IF row'[m] = "PROCESSED" THEN \E s \in DOMAIN snaps' : Having(m)' = {s}
             ELSE Having(m)' = {}
  BY <1>1, <1>3 DEF Digesting
<1> QED
  BY <1>2, <1>3 DEF Digesting

\* What keeps the answers: no task but the known ones, no row forgotten.
LEMMA AnswersKeep ==
    ASSUME TaskTypes, Answering, UNCHANGED answered,
           \A m \in Direct : Active(m)' =>
               Active(m) /\ own'[m].batch = own[m].batch /\ own'[m].out = own[m].out,
           \A m \in Direct : row[m] # "none" => row'[m] # "none"
    PROVE  Answering'
<1>1. \A m \in Direct : Active(m)' => Active(m) /\ Ref(m)' = Ref(m) /\ Ref(m) \in Direct
  BY RefIs DEF Ref
<1>2. ASSUME NEW m \in Direct, Active(m)'
      PROVE  /\ row'[Ref(m)'] # "none"
             /\ own'[m].out = 0 => answered'[Ref(m)'] = 0
             /\ \A n \in Direct : Active(n)' /\ Ref(n)' = Ref(m)' => n = m
  BY <1>1, <1>2 DEF Answering
<1>3. \A m \in Direct : answered'[m] <= 1 /\ (answered'[m] # 0 => row'[m] # "none")
  BY DEF Answering
<1> QED
  BY <1>2, <1>3 DEF Answering

\* What keeps the guard: what a task was told when it was ingested.
LEMMA GuardKeeps ==
    ASSUME Guarding, UNCHANGED replies,
           \A m \in Direct : own'[m].seen <= Len(replies),
           \A m \in Direct : Active(m)' => Active(m) /\ own'[m].seen = own[m].seen
               /\ own'[m].spoke = own[m].spoke /\ own'[m].looked = own[m].looked
               /\ (own'[m].blocked <=> own[m].blocked),
           \A m \in Direct : at'[m] \in {"reply", "sending"} =>
               at[m] \in {"reply", "sending"} \/ ~own[m].blocked
    PROVE  Guarding'
<1>1. \A m \in Direct : Active(m)' /\ ~own'[m].blocked /\ Actor[m] \in Bots =>
          \A k \in 1..Len(replies) : replies[k].to = Actor[m] => Clear(m, k)'
  BY DEF Guarding, Clear
<1>2. \A m \in Direct : at'[m] \in {"reply", "sending"} => ~own'[m].blocked
  BY DEF Guarding, Active
<1>3. BotWaitsForOwner'
  BY DEF Guarding, BotWaitsForOwner
<1> QED
  BY <1>1, <1>2, <1>3 DEF Guarding

LEMMA QueueKeeps ==
    ASSUME Queue, UNCHANGED line, \A i \in DOMAIN line : at[line[i]] = "waiting" => at'[line[i]] = "waiting"
    PROVE  Queue'
BY DEF Queue

\* A step that begins no answer, ingests nothing and records nothing.
LEMMA QuietKeeps ==
    ASSUME IInv, TaskTypes', SnapTypes', Queue', UNCHANGED <<answered, replies, spoke>>,
           flush' \in {flush, NoFlush}, DOMAIN snaps' = DOMAIN snaps,
           \A s \in DOMAIN snaps : snaps'[s].items = snaps[s].items,
           \A m \in Direct : Active(m)' => Active(m) /\ own'[m] = own[m],
           \A m \in Direct : own'[m].seen <= Len(replies),
           \A m \in Direct : at'[m] \in {"reply", "sending"} =>
               at[m] \in {"reply", "sending"} \/ ~own[m].blocked,
           \A m \in Direct : row[m] # "none" => row'[m] # "none",
           \A m \in Ambient : /\ row'[m] = "PROCESSED" <=> row[m] = "PROCESSED"
                              /\ row[m] = "BUFFERED" => row'[m] = "BUFFERED"
    PROVE  IInv'
<1>1. TypeOK'
  BY DEF IInv, TypeOK, StreamTypes
<1>2. Answering'
  BY AnswersKeep DEF IInv, TypeOK
<1>3. Guarding'
  BY GuardKeeps DEF IInv
<1>4. Digesting'
  BY DigestKeeps DEF IInv, TypeOK
<1> QED
  BY <1>1, <1>2, <1>3, <1>4 DEF IInv

\* A step of the tasks leaves the snapshots alone.
LEMMA TaskStepKeeps ==
    ASSUME IInv, TaskTypes', Queue', UNCHANGED <<answered, replies, spoke, snaps>>,
           flush' \in {flush, NoFlush},
           \A m \in Direct : Active(m)' => Active(m) /\ own'[m] = own[m],
           \A m \in Direct : own'[m].seen <= Len(replies),
           \A m \in Direct : at'[m] \in {"reply", "sending"} =>
               at[m] \in {"reply", "sending"} \/ ~own[m].blocked,
           \A m \in Direct : row[m] # "none" => row'[m] # "none",
           \A m \in Ambient : /\ row'[m] = "PROCESSED" <=> row[m] = "PROCESSED"
                              /\ row[m] = "BUFFERED" => row'[m] = "BUFFERED"
    PROVE  IInv'
<1>1. SnapTypes'
  BY DEF IInv, TypeOK, SnapTypes, Shaped
<1> QED
  BY <1>1, QuietKeeps

\* A step of the review, of the clock or of the connection leaves the tasks alone.
LEMMA SnapStepKeeps ==
    ASSUME IInv, SnapTypes', UNCHANGED <<at, own, row, line, answered, replies, spoke, flush>>,
           DOMAIN snaps' = DOMAIN snaps,
           \A s \in DOMAIN snaps : snaps'[s].items = snaps[s].items
    PROVE  IInv'
<1>1. TaskTypes' /\ Queue'
  BY DEF IInv, TypeOK, TaskTypes, Queue
<1>2. /\ \A m \in Direct : Active(m)' => Active(m)
      /\ \A m \in Direct : own[m].seen <= Len(replies)
  BY DEF Active, IInv, Guarding
<1> QED
  BY <1>1, <1>2, QuietKeeps

LEMMA AppendIs ==
    ASSUME NEW b \in Seq(Direct), NEW m \in Direct
    PROVE  Append(b, m) \in Seq(Direct) \ {<<>>}
<1>1. Append(b, m) \in Seq(Direct) /\ Len(Append(b, m)) = Len(b) + 1 /\ Len(b) \in Nat
  OBVIOUS
<1>2. Len(Append(b, m)) # 0
  BY <1>1
<1> QED
  BY <1>1, <1>2

LEMMA SentIs ==
    ASSUME NEW t \in Tasks, NEW k \in Nat
    PROVE  LET u == [t EXCEPT !.out = k]
           IN  /\ u \in Tasks /\ u.batch = t.batch /\ u.seen = t.seen
               /\ u.spoke = t.spoke /\ u.looked = t.looked /\ u.blocked = t.blocked /\ u.out = k
BY DEF Tasks

LEMMA FreshIs ==
    ASSUME NEW m \in Direct
    PROVE  Fresh(m) \in Tasks /\ Fresh(m).seen = 0
BY DEF Fresh, Tasks

LEMMA GoesIs ==
    ASSUME TaskTypes, NEW m \in Direct, NEW stage \in Stages, Goes(m, stage)
    PROVE  /\ at' \in [Messages -> Stages] /\ at'[m] = stage /\ own' = own
           /\ \A n \in Messages : n # m => at'[n] = at[n]
BY Names DEF Goes, TaskTypes

LEMMA EndsIs ==
    ASSUME TaskTypes, NEW m \in Direct, Ends(m)
    PROVE  /\ at' \in [Messages -> Stages] /\ at'[m] = "over"
           /\ \A n \in Messages : n # m => at'[n] = at[n]
           /\ own' \in [Direct -> Tasks] /\ own'[m].seen = 0
           /\ \A n \in Direct : n # m => own'[n] = own[n]
<1>1. "over" \in Stages /\ m \in Messages
  BY Names DEF Stages
<1>2. at' \in [Messages -> Stages] /\ at'[m] = "over" /\ \A n \in Messages : n # m => at'[n] = at[n]
  BY <1>1 DEF Ends, TaskTypes
<1>3. own' = [own EXCEPT ![m] = Fresh(m)]
  BY DEF Ends
<1>4. own' \in [Direct -> Tasks] /\ own'[m] = Fresh(m) /\ \A n \in Direct : n # m => own'[n] = own[n]
  BY <1>3, FreshIs DEF TaskTypes
<1> QED
  BY <1>2, <1>4, FreshIs

LEMMA SettledIs ==
    ASSUME TaskTypes, NEW m \in Direct, NEW status \in {"PENDING", "PROCESSED", "FAILED"},
           row' = [row EXCEPT ![Ref(m)] = status]
    PROVE  /\ row' \in [Messages -> Statuses] /\ \A n \in Direct : row'[n] # "BUFFERED"
           /\ \A n \in Direct : row[n] # "none" => row'[n] # "none"
           /\ \A n \in Ambient : row'[n] = row[n]
<1>1. Ref(m) \in Direct /\ Ref(m) \in Messages /\ status \in Statuses
  BY RefIs, Names DEF Statuses
<1>2. row \in [Messages -> Statuses] /\ \A n \in Direct : row[n] # "BUFFERED"
  BY DEF TaskTypes
<1>3. /\ row' \in [Messages -> Statuses] /\ row'[Ref(m)] = status
      /\ \A n \in Messages : n # Ref(m) => row'[n] = row[n]
  BY <1>1, <1>2
<1> QED
  BY <1>1, <1>2, <1>3, Names

-----------------------------------------------------------------------------
(* The tasks of the messages.                                              *)

\* One task ends, or goes on from its stage but not into the line.
LEMMA EndKeeps ==
    ASSUME IInv, NEW m \in Direct, at[m] # "waiting", Ends(m), UNCHANGED line,
           row' \in [Messages -> Statuses], \A n \in Direct : row'[n] # "BUFFERED",
           \A n \in Direct : row[n] # "none" => row'[n] # "none",
           \A n \in Ambient : row'[n] = row[n],
           UNCHANGED <<answered, replies, spoke, snaps, flush>>
    PROVE  IInv'
<1>0. TaskTypes
  BY DEF IInv, TypeOK
<1>1. /\ at' \in [Messages -> Stages] /\ at'[m] = "over"
      /\ \A n \in Messages : n # m => at'[n] = at[n]
      /\ own' \in [Direct -> Tasks] /\ own'[m].seen = 0
      /\ \A n \in Direct : n # m => own'[n] = own[n]
  BY <1>0, EndsIs
<1>2. TaskTypes'
  BY <1>0, <1>1 DEF TaskTypes
<1>3. Queue'
  <2>1. \A i \in DOMAIN line : line[i] \in Messages
    BY <1>0, Names DEF TaskTypes
  <2> QED
    BY <1>1, <2>1, QueueKeeps DEF IInv
<1>4. \A n \in Direct : Active(n)' => Active(n) /\ own'[n] = own[n]
  BY <1>1, Names DEF Active
<1>5. \A n \in Direct : own'[n].seen <= Len(replies)
  <2>1. Len(replies) \in Nat /\ \A n \in Direct : own[n].seen <= Len(replies)
    BY DEF IInv, TypeOK, StreamTypes, Guarding
  <2> QED
    BY <1>1, <2>1
<1>6. \A n \in Direct : at'[n] \in {"reply", "sending"} => at[n] \in {"reply", "sending"}
  BY <1>1, Names
<1> QED
  BY <1>2, <1>3, <1>4, <1>5, <1>6, TaskStepKeeps

LEMMA GoKeeps ==
    ASSUME IInv, NEW m \in Direct, at[m] \in {"inside", "reply"},
           NEW stage \in {"inside", "reply", "sending"}, Goes(m, stage),
           stage \in {"reply", "sending"} => at[m] = "reply" \/ ~own[m].blocked, UNCHANGED line,
           row' \in [Messages -> Statuses], \A n \in Direct : row'[n] # "BUFFERED",
           \A n \in Direct : row[n] # "none" => row'[n] # "none",
           \A n \in Ambient : row'[n] = row[n],
           UNCHANGED <<answered, replies, spoke, snaps, flush>>
    PROVE  IInv'
<1>0. TaskTypes /\ stage \in Stages
  BY DEF IInv, TypeOK, Stages
<1>1. /\ at' \in [Messages -> Stages] /\ at'[m] = stage /\ own' = own
      /\ \A n \in Messages : n # m => at'[n] = at[n]
  BY <1>0, GoesIs
<1>2. TaskTypes'
  BY <1>0, <1>1 DEF TaskTypes
<1>3. Queue'
  <2>1. \A i \in DOMAIN line : line[i] \in Messages
    BY <1>0, Names DEF TaskTypes
  <2> QED
    BY <1>1, <2>1, QueueKeeps DEF IInv
<1>4. \A n \in Direct : Active(n)' => Active(n) /\ own'[n] = own[n]
  BY <1>1, Names DEF Active
<1>5. \A n \in Direct : own'[n].seen <= Len(replies)
  BY <1>1 DEF IInv, Guarding
<1>6. \A n \in Direct : at'[n] \in {"reply", "sending"} =>
          at[n] \in {"reply", "sending"} \/ ~own[n].blocked
  BY <1>1, Names
<1> QED
  BY <1>2, <1>3, <1>4, <1>5, <1>6, TaskStepKeeps

LEMMA ArriveKeeps == ASSUME IInv, NEW m \in Direct, Arrive(m) PROVE IInv'
<1>0. TaskTypes /\ at[m] = "away" /\ Len(replies) \in Nat /\ UNCHANGED <<row, line, answered>>
      /\ UNCHANGED <<replies, spoke, snaps, flush>>
  BY DEF Arrive, IInv, TypeOK, StreamTypes, stream, social
<1>1. PICK h \in Direct, b \in Seq(Direct) \ {<<>>}, stage \in {"over", "held"} :
          /\ at[h] \in {"held", "away"} /\ own' = [own EXCEPT ![h] = Begun(b)]
          /\ at' = [at EXCEPT ![m] = stage]
  <2>1. CASE Holders(m) # {}
    <3> DEFINE h == CHOOSE h \in Holders(m) : TRUE
    <3>1. h \in Direct /\ at[h] = "held" /\ own[h].batch \in Seq(Direct)
      <4>1. h \in Holders(m)
        BY <2>1
      <4> QED
        BY <1>0, <4>1, RefIs DEF Holders, Tasks
    <3>2. Append(own[h].batch, m) \in Seq(Direct) \ {<<>>}
      BY <3>1, AppendIs
    <3>3. own' = [own EXCEPT ![h] = Begun(Append(own[h].batch, m))] /\ at' = [at EXCEPT ![m] = "over"]
      BY <2>1 DEF Arrive
    <3> HIDE DEF h
    <3> QED
      BY <3>1, <3>2, <3>3
  <2>2. CASE Holders(m) = {}
    <3>1. own' = [own EXCEPT ![m] = Begun(<<m>>)] /\ at' = [at EXCEPT ![m] = "held"]
      BY <2>2 DEF Arrive
    <3>2. <<m>> \in Seq(Direct) \ {<<>>}
      OBVIOUS
    <3> QED
      BY <1>0, <3>1, <3>2
  <2> QED
    BY <2>1, <2>2
<1>2. Begun(b) \in Tasks /\ Begun(b).seen = Len(replies)
  BY <1>0 DEF Begun, Tasks
<1>3. /\ at' \in [Messages -> Stages] /\ at'[m] = stage
      /\ \A n \in Messages : n # m => at'[n] = at[n]
  BY <1>0, <1>1, Names DEF TaskTypes, Stages
<1>4. /\ own' \in [Direct -> Tasks] /\ own'[h].seen = Len(replies)
      /\ \A n \in Direct : n # h => own'[n] = own[n]
  BY <1>0, <1>1, <1>2 DEF TaskTypes
<1>5. TaskTypes'
  BY <1>0, <1>3, <1>4 DEF TaskTypes
<1>6. Queue'
  <2>1. \A i \in DOMAIN line : line[i] \in Messages
    BY <1>0, Names DEF TaskTypes
  <2> QED
    BY <1>0, <1>3, <2>1, QueueKeeps DEF IInv
<1>7. \A n \in Direct : Active(n)' => Active(n) /\ own'[n] = own[n]
  <2>1. ASSUME NEW n \in Direct, Active(n)' PROVE n # m /\ n # h /\ Active(n)
    <3>1. n # m /\ at'[n] = at[n]
      BY <1>1, <1>3, <2>1, Names DEF Active
    <3> QED
      BY <1>1, <2>1, <3>1 DEF Active
  <2> QED
    BY <1>4, <2>1
<1>8. \A n \in Direct : own'[n].seen <= Len(replies)
  BY <1>0, <1>4 DEF IInv, Guarding
<1>9. \A n \in Direct : at'[n] \in {"reply", "sending"} => at[n] \in {"reply", "sending"}
  BY <1>1, <1>3, Names
<1> QED
  BY <1>0, <1>5, <1>6, <1>7, <1>8, <1>9, TaskStepKeeps

LEMMA EntersKeeps == ASSUME IInv, NEW m \in Direct, Enters(m) PROVE IInv'
<1>0. /\ TaskTypes /\ Queue /\ line \in Seq(Direct) /\ line # <<>> /\ Head(line) = m /\ "inside" \in Stages
      /\ line' = Tail(line) /\ Goes(m, "inside")
      /\ UNCHANGED <<row, answered, replies, spoke, snaps, flush>>
  BY DEF Enters, IInv, TypeOK, TaskTypes, stream, social, Stages
<1>1. /\ at' \in [Messages -> Stages] /\ at'[m] = "inside" /\ own' = own
      /\ \A n \in Messages : n # m => at'[n] = at[n]
  BY <1>0, GoesIs
<1>2. /\ line' \in Seq(Direct) /\ 1 \in DOMAIN line /\ line[1] = m
      /\ \A i \in DOMAIN line' : i + 1 \in DOMAIN line /\ i + 1 # 1 /\ line'[i] = line[i + 1]
      /\ \A i, j \in DOMAIN line' : i + 1 = j + 1 => i = j
  BY <1>0
<1>3. TaskTypes'
  BY <1>0, <1>1, <1>2 DEF TaskTypes
<1>4. Queue'
  <2>1. ASSUME NEW i \in DOMAIN line' PROVE at'[line'[i]] = "waiting"
    <3>1. line'[i] # m /\ at[line'[i]] = "waiting" /\ line'[i] \in Direct
      BY <1>0, <1>2, <2>1 DEF Queue
    <3> QED
      BY <1>1, <3>1, Names
  <2>2. ASSUME NEW i \in DOMAIN line', NEW j \in DOMAIN line', line'[i] = line'[j] PROVE i = j
    <3>1. i + 1 = j + 1
      BY <1>0, <1>2, <2>2 DEF Queue
    <3> QED
      BY <1>2, <3>1
  <2> QED
    BY <2>1, <2>2 DEF Queue
<1>5. \A n \in Direct : Active(n)' => Active(n) /\ own'[n] = own[n]
  <2>1. at[m] = "waiting"
    BY <1>0, <1>2 DEF Queue
  <2> QED
    BY <1>1, <2>1, Names DEF Active
<1>6. \A n \in Direct : own'[n].seen <= Len(replies)
  BY <1>1 DEF IInv, Guarding
<1>7. \A n \in Direct : at'[n] \in {"reply", "sending"} => at[n] \in {"reply", "sending"}
  BY <1>1, Names
<1> QED
  BY <1>0, <1>3, <1>4, <1>5, <1>6, <1>7, TaskStepKeeps

LEMMA HandlesKeeps ==
    ASSUME IInv, NEW m \in Direct,
           Declines(m) \/ Talks(m) \/ Replies(m) \/ Fails(m) \/ SendFails(m)
    PROVE  IInv'
<1>0. TaskTypes /\ row \in [Messages -> Statuses] /\ \A n \in Direct : row[n] # "BUFFERED"
  BY DEF IInv, TypeOK, TaskTypes
<1>1. CASE Declines(m)
  <2>1. /\ at[m] # "waiting" /\ Ends(m) /\ row' = [row EXCEPT ![Ref(m)] = "PROCESSED"]
        /\ UNCHANGED <<line, answered, replies, spoke, snaps, flush>>
    BY <1>1 DEF Declines, Settled, stream, social
  <2> QED
    BY <1>0, <2>1, SettledIs, EndKeeps
<1>2. CASE Talks(m)
  <2>1. /\ at[m] = "inside" /\ ~own[m].blocked /\ Goes(m, "reply")
        /\ UNCHANGED <<row, line, answered, replies, spoke, snaps, flush>>
    BY <1>2 DEF Talks, stream, social
  <2> QED
    BY <1>0, <2>1, GoKeeps
<1>3. CASE Replies(m)
  <2>1. /\ at[m] = "reply" /\ Goes(m, "sending") /\ row' = [row EXCEPT ![Ref(m)] = "PROCESSED"]
        /\ UNCHANGED <<line, answered, replies, spoke, snaps, flush>>
    BY <1>3 DEF Replies, Settled, stream, social
  <2> QED
    BY <1>0, <2>1, SettledIs, GoKeeps
<1>4. CASE Fails(m)
  <2>1. /\ at[m] # "waiting" /\ Ends(m) /\ row' = [row EXCEPT ![Ref(m)] = "FAILED"]
        /\ UNCHANGED <<line, answered, replies, spoke, snaps, flush>>
    BY <1>4 DEF Fails, Settled, stream, social
  <2> QED
    BY <1>0, <2>1, SettledIs, EndKeeps
<1>5. CASE SendFails(m)
  <2>1. /\ at[m] # "waiting" /\ Ends(m)
        /\ UNCHANGED <<row, line, answered, replies, spoke, snaps, flush>>
    BY <1>5 DEF SendFails, stream, social
  <2> QED
    BY <1>0, <2>1, EndKeeps
<1> QED
  BY <1>1, <1>2, <1>3, <1>4, <1>5

LEMMA SendsKeeps == ASSUME IInv, NEW m \in Direct, Sends(m) PROVE IInv'
<1>0. /\ TaskTypes /\ Answering /\ at[m] = "sending" /\ UNCHANGED <<at, row, line, replies, spoke, snaps, flush>>
      /\ own' = [own EXCEPT ![m].out = @ + 1]
      /\ answered' = IF own[m].out = 0 THEN [answered EXCEPT ![Ref(m)] = @ + 1] ELSE answered
  BY DEF Sends, IInv, TypeOK, stream, social
<1>1. own[m] \in Tasks /\ Ref(m) \in Direct /\ own \in [Direct -> Tasks] /\ answered \in [Direct -> Nat]
  BY <1>0, RefIs DEF TaskTypes
<1>2. /\ own'[m] \in Tasks /\ own'[m].batch = own[m].batch /\ own'[m].seen = own[m].seen
      /\ own'[m].spoke = own[m].spoke /\ own'[m].looked = own[m].looked
      /\ own'[m].blocked = own[m].blocked /\ own'[m].out # 0
  <2>1. own[m].out \in Nat
    BY <1>1 DEF Tasks
  <2>2. PICK k \in Nat : k = own[m].out + 1
    BY <2>1
  <2>3. own'[m] = [own[m] EXCEPT !.out = k]
    BY <1>0, <1>1, <2>2
  <2>4. k # 0
    BY <2>1, <2>2
  <2> QED
    BY <1>1, <2>3, <2>4, SentIs
<1>3. own' \in [Direct -> Tasks] /\ \A n \in Direct : n # m => own'[n] = own[n]
  <2>1. \A n \in Direct : n # m => own'[n] = own[n]
    BY <1>0, <1>1
  <2>2. DOMAIN own' = Direct /\ own' = [n \in Direct |-> own'[n]]
    BY <1>0, <1>1
  <2>3. \A n \in Direct : own'[n] \in Tasks
    BY <1>1, <1>2, <2>1
  <2> QED
    BY <2>1, <2>2, <2>3
<1>4. /\ answered' \in [Direct -> Nat] /\ \A x \in Direct : x # Ref(m) => answered'[x] = answered[x]
      /\ own[m].out = 0 => answered'[Ref(m)] = answered[Ref(m)] + 1
      /\ own[m].out # 0 => answered' = answered
  BY <1>0, <1>1
<1>5. TypeOK'
  <2>1. TaskTypes'
    BY <1>0, <1>3, <1>4 DEF TaskTypes
  <2> QED
    BY <1>0, <2>1 DEF IInv, TypeOK, StreamTypes, SnapTypes, Shaped
<1>6. \A n \in Direct : Ref(n)' = Ref(n) /\ Ref(n) \in Direct /\ (Active(n)' <=> Active(n))
  BY <1>0, <1>2, <1>3, RefIs DEF Ref, Active
<1>7. Answering'
  <2>1. Active(m) /\ row[Ref(m)] # "none" /\ (own[m].out = 0 => answered[Ref(m)] = 0)
    BY <1>0 DEF Answering, Active
  <2>2. ASSUME NEW n \in Direct, Active(n)
        PROVE  /\ row'[Ref(n)'] # "none"
               /\ own'[n].out = 0 => answered'[Ref(n)'] = 0
               /\ \A k \in Direct : Active(k)' /\ Ref(k)' = Ref(n)' => k = n
    <3>1. row'[Ref(n)'] # "none"
      BY <1>0, <1>6, <2>2 DEF Answering
    <3>2. own'[n].out = 0 => answered'[Ref(n)'] = 0
      <4>1. n # m => Ref(n) # Ref(m) /\ (own[n].out = 0 => answered[Ref(n)] = 0)
        BY <1>0, <2>1, <2>2 DEF Answering
      <4> QED
        BY <1>2, <1>3, <1>4, <1>6, <4>1
    <3>3. \A k \in Direct : Active(k)' /\ Ref(k)' = Ref(n)' => k = n
      BY <1>0, <1>6, <2>2 DEF Answering
    <3> QED
      BY <3>1, <3>2, <3>3
  <2>3. ASSUME NEW x \in Direct PROVE answered'[x] <= 1 /\ (answered'[x] # 0 => row'[x] # "none")
    <3>1. answered[x] <= 1 /\ (answered[x] # 0 => row[x] # "none") /\ answered[x] \in Nat
      BY <1>0, <1>1 DEF Answering
    <3>2. CASE x = Ref(m) /\ own[m].out = 0
      BY <1>0, <1>4, <2>1, <3>2
    <3>3. CASE ~(x = Ref(m) /\ own[m].out = 0)
      BY <1>0, <1>4, <3>1, <3>3
    <3> QED
      BY <3>2, <3>3
  <2> QED
    BY <1>6, <2>2, <2>3 DEF Answering
<1>8. Guarding'
  <2>1. Guarding /\ UNCHANGED replies
    BY <1>0 DEF IInv
  <2>2. \A n \in Direct : own'[n].seen <= Len(replies)
    BY <1>2, <1>3, <2>1 DEF Guarding
  <2>3. \A n \in Direct : Active(n)' => Active(n) /\ own'[n].seen = own[n].seen
               /\ own'[n].spoke = own[n].spoke /\ own'[n].looked = own[n].looked
               /\ (own'[n].blocked <=> own[n].blocked)
    BY <1>2, <1>3, <1>6
  <2>4. \A n \in Direct : at'[n] \in {"reply", "sending"} => at[n] \in {"reply", "sending"}
    BY <1>0
  <2> QED
    BY <2>1, <2>2, <2>3, <2>4, GuardKeeps
<1>9. Queue' /\ Digesting'
  BY <1>0 DEF IInv, Queue, Digesting, Having
<1> QED
  BY <1>5, <1>7, <1>8, <1>9 DEF IInv

LEMMA RecordedKeeps == ASSUME IInv, NEW m \in Direct, Recorded(m) PROVE IInv'
<1> DEFINE r == [to |-> Actor[m], seen |-> own[m].seen, spoke |-> own[m].spoke, looked |-> own[m].looked]
<1>0. /\ TaskTypes /\ at[m] = "sending" /\ UNCHANGED <<row, line, spoke, snaps, flush, answered>> /\ Ends(m)
      /\ replies' = Append(replies, r)
  BY DEF Recorded, IInv, TypeOK, social
<1>1. /\ at' \in [Messages -> Stages] /\ at'[m] = "over"
      /\ \A n \in Messages : n # m => at'[n] = at[n]
      /\ own' \in [Direct -> Tasks] /\ own'[m].seen = 0
      /\ \A n \in Direct : n # m => own'[n] = own[n]
  BY <1>0, EndsIs
<1>2. own[m] \in Tasks /\ r \in Answers
      /\ r.to = Actor[m] /\ r.seen = own[m].seen /\ r.spoke = own[m].spoke /\ r.looked = own[m].looked
  BY <1>0, RefIs DEF Tasks, Actors, Answers
<1>3. replies \in Seq(Answers)
  BY DEF IInv, TypeOK, StreamTypes
<1> HIDE DEF r
<1>4. /\ replies' \in Seq(Answers)
      /\ Len(replies') = Len(replies) + 1 /\ Len(replies) \in Nat
      /\ replies'[Len(replies) + 1] = r
      /\ \A k \in 1..Len(replies) : replies'[k] = replies[k]
      /\ DOMAIN replies' = 1..Len(replies')
  BY <1>0, <1>2, <1>3
<1>5. TypeOK'
  <2>1. TaskTypes'
    BY <1>0, <1>1 DEF TaskTypes
  <2> QED
    BY <1>0, <1>4, <2>1 DEF IInv, TypeOK, StreamTypes, SnapTypes, Shaped
<1>6. \A n \in Direct : Active(n)' => n # m /\ Active(n) /\ own'[n] = own[n]
  BY <1>1, Names DEF Active
<1>7. Queue'
  <2>1. \A i \in DOMAIN line : line[i] \in Messages
    BY <1>0, Names DEF TaskTypes
  <2> QED
    BY <1>0, <1>1, <2>1, QueueKeeps DEF IInv
<1>8. Answering'
  BY <1>0, <1>6, AnswersKeep DEF IInv
<1>9. Digesting'
  BY <1>0 DEF IInv, Digesting, Having
<1>10. Guarding'
  <2>0. Guarding /\ own \in [Direct -> Tasks]
    BY <1>0 DEF IInv, TaskTypes
  <2>1. \A n \in Direct : own'[n].seen <= Len(replies')
    <3>1. ASSUME NEW n \in Direct, n # m PROVE own'[n].seen <= Len(replies')
      <4>1. own[n] \in Tasks /\ own[n].seen \in Nat /\ own[n].seen <= Len(replies)
        BY <2>0 DEF Guarding, Tasks
      <4> QED
        BY <1>1, <1>4, <3>1, <4>1
    <3> QED
      BY <1>1, <1>4, <3>1
  <2>2. ASSUME NEW n \in Direct, Active(n)', ~own'[n].blocked, Actor[n] \in Bots,
               NEW k \in 1..Len(replies'), replies'[k].to = Actor[n]
        PROVE  Clear(n, k)'
    <3>1. n # m /\ Active(n) /\ own'[n] = own[n] /\ own[n].seen \in Nat /\ own[n].seen <= Len(replies)
      BY <1>6, <2>0, <2>2 DEF Guarding, Tasks
    <3>2. CASE k \in 1..Len(replies)
      BY <1>4, <2>0, <2>2, <3>1, <3>2 DEF Guarding, Clear
    <3>3. CASE k = Len(replies) + 1
      BY <1>4, <3>1, <3>3 DEF Clear
    <3> QED
      BY <1>4, <3>2, <3>3
  <2>3. \A n \in Direct : at'[n] \in {"reply", "sending"} => ~own'[n].blocked
    BY <1>1, <2>0, Names DEF Guarding
  <2>4. BotWaitsForOwner'
    <3>1. ASSUME NEW l \in 1..Len(replies'), NEW k \in 1..(l - 1),
                 replies'[k].to = replies'[l].to, replies'[k].to \in Bots
          PROVE  replies'[l].seen < k \/ replies'[l].spoke >= k \/ replies'[l].looked >= k + Lookback
      <4>1. k \in 1..Len(replies) /\ replies'[k] = replies[k]
        <5>1. l \in Nat /\ k \in Nat /\ 1 <= k /\ k <= l - 1 /\ l <= Len(replies')
          BY <1>4
        <5>2. k \in 1..Len(replies)
          BY <1>4, <5>1
        <5> QED
          BY <1>4, <5>2
      <4>2. CASE l \in 1..Len(replies)
        <5>1. l \in DOMAIN replies
          BY <1>3, <4>2
        <5>2. replies'[l] = replies[l]
          BY <1>4, <4>2
        <5> QED
          BY <2>0, <3>1, <4>1, <4>2, <5>1, <5>2 DEF Guarding, BotWaitsForOwner
      <4>3. CASE l = Len(replies) + 1
        <5>1. replies[k].to = Actor[m] /\ Actor[m] \in Bots /\ Active(m) /\ ~own[m].blocked
          BY <1>0, <1>2, <1>4, <2>0, <3>1, <4>1, <4>3 DEF Guarding, Active
        <5>2. Clear(m, k)
          BY <2>0, <4>1, <5>1 DEF Guarding
        <5> QED
          BY <1>2, <1>4, <4>3, <5>2 DEF Clear
      <4> QED
        BY <1>4, <4>2, <4>3
    <3> QED
      BY <1>4, <3>1 DEF BotWaitsForOwner
  <2> QED
    BY <2>1, <2>2, <2>3, <2>4 DEF Guarding
<1> QED
  BY <1>5, <1>7, <1>8, <1>9, <1>10 DEF IInv

LEMMA LatestIs ==
    ASSUME NEW a \in Int, NEW b \in Int
    PROVE  Max({a, b}) \in Int
<1>1. \E x \in {a, b} : \A y \in {a, b} : x >= y
  OBVIOUS
<1>2. Max({a, b}) \in {a, b}
  BY <1>1 DEF Max
<1> QED
  BY <1>2

LEMMA IngestKeeps == ASSUME IInv, NEW m \in Direct, Ingest(m) PROVE IInv'
<1>0. /\ TaskTypes /\ Queue /\ Answering /\ Guarding /\ at[m] = "held"
      /\ UNCHANGED <<replies, flush, snaps, answered>>
  BY DEF Ingest, IInv, TypeOK
<1>1. CASE SeenBefore(m)
  <2>1. Ends(m) /\ UNCHANGED <<row, line, spoke>>
    BY <1>1 DEF Ingest
  <2>2. row \in [Messages -> Statuses] /\ \A n \in Direct : row[n] # "BUFFERED"
    BY <1>0 DEF TaskTypes
  <2> QED
    BY <1>0, <2>1, <2>2, EndKeeps
<1>2. CASE ~SeenBefore(m)
  <2>1. PICK b \in BOOLEAN : b = Blocked(m)
    BY DEF Blocked
  <2>2. /\ at' = [at EXCEPT ![m] = "waiting"]
        /\ row' = [row EXCEPT ![Ref(m)] = "PENDING"]
        /\ line' = Append(line, m)
        /\ spoke' = IF Actor[m] = Owner THEN Max({spoke, own[m].seen}) ELSE spoke
    BY <1>2 DEF Ingest
  <2>3. own[m] \in Tasks /\ Ref(m) \in Direct /\ spoke \in Int /\ spoke' \in Int
    <3>1. own[m] \in Tasks /\ Ref(m) \in Direct /\ spoke \in Int
      BY <1>0, RefIs DEF IInv, TypeOK, StreamTypes
    <3>2. own[m].seen \in Int
      BY <3>1 DEF Tasks
    <3> QED
      BY <2>2, <3>1, <3>2, LatestIs
  <2>4. own' = [own EXCEPT ![m].blocked = b, ![m].spoke = spoke, ![m].looked = Len(replies)]
    <3>1. own' = [own EXCEPT ![m].blocked = Blocked(m), ![m].spoke = spoke, ![m].looked = Len(replies)]
      BY <1>2 DEF Ingest
    <3> QED
      BY <2>1, <3>1
  <2>5. /\ own'[m] \in Tasks /\ own'[m].batch = own[m].batch /\ own'[m].seen = own[m].seen
        /\ own'[m].spoke = spoke /\ own'[m].looked = Len(replies)
        /\ (own'[m].blocked <=> b) /\ own'[m].out = own[m].out
    <3>1. own'[m] = [own[m] EXCEPT !.blocked = b, !.spoke = spoke, !.looked = Len(replies)]
      BY <1>0, <2>4 DEF TaskTypes
    <3> QED
      <4>1. own[m] \in Tasks /\ spoke \in Int /\ Len(replies) \in Nat
        BY <2>3 DEF IInv, TypeOK, StreamTypes
      <4>2. [own[m] EXCEPT !.blocked = b, !.spoke = spoke, !.looked = Len(replies)] \in Tasks
        BY <4>1 DEF Tasks
      <4>3. own'[m].batch = own[m].batch /\ own'[m].seen = own[m].seen /\ own'[m].out = own[m].out
        BY <3>1, <4>1 DEF Tasks
      <4>4. own'[m].spoke = spoke /\ own'[m].looked = Len(replies)
        BY <3>1, <4>1 DEF Tasks
      <4>5. own'[m].blocked <=> b
        BY <3>1, <4>1 DEF Tasks
      <4> QED
        BY <3>1, <4>2, <4>3, <4>4, <4>5
  <2>6. own' \in [Direct -> Tasks] /\ \A n \in Direct : n # m => own'[n] = own[n]
    <3>1. own \in [Direct -> Tasks]
      BY <1>0 DEF TaskTypes
    <3>2. \A n \in Direct : n # m => own'[n] = own[n]
      BY <2>4, <3>1
    <3>3. own' = [n \in Direct |-> own'[n]]
      BY <2>4, <3>1
    <3>4. \A n \in Direct : own'[n] \in Tasks
      BY <2>5, <3>1, <3>2
    <3> QED
      BY <3>2, <3>3, <3>4
  <2>7. /\ at' \in [Messages -> Stages] /\ at'[m] = "waiting"
        /\ \A n \in Messages : n # m => at'[n] = at[n]
    BY <1>0, <2>2, Names DEF TaskTypes, Stages
  <2>8. /\ row' \in [Messages -> Statuses] /\ \A n \in Direct : row'[n] # "BUFFERED"
        /\ \A n \in Direct : row[n] # "none" => row'[n] # "none"
        /\ \A n \in Ambient : row'[n] = row[n]
    BY <1>0, <2>2, SettledIs
  <2>9. row[Ref(m)] = "none" /\ row'[Ref(m)] = "PENDING"
    BY <1>0, <1>2, <2>2, <2>3, Names DEF SeenBefore, TaskTypes
  <2>10. line \in Seq(Direct)
    BY <1>0 DEF TaskTypes
  <2>11. /\ line' \in Seq(Direct) /\ Len(line) \in Nat /\ DOMAIN line' = 1..(Len(line) + 1)
         /\ DOMAIN line = 1..Len(line)
         /\ line'[Len(line) + 1] = m /\ \A i \in 1..Len(line) : line'[i] = line[i] /\ line[i] \in Direct
    BY <2>2, <2>10
  <2>12. TypeOK'
    <3>1. TaskTypes'
      BY <1>0, <2>6, <2>7, <2>8, <2>11 DEF TaskTypes
    <3> QED
      BY <1>0, <2>3, <3>1 DEF IInv, TypeOK, StreamTypes, SnapTypes, Shaped
  <2>13. Queue'
    <3>1. \A i \in 1..Len(line) : line[i] # m
      BY <1>0, <2>11 DEF Queue
    <3>2. \A i \in DOMAIN line' : at'[line'[i]] = "waiting"
      <4>1. ASSUME NEW i \in 1..Len(line) PROVE at'[line'[i]] = "waiting"
        BY <1>0, <2>7, <2>11, <3>1, Names DEF Queue
      <4> QED
        BY <2>7, <2>11, <4>1
    <3>3. \A i, j \in DOMAIN line' : line'[i] = line'[j] => i = j
      <4>1. \A i, j \in 1..Len(line) : line'[i] = line'[j] => i = j
        BY <1>0, <2>11 DEF Queue
      <4> QED
        BY <2>11, <3>1, <4>1
    <3> QED
      BY <3>2, <3>3 DEF Queue
  <2>14. \A n \in Direct : Ref(n)' = Ref(n) /\ Ref(n) \in Direct
    BY <1>0, <2>5, <2>6, RefIs DEF Ref
  <2>15. \A n \in Direct : n # m => (Active(n)' <=> Active(n))
    BY <2>7, Names DEF Active
  <2>16. Answering'
    <3>1. ASSUME NEW n \in Direct, Active(n)'
          PROVE  /\ row'[Ref(n)'] # "none"
                 /\ own'[n].out = 0 => answered'[Ref(n)'] = 0
                 /\ \A k \in Direct : Active(k)' /\ Ref(k)' = Ref(n)' => k = n
      <4>1. \A k \in Direct : k # m /\ Active(k)' => Ref(k) # Ref(m)
        BY <1>0, <2>9, <2>15 DEF Answering
      <4>2. CASE n = m
        BY <1>0, <2>9, <2>14, <4>1, <4>2, <2>3 DEF Answering
      <4>3. CASE n # m
        <5>1. Active(n) /\ own'[n] = own[n]
          BY <2>6, <2>15, <3>1, <4>3
        <5>2. \A k \in Direct : k # m /\ Active(k)' /\ Ref(k)' = Ref(n)' => k = n
          BY <1>0, <2>14, <2>15, <5>1 DEF Answering
        <5>3. row[Ref(n)] # "none" /\ (own[n].out = 0 => answered[Ref(n)] = 0)
          BY <1>0, <5>1 DEF Answering
        <5> QED
          BY <1>0, <2>8, <2>14, <3>1, <4>1, <4>3, <5>1, <5>2, <5>3
      <4> QED
        BY <4>2, <4>3
    <3>2. \A x \in Direct : answered'[x] <= 1 /\ (answered'[x] # 0 => row'[x] # "none")
      BY <1>0, <2>8 DEF Answering
    <3> QED
      BY <3>1, <3>2 DEF Answering
  <2>17. Guarding'
    <3>1. \A n \in Direct : own'[n].seen <= Len(replies')
      BY <1>0, <2>5, <2>6 DEF Guarding
    <3>2. ASSUME NEW n \in Direct, Active(n)', ~own'[n].blocked, Actor[n] \in Bots,
                 NEW k \in 1..Len(replies'), replies'[k].to = Actor[n]
          PROVE  Clear(n, k)'
      <4>1. CASE n = m
        <5>0. Len(replies) \in Nat /\ DOMAIN replies = 1..Len(replies) /\ Lookback \in Nat
          BY PerceptionAssumption DEF IInv, TypeOK, StreamTypes
        <5>1. ~Blocked(m) /\ own'[m].spoke = spoke /\ own'[m].looked = Len(replies)
          BY <2>1, <2>5, <3>2, <4>1
        <5>2. k \in 1..Len(replies) /\ replies[k].to = Actor[m] /\ Actor[m] \in Bots
          BY <1>0, <3>2, <4>1
        <5>3. InSight(k) => spoke >= k
          BY <5>0, <5>1, <5>2 DEF Blocked, Intervened
        <5>4. ~InSight(k) => Len(replies) >= k + Lookback
          BY <5>0, <5>2 DEF InSight
        <5> QED
          BY <4>1, <5>1, <5>3, <5>4 DEF Clear
      <4>2. CASE n # m
        BY <1>0, <2>6, <2>15, <3>2, <4>2 DEF Guarding, Clear
      <4> QED
        BY <4>1, <4>2
    <3>3. \A n \in Direct : at'[n] \in {"reply", "sending"} => ~own'[n].blocked
      BY <1>0, <2>6, <2>7, Names DEF Guarding
    <3>4. BotWaitsForOwner'
      BY <1>0 DEF Guarding, BotWaitsForOwner
    <3> QED
      BY <3>1, <3>2, <3>3, <3>4 DEF Guarding
  <2>18. Digesting'
    <3>1. flush \in {NoFlush} \cup Batches /\ Digesting
      BY DEF IInv, TypeOK
    <3> QED
      BY <1>0, <2>8, <3>1, DigestKeeps
  <2> QED
    BY <2>12, <2>13, <2>16, <2>17, <2>18 DEF IInv
<1> QED
  BY <1>1, <1>2

LEMMA ComesAgainKeeps == ASSUME IInv, NEW m \in Messages, ComesAgain(m) PROVE IInv'
<1>0. /\ TaskTypes /\ at[m] = "over" /\ at' = [at EXCEPT ![m] = "away"]
      /\ UNCHANGED <<own, row, line, answered, replies, spoke, snaps, flush>>
  BY DEF ComesAgain, IInv, TypeOK, stream, social
<1>1. /\ at' \in [Messages -> Stages] /\ at'[m] = "away"
      /\ \A n \in Messages : n # m => at'[n] = at[n]
  BY <1>0 DEF TaskTypes, Stages
<1>2. TaskTypes'
  BY <1>0, <1>1 DEF TaskTypes
<1>3. Queue'
  <2>1. \A i \in DOMAIN line : line[i] \in Messages
    BY <1>0, Names DEF TaskTypes
  <2> QED
    BY <1>0, <1>1, <2>1, QueueKeeps DEF IInv
<1>4. /\ \A n \in Direct : Active(n)' => Active(n)
      /\ \A n \in Direct : at'[n] \in {"reply", "sending"} => at[n] \in {"reply", "sending"}
  BY <1>1, Names DEF Active
<1>5. \A n \in Direct : own'[n].seen <= Len(replies)
  BY <1>0 DEF IInv, Guarding
<1> QED
  BY <1>0, <1>2, <1>3, <1>4, <1>5, TaskStepKeeps

\* Every task ends: the connection is lost, or the process.
LEMMA TasksEndKeeps ==
    ASSUME IInv, TasksEnd, flush' \in {flush, NoFlush}, UNCHANGED <<replies, spoke, snaps, answered>>,
           row' = row \/ row' = [m \in Messages |-> IF row[m] = "PENDING" THEN "FAILED" ELSE row[m]]
    PROVE  IInv'
<1>0. TaskTypes /\ row \in [Messages -> Statuses] /\ \A n \in Direct : row[n] # "BUFFERED"
  BY DEF IInv, TypeOK, TaskTypes
<1>1. at' \in [Messages -> Stages] /\ \A m \in Messages : at'[m] \in {"away", "over"}
  BY DEF TasksEnd, Stages
<1>2. own' \in [Direct -> Tasks] /\ \A m \in Direct : own'[m].seen = 0
  BY FreshIs DEF TasksEnd
<1>3. line' = <<>>
  BY DEF TasksEnd
<1>4. /\ row' \in [Messages -> Statuses] /\ \A n \in Direct : row'[n] # "BUFFERED"
      /\ \A n \in Messages : /\ row[n] # "none" => row'[n] # "none"
                             /\ row'[n] = "PROCESSED" <=> row[n] = "PROCESSED"
                             /\ row[n] = "BUFFERED" => row'[n] = "BUFFERED"
  <2>1. CASE row' = row
    BY <1>0, <2>1
  <2>2. CASE row' = [m \in Messages |-> IF row[m] = "PENDING" THEN "FAILED" ELSE row[m]]
    <3>1. \A m \in Messages : row'[m] = IF row[m] = "PENDING" THEN "FAILED" ELSE row[m]
      BY <2>2
    <3>2. row' \in [Messages -> Statuses]
      BY <1>0, <2>2 DEF Statuses
    <3> QED
      BY <1>0, <3>1, <3>2, Names
  <2> QED
    BY <2>1, <2>2
<1>5. TaskTypes'
  BY <1>0, <1>1, <1>2, <1>3, <1>4 DEF TaskTypes
<1>6. Queue'
  BY <1>3 DEF Queue
<1>7. /\ \A n \in Direct : ~Active(n)'
      /\ \A n \in Direct : at'[n] \notin {"reply", "sending"}
  BY <1>1, Names DEF Active
<1>8. \A n \in Direct : own'[n].seen <= Len(replies)
  BY <1>2 DEF IInv, TypeOK, StreamTypes
<1> QED
  BY <1>4, <1>5, <1>6, <1>7, <1>8, Names, TaskStepKeeps

-----------------------------------------------------------------------------
(* The group's talk.                                                       *)

\* A message of the group, or its task, goes on.
LEMMA AmbientKeeps ==
    ASSUME IInv, at' \in [Messages -> Stages], row' \in [Messages -> Statuses],
           \A m \in Direct : at'[m] = at[m] /\ row'[m] = row[m],
           \A m \in Ambient : row'[m] # row[m] => row[m] = "none" /\ row'[m] = "BUFFERED",
           flush' \in {flush, NoFlush}, UNCHANGED <<own, line, answered, replies, spoke, snaps>>
    PROVE  IInv'
<1>0. TaskTypes
  BY DEF IInv, TypeOK
<1>1. TaskTypes'
  BY <1>0 DEF TaskTypes
<1>2. Queue'
  <2>1. \A i \in DOMAIN line : line[i] \in Direct
    BY <1>0 DEF TaskTypes
  <2> QED
    BY <2>1, QueueKeeps DEF IInv
<1>3. /\ \A n \in Direct : Active(n)' => Active(n) /\ own'[n] = own[n]
      /\ \A n \in Direct : own'[n].seen <= Len(replies)
  BY DEF Active, IInv, Guarding
<1>4. \A m \in Ambient : /\ row'[m] = "PROCESSED" <=> row[m] = "PROCESSED"
                         /\ row[m] = "BUFFERED" => row'[m] = "BUFFERED"
  OBVIOUS
<1> QED
  BY <1>1, <1>2, <1>3, <1>4, TaskStepKeeps

LEMMA OverhearKeeps == ASSUME IInv, NEW m \in Ambient, Overhear(m) PROVE IInv'
<1>0. /\ at \in [Messages -> Stages] /\ row \in [Messages -> Statuses]
      /\ UNCHANGED <<own, line, answered, replies, spoke, snaps, flush>>
  BY DEF Overhear, IInv, TypeOK, TaskTypes, stream, social
<1>1. PICK stage \in {"over", "flush"} : at' = [at EXCEPT ![m] = stage]
  BY DEF Overhear
<1>2. row' = row \/ (row[m] = "none" /\ row' = [row EXCEPT ![m] = "BUFFERED"])
  BY DEF Overhear
<1>3. at' \in [Messages -> Stages] /\ \A n \in Direct : at'[n] = at[n]
  BY <1>0, <1>1, Names DEF Stages
<1>4. /\ row' \in [Messages -> Statuses] /\ \A n \in Direct : row'[n] = row[n]
      /\ \A n \in Ambient : row'[n] # row[n] => row[n] = "none" /\ row'[n] = "BUFFERED"
  BY <1>0, <1>2, Names DEF Statuses
<1> QED
  BY <1>0, <1>3, <1>4, AmbientKeeps

LEMMA FlushSkipsKeeps == ASSUME IInv, NEW m \in Ambient, FlushSkips(m) PROVE IInv'
<1>0. /\ at \in [Messages -> Stages] /\ row \in [Messages -> Statuses]
      /\ UNCHANGED <<own, row, line, answered, replies, spoke, snaps, flush>>
      /\ at' = [at EXCEPT ![m] = "over"]
  BY DEF FlushSkips, IInv, TypeOK, TaskTypes, stream, social
<1>1. at' \in [Messages -> Stages] /\ \A n \in Direct : at'[n] = at[n]
  BY <1>0, Names DEF Stages
<1> QED
  BY <1>0, <1>1, AmbientKeeps

LEMMA FlushEndsIs ==
    ASSUME IInv, FlushEnds
    PROVE  at' \in [Messages -> Stages] /\ \A n \in Direct : at'[n] = at[n]
<1>1. at \in [Messages -> Stages] /\ flush \in {NoFlush} \cup Batches
  BY DEF IInv, TypeOK, TaskTypes
<1>2. flush.by \in Ambient \cup {Nobody}
  BY <1>1 DEF NoFlush, Batches
<1>3. at' = [m \in Messages |-> IF flush.by = m THEN "over" ELSE at[m]]
  BY DEF FlushEnds
<1>4. at' \in [Messages -> Stages]
  BY <1>1, <1>3 DEF Stages
<1>5. \A n \in Direct : n \in Messages /\ flush.by # n
  BY <1>2, Names
<1> QED
  BY <1>3, <1>4, <1>5

LEMMA FlushFailsKeeps == ASSUME IInv, FlushFails PROVE IInv'
<1>0. /\ FlushEnds /\ flush' = NoFlush /\ row \in [Messages -> Statuses]
      /\ UNCHANGED <<own, row, line, answered, replies, spoke, snaps>>
  BY DEF FlushFails, FlushEnds, IInv, TypeOK, TaskTypes, stream
<1> QED
  BY <1>0, FlushEndsIs, AmbientKeeps

LEMMA FlushStartsKeeps == ASSUME IInv, NEW by \in Ambient \cup {Nobody}, FlushStarts(by) PROVE IInv'
<1>0. /\ flush' = [by |-> by, items |-> Buffered]
      /\ UNCHANGED <<at, own, row, line, answered, replies, spoke, snaps>>
  BY DEF FlushStarts, task, stream
<1>1. flush' \in Batches /\ \A m \in flush'.items : row[m] = "BUFFERED"
  BY <1>0 DEF Batches, Buffered
<1>2. TypeOK'
  BY <1>0, <1>1 DEF IInv, TypeOK, TaskTypes, StreamTypes, SnapTypes, Shaped
<1>3. Queue'
  BY <1>0 DEF IInv, Queue
<1>4. Answering'
  BY <1>0 DEF IInv, Answering, Active, Ref
<1>5. Guarding'
  BY <1>0 DEF IInv, Guarding, Active, Clear, BotWaitsForOwner
<1>6. Digesting'
  BY <1>0, <1>1 DEF IInv, Digesting, Having
<1> QED
  BY <1>2, <1>3, <1>4, <1>5, <1>6 DEF IInv

\* A function on 1..n with snapshots as its values will do for snaps.
LEMMA SpreadIs ==
    ASSUME NEW n \in Nat, snaps' = [s \in 1..n |-> snaps'[s]], \A s \in 1..n : Shaped(snaps'[s])
    PROVE  SnapTypes' /\ DOMAIN snaps' = 1..n
<1> DEFINE T == { snaps'[s] : s \in 1..n }
<1>1. snaps' \in [1..n -> T] /\ DOMAIN snaps' = 1..n
  OBVIOUS
<1> HIDE DEF T
<1>2. snaps' \in Seq(T) /\ Len(snaps') = n
  BY <1>1
<1>3. SnapTypes'
  BY <1>1, <1>2 DEF SnapTypes
<1> QED
  BY <1>1, <1>3

LEMMA SeqIs ==
    ASSUME SnapTypes, NEW snap, Shaped(snap), snaps' = Append(snaps, snap)
    PROVE  /\ SnapTypes' /\ Len(snaps) \in Nat
           /\ DOMAIN snaps = 1..Len(snaps) /\ DOMAIN snaps' = 1..(Len(snaps) + 1)
           /\ snaps'[Len(snaps) + 1] = snap
           /\ \A s \in 1..Len(snaps) : snaps'[s] = snaps[s]
<1> DEFINE T == { snaps[s] : s \in DOMAIN snaps } \cup {snap}
<1>1. Len(snaps) \in Nat /\ DOMAIN snaps = 1..Len(snaps) /\ snaps = [s \in 1..Len(snaps) |-> snaps[s]]
  BY DEF SnapTypes
<1>2. snaps \in [1..Len(snaps) -> T]
  BY <1>1
<1>3. snaps \in Seq(T) /\ snap \in T
  BY <1>1, <1>2
<1> HIDE DEF T
<1>4. /\ snaps' \in Seq(T) /\ Len(snaps') = Len(snaps) + 1
      /\ DOMAIN snaps' = 1..(Len(snaps) + 1)
      /\ snaps'[Len(snaps) + 1] = snap
      /\ \A s \in 1..Len(snaps) : snaps'[s] = snaps[s]
  BY <1>1, <1>3
<1>5. snaps' = [s \in 1..Len(snaps') |-> snaps'[s]] /\ Len(snaps') \in Nat
  <2>1. Len(snaps') \in Nat
    BY <1>1, <1>4
  <2>2. snaps' \in [1..Len(snaps') -> T]
    BY <1>4, LenProperties
  <2> QED
    BY <2>1, <2>2
<1>6. \A s \in DOMAIN snaps' : Shaped(snaps'[s])
  BY <1>1, <1>4 DEF SnapTypes
<1> QED
  BY <1>1, <1>4, <1>5, <1>6 DEF SnapTypes

LEMMA CommitsKeeps == ASSUME IInv, Commits PROVE IInv'
<1> DEFINE snap == [items |-> flush.items, status |-> "PENDING", attempts |-> 0, wait |-> 0]
<1>0. /\ flush # NoFlush /\ row' = Taken(flush.items) /\ snaps' = Append(snaps, snap)
      /\ FlushEnds /\ flush' = NoFlush
      /\ UNCHANGED <<own, line, answered, replies, spoke>>
  BY DEF Commits, FlushEnds, stream
<1>1. /\ TaskTypes /\ SnapTypes /\ row \in [Messages -> Statuses] /\ Digesting
      /\ flush \in Batches /\ flush.items \subseteq Ambient
  BY <1>0 DEF IInv, TypeOK, TaskTypes, Batches
<1>2. Shaped(snap) /\ snap.items = flush.items
  BY <1>1 DEF Shaped
<1> HIDE DEF snap
<1>3. /\ SnapTypes' /\ Len(snaps) \in Nat
      /\ DOMAIN snaps = 1..Len(snaps) /\ DOMAIN snaps' = 1..(Len(snaps) + 1)
      /\ snaps'[Len(snaps) + 1] = snap
      /\ \A s \in 1..Len(snaps) : snaps'[s] = snaps[s]
  BY <1>0, <1>1, <1>2, SeqIs
<1>4. at' \in [Messages -> Stages] /\ \A n \in Direct : at'[n] = at[n]
  BY <1>0, FlushEndsIs
<1>5. /\ row' \in [Messages -> Statuses] /\ \A n \in Direct : row'[n] = row[n]
      /\ \A n \in flush.items : row[n] = "BUFFERED" /\ row'[n] = "PROCESSED"
      /\ \A n \in Ambient : n \notin flush.items => row'[n] = row[n]
  <2>1. \A n \in flush.items : row[n] = "BUFFERED"
    BY <1>0, <1>1 DEF Digesting
  <2>2. row' = [m \in Messages |-> IF m \in flush.items /\ row[m] = "BUFFERED" THEN "PROCESSED" ELSE row[m]]
    BY <1>0 DEF Taken
  <2>3. row' \in [Messages -> Statuses]
    BY <1>1, <2>2 DEF Statuses
  <2>4. \A n \in Messages : row'[n] = IF n \in flush.items /\ row[n] = "BUFFERED" THEN "PROCESSED" ELSE row[n]
    BY <2>2
  <2>5. \A n \in Direct : n \notin flush.items
    BY <1>1, Names
  <2> QED
    BY <1>1, <2>1, <2>3, <2>4, <2>5, Names
<1>6. TypeOK'
  <2>1. TaskTypes'
    BY <1>0, <1>1, <1>4, <1>5 DEF TaskTypes
  <2> QED
    BY <1>0, <1>3, <2>1 DEF IInv, TypeOK, StreamTypes
<1>7. Queue'
  <2>1. \A i \in DOMAIN line : line[i] \in Direct
    BY <1>1 DEF TaskTypes
  <2> QED
    BY <1>0, <1>4, <2>1, QueueKeeps DEF IInv
<1>8. \A n \in Direct : Active(n)' => Active(n)
  BY <1>4 DEF Active
<1>9. Answering'
  BY <1>0, <1>1, <1>5, <1>8, AnswersKeep DEF IInv
<1>10. Guarding'
  BY <1>0, <1>4, <1>8, GuardKeeps DEF IInv, Guarding
<1>11. Digesting'
  <2>1. \A m \in Ambient : Having(m)' = IF m \in flush.items THEN Having(m) \cup {Len(snaps) + 1}
                                        ELSE Having(m)
    BY <1>2, <1>3 DEF Having
  <2>2. ASSUME NEW m \in Ambient
        PROVE  IF row'[m] = "PROCESSED" THEN \E s \in DOMAIN snaps' : Having(m)' = {s}
               ELSE Having(m)' = {}
    <3>1. CASE m \in flush.items
      <4>1. Having(m) = {} /\ row'[m] = "PROCESSED"
        BY <1>1, <1>5, <3>1 DEF Digesting
      <4>2. Having(m)' = {Len(snaps) + 1} /\ Len(snaps) + 1 \in DOMAIN snaps'
        BY <1>3, <2>1, <3>1, <4>1
      <4> QED
        BY <4>1, <4>2
    <3>2. CASE m \notin flush.items
      <4>1. row'[m] = row[m] /\ Having(m)' = Having(m) /\ DOMAIN snaps \subseteq DOMAIN snaps'
        BY <1>3, <1>5, <2>1, <3>2
      <4> QED
        BY <1>1, <4>1 DEF Digesting
    <3> QED
      BY <3>1, <3>2
  <2> QED
    BY <1>0, <2>2 DEF Digesting
<1> QED
  BY <1>6, <1>7, <1>9, <1>10, <1>11 DEF IInv

-----------------------------------------------------------------------------
(* The review of the snapshots, the clock and the connection.              *)

\* What is written into one snapshot leaves its messages alone.
LEMMA WriteIs ==
    ASSUME SnapTypes, NEW s, NEW snap, snaps' = [snaps EXCEPT ![s] = snap],
           s \in DOMAIN snaps => Shaped(snap) /\ snap.items = snaps[s].items
    PROVE  /\ SnapTypes' /\ DOMAIN snaps' = DOMAIN snaps
           /\ \A r \in DOMAIN snaps : snaps'[r].items = snaps[r].items
<1>1. Len(snaps) \in Nat /\ snaps = [r \in 1..Len(snaps) |-> snaps[r]] /\ DOMAIN snaps = 1..Len(snaps)
  BY DEF SnapTypes
<1>2. snaps' = [r \in 1..Len(snaps) |-> IF r = s THEN snap ELSE snaps[r]]
  BY <1>1
<1>3. \A r \in 1..Len(snaps) : /\ Shaped(snaps'[r])
                               /\ snaps'[r].items = snaps[r].items
  BY <1>1, <1>2 DEF SnapTypes
<1> QED
  BY <1>1, <1>2, <1>3, SpreadIs

LEMMA AfterFailureIs ==
    ASSUME NEW snap, Shaped(snap)
    PROVE  Shaped(AfterFailure(snap)) /\ AfterFailure(snap).items = snap.items
<1>1. CASE snap.status # "PENDING"
  BY <1>1 DEF AfterFailure
<1>2. CASE snap.status = "PENDING"
  <2>1. PICK n : n = snap.attempts + 1
    OBVIOUS
  <2>2. PICK status \in {"PENDING", "FAILED"} : status = IF n >= MaxAttempts THEN "FAILED" ELSE "PENDING"
    OBVIOUS
  <2>3. PICK wait : wait = IF n >= MaxAttempts THEN 0 ELSE 2 ^ (n - 1)
    OBVIOUS
  <2>4. AfterFailure(snap) = [snap EXCEPT !.attempts = n, !.status = status, !.wait = wait]
    BY <1>2, <2>1, <2>2, <2>3 DEF AfterFailure
  <2> QED
    BY <2>4 DEF Shaped
<1> QED
  BY <1>1, <1>2

LEMMA ReviewedKeeps == ASSUME IInv, Reviewed PROVE IInv'
<1>0. /\ SnapTypes /\ UNCHANGED <<at, own, row, line, answered, replies, spoke, flush>>
      /\ snaps' = [snaps EXCEPT ![review.of].status = IF @ = "GONE" THEN @ ELSE "PROCESSED"]
  BY DEF Reviewed, IInv, TypeOK, task, stream
<1>1. PICK s : s = review.of
  OBVIOUS
<1>2. PICK status : status = IF snaps[s].status = "GONE" THEN snaps[s].status ELSE "PROCESSED"
  OBVIOUS
<1>3. snaps' = [snaps EXCEPT ![s] = [snaps[s] EXCEPT !.status = status]]
  BY <1>0, <1>1, <1>2
<1>4. ASSUME s \in DOMAIN snaps
      PROVE  /\ Shaped([snaps[s] EXCEPT !.status = status])
             /\ [snaps[s] EXCEPT !.status = status].items = snaps[s].items
  BY <1>0, <1>2, <1>4 DEF SnapTypes, Shaped
<1> QED
  BY <1>0, <1>3, <1>4, WriteIs, SnapStepKeeps

LEMMA ReviewFailsKeeps == ASSUME IInv, ReviewFails PROVE IInv'
<1>0. /\ SnapTypes /\ UNCHANGED <<at, own, row, line, answered, replies, spoke, flush>>
      /\ snaps' = [snaps EXCEPT ![review.of] = AfterFailure(snaps[review.of])]
  BY DEF ReviewFails, IInv, TypeOK, task, stream
<1>1. review.of \in DOMAIN snaps => Shaped(snaps[review.of])
  BY <1>0 DEF SnapTypes
<1> QED
  BY <1>0, <1>1, AfterFailureIs, WriteIs, SnapStepKeeps

LEMMA ExpiresKeeps == ASSUME IInv, NEW s \in DOMAIN snaps, Expires(s) PROVE IInv'
<1>0. /\ SnapTypes /\ UNCHANGED <<at, own, row, line, answered, replies, spoke, flush>>
      /\ snaps' = [snaps EXCEPT ![s] = [snaps[s] EXCEPT !.status = "GONE", !.wait = 0]]
  BY DEF Expires, IInv, TypeOK, task, stream
<1>1. /\ Shaped([snaps[s] EXCEPT !.status = "GONE", !.wait = 0])
      /\ [snaps[s] EXCEPT !.status = "GONE", !.wait = 0].items = snaps[s].items
  BY <1>0 DEF SnapTypes, Shaped
<1> QED
  BY <1>0, <1>1, WriteIs, SnapStepKeeps

LEMMA TimePassesKeeps == ASSUME IInv, TimePasses PROVE IInv'
<1>0. /\ SnapTypes /\ UNCHANGED <<at, own, row, line, answered, replies, spoke, flush>>
      /\ snaps' = [s \in DOMAIN snaps |-> [snaps[s] EXCEPT !.wait = IF snaps[s].wait > 0
                                                                     THEN snaps[s].wait - 1 ELSE 0]]
  BY DEF TimePasses, IInv, TypeOK, task, stream
<1>1. Len(snaps) \in Nat /\ DOMAIN snaps = 1..Len(snaps)
  BY <1>0 DEF SnapTypes
<1>2. ASSUME NEW s \in DOMAIN snaps
      PROVE  Shaped(snaps'[s]) /\ snaps'[s].items = snaps[s].items
  <2>1. PICK w : w = IF snaps[s].wait > 0 THEN snaps[s].wait - 1 ELSE 0
    OBVIOUS
  <2>2. snaps'[s] = [snaps[s] EXCEPT !.wait = w]
    BY <1>0, <2>1
  <2> QED
    BY <1>0, <2>2 DEF SnapTypes, Shaped
<1>3. SnapTypes' /\ DOMAIN snaps' = DOMAIN snaps
  BY <1>0, <1>1, <1>2, SpreadIs
<1> QED
  BY <1>0, <1>2, <1>3, SnapStepKeeps

\* A step of the connection or of the review that writes no snapshot.
LEMMA CalmKeeps ==
    ASSUME IInv, ReviewStarts \/ ReviewTalks \/ ReviewCancelled \/ CoolsDown \/ Reconnect
    PROVE  IInv'
<1>1. UNCHANGED <<at, own, row, line, answered, replies, spoke, flush, snaps>>
  BY DEF ReviewStarts, ReviewTalks, ReviewCancelled, CoolsDown, Reconnect, task, stream, social
<1>2. SnapTypes'
  BY <1>1 DEF IInv, TypeOK, SnapTypes, Shaped
<1> QED
  BY <1>1, <1>2, SnapStepKeeps

LEMMA DisconnectKeeps == ASSUME IInv, Disconnect PROVE IInv'
<1>1. TasksEnd /\ flush' \in {flush, NoFlush} /\ UNCHANGED <<row, replies, spoke, snaps, answered>>
  BY DEF Disconnect, stream
<1> QED
  BY <1>1, TasksEndKeeps

LEMMA CrashKeeps == ASSUME IInv, Crash PROVE IInv'
<1>1. /\ TasksEnd /\ flush' \in {flush, NoFlush} /\ UNCHANGED <<replies, spoke, snaps, answered>>
      /\ row' = [m \in Messages |-> IF row[m] = "PENDING" THEN "FAILED" ELSE row[m]]
  BY DEF Crash, stream
<1> QED
  BY <1>1, TasksEndKeeps

-----------------------------------------------------------------------------
(* The theorems.                                                           *)

LEMMA InitHolds == Init => IInv
<1> SUFFICES ASSUME Init PROVE IInv
  OBVIOUS
<1>1. PICK load \in Loads : at = [m \in Messages |-> IF m \in load THEN "away" ELSE "over"]
  BY DEF Init
<1>2. at \in [Messages -> Stages] /\ \A m \in Messages : at[m] \in {"away", "over"}
  BY <1>1 DEF Stages
<1>3. own \in [Direct -> Tasks] /\ \A m \in Direct : own[m].seen = 0
  BY FreshIs DEF Init
<1>4. row \in [Messages -> Statuses] /\ \A m \in Messages : row[m] = "none"
  BY DEF Init, Statuses
<1>5. /\ line = <<>> /\ replies = <<>> /\ spoke = -1 /\ flush = NoFlush /\ snaps = <<>>
      /\ answered \in [Direct -> Nat] /\ \A m \in Direct : answered[m] = 0
  BY DEF Init
<1>6. TypeOK
  BY <1>2, <1>3, <1>4, <1>5, Names DEF TypeOK, TaskTypes, StreamTypes, SnapTypes
<1>7. \A m \in Direct : ~Active(m) /\ at[m] \notin {"reply", "sending"}
  BY <1>2, Names DEF Active
<1>8. Queue /\ Answering
  BY <1>5, <1>7 DEF Queue, Answering
<1>9. Guarding
  BY <1>3, <1>5, <1>7 DEF Guarding, BotWaitsForOwner
<1>10. Digesting
  BY <1>4, <1>5, Names DEF Digesting, Having
<1> QED
  BY <1>6, <1>8, <1>9, <1>10 DEF IInv

LEMMA StepKeeps == IInv /\ [Next]_vars => IInv'
<1> SUFFICES ASSUME IInv, [Next]_vars PROVE IInv'
  OBVIOUS
<1>1. ASSUME NEW m \in Direct, Arrive(m) \/ Handles(m) PROVE IInv'
  BY <1>1, ArriveKeeps, IngestKeeps, EntersKeeps, HandlesKeeps, SendsKeeps, RecordedKeeps DEF Handles
<1>2. ASSUME NEW m \in Ambient, Overhear(m) \/ FlushSkips(m) PROVE IInv'
  BY <1>2, OverhearKeeps, FlushSkipsKeeps
<1>3. ASSUME NEW m \in Messages, ComesAgain(m) PROVE IInv'
  BY <1>3, ComesAgainKeeps
<1>4. CASE Digests \/ FlushFails
  BY <1>4, CommitsKeeps, FlushStartsKeeps, FlushFailsKeeps DEF Digests
<1>5. CASE Reviews \/ CoolsDown \/ Reconnect
  BY <1>5, CalmKeeps, ReviewedKeeps, ReviewFailsKeeps DEF Reviews
<1>6. CASE TimePasses \/ \E s \in DOMAIN snaps : Expires(s)
  BY <1>6, TimePassesKeeps, ExpiresKeeps
<1>7. CASE Disconnect \/ Crash
  BY <1>7, DisconnectKeeps, CrashKeeps
<1>8. CASE UNCHANGED vars
  <2>1. UNCHANGED <<at, own, row, line, answered, replies, spoke, flush, snaps>>
    BY <1>8 DEF vars, task, stream, social
  <2>2. SnapTypes'
    BY <2>1 DEF IInv, TypeOK, SnapTypes, Shaped
  <2> QED
    BY <2>1, <2>2, SnapStepKeeps
<1> QED
  BY <1>1, <1>2, <1>3, <1>4, <1>5, <1>6, <1>7, <1>8 DEF Next

\* The state of the messages, of the stream and of the snapshots, as IInv says it,
\* after any sequence of arrivals, lost connections, restarts and failures.
THEOREM PerceptionInvariance == Spec => []IInv
<1>1. Init => IInv
  BY InitHolds
<1>2. IInv /\ [Next]_vars => IInv'
  BY StepKeeps
<1> QED
  BY <1>1, <1>2, PTL DEF Spec

\* However often a message comes and whatever is lost in between, its row is
\* answered at most once.
THEOREM OneAnswerPerMessage == Spec => []AnsweredOnce
<1>1. IInv => AnsweredOnce
  BY DEF IInv, Answering, AnsweredOnce
<1> QED
  BY <1>1, PerceptionInvariance, PTL

\* A bot that has been answered is not answered again before the owner was heard,
\* unless its message had arrived before the answer was recorded, or the guard no longer
\* saw that answer among the newest ones in the group.
THEOREM BotsAreKeptWaiting == Spec => []BotWaitsForOwner
<1>1. IInv => BotWaitsForOwner
  BY DEF IInv, Guarding
<1> QED
  BY <1>1, PerceptionInvariance, PTL

\* What the group says is digested exactly once, whatever happens to the task, the
\* batch or the process that digests it.
THEOREM TalkIsDigestedOnce == Spec => []DigestedOnce
<1>1. IInv => DigestedOnce
  <2> SUFFICES ASSUME IInv, NEW m \in Ambient
               PROVE  Cardinality(Having(m)) = IF row[m] = "PROCESSED" THEN 1 ELSE 0
    BY DEF DigestedOnce, Having
  <2>1. CASE row[m] = "PROCESSED"
    <3>1. PICK s \in DOMAIN snaps : Having(m) = {s}
      BY <2>1 DEF IInv, Digesting
    <3> QED
      BY <2>1, <3>1, FS_Singleton
  <2>2. CASE row[m] # "PROCESSED"
    <3>1. Having(m) = {}
      BY <2>2 DEF IInv, Digesting
    <3> QED
      BY <2>2, <3>1, FS_EmptySet
  <2> QED
    BY <2>1, <2>2
<1> QED
  BY <1>1, PerceptionInvariance, PTL
-----------------------------------------------------------------------------
(* Unasked remarks (module Beat).                                          *)

CONSTANTS Initial, Maximum, MaxStamps, MaxCalls, MaxBeats
VARIABLES clock, presence, since, touched, session, calls, turn, speaker, stored, shown,
          unanswered, unpaid
B == INSTANCE Beat WITH worker <- speaker


\* Nothing is stamped later than the clock, and only a live conversation has a start.
Stamps ==
    /\ since <= clock /\ touched <= clock
    /\ session.started <= clock /\ session.last <= clock
    /\ speaker.started <= clock /\ speaker.last <= clock
    /\ \A r \in stored : r.started <= clock
    /\ presence = "active" <=> since # 0
    /\ session # B!NoSession => session.started # 0

\* The conversation's session is the one of this moment.
InStep == session.started = since

\* What the speaker knows of the conversation it thinks of a remark for.
Underway ==
    speaker.at \in {"model", "deliver"} =>
        /\ speaker.started # 0
        /\ speaker.started = since => InStep
        /\ speaker.started = session.started => session.beats = speaker.beat
        /\ \A r \in stored : r.started = speaker.started => r.beat < speaker.beat

\* A word of the owner's is seen by the token, or the conversation is another.
Heard ==
    /\ speaker.at = "model" /\ speaker.changed = "said" =>
          speaker.started # since \/ session.last > speaker.last
    /\ speaker.at = "deliver" => speaker.changed # "said"
    /\ speaker.at = "pending" => speaker.changed = "no"

\* The lock is held for a remark that is being delivered.
Locked == speaker.at = "deliver" <=> turn = "beat"

\* Numbers are given out once in a conversation.
Numbered ==
    \A r \in stored :
        /\ r.started # 0
        /\ r.started = session.started => r.beat <= session.beats
        /\ since # 0 /\ ~InStep => r.started # since

\* What was said unasked was taken from the budget, but for a remark cut short.
Paid ==
    /\ session.budget <= Maximum
    /\ unpaid <= 1 /\ unanswered <= Maximum + unpaid
    /\ since # 0 /\ InStep  => session.budget + unanswered <= Maximum + unpaid
    /\ since # 0 /\ ~InStep => unanswered <= unpaid
    /\ speaker.at # "rest" /\ speaker.forced => unanswered = 0
    /\ speaker.at = "deliver" /\ ~speaker.forced /\ speaker.started = since => session.budget >= 1

BeatInv == B!TypeOK /\ Stamps /\ Underway /\ Heard /\ Locked /\ Numbered /\ Paid

-----------------------------------------------------------------------------
(* The session.                                                            *)

\* Synchronised, the session is that of the conversation which became active at start:
\* the one there was, if it is that one, or a new one with a full budget.
LEMMA SyncedSession ==
    ASSUME B!BudgetAssumption, B!TypeOK, NEW start \in Nat, NEW touch \in Nat,
           NEW s, s \in B!Seen(B!Synced("active", start, touch)) \/ s = B!Synced("active", start, touch)
    PROVE  /\ s \in B!Sessions /\ s.started = start
           /\ session.started = start =>
                 s.last = session.last /\ s.budget = session.budget /\ s.beats = session.beats
           /\ session.started # start => s.last = touch /\ s.budget <= Maximum /\ s.beats = 0
<1> DEFINE t == B!Synced("active", start, touch)
<1>1. /\ t \in B!Sessions /\ t.started = start
      /\ session.started = start => t = session
      /\ session.started # start => t.last = touch /\ t.budget <= Maximum /\ t.beats = 0
  <2>1. /\ B!Least(Initial, Maximum) \in Nat /\ B!Least(Initial, Maximum) <= Maximum
        /\ Initial \in Nat /\ Maximum \in Nat
    BY DEF B!Least, B!BudgetAssumption
  <2>3. /\ B!Fresh(start, touch) \in B!Sessions /\ B!Fresh(start, touch).started = start
        /\ B!Fresh(start, touch).last = touch /\ B!Fresh(start, touch).beats = 0
        /\ B!Fresh(start, touch).budget = B!Least(Initial, Maximum)
    BY <2>1 DEF B!Fresh, B!Sessions
  <2>4. t = IF session.started # start THEN B!Fresh(start, touch) ELSE session
    BY DEF B!Synced
  <2> QED BY <2>1, <2>3, <2>4 DEF B!TypeOK
<1>2. s = t \/ s = [t EXCEPT !.awaiting = TRUE]
  BY DEF B!Seen
<1> HIDE DEF t
<1> QED BY <1>1, <1>2 DEF B!Sessions

\* Noting the owner's words renews the last stamp and pays for at most one remark.
LEMMA NotedSession ==
    ASSUME B!BudgetAssumption, B!TypeOK, NEW s \in B!Sessions, NEW text \in BOOLEAN
    PROVE  /\ B!Noted(s, text) \in B!Sessions
           /\ B!Noted(s, text).started = s.started /\ B!Noted(s, text).beats = s.beats
           /\ B!Noted(s, text).last = clock + 1
           /\ s.budget <= Maximum => B!Noted(s, text).budget <= Maximum
<1> DEFINE paid == B!Least(Maximum, s.budget + 1)
           budget == IF s.awaiting /\ text THEN paid ELSE s.budget
           awaiting == s.awaiting /\ ~text
<1>1. /\ s.started \in Nat /\ s.beats \in Nat /\ s.budget \in Int /\ s.awaiting \in BOOLEAN
      /\ clock + 1 \in Nat /\ Maximum \in Int
  BY DEF B!Sessions, B!TypeOK, B!BudgetAssumption
<1>2. paid \in Int /\ paid <= Maximum
  BY <1>1 DEF B!Least
<1>3. budget \in Int /\ (s.budget <= Maximum => budget <= Maximum)
  BY <1>1, <1>2
<1>4. awaiting \in BOOLEAN
  BY <1>1
<1>5. B!Noted(s, text) = [started |-> s.started, last |-> clock + 1, budget |-> budget,
                        beats |-> s.beats, awaiting |-> awaiting]
  BY DEF B!Noted
<1> HIDE DEF budget, awaiting
<1> QED BY <1>1, <1>3, <1>4, <1>5 DEF B!Sessions

LEMMA TypeInit == B!BudgetAssumption /\ B!Init => B!TypeOK
  BY DEF B!Init, B!TypeOK, B!NoSession, B!Rest, B!Worker, B!Sessions, B!Remarks

\* Every step keeps the state well formed.
LEMMA TypeStep == B!BudgetAssumption /\ B!TypeOK /\ [B!Next]_(B!vars) => B!TypeOK'
<1> SUFFICES ASSUME B!BudgetAssumption, B!TypeOK, [B!Next]_(B!vars) PROVE B!TypeOK'
  OBVIOUS
<1> USE DEF B!TypeOK, B!place, B!count
<1>1. ASSUME B!Enter PROVE B!TypeOK'
  <2>1. B!Remark \in B!Remarks
    BY DEF B!Remark, B!Remarks
  <2>2. stored' \subseteq B!Remarks
    BY <1>1, <2>1 DEF B!Enter
  <2>3. unanswered' \in {0, 1} /\ unpaid' \in {0, 1}
    BY <1>1 DEF B!Enter
  <2>4. B!Rest \in [at : {"rest", "pending", "model", "deliver"}, forced : BOOLEAN, started : Nat,
                 last : Nat, beat : Nat, changed : {"no", "said", "cleared"}]
    BY DEF B!Rest, B!Worker
  <2>5. clock' \in Nat /\ since' \in Nat /\ touched' \in Nat /\ calls' \in Nat
    BY <1>1 DEF B!Enter, B!Interacts, B!Stamped, B!ActiveSince
  <2> QED BY <1>1, <2>2, <2>3, <2>4, <2>5 DEF B!Enter, B!Interacts, B!Freed
<1>2. ASSUME NEW text \in BOOLEAN, B!Speaks(text) PROVE B!TypeOK'
  <2> DEFINE s == B!Synced("active", B!ActiveSince, clock + 1)
  <2>1. s \in B!Sessions
    BY SyncedSession DEF B!ActiveSince
  <2>2. B!Noted(s, text) \in B!Sessions
    BY <2>1, NotedSession
  <2> QED BY <1>2, <2>2 DEF B!Speaks, B!Interacts, B!Stamped, B!ActiveSince, B!Overtaken
<1>3. ASSUME B!OtherTurn \/ B!TurnEnds \/ B!Exit \/ B!Cools \/ B!Retimed PROVE B!TypeOK'
  BY <1>3 DEF B!OtherTurn, B!TurnEnds, B!Exit, B!Cools, B!Retimed, B!Stamped
<1>4. ASSUME B!Clear PROVE B!TypeOK'
  BY <1>4 DEF B!Clear, B!NoSession, B!Sessions, B!Overtaken
<1>5. ASSUME B!Looks PROVE B!TypeOK'
  <2>1. B!Synced(presence, since, touched) \in B!Sessions
    BY SyncedSession DEF B!Synced, B!NoSession, B!Sessions
  <2> QED BY <1>5, <2>1 DEF B!Looks
<1>6. ASSUME B!Tick PROVE B!TypeOK'
  BY <1>6, SyncedSession DEF B!Tick, B!Worker
<1>7. ASSUME B!Poke PROVE B!TypeOK'
  <2> DEFINE s == B!Synced("active", B!ActiveSince, clock + 1)
  <2>1. s \in B!Sessions
    BY SyncedSession DEF B!ActiveSince
  <2>2. session' \in B!Sessions
    BY <1>7, <2>1 DEF B!Poke, B!Sessions
  <2> QED BY <1>7, <2>2 DEF B!Poke, B!Interacts, B!Stamped, B!ActiveSince, B!Worker
<1>8. ASSUME B!Reserve PROVE B!TypeOK'
  <2>1. /\ session.started \in Nat /\ session.last \in Nat /\ session.beats \in Nat
        /\ session.beats + 1 \in Nat
    BY DEF B!Sessions
  <2>2. session' \in B!Sessions
    BY <1>8, <2>1 DEF B!Reserve, B!Sessions
  <2> QED BY <1>8, <2>1, <2>2 DEF B!Reserve
<1>9. ASSUME B!GivesUp PROVE B!TypeOK'
  BY <1>9 DEF B!GivesUp, B!Rest, B!Worker, B!Freed
<1>10. ASSUME B!Send PROVE B!TypeOK'
  <2>1. session' \in B!Sessions
    BY <1>10, SyncedSession DEF B!Send
  <2> QED BY <1>10, <2>1 DEF B!Send, B!Sessions
<1>11. ASSUME B!Deliver PROVE B!TypeOK'
  <2>1. B!Remark \in B!Remarks
    BY DEF B!Remark, B!Remarks
  <2>2. stored' \subseteq B!Remarks /\ shown' \subseteq B!Remarks
    BY <1>11, <2>1 DEF B!Deliver
  <2>3. unanswered' \in Nat
    BY <1>11 DEF B!Deliver
  <2>4. session.budget - 1 \in Int
    BY DEF B!Sessions
  <2>5. session' \in B!Sessions
    BY <1>11, <2>4 DEF B!Deliver, B!Sessions
  <2> QED BY <1>11, <2>2, <2>3, <2>5 DEF B!Deliver, B!Rest, B!Worker
<1>12. ASSUME B!Crash PROVE B!TypeOK'
  BY <1>12 DEF B!Crash, B!NoSession, B!Sessions, B!Rest, B!Worker
<1>13. ASSUME UNCHANGED B!vars PROVE B!TypeOK'
  BY <1>13 DEF B!vars
<1> QED BY <1>1, <1>2, <1>3, <1>4, <1>5, <1>6, <1>7, <1>8, <1>9, <1>10, <1>11, <1>12, <1>13
       DEF B!Next

-----------------------------------------------------------------------------
(* The invariant, part by part.                                            *)

LEMMA InvInit == B!BudgetAssumption /\ B!Init => BeatInv
<1> SUFFICES ASSUME B!BudgetAssumption, B!Init PROVE BeatInv
  OBVIOUS
<1>1. B!TypeOK
  BY TypeInit
<1>2. Stamps /\ Underway /\ Heard /\ Locked /\ Numbered /\ Paid
  BY DEF B!Init, B!NoSession, B!Rest, B!Worker, Stamps, Underway, Heard, Locked, Numbered, Paid, InStep,
         B!BudgetAssumption
<1> QED BY <1>1, <1>2 DEF BeatInv

\* The owner's touch: a conversation begins now or goes on.
LEMMA InteractsFacts ==
    ASSUME B!TypeOK, Stamps, B!Interacts
    PROVE  /\ clock' = clock + 1 /\ touched' = clock + 1 /\ presence' = "active"
           /\ since' = B!ActiveSince /\ since' \in Nat /\ since' # 0 /\ since' <= clock + 1
           /\ since' = since \/ since' = clock + 1
  BY DEF B!TypeOK, Stamps, B!Interacts, B!Stamped, B!ActiveSince

\* Time only goes on, and a start is given out once.
LEMMA StampsStep ==
    ASSUME B!BudgetAssumption, B!TypeOK, B!TypeOK', Stamps, [B!Next]_(B!vars)
    PROVE  Stamps'
<1> USE DEF B!TypeOK, Stamps, B!place, B!count, B!Sessions
<1>1. ASSUME B!Enter PROVE Stamps'
  <2>1. \A r \in stored' : r.started <= clock
    BY <1>1 DEF B!Enter, B!Remark
  <2>2. speaker'.started <= clock /\ speaker'.last <= clock
    BY <1>1 DEF B!Enter, B!Rest, B!Worker
  <2>3. B!Interacts /\ session' = session
    BY <1>1 DEF B!Enter
  <2> QED BY <2>1, <2>2, <2>3, InteractsFacts DEF B!Remarks
<1>2. ASSUME NEW text \in BOOLEAN, B!Speaks(text) PROVE Stamps'
  <2> DEFINE s == B!Synced("active", B!ActiveSince, clock + 1)
  <2>1. B!Interacts /\ stored' = stored /\ session' = B!Noted(s, text)
    BY <1>2 DEF B!Speaks
  <2>2. s \in B!Sessions /\ s.started = B!ActiveSince
    BY SyncedSession DEF B!ActiveSince
  <2>3. session'.started = since' /\ session'.last = clock + 1
    BY <2>1, <2>2, NotedSession, InteractsFacts
  <2>4. speaker'.started = speaker.started /\ speaker'.last = speaker.last
    BY <1>2 DEF B!Speaks, B!Overtaken
  <2> QED BY <2>1, <2>3, <2>4, InteractsFacts DEF B!Remarks
<1>3. ASSUME B!OtherTurn \/ B!TurnEnds \/ B!Exit \/ B!Cools \/ B!Retimed PROVE Stamps'
  BY <1>3 DEF B!OtherTurn, B!TurnEnds, B!Exit, B!Cools, B!Retimed, B!Stamped, B!Remarks
<1>4. ASSUME B!Clear PROVE Stamps'
  BY <1>4 DEF B!Clear, B!NoSession, B!Overtaken, B!Remarks
<1>5. ASSUME B!Looks PROVE Stamps'
  <2>1. presence # "active" => session' = B!NoSession
    BY <1>5 DEF B!Looks, B!Synced
  <2>2. presence = "active" => session'.started = since /\ session'.last <= clock
    BY <1>5, SyncedSession DEF B!Looks
  <2> QED BY <1>5, <2>1, <2>2 DEF B!Looks, B!NoSession, B!Remarks
<1>6. ASSUME B!Tick PROVE Stamps'
  <2>1. session'.started = since /\ session'.last <= clock
    BY <1>6, SyncedSession DEF B!Tick
  <2> QED BY <1>6, <2>1 DEF B!Tick, B!Worker, B!Remarks
<1>7. ASSUME B!Poke PROVE Stamps'
  <2> DEFINE s == B!Synced("active", B!ActiveSince, clock + 1)
  <2>1. B!Interacts /\ stored' = stored
    BY <1>7 DEF B!Poke
  <2>2. s \in B!Sessions /\ s.started = B!ActiveSince /\ s.last <= clock + 1
    BY SyncedSession DEF B!ActiveSince
  <2>3. session'.started = s.started /\ session'.last = s.last
    BY <1>7, <2>2 DEF B!Poke
  <2> QED BY <1>7, <2>1, <2>2, <2>3, InteractsFacts DEF B!Poke, B!Worker, B!Remarks
<1>8. ASSUME B!Reserve PROVE Stamps'
  <2>1. session'.started = session.started /\ session'.last = session.last
    BY <1>8 DEF B!Reserve
  <2>2. speaker'.started = session.started /\ speaker'.last = session.last
    BY <1>8 DEF B!Reserve
  <2> QED BY <1>8, <2>1, <2>2 DEF B!Reserve, B!Remarks
<1>9. ASSUME B!GivesUp PROVE Stamps'
  BY <1>9 DEF B!GivesUp, B!Rest, B!Worker, B!Remarks
<1>10. ASSUME B!Send PROVE Stamps'
  <2>1. session'.started = since /\ session'.last <= clock
    BY <1>10, SyncedSession DEF B!Send
  <2>2. speaker'.started = speaker.started /\ speaker'.last = speaker.last
    BY <1>10 DEF B!Send
  <2> QED BY <1>10, <2>1, <2>2 DEF B!Send, B!Remarks
<1>11. ASSUME B!Deliver PROVE Stamps'
  <2>1. session'.started = session.started /\ session'.last = session.last
    BY <1>11 DEF B!Deliver
  <2>2. \A r \in stored' : r.started <= clock
    BY <1>11 DEF B!Deliver, B!Remark
  <2> QED BY <1>11, <2>1, <2>2 DEF B!Deliver, B!Rest, B!Worker, B!NoSession
<1>12. ASSUME B!Crash PROVE Stamps'
  BY <1>12 DEF B!Crash, B!NoSession, B!Rest, B!Worker, B!Remarks
<1>13. ASSUME UNCHANGED B!vars PROVE Stamps'
  BY <1>13 DEF B!vars
<1> QED BY <1>1, <1>2, <1>3, <1>4, <1>5, <1>6, <1>7, <1>8, <1>9, <1>10, <1>11, <1>12, <1>13
       DEF B!Next

\* What a word of the owner's does to the session.
LEMMA SpeaksFacts ==
    ASSUME B!BudgetAssumption, B!TypeOK, Stamps, NEW text \in BOOLEAN, B!Speaks(text)
    PROVE  /\ session'.started = since' /\ session'.last = clock + 1
           /\ session.started = since' => session'.beats = session.beats
           /\ session.started # since' => session'.beats = 0
           /\ session.budget <= Maximum => session'.budget <= Maximum
           /\ speaker' = B!Overtaken("said") /\ stored' = stored
<1> DEFINE s == B!Synced("active", B!ActiveSince, clock + 1)
<1>1. B!Interacts /\ stored' = stored /\ session' = B!Noted(s, text) /\ speaker' = B!Overtaken("said")
  BY DEF B!Speaks
<1>2. /\ s \in B!Sessions /\ s.started = B!ActiveSince
      /\ session.started = B!ActiveSince => s.beats = session.beats /\ s.budget = session.budget
      /\ session.started # B!ActiveSince => s.beats = 0 /\ s.budget <= Maximum
  BY SyncedSession DEF B!ActiveSince, B!TypeOK
<1> HIDE DEF s
<1> QED BY <1>1, <1>2, NotedSession, InteractsFacts

\* What the owner's asking for a remark does to it.
LEMMA PokeFacts ==
    ASSUME B!BudgetAssumption, B!TypeOK, Stamps, B!Poke
    PROVE  /\ session'.started = since'
           /\ session.started = since' => session'.beats = session.beats
           /\ session.started # since' => session'.beats = 0
           /\ session.budget <= Maximum => session'.budget <= Maximum
<1> DEFINE s == B!Synced("active", B!ActiveSince, clock + 1)
<1>1. B!Interacts /\ session' = [s EXCEPT !.budget = IF @ >= 1 THEN @ ELSE 1]
  BY DEF B!Poke
<1>2. /\ s \in B!Sessions /\ s.started = B!ActiveSince
      /\ session.started = B!ActiveSince => s.beats = session.beats /\ s.budget = session.budget
      /\ session.started # B!ActiveSince => s.beats = 0 /\ s.budget <= Maximum
  BY SyncedSession DEF B!ActiveSince, B!TypeOK
<1> HIDE DEF s
<1>3. /\ session'.started = s.started /\ session'.beats = s.beats
      /\ session'.budget = IF s.budget >= 1 THEN s.budget ELSE 1
  BY <1>1, <1>2 DEF B!Sessions
<1> QED BY <1>1, <1>2, <1>3, InteractsFacts DEF B!BudgetAssumption, B!Sessions

\* The remark in delivery is the one that holds the lock.
LEMMA LockedStep == B!TypeOK /\ Locked /\ [B!Next]_(B!vars) => Locked'
<1> SUFFICES ASSUME B!TypeOK, Locked, [B!Next]_(B!vars) PROVE Locked'
  OBVIOUS
<1> USE DEF B!TypeOK, Locked, B!place, B!count
<1>1. ASSUME B!Enter \/ B!GivesUp \/ B!Deliver PROVE Locked'
  BY <1>1 DEF B!Enter, B!GivesUp, B!Deliver, B!Freed, B!Rest, B!Worker
<1>2. ASSUME NEW text \in BOOLEAN, B!Speaks(text) PROVE Locked'
  BY <1>2 DEF B!Speaks, B!Overtaken
<1>3. ASSUME B!OtherTurn \/ B!TurnEnds \/ B!Exit \/ B!Cools \/ B!Retimed \/ B!Looks PROVE Locked'
  BY <1>3 DEF B!OtherTurn, B!TurnEnds, B!Exit, B!Cools, B!Retimed, B!Looks
<1>4. ASSUME B!Clear PROVE Locked'
  BY <1>4 DEF B!Clear, B!Overtaken
<1>5. ASSUME B!Tick \/ B!Poke \/ B!Crash PROVE Locked'
  BY <1>5 DEF B!Tick, B!Poke, B!Crash, B!Rest, B!Worker
<1>6. ASSUME B!Reserve \/ B!Send PROVE Locked'
  BY <1>6 DEF B!Reserve, B!Send
<1>7. ASSUME UNCHANGED B!vars PROVE Locked'
  BY <1>7 DEF B!vars
<1> QED BY <1>1, <1>2, <1>3, <1>4, <1>5, <1>6, <1>7 DEF B!Next

\* The speaker's token and number stay those of its conversation.
LEMMA BegunStep ==
    ASSUME B!BudgetAssumption, BeatInv, [B!Next]_(B!vars)
    PROVE  Underway'
<1> USE DEF BeatInv, B!TypeOK, Stamps, Underway, InStep, B!place, B!count
<1>1. ASSUME B!Enter PROVE Underway'
  <2>1. CASE speaker.at = "rest" \/ speaker.forced
    <3>1. /\ speaker' = speaker /\ session' = session /\ stored' = stored /\ B!Interacts
      BY <1>1, <2>1 DEF B!Enter
    <3> QED BY <3>1, InteractsFacts DEF B!Sessions
  <2>2. CASE ~(speaker.at = "rest" \/ speaker.forced)
    BY <1>1, <2>2 DEF B!Enter, B!Rest, B!Worker
  <2> QED BY <2>1, <2>2
<1>2. ASSUME NEW text \in BOOLEAN, B!Speaks(text) PROVE Underway'
  <2>1. /\ speaker'.at = speaker.at /\ speaker'.started = speaker.started
        /\ speaker'.beat = speaker.beat /\ stored' = stored
    BY <1>2, SpeaksFacts DEF B!Overtaken
  <2>2. B!Interacts
    BY <1>2 DEF B!Speaks
  <2> QED BY <1>2, <2>1, <2>2, SpeaksFacts, InteractsFacts
<1>3. ASSUME B!OtherTurn \/ B!TurnEnds \/ B!Exit \/ B!Cools \/ B!Retimed PROVE Underway'
  BY <1>3 DEF B!OtherTurn, B!TurnEnds, B!Exit, B!Cools, B!Retimed, B!Stamped
<1>4. ASSUME B!Clear PROVE Underway'
  BY <1>4 DEF B!Clear, B!NoSession, B!Overtaken
<1>5. ASSUME B!Looks PROVE Underway'
  <2>1. presence # "active" => session' = B!NoSession
    BY <1>5 DEF B!Looks, B!Synced
  <2>2. presence = "active" => /\ session'.started = since
                               /\ InStep => session'.beats = session.beats
    BY <1>5, SyncedSession DEF B!Looks
  <2> QED BY <1>5, <2>1, <2>2 DEF B!Looks, B!NoSession
<1>6. ASSUME B!Tick \/ B!Poke PROVE Underway'
  BY <1>6 DEF B!Tick, B!Poke, B!Worker
<1>7. ASSUME B!Reserve PROVE Underway'
  <2>1. session'.started = session.started /\ session'.beats = session.beats + 1
    BY <1>7 DEF B!Reserve, B!Sessions
  <2>2. speaker'.started = session.started /\ speaker'.beat = session.beats + 1
    BY <1>7 DEF B!Reserve
  <2>3. \A r \in stored : r.started = session.started => r.beat <= session.beats
    BY DEF Numbered
  <2>4. \A r \in stored' : r.started = speaker'.started => r.beat < speaker'.beat
    BY <1>7, <2>2, <2>3 DEF B!Reserve, B!Sessions, B!Remarks
  <2> QED BY <1>7, <2>1, <2>2, <2>4 DEF B!Reserve
<1>8. ASSUME B!GivesUp \/ B!Deliver \/ B!Crash PROVE Underway'
  BY <1>8 DEF B!GivesUp, B!Deliver, B!Crash, B!Rest, B!Worker
<1>9. ASSUME B!Send PROVE Underway'
  <2>1. /\ session'.started = since
        /\ InStep => session'.beats = session.beats
    BY <1>9, SyncedSession DEF B!Send
  <2>2. speaker'.started = speaker.started /\ speaker'.beat = session'.beats
    BY <1>9 DEF B!Send
  <2>3. speaker.started = since
    BY <1>9, <2>1 DEF B!Send, B!SameMoment
  <2> QED BY <1>9, <2>1, <2>2, <2>3 DEF B!Send
<1>10. ASSUME UNCHANGED B!vars PROVE Underway'
  BY <1>10 DEF B!vars
<1> QED BY <1>1, <1>2, <1>3, <1>4, <1>5, <1>6, <1>7, <1>8, <1>9, <1>10 DEF B!Next

\* A synchronised session, as the steps that look at the conversation make it.
LEMMA LooksFacts ==
    ASSUME B!BudgetAssumption, BeatInv, session' \in B!Seen(B!Synced(presence, since, touched)),
           presence = "active"
    PROVE  /\ session'.started = since
           /\ InStep => /\ session'.last = session.last /\ session'.budget = session.budget
                        /\ session'.beats = session.beats
           /\ ~InStep => session'.budget <= Maximum /\ session'.beats = 0
  BY SyncedSession DEF BeatInv, B!TypeOK, InStep

\* diagnostics, gate and note_assistant may find the conversation over.
LEMMA LooksCases ==
    ASSUME BeatInv, B!Looks
    PROVE  \/ presence = "active" /\ session' \in B!Seen(B!Synced(presence, since, touched))
           \/ presence # "active" /\ since = 0 /\ session' = B!NoSession
  BY DEF B!Looks, B!Seen, B!Synced, BeatInv, B!TypeOK, Stamps

\* What the speaker is told of the owner's words.
LEMMA HeardStep ==
    ASSUME B!BudgetAssumption, BeatInv, [B!Next]_(B!vars)
    PROVE  Heard'
<1> USE DEF BeatInv, B!TypeOK, Stamps, Underway, Heard, InStep, B!place, B!count
<1>1. ASSUME B!Enter PROVE Heard'
  <2>1. CASE speaker.at = "rest" \/ speaker.forced
    <3>1. speaker' = speaker /\ session' = session /\ B!Interacts
      BY <1>1, <2>1 DEF B!Enter
    <3> QED BY <3>1, InteractsFacts DEF B!Sessions
  <2>2. CASE ~(speaker.at = "rest" \/ speaker.forced)
    BY <1>1, <2>2 DEF B!Enter, B!Rest, B!Worker
  <2> QED BY <2>1, <2>2
<1>2. ASSUME NEW text \in BOOLEAN, B!Speaks(text) PROVE Heard'
  <2>1. speaker.at # "deliver"
    BY <1>2 DEF B!Speaks, Locked
  <2>2. session'.last = clock + 1 /\ speaker' = B!Overtaken("said")
    BY <1>2, SpeaksFacts
  <2>3. speaker'.at = speaker.at /\ speaker'.last = speaker.last
    BY <2>2 DEF B!Overtaken
  <2>4. speaker.at = "pending" => speaker' = speaker
    BY <2>2 DEF B!Overtaken
  <2> QED BY <2>1, <2>2, <2>3, <2>4
<1>3. ASSUME B!OtherTurn \/ B!TurnEnds \/ B!Exit \/ B!Cools \/ B!Retimed PROVE Heard'
  BY <1>3 DEF B!OtherTurn, B!TurnEnds, B!Exit, B!Cools, B!Retimed, B!Stamped
<1>4. ASSUME B!Clear PROVE Heard'
  BY <1>4 DEF B!Clear, B!NoSession, B!Overtaken
<1>5. ASSUME B!Looks PROVE Heard'
  <2>1. speaker' = speaker /\ since' = since
    BY <1>5 DEF B!Looks
  <2> QED BY <1>5, <2>1, LooksFacts, LooksCases
<1>6. ASSUME B!Tick \/ B!Poke PROVE Heard'
  BY <1>6 DEF B!Tick, B!Poke, B!Worker
<1>7. ASSUME B!Reserve PROVE Heard'
  BY <1>7 DEF B!Reserve
<1>8. ASSUME B!GivesUp \/ B!Deliver \/ B!Crash PROVE Heard'
  BY <1>8 DEF B!GivesUp, B!Deliver, B!Crash, B!Rest, B!Worker
<1>9. ASSUME B!Send PROVE Heard'
  <2>1. /\ speaker.at = "model" /\ session'.started = since
        /\ InStep => session'.last = session.last
    BY <1>9, LooksFacts DEF B!Send
  <2>2. session'.started = speaker.started /\ session'.last = speaker.last
    BY <1>9 DEF B!Send, B!SameMoment
  <2>3. session.last = speaker.last
    BY <2>1, <2>2
  <2>4. speaker.changed # "said"
    BY <2>1, <2>2, <2>3
  <2>5. speaker'.at = "deliver" /\ speaker'.changed = speaker.changed
    BY <1>9 DEF B!Send
  <2> QED BY <2>4, <2>5
<1>10. ASSUME UNCHANGED B!vars PROVE Heard'
  BY <1>10 DEF B!vars
<1> QED BY <1>1, <1>2, <1>3, <1>4, <1>5, <1>6, <1>7, <1>8, <1>9, <1>10 DEF B!Next

\* A number given out in a conversation is not given out in it again.
LEMMA NumberedStep ==
    ASSUME B!BudgetAssumption, BeatInv, [B!Next]_(B!vars)
    PROVE  Numbered'
<1> USE DEF BeatInv, B!TypeOK, Stamps, InStep, Numbered, B!place, B!count
<1>1. ASSUME B!Enter PROVE Numbered'
  <2>1. B!Interacts /\ session' = session
    BY <1>1 DEF B!Enter
  <2>2. since' = since \/ since' = clock + 1
    BY <2>1, InteractsFacts
  <2>3. CASE stored' = stored
    BY <2>1, <2>2, <2>3 DEF B!Remarks
  <2>4. CASE speaker.at = "deliver" /\ stored' = stored \cup {B!Remark}
    <3>1. \A r \in stored' : r \in stored \/ r = B!Remark
      BY <2>4
    <3>2. /\ B!Remark.started = speaker.started /\ B!Remark.beat = speaker.beat
      BY DEF B!Remark
    <3>3. /\ B!Remark.started # 0 /\ B!Remark.started <= clock
          /\ B!Remark.started = session.started => B!Remark.beat <= session.beats
          /\ since # 0 /\ ~InStep => B!Remark.started # since
      BY <2>4, <3>2 DEF Underway, B!Sessions
    <3> QED BY <2>1, <2>2, <3>1, <3>3 DEF B!Remarks
  <2> QED BY <1>1, <2>3, <2>4 DEF B!Enter
<1>2. ASSUME NEW text \in BOOLEAN, B!Speaks(text) PROVE Numbered'
  <2>1. B!Interacts
    BY <1>2 DEF B!Speaks
  <2> QED BY <1>2, <2>1, SpeaksFacts, InteractsFacts DEF B!Remarks
<1>3. ASSUME B!OtherTurn \/ B!TurnEnds \/ B!Exit \/ B!Cools \/ B!Retimed PROVE Numbered'
  BY <1>3 DEF B!OtherTurn, B!TurnEnds, B!Exit, B!Cools, B!Retimed, B!Stamped, B!Remarks
<1>4. ASSUME B!Clear \/ B!Crash PROVE Numbered'
  BY <1>4 DEF B!Clear, B!Crash, B!NoSession
<1>5. ASSUME B!Looks PROVE Numbered'
  <2>1. stored' = stored /\ since' = since
    BY <1>5 DEF B!Looks
  <2> QED BY <1>5, <2>1, LooksFacts, LooksCases DEF B!NoSession
<1>6. ASSUME B!Tick PROVE Numbered'
  <2>1. stored' = stored /\ since' = since
    BY <1>6 DEF B!Tick
  <2> QED BY <1>6, <2>1, LooksFacts DEF B!Tick
<1>7. ASSUME B!Poke PROVE Numbered'
  <2>1. B!Interacts /\ stored' = stored
    BY <1>7 DEF B!Poke
  <2> QED BY <1>7, <2>1, PokeFacts, InteractsFacts DEF B!Remarks
<1>8. ASSUME B!Reserve PROVE Numbered'
  <2>1. session'.started = session.started /\ session'.beats = session.beats + 1
    BY <1>8 DEF B!Reserve, B!Sessions
  <2> QED BY <1>8, <2>1 DEF B!Reserve, B!Sessions, B!Remarks
<1>9. ASSUME B!GivesUp PROVE Numbered'
  BY <1>9 DEF B!GivesUp
<1>10. ASSUME B!Send PROVE Numbered'
  <2>1. stored' = stored /\ since' = since
    BY <1>10 DEF B!Send
  <2> QED BY <1>10, <2>1, LooksFacts DEF B!Send
<1>11. ASSUME B!Deliver PROVE Numbered'
  <2>1. \A r \in stored' : r \in stored \/ r = B!Remark
    BY <1>11 DEF B!Deliver
  <2>2. /\ B!Remark.started = speaker.started /\ B!Remark.beat = speaker.beat
    BY DEF B!Remark
  <2>3. /\ B!Remark.started # 0
        /\ B!Remark.started = session.started => B!Remark.beat <= session.beats
        /\ since # 0 /\ ~InStep => B!Remark.started # since
    BY <1>11, <2>2 DEF B!Deliver, Underway, B!Sessions
  <2>4. session'.started = session.started /\ session'.beats = session.beats /\ since' = since
    BY <1>11 DEF B!Deliver, B!Sessions
  <2> QED BY <2>1, <2>3, <2>4
<1>12. ASSUME UNCHANGED B!vars PROVE Numbered'
  BY <1>12 DEF B!vars
<1> QED BY <1>1, <1>2, <1>3, <1>4, <1>5, <1>6, <1>7, <1>8, <1>9, <1>10, <1>11, <1>12 DEF B!Next

\* What is said unasked is paid for.
LEMMA PaidStep ==
    ASSUME B!BudgetAssumption, BeatInv, [B!Next]_(B!vars)
    PROVE  Paid'
<1> USE DEF BeatInv, InStep, Paid, B!place, B!count
<1>a. /\ Maximum \in Nat /\ Maximum >= 1 /\ session.budget \in Int
      /\ unanswered \in Nat /\ unpaid \in Nat /\ clock \in Nat
      /\ speaker.started \in Nat /\ speaker.started <= clock
  BY DEF B!BudgetAssumption, B!TypeOK, B!Sessions, Stamps
<1>b. session' \in B!Sessions /\ session'.budget \in Int
  BY TypeStep DEF B!TypeOK, B!Sessions
<1>1. ASSUME B!Enter PROVE Paid'
  <2>1. B!Interacts /\ session' = session
    BY <1>1 DEF B!Enter
  <2>2. (unanswered' = 0 \/ unanswered' = 1) /\ unpaid' = unanswered'
    BY <1>1 DEF B!Enter
  <2>3. CASE speaker.at = "rest" \/ speaker.forced
    <3>1. speaker' = speaker /\ unanswered' = 0
      BY <1>1, <2>3 DEF B!Enter
    <3> QED BY <1>a, <2>1, <2>2, <2>3, <3>1
  <2>4. CASE ~(speaker.at = "rest" \/ speaker.forced)
    <3>1. speaker'.at = "rest"
      BY <1>1, <2>4 DEF B!Enter, B!Rest, B!Worker
    <3> QED BY <1>a, <2>1, <2>2, <3>1
  <2> QED BY <2>3, <2>4
<1>2. ASSUME NEW text \in BOOLEAN, B!Speaks(text) PROVE Paid'
  <2>1. unanswered' = 0 /\ unpaid' = 0 /\ speaker.at # "deliver"
    BY <1>2 DEF B!Speaks, Locked
  <2>2. session'.budget <= Maximum /\ speaker'.at = speaker.at
    BY <1>2, SpeaksFacts DEF B!Overtaken, B!TypeOK
  <2> QED BY <1>a, <1>b, <2>1, <2>2
<1>3. ASSUME B!OtherTurn \/ B!TurnEnds PROVE Paid'
  BY <1>3 DEF B!OtherTurn, B!TurnEnds
<1>4. ASSUME B!Exit \/ B!Cools \/ B!Retimed PROVE Paid'
  <2>1. speaker' = speaker /\ session' = session
    BY <1>4 DEF B!Exit, B!Cools, B!Retimed
  <2>2. \/ unanswered' = unanswered /\ unpaid' = unpaid /\ since' = since
        \/ unanswered' = 0 /\ unpaid' = 0 /\ since' \in {0, clock + 1}
    BY <1>4 DEF B!Exit, B!Cools, B!Retimed, B!Stamped
  <2> QED BY <1>a, <2>1, <2>2 DEF Underway
<1>5. ASSUME B!Clear PROVE Paid'
  <2>1. /\ session'.budget = 0 /\ since' = 0 /\ unanswered' = 0 /\ unpaid' = 0
        /\ speaker'.at = speaker.at /\ speaker'.started = speaker.started
    BY <1>5 DEF B!Clear, B!NoSession, B!Overtaken
  <2> QED BY <1>a, <2>1 DEF Underway
<1>6. ASSUME B!Looks PROVE Paid'
  <2>1. /\ speaker' = speaker /\ since' = since
        /\ unanswered' = unanswered /\ unpaid' = unpaid
    BY <1>6 DEF B!Looks
  <2>2. CASE presence = "active" /\ session' \in B!Seen(B!Synced(presence, since, touched))
    BY <1>a, <1>b, <2>1, <2>2, LooksFacts DEF Underway
  <2>3. CASE presence # "active" /\ since = 0 /\ session' = B!NoSession
    BY <1>a, <2>1, <2>3 DEF Underway, B!NoSession
  <2> QED BY <1>6, <2>2, <2>3, LooksCases
<1>7. ASSUME B!Tick PROVE Paid'
  <2>1. /\ speaker'.at = "pending" /\ ~speaker'.forced /\ since' = since
        /\ unanswered' = unanswered /\ unpaid' = unpaid
    BY <1>7 DEF B!Tick, B!Worker
  <2>2. /\ presence = "active" /\ session' \in B!Seen(B!Synced(presence, since, touched))
    BY <1>7 DEF B!Tick
  <2> QED BY <1>a, <1>b, <2>1, <2>2, LooksFacts
<1>8. ASSUME B!Poke PROVE Paid'
  <2>1. speaker'.at = "pending" /\ unanswered' = 0 /\ unpaid' = 0
    BY <1>8 DEF B!Poke, B!Worker
  <2>2. session'.budget <= Maximum
    BY <1>8, PokeFacts
  <2> QED BY <1>a, <1>b, <2>1, <2>2
<1>9. ASSUME B!Reserve PROVE Paid'
  <2>1. /\ session'.started = session.started /\ session'.budget = session.budget
        /\ speaker'.at = "model" /\ speaker'.forced = speaker.forced /\ speaker.at = "pending"
    BY <1>9 DEF B!Reserve
  <2> QED BY <1>9, <2>1 DEF B!Reserve
<1>10. ASSUME B!GivesUp PROVE Paid'
  BY <1>10 DEF B!GivesUp, B!Rest, B!Worker
<1>11. ASSUME B!Send PROVE Paid'
  <2>1. /\ speaker.at = "model" /\ speaker'.at = "deliver"
        /\ speaker'.forced = speaker.forced /\ speaker'.started = speaker.started
        /\ since' = since /\ unanswered' = unanswered /\ unpaid' = unpaid
        /\ speaker.forced \/ session'.budget > 0
    BY <1>11 DEF B!Send
  <2>2. presence = "active" /\ session' \in B!Seen(B!Synced(presence, since, touched))
    BY <1>11 DEF B!Send
  <2> QED BY <1>a, <1>b, <2>1, <2>2, LooksFacts
<1>12. ASSUME B!Deliver PROVE Paid'
  <2>1. /\ speaker.at = "deliver" /\ speaker'.at = "rest"
        /\ since' = since /\ unpaid' = unpaid
    BY <1>12 DEF B!Deliver, B!Rest, B!Worker
  <2>a. /\ session = B!NoSession => session' = session
        /\ session # B!NoSession => session' = [session EXCEPT !.budget = @ - 1, !.awaiting = TRUE]
    BY <1>12 DEF B!Deliver
  <2>b. /\ session' = session \/ session'.budget = session.budget - 1
        /\ session'.started = session.started
    BY <2>a DEF B!TypeOK, B!Sessions
  <2>2. CASE ~B!CountsNow
    <3>1. unanswered' = unanswered
      BY <1>12, <2>2 DEF B!Deliver
    <3> QED BY <1>a, <1>b, <2>1, <2>b, <3>1
  <2>3. CASE B!CountsNow
    <3>1. speaker.started = since /\ since # 0 /\ InStep
      BY <2>1, <2>3 DEF B!CountsNow, Underway
    <3>2. session # B!NoSession
      BY <3>1 DEF B!NoSession
    <3>3. session'.budget = session.budget - 1 /\ session'.started = since'
      BY <2>1, <2>a, <2>b, <3>1, <3>2 DEF B!TypeOK, B!Sessions
    <3>4. unanswered' \in {unanswered, unanswered + 1}
      BY <1>12 DEF B!Deliver
    <3>5. CASE speaker.forced
      BY <1>a, <2>1, <3>1, <3>3, <3>4, <3>5
    <3>6. CASE ~speaker.forced
      BY <1>a, <2>1, <3>1, <3>3, <3>4, <3>6
    <3> QED BY <3>5, <3>6
  <2> QED BY <2>2, <2>3
<1>13. ASSUME B!Crash PROVE Paid'
  BY <1>a, <1>13 DEF B!Crash, B!NoSession, B!Rest, B!Worker
<1>14. ASSUME UNCHANGED B!vars PROVE Paid'
  BY <1>14 DEF B!vars
<1> QED BY <1>1, <1>2, <1>3, <1>4, <1>5, <1>6, <1>7, <1>8, <1>9, <1>10, <1>11, <1>12, <1>13,
           <1>14 DEF B!Next

-----------------------------------------------------------------------------
(* The theorems.                                                           *)

LEMMA BeatInvariance == ASSUME B!BudgetAssumption PROVE B!Spec => []BeatInv
<1>1. B!Init => BeatInv
  BY InvInit
<1>2. BeatInv /\ [B!Next]_(B!vars) => BeatInv'
  <2> SUFFICES ASSUME BeatInv, [B!Next]_(B!vars) PROVE BeatInv'
    OBVIOUS
  <2>1. B!TypeOK'
    BY TypeStep DEF BeatInv
  <2>2. Stamps'
    BY <2>1, StampsStep DEF BeatInv
  <2>3. Underway' /\ Heard' /\ Numbered' /\ Paid'
    BY BegunStep, HeardStep, NumberedStep, PaidStep
  <2>4. Locked'
    BY LockedStep DEF BeatInv
  <2> QED BY <2>1, <2>2, <2>3, <2>4 DEF BeatInv
<1> QED BY <1>1, <1>2, PTL DEF B!Spec

\* However long the owner stays silent, the assistant adds at most Maximum remarks to a
\* conversation, and one that the owner's last touch cut short.
THEOREM SilentInTheEndHolds ==
    ASSUME B!BudgetAssumption PROVE B!Spec => []B!SilentInTheEnd
<1>1. BeatInv => B!SilentInTheEnd
  BY DEF BeatInv, B!TypeOK, Paid, B!SilentInTheEnd, B!BudgetAssumption
<1> QED BY <1>1, BeatInvariance, PTL

\* The id of a remark that is being stored is not that of an earlier one, in all the
\* conversations and restarts there were: the sink never drops it as stored before.
THEOREM NoRemarkIsMistakenHolds ==
    ASSUME B!BudgetAssumption PROVE B!Spec => []B!NoRemarkIsMistaken
<1>1. BeatInv => B!NoRemarkIsMistaken
  BY DEF BeatInv, B!TypeOK, Underway, B!NoRemarkIsMistaken, B!Remark
<1> QED BY <1>1, BeatInvariance, PTL

\* No remark is stored once the owner has said something the model was not shown.
THEOREM SpeaksToThisMomentHolds ==
    ASSUME B!BudgetAssumption PROVE B!Spec => B!SpeaksToThisMoment
<1>1. BeatInv /\ [B!Next]_(B!vars) => [stored' # stored => speaker.changed # "said"]_(B!vars)
  <2> SUFFICES ASSUME BeatInv, B!Next, stored' # stored PROVE speaker.changed # "said"
    BY DEF B!vars
  <2>1. B!Enter \/ B!Deliver
    BY DEF B!Next, B!Speaks, B!OtherTurn, B!TurnEnds, B!Exit, B!Clear, B!Cools, B!Retimed, B!Looks, B!Tick, B!Poke,
           B!Reserve, B!GivesUp, B!Send, B!Crash
  <2>2. speaker.at = "deliver"
    BY <2>1 DEF B!Enter, B!Deliver
  <2> QED BY <2>2 DEF BeatInv, Heard
<1> QED BY <1>1, BeatInvariance, PTL DEF B!Spec, B!SpeaksToThisMoment

-----------------------------------------------------------------------------
(* Reminders and remarks (module Proactive): the inductive invariant.      *)

EventRows == [status : {"none", "pending", "handled"}, attempts : Nat]
DeliveryRows == [status : {"none", "deferred", "suppressed", "delivered"}, covers : SUBSET Events,
                 aloud : BOOLEAN]
Hearts == [at : {"rest", "fire", "save", "evict", "add"}, due : {heart.due}, time : {heart.time},
           event : {heart.event}, lowest : {heart.lowest}, full : BOOLEAN]
Letters == [first : Events \cup {0}, covers : SUBSET Events,
            status : {"none", "deferred", "suppressed", "delivered"}, aloud : BOOLEAN,
            back : {"rest", "flush", "gate", "process", "resolve", "away", "resolve_away", "ask"},
            overtaken : BOOLEAN]
Workers == [at : {"rest", "flush", "gate", "process", "resolve", "away", "resolve_away", "ask",
                  "look", "store"},
            queue : SUBSET Events, tried : [Events -> Nat], batch : SUBSET Sensed,
            todo : SUBSET Events, letter : Letters]

\* Only sensed events are asked about, so no attempt is counted for a reminder.
RowsSound ==
    /\ events \in [Events -> EventRows]
    /\ \A e \in Occurrences : events[e].attempts = 0

\* The buffer gives up, or adds, what it was given by a sensor.
HeartSound ==
    /\ heart \in Hearts
    /\ heart.at \in {"evict", "add"} => heart.event \in Sensed

\* A delivery covers the event it is named by; a reminder is delivered alone, and only
\* reminders are deferred.
DeliveriesSound ==
    /\ deliveries \in [Events -> DeliveryRows]
    /\ \A e \in Events :
        /\ deliveries[e].status = "none" => deliveries[e].covers = {}
        /\ deliveries[e].status # "none" => e \in deliveries[e].covers
        /\ deliveries[e].status \in {"deferred", "suppressed"} => e \in Occurrences
    /\ \A e \in Occurrences : deliveries[e].covers \subseteq {e}
    /\ \A e \in Sensed : deliveries[e].covers \subseteq Sensed

\* What the user was told is on record as delivered.
TellingSound ==
    /\ told \in [Events -> 0..1]
    /\ \A e \in Events : told[e] = 1 => \E f \in Events : Delivered(f) /\ e \in deliveries[f].covers

\* What a worker who stands at a place goes by is still so, as only it delivers: no row of
\* its batch is in the queue, and none is covered; what it resolves of the reminders is on
\* record, but for the one whose delivery is promised.
Standing(w, place, promised) ==
    /\ \A e \in Occurrences : w.tried[e] = 0
    /\ place = "flush" => \A e \in w.queue : Deferred(e) /\ e # promised
    /\ place \in {"rest", "flush", "away", "resolve_away"} => w.batch = {}
    /\ w.batch \cap w.queue = {}
    /\ w.batch \cap Covered = {}
    /\ place = "process" => \E e \in Occurrences : w.todo = {e}
    /\ place \in {"resolve", "resolve_away"} =>
        \A e \in w.todo \cap Occurrences : deliveries[e].status # "none" \/ e = promised

\* A delivery that may be stored: the user has been told of nothing it covers.
Sendable(first, covers, status, aloud) ==
    /\ first \in Events /\ covers \subseteq Events /\ first \in covers /\ aloud \in BOOLEAN
    /\ covers = {first} \/ (first \in Sensed /\ covers \subseteq Sensed)
    /\ status \in {"deferred", "suppressed", "delivered"}
    /\ status # "delivered" => first \in Occurrences
    /\ ~Delivered(first) /\ \A e \in covers : told[e] = 0

\* Nothing holds back a remark about this event, or the reminder.
Welcome(o) == /\ mode.quiet => o \in Urgent
              /\ o \in Sensed => o \notin Stale /\ mode.user # "busy"
              /\ o \in Sensed \ Urgent => mode.user \notin Absent
Allowed(covers, aloud) == aloud => mode.enabled /\ \A o \in covers : Welcome(o)

\* What is on its way may be stored, and said aloud unless it was overtaken.
Sending == worker.at \in {"look", "store"}
LetterSound ==
    LET l == worker.letter
    IN  /\ Sendable(l.first, l.covers, l.status, l.aloud)
        /\ l.back \in {"flush", "resolve", "resolve_away"}
        /\ worker.batch \cap l.covers = {}
        /\ ~l.overtaken => Allowed(l.covers, l.aloud)

WorkerSound ==
    /\ worker \in Workers
    /\ ~Sending => Standing(worker, worker.at, 0)
    /\ Sending => Standing(worker, worker.letter.back, worker.letter.first) /\ LetterSound

ModeSound == mode \in [enabled : BOOLEAN, quiet : BOOLEAN, user : {"free", "busy", "away", "asleep"}]

ProactiveInv ==
    /\ RowsSound /\ HeartSound /\ DeliveriesSound /\ TellingSound /\ WorkerSound /\ ModeSound

-----------------------------------------------------------------------------
(* Deliveries.                                                             *)

LEMMA EventsAre == Sensed \cap Occurrences = {} /\ Events = Occurrences \cup Sensed
BY ProactiveAssumption DEF Events

\* A reminder that has no delivery of its own has not been told.
LEMMA UntoldReminder ==
    ASSUME DeliveriesSound, TellingSound, NEW e \in Occurrences, ~Delivered(e)
    PROVE  told[e] = 0 /\ e \in Events
<1>1. e \in Events /\ e \notin Sensed
  BY EventsAre
<1>2. ~ \E f \in Events : Delivered(f) /\ e \in deliveries[f].covers
  BY <1>1, EventsAre DEF DeliveriesSound
<1> QED
  BY <1>1, <1>2 DEF TellingSound

LEMMA UncoveredIsUntold ==
    ASSUME TellingSound, NEW e \in Events, e \notin Covered
    PROVE  told[e] = 0
BY DEF TellingSound, Covered

LEMMA UncoveredHasNone ==
    ASSUME DeliveriesSound, NEW e \in Events, e \notin Covered
    PROVE  deliveries[e].status = "none"
BY DEF DeliveriesSound, Covered

LEMMA CoveredReminder ==
    ASSUME DeliveriesSound, NEW e \in Occurrences, e \in Covered
    PROVE  deliveries[e].status # "none"
BY EventsAre DEF DeliveriesSound, Covered

\* A delivery is stored.
Saves(first, covers, status, aloud) ==
    /\ deliveries' = [deliveries EXCEPT ![first] =
                         [status |-> status, covers |-> covers, aloud |-> aloud]]
    /\ told' = [e \in Events |->
                  told[e] + IF status = "delivered" /\ e \in covers THEN 1 ELSE 0]

LEMMA SavedIs ==
    ASSUME DeliveriesSound, TellingSound, NEW first, NEW covers, NEW status, NEW aloud,
           Sendable(first, covers, status, aloud), Saves(first, covers, status, aloud)
    PROVE  /\ DeliveriesSound' /\ TellingSound'
           /\ \A f \in Events : f # first => deliveries'[f] = deliveries[f]
           /\ deliveries'[first].status = status
           /\ Covered' \subseteq Covered \cup covers
<1> DEFINE record == [status |-> status, covers |-> covers, aloud |-> aloud]
<1>0. /\ first \in Events /\ covers \subseteq Events /\ first \in covers /\ aloud \in BOOLEAN
      /\ covers = {first} \/ (first \in Sensed /\ covers \subseteq Sensed)
      /\ status \in {"deferred", "suppressed", "delivered"}
      /\ status # "delivered" => first \in Occurrences
      /\ ~Delivered(first) /\ \A e \in covers : told[e] = 0
  BY DEF Sendable
<1>1. record \in DeliveryRows /\ record.status = status /\ record.covers = covers
  BY <1>0 DEF DeliveryRows
<1>2. deliveries' = [deliveries EXCEPT ![first] = record]
  BY DEF Saves
<1> HIDE DEF record
<1>3. /\ deliveries' \in [Events -> DeliveryRows] /\ deliveries'[first] = record
      /\ \A f \in Events : f # first => deliveries'[f] = deliveries[f]
  BY <1>0, <1>1, <1>2 DEF DeliveriesSound
<1>4. DeliveriesSound'
  <2>1. \A e \in Events :
          /\ deliveries'[e].status = "none" => deliveries'[e].covers = {}
          /\ deliveries'[e].status # "none" => e \in deliveries'[e].covers
          /\ deliveries'[e].status \in {"deferred", "suppressed"} => e \in Occurrences
    BY <1>0, <1>1, <1>3 DEF DeliveriesSound
  <2>2. \A e \in Occurrences : deliveries'[e].covers \subseteq {e}
    BY <1>0, <1>1, <1>3, EventsAre DEF DeliveriesSound
  <2>3. \A e \in Sensed : deliveries'[e].covers \subseteq Sensed
    BY <1>0, <1>1, <1>3, EventsAre DEF DeliveriesSound
  <2> QED
    BY <1>3, <2>1, <2>2, <2>3 DEF DeliveriesSound
<1>5. TellingSound'
  <2>0. told' = [e \in Events |->
                  told[e] + IF status = "delivered" /\ e \in covers THEN 1 ELSE 0]
    BY DEF Saves
  <2>1. told' \in [Events -> 0..1]
    BY <1>0, <2>0 DEF TellingSound
  <2>2. ASSUME NEW e \in Events, told'[e] = 1
        PROVE  \E f \in Events : Delivered(f)' /\ e \in deliveries'[f].covers
    <3>1. CASE status = "delivered" /\ e \in covers
      BY <1>0, <1>1, <1>3, <3>1 DEF Delivered
    <3>2. CASE ~(status = "delivered" /\ e \in covers)
      <4>1. told[e] = 1
        BY <2>0, <2>2, <3>2 DEF TellingSound
      <4>2. PICK f \in Events : Delivered(f) /\ e \in deliveries[f].covers
        BY <4>1 DEF TellingSound
      <4>3. f # first
        BY <1>0, <4>2
      <4> QED
        BY <1>3, <4>2, <4>3 DEF Delivered
    <3> QED
      BY <3>1, <3>2
  <2> QED
    BY <2>1, <2>2 DEF TellingSound
<1>6. Covered' \subseteq Covered \cup covers
  BY <1>1, <1>3 DEF Covered
<1> QED
  BY <1>1, <1>3, <1>4, <1>5, <1>6

\* A worker that takes up w, with nothing on its way, or with a delivery.
LEMMA StandsSound ==
    ASSUME ProactiveInv, NEW w \in Workers, worker' = w, w.at \notin {"look", "store"},
           Standing(w, w.at, 0), UNCHANGED <<deliveries, told>>
    PROVE  DeliveriesSound' /\ TellingSound' /\ WorkerSound'
<1>1. DeliveriesSound' /\ TellingSound' /\ Covered' = Covered
  BY DEF ProactiveInv, DeliveriesSound, TellingSound, Delivered, Covered
<1>2. ~Sending'
  BY DEF Sending
<1>3. Standing(worker, worker.at, 0)'
  BY <1>1 DEF Standing, Deferred
<1> QED
  BY <1>1, <1>2, <1>3 DEF WorkerSound

LEMMA PostedIs ==
    ASSUME NEW w \in Workers, NEW first, NEW covers, NEW status, NEW aloud,
           w.at \in {"flush", "resolve", "resolve_away"},
           Sendable(first, covers, status, aloud), Posts(w, first, covers, status, aloud)
    PROVE  /\ worker' \in Workers /\ worker'.at \in {"look", "store"}
           /\ worker'.queue = w.queue /\ worker'.tried = w.tried
           /\ worker'.batch = w.batch /\ worker'.todo = w.todo
           /\ worker'.letter.first = first /\ worker'.letter.covers = covers
           /\ worker'.letter.status = status /\ worker'.letter.aloud = aloud
           /\ worker'.letter.back = w.at
<1>1. PICK sent \in Letters :
          sent = [first |-> first, covers |-> covers, status |-> status, aloud |-> aloud,
                  back |-> w.at, overtaken |-> FALSE]
  BY DEF Sendable, Letters
<1>2. PICK place \in {"look", "store"} : place = IF status = "delivered" THEN "look" ELSE "store"
  OBVIOUS
<1>3. worker' = [w EXCEPT !.at = place, !.letter = sent]
  BY <1>1, <1>2 DEF Posts
<1>4. /\ sent.first = first /\ sent.covers = covers /\ sent.status = status
      /\ sent.aloud = aloud /\ sent.back = w.at
  BY <1>1
<1>5. /\ worker' \in Workers /\ worker'.at = place /\ worker'.letter = sent
      /\ worker'.queue = w.queue /\ worker'.tried = w.tried
      /\ worker'.batch = w.batch /\ worker'.todo = w.todo
  BY <1>3 DEF Workers
<1> QED
  BY <1>2, <1>4, <1>5

LEMMA PostsSound ==
    ASSUME ProactiveInv, NEW w \in Workers, NEW first, NEW covers, NEW status, NEW aloud,
           w.at \in {"flush", "resolve", "resolve_away"}, Standing(w, w.at, first),
           Sendable(first, covers, status, aloud), w.batch \cap covers = {}, Allowed(covers, aloud),
           Posts(w, first, covers, status, aloud),
           UNCHANGED <<now, events, deliveries, heart, mode, told>>
    PROVE  ProactiveInv'
<1>1. /\ DeliveriesSound' /\ TellingSound' /\ RowsSound' /\ HeartSound' /\ ModeSound'
      /\ Covered' = Covered
  BY DEF ProactiveInv, DeliveriesSound, TellingSound, Delivered, Covered, RowsSound, HeartSound, Hearts,
         ModeSound
<1>2. /\ worker' \in Workers /\ worker'.at \in {"look", "store"}
      /\ worker'.queue = w.queue /\ worker'.tried = w.tried
      /\ worker'.batch = w.batch /\ worker'.todo = w.todo
      /\ worker'.letter.first = first /\ worker'.letter.covers = covers
      /\ worker'.letter.status = status /\ worker'.letter.aloud = aloud
      /\ worker'.letter.back = w.at
  BY PostedIs
<1>3. Standing(worker, worker.letter.back, worker.letter.first)'
  BY <1>1, <1>2 DEF Standing, Deferred
<1>4. LetterSound'
  <2>1. Sendable(worker.letter.first, worker.letter.covers, worker.letter.status, worker.letter.aloud)'
    BY <1>2 DEF Sendable, Delivered
  <2>2. Allowed(worker.letter.covers, worker.letter.aloud)'
    BY <1>2 DEF Allowed, Welcome, Stale
  <2> QED
    BY <1>2, <2>1, <2>2 DEF LetterSound
<1> QED
  BY <1>1, <1>2, <1>3, <1>4 DEF WorkerSound, Sending, ProactiveInv

\* A reminder is processed once, and has a delivery, stored or promised, from then on.
LEMMA ProcessIs ==
    ASSUME ProactiveInv, NEW e \in Occurrences, NEW w \in Workers, w.at \in {"resolve", "resolve_away"},
           Standing(w, w.at, e), e \notin w.batch, Process(w, e),
           UNCHANGED <<now, events, deliveries, heart, mode, told>>
    PROVE  ProactiveInv'
<1>0. DeliveriesSound /\ TellingSound /\ e \in Events /\ e \notin Sensed
  BY EventsAre DEF ProactiveInv
<1>1. CASE deliveries[e].status # "none"
  <2>1. worker' = w
    BY <1>1 DEF Process
  <2>2. Standing(w, w.at, 0)
    BY <1>1 DEF Standing
  <2>3. RowsSound' /\ HeartSound' /\ ModeSound'
    BY DEF ProactiveInv, RowsSound, HeartSound, Hearts, ModeSound
  <2> QED
    BY <2>1, <2>2, <2>3, StandsSound DEF ProactiveInv
<1>2. CASE deliveries[e].status = "none"
  <2>1. PICK aloud \in BOOLEAN : aloud = (Decide = "delivered")
    OBVIOUS
  <2>2. Posts(w, e, {e}, Decide, aloud)
    BY <1>2, <2>1 DEF Process
  <2>3. Sendable(e, {e}, Decide, aloud)
    <3>1. ~Delivered(e)
      BY <1>2 DEF Delivered
    <3>2. told[e] = 0
      BY <1>0, <3>1, UntoldReminder
    <3> QED
      BY <1>0, <3>1, <3>2 DEF Sendable, Decide
  <2>4. Allowed({e}, aloud)
    BY <1>0, <2>1 DEF Allowed, Welcome, Decide
  <2> QED
    BY <2>2, <2>3, <2>4, PostsSound
<1> QED
  BY <1>1, <1>2

-----------------------------------------------------------------------------
(* The steps of the heartbeat, of the clock, the user and of faults.       *)

LEMMA RestIs == WorkerRest \in Workers /\ WorkerRest.at = "rest" /\ Standing(WorkerRest, "rest", 0)
<1>1. WorkerRest \in Workers /\ \A e \in Occurrences : WorkerRest.tried[e] = 0
  BY EventsAre DEF WorkerRest, Workers, NoLetter, Letters
<1>2. WorkerRest.at = "rest" /\ WorkerRest.batch = {}
  BY DEF WorkerRest
<1> QED
  BY <1>1, <1>2 DEF Standing

LEMMA RestSound == ProactiveInv /\ UNCHANGED <<deliveries, told>> /\ worker' = WorkerRest => WorkerSound'
BY RestIs, StandsSound

LEMMA HeartRestSound == heart' = HeartRest => HeartSound'
BY DEF HeartRest, HeartSound, Hearts

\* What is on its way is marked when the clock or the mode moves on.
LEMMA OvertakenIs ==
    ASSUME worker \in Workers, Overtakes
    PROVE  /\ worker' \in Workers /\ worker'.at = worker.at
           /\ worker'.queue = worker.queue /\ worker'.tried = worker.tried
           /\ worker'.batch = worker.batch /\ worker'.todo = worker.todo
           /\ worker'.letter.first = worker.letter.first /\ worker'.letter.covers = worker.letter.covers
           /\ worker'.letter.status = worker.letter.status /\ worker'.letter.aloud = worker.letter.aloud
           /\ worker'.letter.back = worker.letter.back
           /\ worker.letter.status # "none" => worker'.letter.overtaken
<1>1. CASE worker.letter = NoLetter
  <2>1. worker' = worker
    BY <1>1 DEF Overtakes
  <2>2. worker.letter.status = "none"
    BY <1>1 DEF NoLetter
  <2> QED
    BY <2>1, <2>2
<1>2. CASE worker.letter # NoLetter
  <2>1. PICK sent : sent = [worker.letter EXCEPT !.overtaken = TRUE]
    OBVIOUS
  <2>2. worker.letter \in Letters
    BY DEF Workers
  <2>3. /\ sent \in Letters /\ sent.first = worker.letter.first /\ sent.covers = worker.letter.covers
        /\ sent.status = worker.letter.status /\ sent.aloud = worker.letter.aloud
        /\ sent.back = worker.letter.back /\ sent.overtaken
    BY <2>1, <2>2 DEF Letters
  <2>4. worker' = [worker EXCEPT !.letter = sent]
    BY <1>2, <2>1 DEF Overtakes
  <2>5. /\ worker' \in Workers /\ worker'.at = worker.at
        /\ worker'.queue = worker.queue /\ worker'.tried = worker.tried
        /\ worker'.batch = worker.batch /\ worker'.todo = worker.todo /\ worker'.letter = sent
    BY <2>3, <2>4 DEF Workers
  <2> QED
    BY <2>3, <2>5
<1> QED
  BY <1>1, <1>2

\* The worker rests, or stands where it stood: what is on its way is overtaken, or as
\* welcome as it was.
LEMMA UntouchedSound ==
    ASSUME ProactiveInv, UNCHANGED <<deliveries, told>>,
           \/ worker' = WorkerRest
           \/ Overtakes
           \/ UNCHANGED worker /\ \A o \in Events : mode.enabled /\ Welcome(o) => mode'.enabled /\ Welcome(o)'
    PROVE  DeliveriesSound' /\ TellingSound' /\ WorkerSound'
<1>1. DeliveriesSound' /\ TellingSound' /\ Covered' = Covered
  BY DEF ProactiveInv, DeliveriesSound, TellingSound, Delivered, Covered
<1>2. CASE worker' = WorkerRest
  BY <1>1, <1>2, RestSound
<1>3. CASE worker' # WorkerRest
  <2>0. WorkerSound /\ worker \in Workers
    BY DEF ProactiveInv, WorkerSound
  <2>1. /\ worker' \in Workers /\ worker'.at = worker.at
        /\ worker'.queue = worker.queue /\ worker'.tried = worker.tried
        /\ worker'.batch = worker.batch /\ worker'.todo = worker.todo
        /\ worker'.letter.first = worker.letter.first /\ worker'.letter.covers = worker.letter.covers
        /\ worker'.letter.status = worker.letter.status /\ worker'.letter.aloud = worker.letter.aloud
        /\ worker'.letter.back = worker.letter.back
    <3>1. CASE Overtakes
      BY <2>0, <3>1, OvertakenIs
    <3>2. CASE UNCHANGED worker
      BY <2>0, <3>2
    <3> QED
      BY <1>3, <3>1, <3>2
  <2>2. (Sending' <=> Sending)
    BY <2>1 DEF Sending
  <2>3. CASE ~Sending
    <3>1. Standing(worker, worker.at, 0)
      BY <2>0, <2>3 DEF WorkerSound
    <3>2. Standing(worker, worker.at, 0)'
      BY <1>1, <2>1, <3>1 DEF Standing, Deferred
    <3> QED
      BY <1>1, <2>1, <2>2, <2>3, <3>2 DEF WorkerSound
  <2>4. CASE Sending
    <3>1. Standing(worker, worker.letter.back, worker.letter.first) /\ LetterSound
      BY <2>0, <2>4 DEF WorkerSound
    <3>2. Standing(worker, worker.letter.back, worker.letter.first)'
      BY <1>1, <2>1, <3>1 DEF Standing, Deferred
    <3>3. /\ Sendable(worker.letter.first, worker.letter.covers, worker.letter.status, worker.letter.aloud)
          /\ worker.letter.status # "none"
      BY <3>1 DEF LetterSound, Sendable
    <3>4. Sendable(worker.letter.first, worker.letter.covers, worker.letter.status, worker.letter.aloud)'
      BY <2>1, <3>3 DEF Sendable, Delivered
    <3>5. ~worker'.letter.overtaken => Allowed(worker.letter.covers, worker.letter.aloud)'
      <4>1. CASE Overtakes
        BY <2>0, <3>3, <4>1, OvertakenIs
      <4>2. CASE UNCHANGED worker /\ ~Overtakes
        <5>1. worker.letter.covers \subseteq Events
          BY <3>3 DEF Sendable
        <5>2. ~worker.letter.overtaken => Allowed(worker.letter.covers, worker.letter.aloud)
          BY <3>1 DEF LetterSound
        <5>3. ASSUME ~worker'.letter.overtaken, worker'.letter.aloud
              PROVE  mode'.enabled /\ \A o \in worker'.letter.covers : Welcome(o)'
          <6>1. mode.enabled /\ \A o \in worker.letter.covers : Welcome(o)
            BY <4>2, <5>2, <5>3 DEF Allowed
          <6>2. worker.letter.covers # {}
            BY <3>3 DEF Sendable
          <6>3. \A o \in Events : mode.enabled /\ Welcome(o) => mode'.enabled /\ Welcome(o)'
            BY <1>3, <4>2
          <6> QED
            BY <4>2, <5>1, <6>1, <6>2, <6>3
        <5> QED
          BY <5>3 DEF Allowed
      <4> QED
        BY <1>3, <4>1, <4>2
    <3>6. LetterSound'
      BY <2>1, <3>1, <3>4, <3>5 DEF LetterSound
    <3> QED
      BY <1>1, <2>1, <2>2, <2>4, <3>2, <3>6 DEF WorkerSound
  <2> QED
    BY <2>3, <2>4
<1> QED
  BY <1>2, <1>3

\* A row that is written without an attempt, or away from the reminders.
LEMMA RowWritten ==
    ASSUME RowsSound, NEW e, NEW record \in EventRows, e \in Occurrences => record.attempts = 0,
           events' = [events EXCEPT ![e] = record]
    PROVE  RowsSound'
<1>1. events' \in [Events -> EventRows]
  BY DEF RowsSound
<1>2. \A o \in Occurrences : events'[o].attempts = 0
  BY EventsAre DEF RowsSound
<1> QED
  BY <1>1, <1>2 DEF RowsSound

LEMMA RowsAre ==
    /\ PendingRow \in EventRows /\ PendingRow.attempts = 0
    /\ HandledRow \in EventRows /\ HandledRow.attempts = 0 /\ HandledRow.status = "handled"
BY DEF PendingRow, HandledRow, EventRows

LEMMA HeartbeatSound ==
    ASSUME ProactiveInv, Heartbeat \/ \E e \in Sensed : Sense(e)
    PROVE  ProactiveInv'
<1>1. UNCHANGED <<deliveries, told, worker, now, mode>>
  BY DEF Heartbeat, SchedulerReads, Fire, SaveSchedule, Evict, AddSensed, Sense, store
<1>3. \A o \in Events : Welcome(o)' <=> Welcome(o)
  BY <1>1 DEF Welcome, Stale
<1>4. ModeSound'
  BY <1>1 DEF ProactiveInv, ModeSound
<1>2. RowsSound' /\ HeartSound'
  <2>0. RowsSound /\ HeartSound
    BY DEF ProactiveInv
  <2>1. CASE SchedulerReads
    BY <2>0, <2>1 DEF SchedulerReads, store, RowsSound, HeartSound, Hearts, HeartRest
  <2>2. CASE Fire
    <3>1. RowsSound'
      BY <2>0, <2>2, RowWritten, RowsAre DEF Fire, AddOccurrence, RowsSound
    <3>2. HeartSound'
      BY <2>0, <2>2 DEF Fire, HeartSound, Hearts
    <3> QED
      BY <3>1, <3>2
  <2>3. CASE SaveSchedule
    BY <2>0, <2>3, HeartRestSound DEF SaveSchedule, RowsSound
  <2>4. CASE Evict
    <3>1. RowsSound'
      BY <2>0, <2>4, RowWritten, RowsAre DEF Evict
    <3>2. heart.event \in Sensed
      BY <2>0, <2>4 DEF Evict, HeartSound
    <3>3. HeartSound'
      BY <2>0, <2>4, <3>2 DEF Evict, HeartSound, Hearts
    <3> QED
      BY <3>1, <3>3
  <2>5. CASE AddSensed
    BY <2>0, <2>5, RowWritten, RowsAre, HeartRestSound DEF AddSensed
  <2>6. CASE \E e \in Sensed : Sense(e)
    BY <2>0, <2>6 DEF Sense, store, RowsSound, HeartSound, Hearts, HeartRest
  <2> QED
    BY <2>1, <2>2, <2>3, <2>4, <2>5, <2>6 DEF Heartbeat
<1>5. DeliveriesSound' /\ TellingSound' /\ WorkerSound'
  BY <1>1, <1>3, UntouchedSound
<1> QED
  BY <1>2, <1>4, <1>5 DEF ProactiveInv

LEMMA OutsideSound ==
    ASSUME ProactiveInv,
           \/ ClockTicks \/ QuietEnds \/ UserIsFree \/ Enable
           \/ ModeChanges \/ WorkerCutShort \/ HeartbeatFails \/ CrashAndRestart
           \/ UNCHANGED proactiveVars
    PROVE  ProactiveInv'
<1>1. UNCHANGED <<events, deliveries, told>> /\ (UNCHANGED heart \/ heart' = HeartRest)
  BY DEF ClockTicks, QuietEnds, UserIsFree, Enable, ModeChanges, WorkerCutShort, HeartbeatFails,
         CrashAndRestart, store, proactiveVars
<1>2. RowsSound'
  BY <1>1 DEF ProactiveInv, RowsSound
<1>3. HeartSound'
  BY <1>1, HeartRestSound DEF ProactiveInv, HeartSound, Hearts
<1>4. ModeSound
  BY DEF ProactiveInv
<1>5. ModeSound'
  <2>0. ASSUME NEW m, m \in [enabled : BOOLEAN, quiet : BOOLEAN, user : {"free", "busy", "away", "asleep"}],
               mode' = m
        PROVE  ModeSound'
    BY <2>0 DEF ModeSound
  <2>a. Calm \in [enabled : BOOLEAN, quiet : BOOLEAN, user : {"free", "busy", "away", "asleep"}]
    BY DEF Calm
  <2>1. CASE UNCHANGED mode \/ mode' = Calm
    BY <1>4, <2>0, <2>a, <2>1 DEF ModeSound
  <2>2. CASE QuietEnds \/ UserIsFree \/ Enable
    BY <1>4, <2>2 DEF QuietEnds, UserIsFree, Enable, ModeSound
  <2>3. CASE ModeChanges
    BY <1>4, <2>3 DEF ModeChanges, ModeSound
  <2> QED
    BY <2>1, <2>2, <2>3 DEF ClockTicks, WorkerCutShort, HeartbeatFails, CrashAndRestart, proactiveVars
<1>6. \/ worker' = WorkerRest
      \/ Overtakes
      \/ UNCHANGED worker /\ \A o \in Events : mode.enabled /\ Welcome(o) => mode'.enabled /\ Welcome(o)'
  <2>1. CASE WorkerCutShort \/ CrashAndRestart
    BY <2>1 DEF WorkerCutShort, CrashAndRestart
  <2>2. CASE ClockTicks \/ ModeChanges
    BY <2>2 DEF ClockTicks, ModeChanges
  <2>3. CASE HeartbeatFails \/ UNCHANGED proactiveVars
    BY <2>3 DEF HeartbeatFails, proactiveVars, store, Welcome, Stale
  <2>4. CASE QuietEnds
    BY <1>4, <2>4 DEF QuietEnds, store, ModeSound, Welcome, Stale
  <2>5. CASE UserIsFree
    BY <1>4, <2>5 DEF UserIsFree, store, ModeSound, Welcome, Stale, Absent
  <2>6. CASE Enable
    BY <2>6 DEF Enable, store
  <2> QED
    BY <2>1, <2>2, <2>3, <2>4, <2>5, <2>6
<1>7. DeliveriesSound' /\ TellingSound' /\ WorkerSound'
  BY <1>1, <1>6, UntouchedSound
<1> QED
  BY <1>2, <1>3, <1>5, <1>7 DEF ProactiveInv

-----------------------------------------------------------------------------
(* The steps of the worker.                                                *)

\* A round begins to look at rows: what is due, as copied.
LEMMA ReadySound ==
    ASSUME ProactiveInv, NEW next \in {"gate", "away"}, Ready(next), worker.batch = {},
           UNCHANGED <<deliveries, told>>
    PROVE  RowsSound' /\ DeliveriesSound' /\ TellingSound' /\ WorkerSound'
<1>0. RowsSound /\ worker \in Workers
  BY DEF ProactiveInv, WorkerSound
<1>1. PICK rows \in PendingUpTo(Capacity) : \E due \in SUBSET (rows \ Stale) :
        /\ events' = [e \in Events |-> IF e \in rows \cap Stale THEN HandledRow ELSE events[e]]
        /\ worker' = [worker EXCEPT !.at = next, !.queue = due,
                         !.tried = [e \in Events |-> IF e \in due THEN events[e].attempts ELSE 0]]
  BY DEF Ready
<1>2. PICK due \in SUBSET (rows \ Stale) :
        /\ events' = [e \in Events |-> IF e \in rows \cap Stale THEN HandledRow ELSE events[e]]
        /\ worker' = [worker EXCEPT !.at = next, !.queue = due,
                         !.tried = [e \in Events |-> IF e \in due THEN events[e].attempts ELSE 0]]
  BY <1>1
<1>3. rows \subseteq Events
  BY <1>1 DEF PendingUpTo, PendingNow
<1>4. RowsSound'
  BY <1>0, <1>2, RowsAre, EventsAre DEF RowsSound
<1>a. \A e \in Events : (IF e \in due THEN events[e].attempts ELSE 0) \in Nat
  BY <1>0 DEF RowsSound, EventRows
<1>b. PICK tried \in [Events -> Nat] :
        tried = [e \in Events |-> IF e \in due THEN events[e].attempts ELSE 0]
  BY <1>a
<1>5. \A e \in Occurrences : tried[e] = 0
  BY <1>0, <1>b, EventsAre DEF RowsSound
<1>c. PICK w : w = [worker EXCEPT !.at = next, !.queue = due, !.tried = tried]
  OBVIOUS
<1>6. worker' = w
  BY <1>2, <1>b, <1>c
<1>7. w \in Workers /\ w.at = next /\ w.batch = {} /\ w.tried = tried
  BY <1>0, <1>2, <1>3, <1>c DEF Workers
<1>8. Standing(w, w.at, 0)
  BY <1>5, <1>7 DEF Standing
<1> QED
  BY <1>4, <1>6, <1>7, <1>8, StandsSound

LEMMA DoneIs ==
    ASSUME worker \in Workers, NEW e \in Events
    PROVE  LET done == Done(e)
           IN  /\ done \in Workers /\ done.at = worker.at /\ done.queue = worker.queue \ {e}
               /\ done.batch = worker.batch /\ done.todo = worker.todo
               /\ done.tried = [worker.tried EXCEPT ![e] = 0]
               /\ \A o \in Occurrences : worker.tried[o] = 0 => done.tried[o] = 0
<1>1. PICK tried \in [Events -> Nat] : tried = [worker.tried EXCEPT ![e] = 0]
  BY DEF Workers
<1>2. \A o \in Occurrences : worker.tried[o] = 0 => tried[o] = 0
  BY <1>1, EventsAre DEF Workers
<1>3. Done(e) = [worker EXCEPT !.queue = worker.queue \ {e}, !.tried = tried]
  BY <1>1 DEF Done, Workers
<1>4. /\ Done(e).at = worker.at /\ Done(e).queue = worker.queue \ {e}
      /\ Done(e).batch = worker.batch /\ Done(e).todo = worker.todo /\ Done(e).tried = tried
  BY <1>3 DEF Workers
<1>5. Done(e) \in Workers
  BY <1>3 DEF Workers
<1> QED
  BY <1>1, <1>2, <1>4, <1>5

\* The worker is done with a row and leaves the deliveries alone.
LEMMA DoneSound ==
    ASSUME ProactiveInv, NEW e \in Events, worker.at \in {"gate", "away"}, worker' = Done(e),
           UNCHANGED <<deliveries, told>>
    PROVE  DeliveriesSound' /\ TellingSound' /\ WorkerSound'
<1>1. worker \in Workers /\ Standing(worker, worker.at, 0)
  BY DEF ProactiveInv, WorkerSound, Sending
<1>2. PICK w : w = Done(e)
  OBVIOUS
<1>3. /\ w \in Workers /\ w.at = worker.at /\ w.queue = worker.queue \ {e}
      /\ w.batch = worker.batch /\ \A o \in Occurrences : worker.tried[o] = 0 => w.tried[o] = 0
  BY <1>1, <1>2, DoneIs
<1>4. Standing(w, w.at, 0)
  BY <1>1, <1>3 DEF Standing
<1> QED
  BY <1>2, <1>3, <1>4, StandsSound

LEMMA GateRowsSound ==
    ASSUME ProactiveInv, NEW e \in Events,
           SettleOld(e) \/ PutOff(e) \/ Drop(e) \/ Resolve(e)
    PROVE  RowsSound'
<1>0. worker \in Workers /\ Standing(worker, worker.at, 0)
  BY DEF ProactiveInv, WorkerSound, Sending, SettleOld, PutOff, Drop, Resolve, Open, Reached
<1>1. worker.tried[e] \in Nat /\ (e \in Occurrences => worker.tried[e] = 0)
  BY <1>0 DEF Workers, Standing
<1>2. Copy(e) \in EventRows /\ (e \in Occurrences => Copy(e).attempts = 0)
  BY <1>1 DEF Copy, EventRows
<1>3. Write(e, HandledRow) \/ Write(e, Copy(e))
  BY DEF SettleOld, PutOff, Drop, Resolve
<1> QED
  BY <1>2, <1>3, RowsAre, RowWritten DEF Write, ProactiveInv

\* The rows, the heartbeat and the mode, where a step leaves them alone.
LEMMA RestAlone ==
    ASSUME ProactiveInv, UNCHANGED <<heart, mode>>
    PROVE  HeartSound' /\ ModeSound' /\ (UNCHANGED events => RowsSound')
BY DEF ProactiveInv, HeartSound, Hearts, ModeSound, RowsSound

LEMMA TickBeginsSound ==
    ASSUME ProactiveInv, TickBegins
    PROVE  ProactiveInv'
<1>1. /\ worker \in Workers /\ Standing(worker, "rest", 0) /\ worker.batch = {}
      /\ UNCHANGED <<deliveries, told, heart, mode>>
  BY DEF ProactiveInv, WorkerSound, Sending, Standing, TickBegins
<1>2. HeartSound' /\ ModeSound'
  BY <1>1, RestAlone
<1>3. CASE Ready("away")
  BY <1>1, <1>2, <1>3, ReadySound DEF ProactiveInv
<1>4. CASE ~Ready("away")
  <2>1. PICK due \in SUBSET { e \in Events : Deferred(e) } :
           worker' = [worker EXCEPT !.at = "flush", !.queue = due] /\ UNCHANGED events
    BY <1>4 DEF TickBegins
  <2>2. PICK w : w = [worker EXCEPT !.at = "flush", !.queue = due]
    OBVIOUS
  <2>3. /\ w \in Workers /\ w.at = "flush" /\ w.queue = due
        /\ w.batch = {} /\ w.tried = worker.tried
    BY <1>1, <2>2 DEF Workers
  <2>4. \A e \in due : Deferred(e) /\ e # 0
    <3>1. ASSUME NEW e \in due PROVE Deferred(e) /\ e \in Occurrences
      BY <3>1 DEF ProactiveInv, DeliveriesSound, Deferred
    <3> QED
      BY <3>1 DEF Occurrences
  <2>5. Standing(w, w.at, 0)
    BY <1>1, <2>3, <2>4 DEF Standing
  <2> QED
    BY <1>1, <1>2, <2>1, <2>2, <2>3, <2>5, RestAlone, StandsSound DEF ProactiveInv
<1> QED
  BY <1>3, <1>4

\* A deferred delivery is decided about again.
LEMMA FlushSound ==
    ASSUME ProactiveInv, NEW e \in Events, Flush(e)
    PROVE  ProactiveInv'
<1>1. /\ worker \in Workers /\ Standing(worker, "flush", 0) /\ DeliveriesSound /\ TellingSound
      /\ worker.at = "flush" /\ e \in worker.queue
      /\ UNCHANGED <<now, events, deliveries, heart, mode, told>>
  BY DEF ProactiveInv, WorkerSound, Sending, Flush, store
<1>2. Deferred(e) /\ e \in Occurrences /\ ~Delivered(e) /\ worker.batch = {}
  BY <1>1 DEF Standing, DeliveriesSound, Deferred, Delivered
<1>3. PICK w : w = [worker EXCEPT !.queue = @ \ {e}]
  OBVIOUS
<1>4. /\ w \in Workers /\ w.at = "flush" /\ w.queue = worker.queue \ {e}
      /\ w.batch = {} /\ w.tried = worker.tried
  <2>1. PICK rest \in SUBSET worker.queue : rest = worker.queue \ {e}
    OBVIOUS
  <2>2. w = [worker EXCEPT !.queue = rest]
    BY <1>1, <1>3, <2>1
  <2> QED
    BY <1>1, <1>2, <2>1, <2>2 DEF Workers
<1>5. Standing(w, w.at, 0) /\ Standing(w, w.at, e)
  BY <1>1, <1>4 DEF Standing
<1>6. CASE worker' = w
  BY <1>1, <1>4, <1>5, <1>6, RestAlone, StandsSound DEF ProactiveInv
<1>7. CASE worker' # w
  <2>1. PICK aloud \in BOOLEAN : aloud = (Decide = "delivered")
    OBVIOUS
  <2>2. Posts(w, e, {e}, Decide, aloud)
    BY <1>3, <1>7, <2>1 DEF Flush
  <2>3. told[e] = 0
    BY <1>1, <1>2, UntoldReminder
  <2>4. Sendable(e, {e}, Decide, aloud)
    BY <1>2, <2>3 DEF Sendable, Decide
  <2>5. Allowed({e}, aloud)
    BY <1>2, <2>1, EventsAre DEF Allowed, Welcome, Decide
  <2> QED
    BY <1>1, <1>4, <1>5, <2>2, <2>4, <2>5, PostsSound
<1> QED
  BY <1>6, <1>7

\* Straight to the inbox; the batch is not covered by that.
LEMMA ToInboxSound ==
    ASSUME ProactiveInv, NEW e \in Events, ToInbox(e)
    PROVE  ProactiveInv'
<1>1. /\ worker \in Workers /\ Standing(worker, "gate", 0) /\ DeliveriesSound /\ TellingSound
      /\ e \in worker.queue /\ e \notin Covered
      /\ UNCHANGED <<now, events, deliveries, heart, mode, told>>
  BY DEF ProactiveInv, WorkerSound, Sending, ToInbox, Open, Reached, store
<1>2. PICK w : w = [worker EXCEPT !.at = "resolve", !.queue = @ \ {e}, !.todo = {e}]
  OBVIOUS
<1>3. /\ w \in Workers /\ w.at = "resolve" /\ w.queue = worker.queue \ {e}
      /\ w.batch = worker.batch /\ w.tried = worker.tried /\ w.todo = {e}
  <2>1. PICK rest \in SUBSET worker.queue : rest = worker.queue \ {e}
    OBVIOUS
  <2>2. w = [worker EXCEPT !.at = "resolve", !.queue = rest, !.todo = {e}]
    BY <1>1, <1>2, <2>1
  <2> QED
    BY <1>1, <2>1, <2>2 DEF Workers
<1>0. PICK aloud \in BOOLEAN : aloud = FALSE
  OBVIOUS
<1>4. Posts(w, e, {e}, "delivered", aloud)
  BY <1>0, <1>2 DEF ToInbox
<1>5. Standing(w, w.at, e) /\ w.batch \cap {e} = {}
  BY <1>1, <1>3 DEF Standing
<1>6. Sendable(e, {e}, "delivered", aloud)
  BY <1>1, UncoveredIsUntold, UncoveredHasNone DEF Sendable, Delivered
<1>7. Allowed({e}, aloud)
  BY <1>0 DEF Allowed
<1> QED
  BY <1>1, <1>3, <1>4, <1>5, <1>6, <1>7, PostsSound

LEMMA ProcessReminderSound ==
    ASSUME ProactiveInv, ProcessReminder
    PROVE  ProactiveInv'
<1>1. PICK e \in worker.todo : ProcessFirst(e)
  BY DEF ProcessReminder
<1>2. PICK w : w = [worker EXCEPT !.at = "resolve"]
  OBVIOUS
<1>3. /\ worker \in Workers /\ Standing(worker, "process", 0)
      /\ UNCHANGED <<now, events, deliveries, heart, mode, told>> /\ Process(w, e)
  BY <1>1, <1>2 DEF ProactiveInv, WorkerSound, Sending, ProcessReminder, ProcessFirst
<1>4. e \in Occurrences /\ worker.todo = {e} /\ e \notin Sensed
  BY <1>1, <1>3, EventsAre DEF Standing
<1>5. /\ w \in Workers /\ w.at = "resolve" /\ w.queue = worker.queue
      /\ w.batch = worker.batch /\ w.tried = worker.tried /\ w.todo = {e}
      /\ worker.batch \subseteq Sensed
  BY <1>2, <1>3, <1>4 DEF Workers
<1>6. Standing(w, w.at, e) /\ e \notin w.batch
  BY <1>3, <1>4, <1>5 DEF Standing
<1> QED
  BY <1>3, <1>4, <1>5, <1>6, ProcessIs

LEMMA SettledSound ==
    ASSUME ProactiveInv, NEW e \in Events, SettleOld(e) \/ PutOff(e) \/ Drop(e)
    PROVE  ProactiveInv'
<1>1. /\ worker.at = "gate" /\ worker' = Done(e) /\ UNCHANGED <<deliveries, told, heart, mode>>
  BY DEF SettleOld, PutOff, Drop, Open, Reached
<1> QED
  BY <1>1, RestAlone, DoneSound, GateRowsSound DEF ProactiveInv

\* A row leaves the queue to be processed, or to be asked about.
LEMMA TakenSound ==
    ASSUME ProactiveInv, NEW e \in Events, TakeReminder(e) \/ ToBatch(e)
    PROVE  ProactiveInv'
<1>1. /\ worker \in Workers /\ Standing(worker, "gate", 0)
      /\ e \in worker.queue /\ e \notin Covered
      /\ UNCHANGED <<events, heart, mode, deliveries, told>>
  BY DEF ProactiveInv, WorkerSound, Sending, TakeReminder, ToBatch, Open, Reached, store
<1>2. PICK rest \in SUBSET worker.queue : rest = worker.queue \ {e}
  OBVIOUS
<1>3. PICK w \in Workers : worker' = w /\ w.at \notin {"look", "store"} /\ Standing(w, w.at, 0)
  <2>1. CASE TakeReminder(e)
    <3>1. e \in Occurrences
      BY <2>1, EventsAre DEF TakeReminder
    <3>2. PICK w : w = [worker EXCEPT !.at = "process", !.todo = {e}, !.queue = rest]
      OBVIOUS
    <3>3. worker' = w
      BY <1>1, <1>2, <2>1, <3>2 DEF TakeReminder, Workers
    <3>4. /\ w \in Workers /\ w.at = "process" /\ w.queue = rest
          /\ w.batch = worker.batch /\ w.tried = worker.tried /\ w.todo = {e}
      BY <1>1, <1>2, <3>2 DEF Workers
    <3>5. Standing(w, w.at, 0)
      BY <1>1, <1>2, <3>1, <3>4 DEF Standing
    <3> QED
      BY <3>3, <3>4, <3>5
  <2>2. CASE ToBatch(e)
    <3>1. e \in Sensed
      BY <2>2 DEF ToBatch
    <3>2. PICK batch \in SUBSET Sensed : batch = worker.batch \cup {e}
      BY <1>1, <3>1 DEF Workers
    <3>3. PICK w : w = [worker EXCEPT !.queue = rest, !.batch = batch]
      OBVIOUS
    <3>4. worker' = w
      BY <1>1, <1>2, <2>2, <3>2, <3>3 DEF ToBatch, Workers
    <3>5. worker.at = "gate"
      BY <2>2 DEF ToBatch, Open, Reached
    <3>6. /\ w \in Workers /\ w.at = "gate" /\ w.queue = rest
          /\ w.batch = batch /\ w.tried = worker.tried
      BY <1>1, <1>2, <3>2, <3>3, <3>5 DEF Workers
    <3>7. Standing(w, w.at, 0)
      BY <1>1, <1>2, <3>2, <3>6 DEF Standing
    <3> QED
      BY <3>4, <3>6, <3>7
  <2> QED
    BY <2>1, <2>2
<1> QED
  BY <1>1, <1>3, RestAlone, StandsSound DEF ProactiveInv

\* The attempt is written down before the model is asked, for sensed events only.
LEMMA AskSound ==
    ASSUME ProactiveInv, Ask
    PROVE  ProactiveInv'
<1>0. /\ RowsSound /\ worker \in Workers /\ Standing(worker, "gate", 0)
      /\ UNCHANGED <<heart, mode, deliveries, told>>
  BY DEF ProactiveInv, WorkerSound, Sending, Ask
<1>1. /\ RowsSound /\ worker.batch \subseteq Sensed /\ worker.tried \in [Events -> Nat]
      /\ worker.batch \cap Covered = {}
  BY <1>0 DEF Workers, Standing
<1>3. PICK late \in SUBSET worker.batch, asks \in BOOLEAN :
          LET batch    == IF asks THEN worker.batch \ late ELSE {}
              tried(e) == worker.tried[e] + IF e \in batch THEN 1 ELSE 0
          IN  /\ events' = [e \in Events |->
                              IF e \in late \cup batch THEN [Copy(e) EXCEPT !.attempts = tried(e)]
                              ELSE events[e]]
              /\ worker' = IF batch = {} THEN WorkerRest
                           ELSE [WorkerRest EXCEPT !.at = "ask", !.batch = batch,
                                   !.tried = [e \in Events |-> IF e \in batch THEN tried(e) ELSE 0]]
  BY DEF Ask
<1>4. PICK batch \in SUBSET worker.batch : batch = IF asks THEN worker.batch \ late ELSE {}
  OBVIOUS
<1>a. \A e \in Events : worker.tried[e] + (IF e \in batch THEN 1 ELSE 0) \in Nat
  BY <1>1
<1>5. PICK tried \in [Events -> Nat] :
        tried = [e \in Events |-> worker.tried[e] + IF e \in batch THEN 1 ELSE 0]
  BY <1>a
<1>6. /\ events' = [e \in Events |->
                      IF e \in late \cup batch THEN [Copy(e) EXCEPT !.attempts = tried[e]]
                      ELSE events[e]]
      /\ worker' = IF batch = {} THEN WorkerRest
                   ELSE [WorkerRest EXCEPT !.at = "ask", !.batch = batch,
                           !.tried = [e \in Events |-> IF e \in batch THEN tried[e] ELSE 0]]
  BY <1>3, <1>4, <1>5
<1>7. RowsSound'
  <2>1. \A e \in Events : [Copy(e) EXCEPT !.attempts = tried[e]] \in EventRows
    BY <1>1 DEF Copy, EventRows
  <2>2. events' \in [Events -> EventRows]
    BY <1>1, <1>6, <2>1 DEF RowsSound
  <2>3. \A e \in Occurrences : events'[e] = events[e]
    BY <1>1, <1>6, EventsAre
  <2> QED
    BY <1>1, <2>2, <2>3 DEF RowsSound
<1>8. PICK w \in Workers : worker' = w /\ w.at \notin {"look", "store"} /\ Standing(w, w.at, 0)
  <2>1. CASE batch = {}
    BY <1>6, <2>1, RestIs
  <2>2. CASE batch # {}
    <3>1. PICK counts \in [Events -> Nat] :
             counts = [e \in Events |-> IF e \in batch THEN tried[e] ELSE 0]
      BY <1>5
    <3>2. \A e \in Occurrences : counts[e] = 0
      BY <1>1, <3>1, EventsAre
    <3>3. PICK w : w = [WorkerRest EXCEPT !.at = "ask", !.batch = batch, !.tried = counts]
      OBVIOUS
    <3>4. worker' = w
      BY <1>6, <2>2, <3>1, <3>3
    <3>5. /\ w \in Workers /\ w.at = "ask" /\ w.batch = batch /\ w.tried = counts /\ w.queue = {}
      <4>1. WorkerRest \in Workers /\ WorkerRest.queue = {}
        BY RestIs DEF WorkerRest
      <4> QED
        BY <1>1, <3>3, <4>1 DEF Workers
    <3>6. Standing(w, w.at, 0)
      BY <1>1, <3>2, <3>5 DEF Standing
    <3> QED
      BY <3>4, <3>5, <3>6
  <2> QED
    BY <2>1, <2>2
<1> QED
  BY <1>0, <1>7, <1>8, RestAlone, StandsSound DEF ProactiveInv

\* What an answer does: nothing is said, or the whole batch under one of its names.
LEMMA AnswerIs ==
    ASSUME Answer
    PROVE  \/ \E todo \in SUBSET worker.batch : worker' = Resolving(todo)
           \/ \E first \in worker.batch, aloud \in BOOLEAN :
                 /\ Posts(Resolving(worker.batch), first, worker.batch, "delivered", aloud)
                 /\ aloud => \A e \in worker.batch : Recheck(e) \cap Spoken # {}
<1>1. PICK action \in {"silent", "defer", "speak"},
           hint \in [worker.batch -> {"drop", "defer", "inbox"} \cup Spoken] :
       /\ \A e \in worker.batch : hint[e] \in Recheck(e)
       /\ LET all(kinds) == \A e \in worker.batch : hint[e] \in kinds
              speaks == action = "speak" /\ (all({"inbox"}) \/ all(Spoken))
              putOff == action = "defer"
                        \/ (action = "speak" /\ \E e \in worker.batch : hint[e] = "defer")
          IN  IF speaks
              THEN \E first \in worker.batch :
                      Posts(Resolving(worker.batch), first, worker.batch, "delivered", all(Spoken))
              ELSE worker' = Resolving(IF putOff THEN { e \in worker.batch : worker.tried[e] >= 2 }
                                       ELSE worker.batch)
  BY DEF Answer
<1>2. PICK spoken \in BOOLEAN : spoken = \A e \in worker.batch : hint[e] \in Spoken
  OBVIOUS
<1>3. \/ \E first \in worker.batch :
            Posts(Resolving(worker.batch), first, worker.batch, "delivered", spoken)
      \/ worker' = Resolving({ e \in worker.batch : worker.tried[e] >= 2 })
      \/ worker' = Resolving(worker.batch)
  BY <1>1, <1>2
<1>4. spoken => \A e \in worker.batch : Recheck(e) \cap Spoken # {}
  BY <1>1, <1>2
<1>5. { e \in worker.batch : worker.tried[e] >= 2 } \subseteq worker.batch
  OBVIOUS
<1> QED
  BY <1>3, <1>4, <1>5

\* What the gate lets through may be said.
LEMMA WelcomeIs ==
    ASSUME NEW o \in Sensed, Recheck(o) \cap Spoken # {}
    PROVE  mode.enabled /\ Welcome(o)
<1>1. PICK kind \in Spoken : kind \in Recheck(o)
  OBVIOUS
<1>2. o \notin Stale /\ kind \in Gate(o)
  BY <1>1 DEF Recheck, Spoken
<1>3. mode.enabled /\ ~(mode.quiet /\ o \notin Urgent) /\ mode.user # "busy"
  BY <1>1, <1>2 DEF Gate, Spoken
<1>4. o \in Sensed \ Urgent => mode.user \notin Absent
  BY <1>1, <1>2, <1>3 DEF Gate, Spoken
<1> QED
  BY <1>2, <1>3, <1>4 DEF Welcome

LEMMA AnswerSound ==
    ASSUME ProactiveInv, Answer
    PROVE  ProactiveInv'
<1>1. /\ worker \in Workers /\ Standing(worker, "ask", 0) /\ DeliveriesSound /\ TellingSound
      /\ UNCHANGED <<now, events, deliveries, heart, mode, told>>
  BY DEF ProactiveInv, WorkerSound, Sending, Answer, store
<1>2. worker.batch \subseteq Sensed /\ worker.batch \subseteq Events /\ worker.batch \cap Covered = {}
  BY <1>1, EventsAre DEF Workers, Standing
<1>3. ASSUME NEW todo \in SUBSET worker.batch
      PROVE  /\ Resolving(todo) \in Workers /\ Resolving(todo).at = "resolve"
             /\ Resolving(todo).batch = {} /\ Resolving(todo).todo = todo
             /\ Resolving(todo).tried = worker.tried
  BY <1>1, <1>2 DEF Resolving, Workers
<1>4. ASSUME NEW todo \in SUBSET worker.batch, NEW promised
      PROVE  Standing(Resolving(todo), "resolve", promised)
  <2>1. todo \cap Occurrences = {}
    BY <1>2, EventsAre
  <2> QED
    BY <1>1, <1>3, <2>1 DEF Standing
<1>5. CASE \E todo \in SUBSET worker.batch : worker' = Resolving(todo)
  BY <1>1, <1>3, <1>4, <1>5, RestAlone, StandsSound DEF ProactiveInv
<1>6. ASSUME NEW first \in worker.batch, NEW aloud \in BOOLEAN,
             Posts(Resolving(worker.batch), first, worker.batch, "delivered", aloud),
             aloud => \A e \in worker.batch : Recheck(e) \cap Spoken # {}
      PROVE  ProactiveInv'
  <2>1. \A e \in worker.batch : told[e] = 0 /\ deliveries[e].status = "none"
    BY <1>1, <1>2, UncoveredIsUntold, UncoveredHasNone
  <2>2. Sendable(first, worker.batch, "delivered", aloud)
    BY <1>2, <2>1 DEF Sendable, Delivered
  <2>3. Allowed(worker.batch, aloud)
    BY <1>2, <1>6, WelcomeIs DEF Allowed
  <2>4. PICK w \in Workers : w = Resolving(worker.batch)
    BY <1>3
  <2>5. w.at = "resolve" /\ w.batch = {} /\ Standing(w, w.at, first)
    BY <1>3, <1>4, <2>4
  <2>6. Posts(w, first, worker.batch, "delivered", aloud)
    BY <1>6, <2>4
  <2> QED
    BY <1>1, <2>2, <2>3, <2>5, <2>6, PostsSound
<1> QED
  BY <1>5, <1>6, AnswerIs

LEMMA WhileAwaySound ==
    ASSUME ProactiveInv, NEW e \in Events, WhileAway(e)
    PROVE  ProactiveInv'
<1>1. /\ worker \in Workers /\ Standing(worker, "away", 0) /\ worker.at = "away"
      /\ UNCHANGED <<now, events, deliveries, heart, mode, told>>
  BY DEF ProactiveInv, WorkerSound, Sending, WhileAway, store
<1>2. PICK w : w = [worker EXCEPT !.at = "resolve_away", !.queue = @ \ {e}, !.todo = {e}]
  OBVIOUS
<1>3. /\ w \in Workers /\ w.at = "resolve_away" /\ w.todo = {e}
      /\ w.batch = {} /\ w.tried = worker.tried
  <2>1. PICK rest \in SUBSET worker.queue : rest = worker.queue \ {e}
    OBVIOUS
  <2>2. w = [worker EXCEPT !.at = "resolve_away", !.queue = rest, !.todo = {e}]
    BY <1>1, <1>2, <2>1
  <2>3. worker.batch = {}
    BY <1>1 DEF Standing
  <2> QED
    BY <1>1, <2>1, <2>2, <2>3 DEF Workers
<1>4. \/ e \in Urgent /\ worker' = w
      \/ e \notin Sensed /\ Process(w, e)
      \/ worker' = Done(e)
  BY <1>2 DEF WhileAway
<1>5. CASE e \in Urgent /\ worker' = w
  <2>1. e \notin Occurrences
    BY <1>5, EventsAre, ProactiveAssumption
  <2>2. Standing(w, w.at, 0)
    BY <1>1, <1>3, <2>1 DEF Standing
  <2> QED
    BY <1>1, <1>3, <1>5, <2>2, RestAlone, StandsSound DEF ProactiveInv
<1>6. CASE e \notin Sensed /\ Process(w, e)
  <2>1. e \in Occurrences
    BY <1>6, EventsAre
  <2>2. Standing(w, w.at, e) /\ e \notin w.batch
    BY <1>1, <1>3 DEF Standing
  <2> QED
    BY <1>1, <1>3, <1>6, <2>1, <2>2, ProcessIs
<1>7. CASE worker' = Done(e)
  BY <1>1, <1>7, RestAlone, DoneSound DEF ProactiveInv
<1> QED
  BY <1>4, <1>5, <1>6, <1>7

LEMMA ResolveSound ==
    ASSUME ProactiveInv, NEW e \in Events, Resolve(e)
    PROVE  ProactiveInv'
<1>1. /\ worker \in Workers /\ Standing(worker, worker.at, 0)
      /\ worker.at \in {"resolve", "resolve_away"} /\ UNCHANGED <<deliveries, told, heart, mode>>
      /\ worker' = [worker EXCEPT !.todo = @ \ {e}, !.tried[e] = 0]
  BY DEF ProactiveInv, WorkerSound, Sending, Resolve
<1>2. PICK tried \in [Events -> Nat] : tried = [worker.tried EXCEPT ![e] = 0]
  BY <1>1 DEF Workers
<1>3. PICK rest \in SUBSET worker.todo : rest = worker.todo \ {e}
  OBVIOUS
<1>4. PICK w : w = [worker EXCEPT !.todo = rest, !.tried = tried]
  OBVIOUS
<1>5. worker' = w
  BY <1>1, <1>2, <1>3, <1>4 DEF Workers
<1>6. /\ w \in Workers /\ w.at = worker.at /\ w.todo = rest
      /\ w.batch = worker.batch /\ w.queue = worker.queue /\ w.tried = tried
  BY <1>1, <1>3, <1>4 DEF Workers
<1>7. \A o \in Occurrences : tried[o] = 0
  BY <1>1, <1>2, EventsAre DEF Standing, Workers
<1>8. Standing(w, w.at, 0)
  BY <1>1, <1>3, <1>6, <1>7 DEF Standing
<1> QED
  BY <1>1, <1>5, <1>6, <1>8, RestAlone, GateRowsSound, StandsSound DEF ProactiveInv

\* The worker turns to the next thing.
LEMMA TurnsSound ==
    ASSUME ProactiveInv, ReadPending \/ AwayEnds \/ Resolved
    PROVE  ProactiveInv'
<1>1. /\ worker \in Workers /\ Standing(worker, worker.at, 0)
      /\ UNCHANGED <<deliveries, told, heart, mode>>
  BY DEF ProactiveInv, WorkerSound, Sending, ReadPending, AwayEnds, Resolved, store
<1>2. HeartSound' /\ ModeSound' /\ (UNCHANGED events => RowsSound')
  BY <1>1, RestAlone
<1>3. CASE ReadPending
  <2>1. Ready("gate") /\ worker.batch = {}
    BY <1>1, <1>3 DEF ReadPending, Standing
  <2> QED
    BY <1>1, <1>2, <2>1, ReadySound DEF ProactiveInv
<1>4. CASE AwayEnds
  <2>1. worker' = WorkerRest /\ UNCHANGED events
    BY <1>4 DEF AwayEnds, store
  <2> QED
    BY <1>1, <1>2, <2>1, RestIs, StandsSound DEF ProactiveInv
<1>5. CASE Resolved
  <2>1. PICK place \in {"away", "gate"} :
          /\ worker' = [worker EXCEPT !.at = place]
          /\ place = "away" => worker.at = "resolve_away"
    BY <1>5 DEF Resolved
  <2>2. PICK w : w = [worker EXCEPT !.at = place]
    OBVIOUS
  <2>3. /\ w \in Workers /\ w.batch = worker.batch /\ w.queue = worker.queue
        /\ w.tried = worker.tried /\ w.at = place
    BY <1>1, <2>2 DEF Workers
  <2>4. Standing(w, w.at, 0)
    BY <1>1, <2>1, <2>3 DEF Standing
  <2>5. UNCHANGED events
    BY <1>5 DEF Resolved, store
  <2> QED
    BY <1>1, <1>2, <2>1, <2>2, <2>3, <2>4, <2>5, StandsSound DEF ProactiveInv
<1> QED
  BY <1>3, <1>4, <1>5

\* The sink finds nothing of what is on its way, and stores it.
LEMMA SinkSound ==
    ASSUME ProactiveInv, Look \/ SaveDelivery
    PROVE  ProactiveInv'
<1> DEFINE l == worker.letter
<1>1. /\ worker \in Workers /\ Standing(worker, l.back, l.first) /\ LetterSound
      /\ l.back \in {"flush", "resolve", "resolve_away"}
      /\ Sendable(l.first, l.covers, l.status, l.aloud) /\ worker.batch \cap l.covers = {}
      /\ DeliveriesSound /\ TellingSound
  BY DEF ProactiveInv, WorkerSound, Sending, Look, SaveDelivery, LetterSound
<1>2. HeartSound' /\ ModeSound' /\ RowsSound'
  BY RestAlone DEF Look, SaveDelivery, store
<1>3. CASE Look
  <2>1. ~Delivered(l.first)
    BY <1>1 DEF Sendable
  <2>2. worker' = [worker EXCEPT !.at = "store"]
    BY <1>3, <2>1 DEF Look
  <2>3. /\ worker' \in Workers /\ worker'.at = "store" /\ worker'.letter = l
        /\ worker'.queue = worker.queue /\ worker'.tried = worker.tried
        /\ worker'.batch = worker.batch /\ worker'.todo = worker.todo
    BY <1>1, <2>2 DEF Workers
  <2>4. UNCHANGED <<deliveries, told, now, mode>>
    BY <1>3 DEF Look, store
  <2>5. DeliveriesSound' /\ TellingSound' /\ Covered' = Covered
    BY <1>1, <2>4 DEF DeliveriesSound, TellingSound, Delivered, Covered
  <2>6. Standing(worker, worker.letter.back, worker.letter.first)'
    BY <1>1, <2>3, <2>4, <2>5 DEF Standing, Deferred
  <2>7. Sendable(worker.letter.first, worker.letter.covers, worker.letter.status, worker.letter.aloud)'
    BY <1>1, <2>3, <2>4 DEF Sendable, Delivered
  <2>8. ~worker'.letter.overtaken => Allowed(worker.letter.covers, worker.letter.aloud)'
    BY <1>1, <2>3, <2>4 DEF LetterSound, Allowed, Welcome, Stale
  <2>9. LetterSound'
    BY <1>1, <2>3, <2>7, <2>8 DEF LetterSound
  <2> QED
    BY <1>2, <2>3, <2>5, <2>6, <2>9 DEF WorkerSound, Sending, ProactiveInv
<1>4. CASE SaveDelivery
  <2>1. Saves(l.first, l.covers, l.status, l.aloud) /\ worker' = Back
    BY <1>4 DEF SaveDelivery, Saves
  <2>2. /\ DeliveriesSound' /\ TellingSound'
        /\ \A f \in Events : f # l.first => deliveries'[f] = deliveries[f]
        /\ deliveries'[l.first].status = l.status
        /\ Covered' \subseteq Covered \cup l.covers
    BY <1>1, <2>1, SavedIs
  <2>3. NoLetter \in Letters
    BY DEF NoLetter, Letters
  <2>4. /\ worker' \in Workers /\ worker'.at = l.back
        /\ worker'.queue = worker.queue /\ worker'.tried = worker.tried
        /\ worker'.batch = worker.batch /\ worker'.todo = worker.todo
    BY <1>1, <2>1, <2>3 DEF Back, Workers
  <2>5. l.first \in Events /\ l.status # "none"
    BY <1>1 DEF Sendable
  <2>6. l.back = "flush" => \A e \in worker.queue : Deferred(e)' /\ e # 0
    <3>1. ASSUME l.back = "flush", NEW e \in worker.queue PROVE Deferred(e)' /\ e # 0
      <4>1. e \in Events /\ Deferred(e) /\ e # l.first
        BY <1>1, <3>1 DEF Standing, Workers
      <4>2. e \in Occurrences
        BY <1>1, <4>1 DEF DeliveriesSound, Deferred
      <4> QED
        BY <2>2, <4>1, <4>2 DEF Deferred, Occurrences
    <3> QED
      BY <3>1
  <2>7. l.back \in {"resolve", "resolve_away"} =>
          \A e \in worker.todo \cap Occurrences : deliveries'[e].status # "none"
    BY <1>1, <2>2, <2>5, EventsAre DEF Standing
  <2>8. worker.batch \cap Covered' = {}
    BY <1>1, <2>2 DEF Standing
  <2>9. Standing(worker, worker.at, 0)'
    BY <1>1, <2>4, <2>6, <2>7, <2>8 DEF Standing
  <2>10. ~Sending'
    BY <1>1, <2>4 DEF Sending
  <2> QED
    BY <1>2, <2>2, <2>4, <2>9, <2>10 DEF WorkerSound, ProactiveInv
<1> QED
  BY <1>3, <1>4

-----------------------------------------------------------------------------
(* The steps together.                                                     *)

LEMMA InitIsProactiveInv == ProactiveInit => ProactiveInv
<1> SUFFICES ASSUME ProactiveInit PROVE ProactiveInv
  OBVIOUS
<1>1. RowsSound
  <2>1. NoEvent \in EventRows /\ HandledRow \in EventRows /\ NoEvent.attempts = 0 /\ HandledRow.attempts = 0
    BY DEF NoEvent, HandledRow, EventRows
  <2>2. PICK s \in Starts : events = [e \in Events |-> IF e \in s.known THEN HandledRow ELSE NoEvent]
    BY DEF ProactiveInit
  <2>3. \A e \in Events : events[e] = HandledRow \/ events[e] = NoEvent
    BY <2>2
  <2>4. events \in [Events -> EventRows]
    BY <2>1, <2>2, <2>3
  <2> QED
    BY <2>1, <2>3, <2>4, EventsAre DEF RowsSound
<1>2. HeartSound
  BY DEF ProactiveInit, HeartRest, HeartSound, Hearts
<1>3. /\ NoDelivery \in DeliveryRows /\ NoDelivery.status = "none" /\ NoDelivery.covers = {}
      /\ deliveries = [e \in Events |-> NoDelivery]
  BY DEF ProactiveInit, NoDelivery, DeliveryRows
<1>4. DeliveriesSound
  BY <1>3, EventsAre DEF DeliveriesSound
<1>5. TellingSound
  BY DEF ProactiveInit, TellingSound
<1>6. WorkerSound
  <2>1. worker = WorkerRest
    BY DEF ProactiveInit
  <2> QED
    BY <2>1, RestIs DEF WorkerSound, Sending
<1>7. ModeSound
  BY DEF ProactiveInit, Calm, ModeSound
<1> QED
  BY <1>1, <1>2, <1>4, <1>5, <1>6, <1>7 DEF ProactiveInv

LEMMA NextKeepsProactiveInv ==
    ProactiveInv /\ [ProactiveNext]_proactiveVars => ProactiveInv'
<1> SUFFICES ASSUME ProactiveInv, [ProactiveNext]_proactiveVars
             PROVE  ProactiveInv'
  OBVIOUS
<1>1. CASE Heartbeat \/ \E e \in Sensed : Sense(e)
  BY <1>1, HeartbeatSound
<1>2. CASE \/ ClockTicks \/ QuietEnds \/ UserIsFree \/ Enable
           \/ ModeChanges \/ WorkerCutShort \/ HeartbeatFails \/ CrashAndRestart
           \/ UNCHANGED proactiveVars
  BY <1>2, OutsideSound
<1>3. CASE Worker
  <2>1. CASE TickBegins
    BY <2>1, TickBeginsSound
  <2>2. CASE ReadPending \/ AwayEnds \/ Resolved
    BY <2>2, TurnsSound
  <2>3. CASE ProcessReminder
    BY <2>3, ProcessReminderSound
  <2>4. CASE Ask
    BY <2>4, AskSound
  <2>5. CASE Answer
    BY <2>5, AnswerSound
  <2>6. ASSUME NEW e \in Events,
               \/ Flush(e) \/ SettleOld(e) \/ PutOff(e) \/ Drop(e) \/ ToInbox(e)
               \/ TakeReminder(e) \/ ToBatch(e) \/ WhileAway(e) \/ Resolve(e)
        PROVE  ProactiveInv'
    BY <2>6, FlushSound, SettledSound, ToInboxSound, TakenSound, WhileAwaySound, ResolveSound
  <2>7. CASE Look \/ SaveDelivery
    BY <2>7, SinkSound
  <2> QED
    BY <1>3, <2>1, <2>2, <2>3, <2>4, <2>5, <2>6, <2>7 DEF Worker
<1> QED
  BY <1>1, <1>2, <1>3 DEF ProactiveNext

\* The parts of the invariant hold together, for any events, ranks, buffer and number of
\* crashes and cancellations (proactive/worker.py, notifications.py, runtime.py).
THEOREM ProactiveInvariance == ProactiveSpec => []ProactiveInv
<1>1. ProactiveInit => ProactiveInv
  BY InitIsProactiveInv
<1>2. ProactiveInv /\ [ProactiveNext]_proactiveVars => ProactiveInv'
  BY NextKeepsProactiveInv
<1> QED
  BY <1>1, <1>2, PTL DEF ProactiveSpec

\* Nobody is told of an event twice, alone, in a batch or after a deferral, though the row
\* of an event that was told may stay pending over a cancellation or a crash.
THEOREM NothingIsToldTwice == ProactiveSpec => []ToldOnce
<1>1. ProactiveInv => ToldOnce
  BY DEF ProactiveInv, TellingSound, ToldOnce
<1> QED
  BY <1>1, ProactiveInvariance, PTL

\* A reminder's event is settled without a delivery only where initiative is switched off or
\* a full buffer gives it up: no attempt is ever counted for it, and what covers it is its
\* own delivery (DecisionWorker._tick, ProactiveRuntime.process).
THEOREM RemindersAreNotSwallowed == ProactiveSpec => ReminderIsNotSwallowed
<1>1. ProactiveInv /\ [ProactiveNext]_proactiveVars =>
        [\A e \in Occurrences : Pending(e) /\ events'[e].status = "handled" =>
            \/ deliveries[e].status # "none"
            \/ ~mode.enabled
            \/ heart.at = "evict" /\ heart.lowest = e]_proactiveVars
  <2> SUFFICES ASSUME ProactiveInv, ProactiveNext, NEW e \in Occurrences, Pending(e),
                      events'[e].status = "handled"
               PROVE  \/ deliveries[e].status # "none"
                      \/ ~mode.enabled
                      \/ heart.at = "evict" /\ heart.lowest = e
    OBVIOUS
  <2>1. /\ RowsSound /\ HeartSound /\ DeliveriesSound /\ WorkerSound
        /\ events \in [Events -> EventRows] /\ e \in Events /\ e \notin Sensed
        /\ events[e].status # "handled" /\ worker.tried[e] = 0
    BY EventsAre DEF ProactiveInv, RowsSound, WorkerSound, Pending, Standing
  <2>2. events'[e] # events[e]
    BY <2>1
  <2>3. CASE Heartbeat \/ \E f \in Sensed : Sense(f)
    <3>1. CASE Fire
      BY <2>1, <3>1 DEF Fire, AddOccurrence, PendingRow
    <3>2. CASE Evict
      BY <2>1, <2>2, <3>2 DEF Evict
    <3>3. CASE AddSensed
      <4>1. heart.event # e
        BY <2>1, <3>3 DEF AddSensed, HeartSound
      <4> QED
        BY <2>1, <2>2, <3>3, <4>1 DEF AddSensed
    <3> QED
      BY <2>2, <2>3, <3>1, <3>2, <3>3 DEF Heartbeat, SchedulerReads, SaveSchedule, Sense, store
  <2>4. CASE TickBegins \/ ReadPending
    <3>1. UNCHANGED events \/ \E next \in {"gate", "away"} : Ready(next)
      BY <2>4 DEF TickBegins, ReadPending
    <3>2. e \notin Stale
      BY <2>1 DEF Stale
    <3> QED
      BY <2>1, <2>2, <3>1, <3>2 DEF Ready
  <2>5. CASE Ask
    <3>1. worker.batch \subseteq Sensed
      BY <2>1 DEF WorkerSound, Workers
    <3>2. PICK late \in SUBSET worker.batch, asks \in BOOLEAN :
              events'[e] = IF e \in late \cup (IF asks THEN worker.batch \ late ELSE {})
                           THEN [Copy(e) EXCEPT !.attempts = worker.tried[e] +
                                   IF e \in (IF asks THEN worker.batch \ late ELSE {}) THEN 1 ELSE 0]
                           ELSE events[e]
      BY <2>1, <2>5 DEF Ask
    <3> QED
      BY <2>1, <2>2, <3>1, <3>2
  <2>6. ASSUME NEW f \in Events, SettleOld(f) \/ PutOff(f) \/ Drop(f) \/ Resolve(f)
        PROVE  deliveries[e].status # "none" \/ ~mode.enabled
    <3>1. f = e
      BY <2>1, <2>2, <2>6 DEF SettleOld, PutOff, Drop, Resolve, Write
    <3>2. CASE SettleOld(f)
      BY <2>1, <3>1, <3>2, CoveredReminder DEF SettleOld
    <3>3. CASE PutOff(f)
      BY <2>1, <3>1, <3>3 DEF PutOff, Write, Copy
    <3>4. CASE Drop(f)
      BY <2>1, <3>1, <3>4 DEF Drop, Gate
    <3>5. CASE Resolve(f)
      <4>1. Standing(worker, worker.at, 0) /\ e \in worker.todo /\ e # 0
        BY <2>1, <3>1, <3>5 DEF Resolve, WorkerSound, Sending, Occurrences
      <4> QED
        BY <3>5, <4>1 DEF Resolve, Standing
    <3> QED
      BY <2>6, <3>2, <3>3, <3>4, <3>5
  <2>7. CASE Worker
    BY <2>2, <2>4, <2>5, <2>6, <2>7
    DEF Worker, ProcessReminder, ProcessFirst, Answer, AwayEnds, Resolved, Flush, ToInbox,
        TakeReminder, ToBatch, WhileAway, Look, SaveDelivery, store
  <2>8. CASE \/ ClockTicks \/ QuietEnds \/ UserIsFree \/ Enable
             \/ ModeChanges \/ WorkerCutShort \/ HeartbeatFails \/ CrashAndRestart
    BY <2>2, <2>8 DEF ClockTicks, QuietEnds, UserIsFree, Enable, ModeChanges, WorkerCutShort,
                      HeartbeatFails, CrashAndRestart, store
  <2> QED
    BY <2>3, <2>7, <2>8 DEF ProactiveNext
<1> QED
  BY <1>1, ProactiveInvariance, PTL DEF ProactiveSpec, ReminderIsNotSwallowed

\* A reminder is decided to be said aloud when initiative is on and it is not quiet; a
\* remark, when no gate holds it back at that moment, however long the model took.  It is
\* still so when the delivery is stored, two awaits later, unless the clock or the mode
\* moved on meanwhile (DecisionWorker._tick, InboxNotificationSink.deliver).
THEOREM RemarksAreWelcome == ProactiveSpec => SpeaksWhenWelcome
<1>1. ProactiveInv /\ [ProactiveNext]_proactiveVars =>
        [\A e \in Events :
            deliveries'[e].aloud /\ ~deliveries[e].aloud /\ ~worker.letter.overtaken =>
            /\ mode.enabled
            /\ \A o \in deliveries'[e].covers :
                  /\ mode.quiet => o \in Urgent
                  /\ o \in Sensed => o \notin Stale /\ mode.user # "busy"
                  /\ o \in Sensed \ Urgent => mode.user \notin Absent]_proactiveVars
  <2> SUFFICES ASSUME ProactiveInv, ProactiveNext, NEW e \in Events,
                      deliveries'[e].aloud, ~deliveries[e].aloud, ~worker.letter.overtaken
               PROVE  mode.enabled /\ \A o \in deliveries'[e].covers : Welcome(o)
    BY DEF Welcome
  <2>1. SaveDelivery
    BY DEF ProactiveNext, Heartbeat, SchedulerReads, Fire, SaveSchedule, Evict, AddSensed, Sense,
           ClockTicks, QuietEnds, UserIsFree, Enable, ModeChanges, WorkerCutShort, HeartbeatFails,
           CrashAndRestart, Worker, TickBegins, ReadPending, ProcessReminder, ProcessFirst, Ask, Answer,
           AwayEnds, Resolved, Look, Flush, SettleOld, PutOff, Drop, ToInbox, TakeReminder, ToBatch,
           WhileAway, Resolve, store
  <2>2. PICK l : l = worker.letter
    OBVIOUS
  <2>3. /\ deliveries \in [Events -> DeliveryRows]
        /\ LetterSound /\ l.first \in Events
    BY <2>1, <2>2 DEF ProactiveInv, DeliveriesSound, WorkerSound, Sending, SaveDelivery, LetterSound,
                      Sendable
  <2>4. deliveries' = [deliveries EXCEPT ![l.first] =
                         [status |-> l.status, covers |-> l.covers, aloud |-> l.aloud]]
    BY <2>1, <2>2 DEF SaveDelivery
  <2>5. e = l.first /\ l.aloud /\ deliveries'[e].covers = l.covers
    BY <2>3, <2>4
  <2>6. Allowed(l.covers, l.aloud)
    BY <2>2, <2>3 DEF LetterSound
  <2> QED
    BY <2>5, <2>6 DEF Allowed
<1> QED
  BY <1>1, ProactiveInvariance, PTL DEF ProactiveSpec, SpeaksWhenWelcome
=============================================================================
