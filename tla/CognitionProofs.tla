--------------------------- MODULE CognitionProofs ---------------------------
(***************************************************************************)
(* Proofs about the journal and those who write it (module Cognition), for *)
(* any jobs, topics, page and batch size.                                  *)
(*                                                                         *)
(* NoEventSkipped needs to know of each writer that what it holds has no   *)
(* gap: every live message of the owner's that is older than the last of   *)
(* its list is in the list, whatever its order, or was in it once (cut),   *)
(* or was dealt with before (Gapless).  A page is read from the oldest on  *)
(* and cut at the end, so it has no gap when it is read; messages that     *)
(* arrive later are younger, those that expire later do not count, and     *)
(* what a job drops from its list goes to its cut.                         *)
(*                                                                         *)
(* The last part is about the long-term memory (module Memory), for any    *)
(* clients, contents and number of memories: what was closed comes back    *)
(* only by a save of what was read before, and what was superseded has an  *)
(* heir.  That heirs lead somewhere is shown by a rank that the invariant  *)
(* gives every memory and that rises from each to an heir of it (Ranks).   *)
(***************************************************************************)
EXTENDS Cognition, Memory, FiniteSetTheorems, WellFoundedInduction, TLAPS

-----------------------------------------------------------------------------
(* Helpers.                                                                *)

LEMMA GreatestIs ==
    ASSUME NEW n \in Nat, NEW S, S \subseteq 0..n, S # {}
    PROVE  Max(S) \in S /\ \A x \in S : x <= Max(S)
<1> DEFINE T == { n - x : x \in S }
<1>1. T \subseteq Nat /\ T # {}
  <2>1. \A x \in S : x \in Nat /\ n - x \in Nat
    OBVIOUS
  <2> QED
    BY <2>1
<1>2. PICK m \in T : \A y \in T : ~ (<<y, m>> \in OpToRel(<, Nat))
  BY <1>1, NatLessThanWellFounded, WFMin, Zenon
<1>3. \A y \in T : m <= y
  <2> TAKE y \in T
  <2>1. <<y, m>> \in Nat \X Nat
    BY <1>1
  <2>2. ~ (y < m)
    BY <1>2, <2>1, Zenon DEF OpToRel
  <2> QED
    BY <1>1, <2>2
<1>4. PICK z \in S : m = n - z
  OBVIOUS
<1>5. \A x \in S : z >= x
  <2> TAKE x \in S
  <2>1. m <= n - x
    BY <1>3
  <2> QED
    BY <1>4, <2>1
<1> QED
  BY <1>5 DEF Max

\* What is read first has no gap.
LEMMA FirstIs ==
    ASSUME NEW n \in Nat, NEW len \in Nat, NEW S, S \subseteq 1..len
    PROVE  /\ First(n, S) \subseteq S
           /\ \A e \in First(n, S), x \in S : x <= e => x \in First(n, S)
<1>1. First(n, S) \subseteq S
  BY DEF First
<1>2. ASSUME NEW e \in First(n, S), NEW x \in S, x <= e PROVE x \in First(n, S)
  <2> DEFINE A == { y \in S : y < x }
             B == { y \in S : y < e }
  <2>1. IsFiniteSet(S)
    <3>1. IsFiniteSet(1..len)
      BY FS_Interval
    <3> QED
      BY <3>1, FS_Subset
  <2>2. A \subseteq B
    <3> SUFFICES ASSUME NEW y \in A PROVE y \in B
      OBVIOUS
    <3>1. y \in S /\ y < x
      OBVIOUS
    <3>2. \A z \in S : z \in Nat
      OBVIOUS
    <3>3. e \in S
      BY <1>1
    <3> QED
      BY <1>2, <3>1, <3>2, <3>3
  <2>3. IsFiniteSet(A) /\ IsFiniteSet(B)
    BY <2>1, FS_Subset
  <2>4. Cardinality(A) <= Cardinality(B) /\ Cardinality(A) \in Nat /\ Cardinality(B) \in Nat
    BY <2>2, <2>3, FS_Subset, FS_CardinalityType
  <2>5. Cardinality(B) < n
    BY <1>2 DEF First
  <2> HIDE DEF A, B
  <2>6. Cardinality(A) < n
    BY <2>4, <2>5
  <2> QED
    BY <2>6 DEF A, First
<1> QED
  BY <1>1, <1>2

-----------------------------------------------------------------------------
(* No message of the owner's is skipped.                                   *)

\* The stream: rows are numbered as they come.
StreamOK ==
    /\ log \in Seq({"signal", "small", "other"})
    /\ live \subseteq DOMAIN log
    /\ cursor \in 0..Len(log)
    /\ \A a \in Actors : Range(act[a].msgs) \cup act[a].cut \subseteq DOMAIN log

Covered == seen \cup passedOver

\* A list of messages that, with what was let go of, has everything that must be
\* accounted for up to its last element, in whatever order.
Gapless(msgs, cut) ==
    msgs # <<>> =>
       \A e \in OwnersIn(live) : e <= msgs[Len(msgs)] => e \in Range(msgs) \cup cut \cup Covered

Whole == \A a \in Actors \ {Digest} : Gapless(act[a].msgs, act[a].cut)

Plans == [stage : {"idle", "held", "waiting", "asking"}, base : Nat,
          msgs : Seq(Nat), cut : SUBSET Nat]

ActType == act \in [Actors -> Plans]

NoGap == \A e \in OwnersIn(live) : e <= cursor => e \in Covered

EventInv == ActType /\ StreamOK /\ Whole /\ NoGap

\* A list in order ends with the greatest.
LEMMA InOrderIs ==
    ASSUME NEW n \in Nat, NEW S, S \subseteq 1..n, NEW list \in InOrder(S)
    PROVE  /\ list \in Seq(Nat) /\ Range(list) = S
           /\ list # <<>> => list[Len(list)] \in S /\ \A x \in S : x <= list[Len(list)]
<1>1. Cardinality(S) \in Nat
  <2>1. IsFiniteSet(1..n)
    BY FS_Interval
  <2> QED
    BY <2>1, FS_Subset, FS_CardinalityType
<1>2. PICK k \in Nat : k = Cardinality(S)
  BY <1>1
<1>3. /\ list \in [1..k -> S] /\ Range(list) = S
      /\ \A i, j \in DOMAIN list : i < j => list[i] < list[j]
  BY <1>2 DEF InOrder
<1>4. list \in [1..k -> Nat]
  <2>1. S \subseteq Nat
    OBVIOUS
  <2> QED
    BY <1>3, <2>1
<1>5. list \in Seq(Nat) /\ Len(list) = k
  BY <1>4
<1>6. ASSUME list # <<>> PROVE list[Len(list)] \in S /\ \A x \in S : x <= list[Len(list)]
  <2>1. k \in 1..k
    BY <1>5, <1>6
  <2>2. ASSUME NEW x \in S PROVE x <= list[k]
    <3>1. PICK i \in 1..k : list[i] = x
      BY <1>3 DEF Range
    <3>2. CASE i = k
      BY <1>4, <2>1, <3>1, <3>2
    <3>3. CASE i < k
      <4>1. list[i] < list[k]
        BY <1>3, <2>1, <3>3
      <4> QED
        BY <1>4, <2>1, <3>1, <4>1
    <3> QED
      BY <3>2, <3>3
  <2> QED
    BY <1>3, <1>5, <2>1, <2>2
<1> QED
  BY <1>3, <1>5, <1>6

\* The end of a list that has grown too long ends as the list does.
LEMMA NewestIs ==
    ASSUME NEW list \in Seq(Nat)
    PROVE  /\ Newest(list) \in Seq(Nat) /\ Range(Newest(list)) \subseteq Range(list)
           /\ Newest(list) # <<>> =>
                 list # <<>> /\ Newest(list)[Len(Newest(list))] = list[Len(list)]
<1>1. CASE Len(list) <= Page
  BY <1>1 DEF Newest
<1>2. CASE ~ (Len(list) <= Page)
  <2>1. PICK end : end = SubSeq(list, Len(list) - Page + 1, Len(list))
    OBVIOUS
  <2>2. Newest(list) = end
    BY <1>2, <2>1 DEF Newest
  <2>3. Page \in Nat /\ Page >= 1 /\ Len(list) \in Nat /\ Len(list) > Page
    BY <1>2, ReadsAssumption
  <2>4. end \in Seq(Nat) /\ Len(end) = Page
        /\ \A i \in 1..Page : end[i] = list[Len(list) - Page + i]
    BY <2>1, <2>3
  <2>5. \A i \in 1..Page : Len(list) - Page + i \in 1..Len(list)
    BY <2>3
  <2>6. Range(end) \subseteq Range(list)
    BY <2>4, <2>5 DEF Range
  <2>7. end[Len(end)] = list[Len(list)] /\ list # <<>>
    <3>1. Page \in 1..Page /\ Len(list) - Page + Page = Len(list)
      BY <2>3
    <3> QED
      BY <2>3, <2>4, <3>1
  <2> QED
    BY <2>2, <2>4, <2>6, <2>7
<1> QED
  BY <1>1, <1>2

\* One list after another.
LEMMA JoinIs ==
    ASSUME NEW s \in Seq(Nat), NEW t \in Seq(Nat)
    PROVE  /\ s \o t \in Seq(Nat) /\ Range(s \o t) = Range(s) \cup Range(t)
           /\ t # <<>> => (s \o t)[Len(s \o t)] = t[Len(t)]
           /\ t = <<>> => s \o t = s
<1>1. PICK u : u = s \o t
  OBVIOUS
<1>2. /\ u \in Seq(Nat) /\ Len(u) = Len(s) + Len(t)
      /\ Len(s) \in Nat /\ Len(t) \in Nat /\ DOMAIN u = 1..Len(u)
      /\ DOMAIN s = 1..Len(s) /\ DOMAIN t = 1..Len(t)
      /\ \A i \in 1..Len(u) : u[i] = IF i <= Len(s) THEN s[i] ELSE t[i - Len(s)]
  BY <1>1
<1>3. Range(u) \subseteq Range(s) \cup Range(t)
  <2> SUFFICES ASSUME NEW i \in 1..Len(u) PROVE u[i] \in Range(s) \cup Range(t)
    BY <1>2 DEF Range
  <2>1. CASE i <= Len(s)
    <3>1. i \in 1..Len(s) /\ u[i] = s[i]
      BY <1>2, <2>1
    <3> QED
      BY <1>2, <3>1 DEF Range
  <2>2. CASE ~ (i <= Len(s))
    <3>1. i - Len(s) \in 1..Len(t) /\ u[i] = t[i - Len(s)]
      BY <1>2, <2>2
    <3> QED
      BY <1>2, <3>1 DEF Range
  <2> QED
    BY <2>1, <2>2
<1>4. Range(s) \subseteq Range(u)
  <2> SUFFICES ASSUME NEW i \in 1..Len(s) PROVE s[i] \in Range(u)
    BY <1>2 DEF Range
  <2>1. i \in 1..Len(u) /\ u[i] = s[i]
    BY <1>2
  <2> QED
    BY <1>2, <2>1 DEF Range
<1>5. ASSUME NEW i \in 1..Len(t) PROVE Len(s) + i \in 1..Len(u) /\ u[Len(s) + i] = t[i]
  <2>1. PICK j \in Nat : j = Len(s) + i
    BY <1>2
  <2>2. j \in 1..Len(u) /\ ~ (j <= Len(s)) /\ j - Len(s) = i
    BY <1>2, <2>1
  <2>3. u[j] = t[j - Len(s)]
    BY <1>2, <2>2
  <2> QED
    BY <2>1, <2>2, <2>3
<1>6. Range(t) \subseteq Range(u)
  <2> SUFFICES ASSUME NEW i \in 1..Len(t) PROVE t[i] \in Range(u)
    BY <1>2 DEF Range
  <2> QED
    BY <1>2, <1>5 DEF Range
<1>7. t # <<>> => u[Len(u)] = t[Len(t)]
  BY <1>2, <1>5
<1>8. t = <<>> => u = s
  BY <1>1
<1> QED
  BY <1>1, <1>2, <1>3, <1>4, <1>6, <1>7, <1>8

\* What is read after the cursor has no gap.
LEMMA ReadIs ==
    ASSUME EventInv
    PROVE  /\ OwnersIn(PageAfter(cursor)) \subseteq live
           /\ \A x \in OwnersIn(PageAfter(cursor)), e \in OwnersIn(live) :
                 e <= x => e \in OwnersIn(PageAfter(cursor)) \cup Covered
<1> DEFINE marker == IF cursor \in live THEN cursor ELSE 0
           S == { e \in live : e > marker }
<1>1. live \subseteq 1..Len(log) /\ Len(log) \in Nat /\ cursor \in Nat
  BY DEF EventInv, StreamOK
<1>2. S \subseteq 1..Len(log) /\ PageAfter(cursor) = First(Page, S)
  BY <1>1 DEF PageAfter
<1>3. /\ PageAfter(cursor) \subseteq S
      /\ \A x \in PageAfter(cursor), e \in S : e <= x => e \in PageAfter(cursor)
  <2> HIDE DEF S
  <2>1. Page \in Nat
    BY ReadsAssumption
  <2>2. /\ First(Page, S) \subseteq S
        /\ \A x \in First(Page, S), e \in S : e <= x => e \in First(Page, S)
    BY <1>1, <1>2, <2>1, FirstIs
  <2> QED
    BY <1>2, <2>2
<1>4. ASSUME NEW x \in OwnersIn(PageAfter(cursor)), NEW e \in OwnersIn(live), e <= x
      PROVE  e \in OwnersIn(PageAfter(cursor)) \cup Covered
  <2>1. e \in live /\ e \in 1..Len(log) /\ x \in PageAfter(cursor)
    BY <1>1, <1>4 DEF OwnersIn
  <2>2. CASE e > marker
    BY <1>3, <1>4, <2>1, <2>2 DEF OwnersIn
  <2>3. CASE ~ (e > marker)
    BY <1>1, <1>4, <2>1, <2>3 DEF EventInv, NoGap
  <2> QED
    BY <2>2, <2>3
<1> QED
  BY <1>3, <1>4 DEF OwnersIn

\* ... nor has the beginning of it, as a list.
LEMMA BatchIs ==
    ASSUME EventInv, NEW msgs \in InOrder(First(Batch, OwnersIn(PageAfter(cursor))))
    PROVE  /\ msgs \in Seq(Nat) /\ Range(msgs) \subseteq DOMAIN log
           /\ Gapless(msgs, {})
<1> DEFINE R == OwnersIn(PageAfter(cursor))
           B == First(Batch, R)
<1>1. /\ R \subseteq live /\ live \subseteq 1..Len(log) /\ Len(log) \in Nat
      /\ DOMAIN log = 1..Len(log)
      /\ \A x \in R, e \in OwnersIn(live) : e <= x => e \in R \cup Covered
  BY ReadIs DEF EventInv, StreamOK
<1> HIDE DEF R
<1>2. R \subseteq 1..Len(log)
  BY <1>1
<1>3. /\ B \subseteq R
      /\ \A x \in B, e \in R : e <= x => e \in B
  BY <1>1, <1>2, FirstIs, ReadsAssumption
<1>4. msgs \in InOrder(B)
  BY DEF R
<1> HIDE DEF B
<1>5. B \subseteq 1..Len(log)
  BY <1>2, <1>3
<1>6. /\ msgs \in Seq(Nat) /\ Range(msgs) = B
      /\ msgs # <<>> => msgs[Len(msgs)] \in B
  BY <1>1, <1>4, <1>5, InOrderIs
<1> QED
  BY <1>1, <1>3, <1>5, <1>6 DEF Gapless

\* What a job drops it has let go of, and the end of its list is as it was.
LEMMA PendingIs ==
    ASSUME EventInv, NEW a \in Actors, a # Digest
    PROVE  /\ Pending(a) \in Seq(Nat)
           /\ Range(Pending(a)) \cup LetGo(a) \subseteq DOMAIN log
           /\ Gapless(Pending(a), LetGo(a))
<1>1. PICK held : held = act[a].msgs
  OBVIOUS
<1>2. PICK cut : cut = act[a].cut
  OBVIOUS
<1>3. /\ held \in Seq(Nat) /\ Range(held) \subseteq DOMAIN log /\ cut \subseteq DOMAIN log
      /\ Gapless(held, cut)
  BY <1>1, <1>2 DEF EventInv, ActType, Plans, StreamOK, Whole
<1>4. CASE ~Resumes(a)
  <2>1. Pending(a) = held /\ LetGo(a) = cut
    BY <1>1, <1>2, <1>4 DEF Pending, LetGo
  <2> QED
    BY <1>3, <2>1
<1>5. CASE Resumes(a)
  <2>1. PICK k : k = Place(a)
    OBVIOUS
  <2>2. k \in 1..Len(held) /\ held[k] = cursor /\ Len(held) \in Nat
    BY <1>1, <1>3, <1>5, <2>1 DEF Resumes, Place, Range
  <2>3. PICK rest : rest = SubSeq(held, k + 1, Len(held))
    OBVIOUS
  <2>4. /\ Pending(a) = rest
        /\ LetGo(a) = cut \cup { held[i] : i \in 1..(k - 1) }
    BY <1>1, <1>2, <1>5, <2>1, <2>3 DEF Pending, LetGo
  <2>5. /\ rest \in Seq(Nat) /\ Len(rest) = Len(held) - k
        /\ \A i \in 1..(Len(held) - k) : rest[i] = held[k + i]
    BY <1>3, <2>2, <2>3
  <2>6. \A i \in 1..(k - 1) : i \in 1..Len(held)
    BY <2>2
  <2>7. \A i \in 1..(Len(held) - k) : k + i \in 1..Len(held)
    BY <2>2
  <2>8. \A i \in 1..Len(held) : held[i] \in Range(held)
    BY <1>3 DEF Range
  <2>9. Range(rest) \subseteq Range(held)
    BY <2>5, <2>7, <2>8 DEF Range
  <2>10. LetGo(a) \subseteq DOMAIN log
    BY <1>3, <2>4, <2>6, <2>8
  <2>11. ASSUME NEW i \in 1..Len(held), i > k PROVE held[i] \in Range(rest)
    <3>1. i - k \in 1..(Len(held) - k) /\ k + (i - k) = i
      BY <2>2, <2>11
    <3>2. rest[i - k] = held[i]
      BY <2>5, <3>1
    <3> QED
      BY <2>5, <3>1, <3>2 DEF Range
  <2>12. ASSUME NEW e \in Range(held) PROVE e \in Range(rest) \cup LetGo(a) \cup {cursor}
    <3>1. PICK i \in 1..Len(held) : held[i] = e
      BY <1>3 DEF Range
    <3>2. i < k => i \in 1..(k - 1)
      BY <2>2
    <3>3. i < k \/ i = k \/ i > k
      BY <2>2
    <3> QED
      BY <2>2, <2>4, <2>11, <3>1, <3>2, <3>3
  <2>13. ASSUME rest # <<>> PROVE held # <<>> /\ rest[Len(rest)] = held[Len(held)]
    <3>1. Len(rest) \in 1..(Len(held) - k) /\ k + Len(rest) = Len(held)
      BY <2>2, <2>5, <2>13
    <3>2. rest[Len(rest)] = held[k + Len(rest)]
      BY <2>5, <3>1
    <3> QED
      BY <2>2, <3>1, <3>2
  <2>14. cursor \in Nat /\ (cursor \in OwnersIn(live) => cursor \in Covered)
    BY DEF EventInv, StreamOK, NoGap
  <2>15. Gapless(rest, LetGo(a))
    <3> SUFFICES ASSUME rest # <<>>, NEW e \in OwnersIn(live), e <= rest[Len(rest)]
                 PROVE  e \in Range(rest) \cup LetGo(a) \cup Covered
      BY DEF Gapless
    <3>1. e \in Range(held) \cup cut \cup Covered
      BY <1>3, <2>13 DEF Gapless
    <3> QED
      BY <2>4, <2>12, <2>14, <3>1
  <2> QED
    BY <1>3, <2>4, <2>5, <2>9, <2>10, <2>15
<1> QED
  BY <1>4, <1>5

\* The cursor moves to the end of a list without a gap.
LEMMA AdvancedIs ==
    ASSUME EventInv, NEW msgs \in Seq(Nat), NEW cut, Range(msgs) \subseteq DOMAIN log,
           Gapless(msgs, cut), Advanced(msgs, cut), UNCHANGED <<log, live>>
    PROVE  NoGap' /\ cursor' \in 0..Len(log) /\ Covered \subseteq Covered'
<1>1. /\ Len(log) \in Nat /\ cursor \in 0..Len(log) /\ DOMAIN log = 1..Len(log)
      /\ live \subseteq 1..Len(log)
  BY DEF EventInv, StreamOK
<1>2. /\ Covered \subseteq Covered' /\ Range(msgs) \subseteq Covered'
      /\ \A e \in cut : cursor < e /\ e <= cursor' => e \in Covered'
  BY DEF Advanced, Covered
<1>3. CASE msgs = <<>>
  <2>1. cursor' = cursor
    BY <1>3 DEF Advanced
  <2> QED
    BY <1>1, <1>2, <2>1 DEF EventInv, NoGap, OwnersIn
<1>4. CASE msgs # <<>>
  <2>1. cursor' = msgs[Len(msgs)]
    BY <1>4 DEF Advanced
  <2>2. cursor' \in Range(msgs)
    BY <1>4, <2>1 DEF Range
  <2>3. cursor' \in 1..Len(log)
    BY <1>1, <2>2
  <2>4. ASSUME NEW e \in OwnersIn(live), e <= cursor' PROVE e \in Covered'
    <3>1. e \in Range(msgs) \cup cut \cup Covered
      BY <1>4, <2>1, <2>4 DEF Gapless
    <3>2. e \in Nat
      BY <1>1 DEF OwnersIn
    <3>3. e <= cursor => e \in Covered
      BY DEF EventInv, NoGap
    <3> QED
      BY <1>1, <1>2, <2>4, <3>1, <3>2, <3>3
  <2> QED
    BY <1>1, <1>2, <2>3, <2>4 DEF NoGap, OwnersIn
<1> QED
  BY <1>3, <1>4

\* One writer goes on, with messages that have no gap.
LEMMA WriterKeeps ==
    ASSUME EventInv, UNCHANGED <<log, live>>, Covered \subseteq Covered', NoGap',
           cursor' \in 0..Len(log), NEW a \in Actors, NEW next \in Plans,
           act' = [act EXCEPT ![a] = next],
           Range(next.msgs) \cup next.cut \subseteq DOMAIN log,
           a # Digest => Gapless(next.msgs, next.cut)
    PROVE  EventInv'
<1>1. ActType' /\ act'[a] = next /\ \A b \in Actors : b # a => act'[b] = act[b]
  BY DEF EventInv, ActType
<1>2. StreamOK'
  BY <1>1 DEF EventInv, StreamOK
<1>3. Whole'
  <2> SUFFICES ASSUME NEW b \in Actors \ {Digest} PROVE Gapless(act[b].msgs, act[b].cut)'
    BY DEF Whole
  <2>1. PICK msgs : msgs = act'[b].msgs
    OBVIOUS
  <2>2. PICK cut : cut = act'[b].cut
    OBVIOUS
  <2>3. Gapless(msgs, cut)
    BY <1>1, <2>1, <2>2 DEF EventInv, Whole
  <2>4. OwnersIn(live)' = OwnersIn(live)
    BY DEF OwnersIn
  <2> QED
    BY <2>1, <2>2, <2>3, <2>4 DEF Gapless
<1> QED
  BY <1>1, <1>2, <1>3 DEF EventInv

LEMMA IdleIs == Idle \in Plans /\ Idle.msgs = <<>> /\ Idle.cut = {} /\ Range(Idle.msgs) = {} /\ Gapless(Idle.msgs, Idle.cut)
<1>1. Idle \in Plans /\ Idle.msgs = <<>> /\ Idle.cut = {}
  BY DEF Idle, Plans
<1>2. Range(<<>>) = {}
  BY DEF Range
<1> QED
  BY <1>1, <1>2 DEF Gapless

\* A writer is done, or nobody has done anything to the stream.
LEMMA IdleKeeps ==
    ASSUME EventInv, UNCHANGED <<log, live>>, Covered \subseteq Covered', NoGap',
           cursor' \in 0..Len(log), NEW a \in Actors, act' = [act EXCEPT ![a] = Idle]
    PROVE  EventInv'
<1>1. Range(Idle.msgs) \cup Idle.cut \subseteq DOMAIN log
  BY IdleIs
<1> QED
  BY <1>1, IdleIs, WriterKeeps

LEMMA StreamStays ==
    ASSUME EventInv, UNCHANGED <<log, live, cursor, history>>
    PROVE  NoGap' /\ cursor' \in 0..Len(log) /\ Covered \subseteq Covered'
BY DEF EventInv, StreamOK, NoGap, OwnersIn, Covered, history

\* A message comes: it is younger than all that is held.
LEMMA MessageKeeps == ASSUME EventInv, NEW kind \in {"signal", "small", "other"}, Message(kind) PROVE EventInv'
<1>1. /\ log' = Append(log, kind) /\ live' = live \cup {Len(log) + 1}
      /\ UNCHANGED <<cursor, act, seen, passedOver>> /\ Covered' = Covered
  BY DEF Message, history, Covered
<1>2. /\ Len(log) \in Nat /\ Len(log') = Len(log) + 1 /\ DOMAIN log = 1..Len(log)
      /\ DOMAIN log' = 1..(Len(log) + 1) /\ log' \in Seq({"signal", "small", "other"})
      /\ \A e \in 1..Len(log) : log'[e] = log[e]
  BY <1>1 DEF EventInv, StreamOK
<1>3. StreamOK' /\ ActType'
  BY <1>1, <1>2 DEF EventInv, StreamOK, ActType
<1>4. \A e \in OwnersIn(live)' : e \in OwnersIn(live) \/ e = Len(log) + 1
  BY <1>1, <1>2 DEF OwnersIn, EventInv, StreamOK
<1>5. Whole'
  <2> SUFFICES ASSUME NEW b \in Actors \ {Digest} PROVE Gapless(act[b].msgs, act[b].cut)'
    BY DEF Whole
  <2>1. PICK msgs : msgs = act[b].msgs
    OBVIOUS
  <2>2. PICK cut : cut = act[b].cut
    OBVIOUS
  <2>3. msgs \in Seq(Nat) /\ Range(msgs) \subseteq 1..Len(log) /\ Gapless(msgs, cut)
    BY <1>2, <2>1, <2>2 DEF EventInv, ActType, Plans, StreamOK, Whole
  <2>4. ASSUME msgs # <<>>, NEW e \in OwnersIn(live)', e <= msgs[Len(msgs)]
        PROVE  e \in Range(msgs) \cup cut \cup Covered
    <3>1. msgs[Len(msgs)] \in 1..Len(log)
      BY <2>3, <2>4 DEF Range
    <3>2. e # Len(log) + 1
      BY <1>2, <2>4, <3>1
    <3>3. e \in OwnersIn(live)
      BY <1>4, <3>2
    <3> QED
      BY <2>3, <2>4, <3>3 DEF Gapless
  <2> QED
    BY <1>1, <2>1, <2>2, <2>4 DEF Gapless
<1>6. NoGap'
  <2> SUFFICES ASSUME NEW e \in OwnersIn(live)', e <= cursor PROVE e \in Covered
    BY <1>1 DEF NoGap
  <2>1. e # Len(log) + 1
    BY <1>2 DEF EventInv, StreamOK
  <2>2. e \in OwnersIn(live)
    BY <1>4, <2>1
  <2> QED
    BY <2>2 DEF EventInv, NoGap
<1> QED
  BY <1>3, <1>5, <1>6 DEF EventInv

\* What is merged into a job comes last, and with what the job has cut off there is no
\* gap before it.
LEMMA MergedIs ==
    ASSUME EventInv, NEW held \in Seq(Nat), NEW cut, Range(held) \cup cut \subseteq DOMAIN log,
           NEW new \in InOrder(OwnersIn(PageAfter(cursor)) \ Range(held)),
           NEW full, full = held \o new, NEW msgs, msgs = Newest(full)
    PROVE  /\ msgs \in Seq(Nat) /\ Range(msgs) \subseteq DOMAIN log /\ Range(full) \subseteq DOMAIN log
           /\ Gapless(held, cut) => Gapless(msgs, cut \cup (Range(full) \ Range(msgs)))
<1> DEFINE R == OwnersIn(PageAfter(cursor))
<1>1. /\ R \subseteq live /\ live \subseteq 1..Len(log) /\ Len(log) \in Nat
      /\ DOMAIN log = 1..Len(log)
      /\ \A x \in R, e \in OwnersIn(live) : e <= x => e \in R \cup Covered
  BY ReadIs DEF EventInv, StreamOK
<1>2. new \in InOrder(R \ Range(held))
  OBVIOUS
<1> HIDE DEF R
<1>3. R \ Range(held) \subseteq 1..Len(log)
  BY <1>1
<1>4. /\ new \in Seq(Nat) /\ Range(new) = R \ Range(held)
      /\ new # <<>> => new[Len(new)] \in R \ Range(held)
  BY <1>1, <1>2, <1>3, InOrderIs
<1>5. /\ full \in Seq(Nat) /\ Range(full) = Range(held) \cup Range(new)
      /\ new # <<>> => full[Len(full)] = new[Len(new)]
      /\ new = <<>> => full = held
  BY <1>4, JoinIs
<1>6. /\ msgs \in Seq(Nat) /\ Range(msgs) \subseteq Range(full)
      /\ msgs # <<>> => full # <<>> /\ msgs[Len(msgs)] = full[Len(full)]
  BY <1>5, NewestIs
<1>7. Range(full) \subseteq DOMAIN log
  BY <1>1, <1>3, <1>4, <1>5
<1>8. ASSUME Gapless(held, cut), msgs # <<>>, NEW e \in OwnersIn(live), e <= msgs[Len(msgs)]
      PROVE  e \in Range(full) \cup cut \cup Covered
  <2>1. CASE new = <<>>
    BY <1>5, <1>6, <1>8, <2>1 DEF Gapless
  <2>2. CASE new # <<>>
    <3>1. msgs[Len(msgs)] \in R
      BY <1>4, <1>5, <1>6, <1>8, <2>2
    <3>2. e \in R \cup Covered
      BY <1>1, <1>8, <3>1
    <3> QED
      BY <1>4, <1>5, <3>2
  <2> QED
    BY <2>1, <2>2
<1> QED
  BY <1>6, <1>7, <1>8 DEF Gapless

LEMMA SnapshotKeeps == ASSUME EventInv, NEW a \in Actors, Snapshot(a) PROVE EventInv'
<1>1. PICK held : held = act[a].msgs
  OBVIOUS
<1>2. PICK cut : cut = act[a].cut
  OBVIOUS
<1>3. UNCHANGED <<log, live, cursor, history>>
  BY DEF Snapshot, Rest
<1>4. PICK new \in InOrder(OwnersIn(PageAfter(cursor)) \ Range(held)) :
         act' = [act EXCEPT ![a] =
                   [stage |-> "held", msgs |-> Newest(held \o new),
                    base |-> IF act[a].stage = "held" THEN act[a].base ELSE cursor,
                    cut |-> cut \cup (Range(held \o new) \ Range(Newest(held \o new)))]]
  BY <1>1, <1>2 DEF Snapshot
<1>5. PICK full : full = held \o new
  OBVIOUS
<1>6. PICK msgs : msgs = Newest(full)
  OBVIOUS
<1>7. PICK base : base = IF act[a].stage = "held" THEN act[a].base ELSE cursor
  OBVIOUS
<1>8. PICK gone : gone = cut \cup (Range(full) \ Range(msgs))
  OBVIOUS
<1>9. PICK next : next = [stage |-> "held", msgs |-> msgs, base |-> base, cut |-> gone]
  OBVIOUS
<1>10. act' = [act EXCEPT ![a] = next]
  BY <1>4, <1>5, <1>6, <1>7, <1>8, <1>9
<1>11. cursor \in Nat /\ DOMAIN log \subseteq Nat
       /\ act[a] \in Plans /\ Range(held) \cup cut \subseteq DOMAIN log
       /\ held \in Seq(Nat) /\ (a # Digest => Gapless(held, cut))
  BY <1>1, <1>2 DEF EventInv, StreamOK, ActType, Plans, Whole
<1>12. msgs \in Seq(Nat) /\ Range(msgs) \subseteq DOMAIN log /\ Range(full) \subseteq DOMAIN log
       /\ (a # Digest => Gapless(msgs, gone))
  BY <1>5, <1>6, <1>8, <1>11, MergedIs
<1>13. next \in Plans /\ next.msgs = msgs /\ next.cut = gone
  <2>1. base \in Nat
    BY <1>7, <1>11 DEF Plans
  <2>2. gone \in SUBSET Nat
    BY <1>8, <1>11, <1>12
  <2> QED
    BY <1>9, <1>12, <2>1, <2>2 DEF Plans
<1>14. Range(next.msgs) \cup next.cut \subseteq DOMAIN log
       /\ (a # Digest => Gapless(next.msgs, next.cut))
  BY <1>8, <1>11, <1>12, <1>13
<1> QED
  BY <1>3, <1>10, <1>13, <1>14, StreamStays, WriterKeeps

LEMMA PlanWith ==
    ASSUME NEW stage, NEW base, NEW msgs, NEW cut, NEW new,
           NEW plan, plan = [stage |-> stage, base |-> base, msgs |-> msgs, cut |-> cut]
    PROVE  [plan EXCEPT !.msgs = new] = [stage |-> stage, base |-> base, msgs |-> new, cut |-> cut]
OBVIOUS

LEMMA WaitingIs ==
    ASSUME NEW msgs, NEW base
    PROVE  /\ [Idle EXCEPT !.stage = "waiting", !.msgs = msgs]
              = [stage |-> "waiting", base |-> 0, msgs |-> msgs, cut |-> {}]
           /\ [Idle EXCEPT !.stage = "waiting", !.msgs = msgs, !.base = base]
              = [stage |-> "waiting", base |-> base, msgs |-> msgs, cut |-> {}]
<1> DEFINE fresh == [Idle EXCEPT !.stage = "waiting"]
           filled == [stage |-> "waiting", base |-> 0, msgs |-> msgs, cut |-> {}]
<1>1. fresh = [stage |-> "waiting", base |-> 0, msgs |-> <<>>, cut |-> {}]
  BY DEF Idle
<1>2. [fresh EXCEPT !.msgs = msgs] = filled
  <2> HIDE DEF fresh
  <2> QED
    BY <1>1, PlanWith
<1>3. [filled EXCEPT !.base = base] = [stage |-> "waiting", base |-> base, msgs |-> msgs, cut |-> {}]
  OBVIOUS
<1> QED
  BY <1>2, <1>3

LEMMA BeginsKeeps == ASSUME EventInv, NEW a \in Actors, Begins(a) PROVE EventInv'
<1>1. UNCHANGED <<log, live, cursor, history>>
  BY DEF Begins, Rest
<1>2. CASE Superseded(a)
  <2>1. act' = [act EXCEPT ![a] = Idle]
    BY <1>2 DEF Begins
  <2> QED
    BY <1>1, <2>1, StreamStays, IdleKeeps
<1>3. CASE ~Superseded(a)
  <2>1. PICK next : next = [act[a] EXCEPT !.stage = "waiting", !.base = 0]
    OBVIOUS
  <2>2. act' = [act EXCEPT ![a] = next]
    BY <1>3, <2>1 DEF Begins
  <2>3. next \in Plans /\ next.msgs = act[a].msgs /\ next.cut = act[a].cut
    BY <2>1 DEF EventInv, ActType, Plans
  <2>4. Range(next.msgs) \cup next.cut \subseteq DOMAIN log
        /\ (a # Digest => Gapless(next.msgs, next.cut))
    BY <2>3 DEF EventInv, StreamOK, Whole
  <2> QED
    BY <1>1, <2>2, <2>3, <2>4, StreamStays, WriterKeeps
<1> QED
  BY <1>2, <1>3

LEMMA BackgroundReadsKeeps == ASSUME EventInv, BackgroundReads PROVE EventInv'
<1>1. PICK msgs \in InOrder(First(Batch, OwnersIn(PageAfter(cursor)))) :
         act' = [act EXCEPT ![Background] = [Idle EXCEPT !.stage = "waiting", !.msgs = msgs]]
  BY DEF BackgroundReads
<1>2. PICK next : next = [stage |-> "waiting", base |-> 0, msgs |-> msgs, cut |-> {}]
  OBVIOUS
<1>3. act' = [act EXCEPT ![Background] = next] /\ UNCHANGED <<log, live, cursor, history>>
  <2>1. [Idle EXCEPT !.stage = "waiting", !.msgs = msgs] = next
    BY <1>2, WaitingIs
  <2> QED
    BY <1>1, <2>1 DEF BackgroundReads
<1>4. msgs \in Seq(Nat) /\ Range(msgs) \subseteq DOMAIN log /\ Gapless(msgs, {})
  BY BatchIs
<1>5. next \in Plans /\ next.msgs = msgs /\ next.cut = {}
  BY <1>2, <1>4 DEF Plans
<1>6. Range(next.msgs) \cup next.cut \subseteq DOMAIN log /\ Gapless(next.msgs, next.cut)
  BY <1>4, <1>5
<1>7. Background \in Actors
  BY DEF Actors
<1> QED
  BY <1>3, <1>5, <1>6, <1>7, StreamStays, WriterKeeps

\* The lock is free: the cursor moves, or the model is asked.
LEMMA EntersKeeps == ASSUME EventInv, NEW a \in Actors, Enters(a) PROVE EventInv'
<1>1. a # Digest /\ UNCHANGED <<log, live>>
  BY DEF Enters
<1>2. PICK pending : pending = Pending(a)
  OBVIOUS
<1>3. PICK gone : gone = LetGo(a)
  OBVIOUS
<1>4. /\ pending \in Seq(Nat) /\ Range(pending) \cup gone \subseteq DOMAIN log
      /\ Gapless(pending, gone)
  BY <1>1, <1>2, <1>3, PendingIs
<1>5. act[a] \in Plans /\ DOMAIN log \subseteq Nat
  BY DEF EventInv, StreamOK, ActType
<1>6. CASE ~HasSignal(pending)
  <2>1. act' = [act EXCEPT ![a] = Idle] /\ (Advanced(pending, gone) \/ UNCHANGED <<cursor, history>>)
    BY <1>2, <1>3, <1>6 DEF Enters
  <2>2. NoGap' /\ cursor' \in 0..Len(log) /\ Covered \subseteq Covered'
    <3>1. CASE Advanced(pending, gone)
      <4>1. Range(pending) \subseteq DOMAIN log
        BY <1>4
      <4> QED
        BY <1>1, <1>4, <3>1, <4>1, AdvancedIs
    <3>2. CASE UNCHANGED <<cursor, history>>
      BY <1>1, <3>2, StreamStays
    <3> QED
      BY <2>1, <3>1, <3>2
  <2> QED
    BY <1>1, <2>1, <2>2, IdleKeeps
<1>7. CASE HasSignal(pending)
  <2>1. PICK next : next = [act[a] EXCEPT !.stage = "asking", !.msgs = pending, !.cut = gone]
    OBVIOUS
  <2>2. act' = [act EXCEPT ![a] = next] /\ UNCHANGED <<cursor, history>>
    BY <1>2, <1>3, <1>7, <2>1 DEF Enters, EventInv, ActType
  <2>3. next \in Plans /\ next.msgs = pending /\ next.cut = gone
    BY <1>4, <1>5, <2>1 DEF Plans
  <2> QED
    BY <1>1, <1>4, <2>2, <2>3, StreamStays, WriterKeeps
<1> QED
  BY <1>6, <1>7

LEMMA AppliesKeeps ==
    ASSUME EventInv, NEW a \in Actors, \E ops \in Operations(Range(act[a].msgs)) : Applies(a, ops)
    PROVE  EventInv'
<1>1. /\ a # Digest /\ UNCHANGED <<log, live>> /\ Advanced(act[a].msgs, act[a].cut)
      /\ act' = [act EXCEPT ![a] = Idle]
  BY DEF Applies
<1>2. /\ act[a].msgs \in Seq(Nat) /\ Range(act[a].msgs) \subseteq DOMAIN log
      /\ Gapless(act[a].msgs, act[a].cut)
  BY <1>1 DEF EventInv, ActType, Plans, StreamOK, Whole
<1>3. NoGap' /\ cursor' \in 0..Len(log) /\ Covered \subseteq Covered'
  BY <1>1, <1>2, AdvancedIs
<1> QED
  BY <1>1, <1>3, IdleKeeps

LEMMA DigestReadsKeeps == ASSUME EventInv, DigestReads PROVE EventInv'
<1>1. PICK page : page = PageAfter(digested)
  OBVIOUS
<1>2. PICK msgs \in InOrder(OwnersIn(page)) :
         act' = [act EXCEPT ![Digest] = [Idle EXCEPT !.stage = "waiting", !.msgs = msgs, !.base = Max(page)]]
  BY <1>1 DEF DigestReads
<1>3. PICK next : next = [stage |-> "waiting", base |-> Max(page), msgs |-> msgs, cut |-> {}]
  OBVIOUS
<1>4. act' = [act EXCEPT ![Digest] = next] /\ UNCHANGED <<log, live, cursor, history>> /\ page # {}
  <2>1. [Idle EXCEPT !.stage = "waiting", !.msgs = msgs, !.base = Max(page)] = next
    BY <1>3, WaitingIs
  <2> QED
    BY <1>1, <1>2, <2>1 DEF DigestReads
<1>5. page \subseteq live
  BY <1>1 DEF PageAfter, First
<1>6. page \subseteq 1..Len(log) /\ Len(log) \in Nat /\ DOMAIN log = 1..Len(log)
  BY <1>5 DEF EventInv, StreamOK
<1>7. Max(page) \in page
  <2>1. page \subseteq 0..Len(log) /\ Len(log) \in Nat /\ page # {}
    BY <1>4, <1>6
  <2> QED
    BY <2>1, GreatestIs
<1>8. OwnersIn(page) \subseteq 1..Len(log) /\ Max(page) \in Nat
  <2>1. OwnersIn(page) \subseteq page
    BY DEF OwnersIn
  <2>2. OwnersIn(page) \subseteq 1..Len(log)
    BY <1>6, <2>1
  <2>3. Max(page) \in 1..Len(log)
    BY <1>6, <1>7
  <2> QED
    BY <1>6, <2>2, <2>3
<1>9. msgs \in Seq(Nat) /\ Range(msgs) \subseteq DOMAIN log
  BY <1>2, <1>6, <1>8, InOrderIs
<1>10. next \in Plans /\ next.msgs = msgs /\ next.cut = {}
  BY <1>3, <1>8, <1>9 DEF Plans
<1>11. Range(next.msgs) \cup next.cut \subseteq DOMAIN log /\ Digest \in Actors
  BY <1>9, <1>10 DEF Actors
<1> QED
  BY <1>4, <1>10, <1>11, StreamStays, WriterKeeps

\* Time passes: fewer messages are live.
LEMMA WeekKeeps == ASSUME EventInv, WeekPasses PROVE EventInv'
<1>1. live' \subseteq live /\ UNCHANGED <<log, cursor, act, history>> /\ Covered' = Covered
  BY DEF WeekPasses, history, Covered
<1> QED
  BY <1>1 DEF EventInv, ActType, StreamOK, Whole, NoGap, Gapless, OwnersIn

LEMMA EventStep == EventInv /\ [Next]_vars => EventInv'
<1> SUFFICES ASSUME EventInv, [Next]_vars PROVE EventInv'
  OBVIOUS
<1>1. CASE \E a \in Actors : Rejected(a) \/ GivesUp(a)
  BY <1>1, StreamStays, IdleKeeps DEF Rejected, GivesUp
<1>2. CASE \E ops \in Operations(Range(act[Digest].msgs)) : DigestApplies(ops)
  <2>1. Digest \in Actors
    BY DEF Actors
  <2> QED
    BY <1>2, <2>1, StreamStays, IdleKeeps DEF DigestApplies
<1>3. CASE Gardening \/ (\E t \in Topics : OwnerEdits(t)) \/ OwnerUndoes \/ UNCHANGED vars
  <2>1. UNCHANGED <<log, live, cursor, history, act>> /\ Covered' = Covered
    BY <1>3 DEF Gardening, OwnerEdits, OwnerUndoes, vars, history, Covered
  <2> QED
    BY <2>1 DEF EventInv, ActType, StreamOK, Whole, NoGap, Gapless, OwnersIn
<1> QED
  BY <1>1, <1>2, <1>3, MessageKeeps, SnapshotKeeps, BeginsKeeps, BackgroundReadsKeeps, EntersKeeps,
     AppliesKeeps, DigestReadsKeeps, WeekKeeps DEF Next

\* At any time what a writer of the journal holds of the stream, in the order it came to
\* hold it, has with what it let go of no gap before its end, and the cursor has passed no
\* live message that is not accounted for or was not let go of.
THEOREM EventInvariance == Spec => []EventInv
<1>1. Init => EventInv
  <2> SUFFICES ASSUME Init PROVE EventInv
    OBVIOUS
  <2>1. ActType /\ \A a \in Actors : act[a] = Idle
    BY IdleIs DEF Init, ActType
  <2>2. Whole
    BY <2>1, IdleIs DEF Whole
  <2>3. StreamOK
    BY <2>1, IdleIs DEF Init, StreamOK
  <2>4. NoGap
    BY DEF Init, NoGap, OwnersIn
  <2> QED
    BY <2>1, <2>2, <2>3, <2>4 DEF EventInv
<1> QED
  BY <1>1, EventStep, PTL DEF Spec

\* Whatever maintenance raced with, a message of the owner's that the cursor has passed
\* was accounted for by some maintenance, or had expired, or a merged job, whose list was
\* out of order, had let go of it.
THEOREM NoMessageIsSkipped == Spec => []NoEventSkipped
<1>1. EventInv => NoEventSkipped
  BY DEF EventInv, NoGap, NoEventSkipped, OwnersIn, Covered
<1> QED
  BY <1>1, EventInvariance, PTL

-----------------------------------------------------------------------------
(* The owner's hold on the journal.                                        *)

Threads == [there : BOOLEAN, manual : {"NORMAL", "PINNED", "LOCKED"}, source : {"AUTO", "OWNER_MANUAL"},
            refs : SUBSET Nat, stale : BOOLEAN]
Denials == [on : BOOLEAN, refs : SUBSET Nat]
Journals == [thread : [Topics -> Threads], denial : [Topics -> Denials]]

\* A thread the owner holds is there, and is the owner's: neither the decay nor
\* the gardening may touch it.
Sound(j) ==
    /\ j \in Journals
    /\ \A t \in Topics : j.thread[t].manual # "NORMAL" =>
          j.thread[t].there /\ j.thread[t].source = "OWNER_MANUAL"

\* The journals an undo may bring back are sound, too.
JournalInv ==
    /\ Sound(journal)
    /\ revision \in [undone : BOOLEAN, before : Journals, after : Journals]
    /\ Sound(revision.before) /\ Sound(revision.after)
    /\ edits \in Nat /\ weeks \in Nat

\* What no one but the owner may do to thread t, and what brings back what he deleted.
Respects(j, next, t) ==
    /\ j.thread[t].manual = "LOCKED" => next.thread[t] = j.thread[t]
    /\ j.thread[t].manual = "PINNED" => next.thread[t].there
    /\ ~j.thread[t].there /\ next.thread[t].there => ~Suppressed(j, t, next.thread[t].refs)

LEMMA NoThreadIs == NoThread \in Threads /\ NoThread.manual = "NORMAL" /\ ~NoThread.there
BY DEF NoThread, Threads

\* The journal with one thread replaced.
LEMMA WithThread ==
    ASSUME NEW j, Sound(j), NEW t \in Topics, NEW thread \in Threads,
           thread.manual # "NORMAL" => thread.there /\ thread.source = "OWNER_MANUAL"
    PROVE  /\ Sound([j EXCEPT !.thread[t] = thread])
           /\ [j EXCEPT !.thread[t] = thread].denial = j.denial
           /\ [j EXCEPT !.thread[t] = thread].thread[t] = thread
           /\ \A u \in Topics : u # t => [j EXCEPT !.thread[t] = thread].thread[u] = j.thread[u]
BY DEF Sound, Journals

LEMMA DecayedIs ==
    ASSUME NEW j, Sound(j)
    PROVE  /\ Sound(Decayed(j)) /\ Decayed(j).denial = j.denial
           /\ \A t \in Topics : \/ Decayed(j).thread[t] = j.thread[t]
                                \/ j.thread[t].manual = "NORMAL" /\ Decayed(j).thread[t] = NoThread
BY NoThreadIs DEF Sound, Journals, Decayed

LEMMA RefreshedIs ==
    ASSUME NEW thread \in Threads, NEW refs \in SUBSET Nat
    PROVE  /\ Refreshed(thread, refs) \in Threads /\ Refreshed(thread, refs).there
           /\ thread.there => /\ Refreshed(thread, refs).manual = thread.manual
                              /\ Refreshed(thread, refs).source = thread.source
           /\ ~thread.there => /\ Refreshed(thread, refs).manual = "NORMAL"
                               /\ Refreshed(thread, refs).refs = refs
BY DEF Refreshed, Threads, NoThread

\* One operation of a patch respects the owner's hold and his deletions.
LEMMA OperatedIs ==
    ASSUME NEW j, Sound(j), NEW change \in [kind : {"upsert", "remove"}, topic : Topics, refs : SUBSET Nat]
    PROVE  /\ Sound(Operated(j, change)) /\ Operated(j, change).denial = j.denial
           /\ \A t \in Topics : Respects(j, Operated(j, change), t)
<1> DEFINE u == change.topic
           next == Operated(j, change)
<1>1. u \in Topics /\ j.thread[u] \in Threads /\ change.refs \in SUBSET Nat
  BY DEF Sound, Journals
<1>2. CASE next = j
  BY <1>2 DEF Respects, Sound, Journals, Threads
<1>3. CASE ~Held(j.thread[u], change.kind) /\ change.kind = "remove"
  <2>1. next = [j EXCEPT !.thread[u] = NoThread]
    BY <1>3 DEF Operated
  <2>2. j.thread[u].manual = "NORMAL"
    BY <1>1, <1>3 DEF Held, Threads, Sound
  <2>3. /\ Sound(next) /\ next.denial = j.denial /\ next.thread[u] = NoThread
        /\ \A t \in Topics : t # u => next.thread[t] = j.thread[t]
    BY <1>1, <2>1, NoThreadIs, WithThread
  <2> HIDE DEF next
  <2>4. ASSUME NEW t \in Topics PROVE Respects(j, next, t)
    BY <2>2, <2>3, NoThreadIs DEF Respects, Sound
  <2> QED
    BY <2>3, <2>4 DEF next
<1>4. CASE ~Held(j.thread[u], change.kind) /\ change.kind # "remove" /\ ~Suppressed(j, u, change.refs)
  <2>1. PICK thread : thread = Refreshed(j.thread[u], change.refs)
    OBVIOUS
  <2>2. next = [j EXCEPT !.thread[u] = thread]
    BY <1>4, <2>1 DEF Operated, Upsert
  <2>3. /\ thread \in Threads /\ thread.there
        /\ j.thread[u].there => /\ thread.manual = j.thread[u].manual
                                /\ thread.source = j.thread[u].source
        /\ ~j.thread[u].there => thread.manual = "NORMAL" /\ thread.refs = change.refs
    BY <1>1, <2>1, RefreshedIs
  <2>4. thread.manual # "NORMAL" => thread.source = "OWNER_MANUAL"
    BY <1>1, <2>3 DEF Sound
  <2>5. /\ Sound(next) /\ next.denial = j.denial /\ next.thread[u] = thread
        /\ \A t \in Topics : t # u => next.thread[t] = j.thread[t]
    BY <1>1, <2>2, <2>3, <2>4, WithThread
  <2>6. j.thread[u].manual # "LOCKED"
    BY <1>1, <1>4 DEF Held, Sound
  <2> HIDE DEF next
  <2>7. ASSUME NEW t \in Topics PROVE Respects(j, next, t)
    <3>1. CASE t = u
      BY <1>4, <2>3, <2>5, <2>6, <3>1 DEF Respects
    <3>2. CASE t # u
      BY <2>5, <3>2 DEF Respects, Sound
    <3> QED
      BY <3>1, <3>2
  <2> QED
    BY <2>5, <2>7 DEF next
<1> QED
  BY <1>2, <1>3, <1>4 DEF Operated, Upsert

Patches == {<<>>} \cup { <<change>> : change \in [kind : {"upsert", "remove"}, topic : Topics, refs : SUBSET Nat] }

LEMMA PatchedIs ==
    ASSUME NEW j, Sound(j), NEW ops \in Patches
    PROVE  /\ Sound(Patched(j, ops)) /\ Patched(j, ops).denial = j.denial
           /\ \A t \in Topics : Respects(j, Patched(j, ops), t)
<1>1. PICK decayed : decayed = Decayed(j)
  OBVIOUS
<1>2. /\ Sound(decayed) /\ decayed.denial = j.denial
      /\ \A t \in Topics : \/ decayed.thread[t] = j.thread[t]
                           \/ j.thread[t].manual = "NORMAL" /\ decayed.thread[t] = NoThread
  BY <1>1, DecayedIs
<1>3. CASE ops = <<>>
  <2>1. Patched(j, ops) = decayed
    BY <1>1, <1>3 DEF Patched
  <2>2. ASSUME NEW t \in Topics PROVE Respects(j, decayed, t)
    BY <1>2, NoThreadIs DEF Respects, Sound
  <2> QED
    BY <1>2, <2>1, <2>2
<1>4. CASE ops # <<>>
  <2>1. PICK change \in [kind : {"upsert", "remove"}, topic : Topics, refs : SUBSET Nat] : ops = <<change>>
    BY <1>4 DEF Patches
  <2>2. PICK next : next = Operated(decayed, change)
    OBVIOUS
  <2>3. Patched(j, ops) = next
    BY <1>1, <1>4, <2>1, <2>2 DEF Patched
  <2>4. /\ Sound(next) /\ next.denial = decayed.denial
        /\ \A t \in Topics : Respects(decayed, next, t)
    BY <1>2, <2>2, OperatedIs
  <2>5. ASSUME NEW t \in Topics PROVE Respects(j, next, t)
    BY <1>2, <2>4, NoThreadIs DEF Respects, Sound, Suppressed
  <2> QED
    BY <1>2, <2>3, <2>4, <2>5
<1> QED
  BY <1>3, <1>4

LEMMA OperationsAre == ASSUME NEW msgs \in SUBSET Nat PROVE Operations(msgs) \subseteq Patches
<1> SUFFICES ASSUME NEW ops \in Operations(msgs) PROVE ops \in Patches
  OBVIOUS
<1> DEFINE Changes == [kind : {"upsert", "remove"}, topic : Topics, refs : SUBSET Nat]
<1>1. CASE ops = <<>>
  BY <1>1 DEF Patches
<1>2. ASSUME NEW t \in Topics, NEW e \in msgs, ops = <<[kind |-> "upsert", topic |-> t, refs |-> {e}]>>
      PROVE  ops \in Patches
  <2>1. [kind |-> "upsert", topic |-> t, refs |-> {e}] \in Changes
    OBVIOUS
  <2> HIDE DEF Changes
  <2> QED
    BY <1>2, <2>1 DEF Patches, Changes
<1>3. ASSUME NEW t \in Topics, ops = <<[kind |-> "remove", topic |-> t, refs |-> {}]>>
      PROVE  ops \in Patches
  <2>1. [kind |-> "remove", topic |-> t, refs |-> {}] \in Changes
    OBVIOUS
  <2> HIDE DEF Changes
  <2> QED
    BY <1>3, <2>1 DEF Patches, Changes
<1> QED
  BY <1>1, <1>2, <1>3 DEF Operations

LEMMA GardeningIs ==
    ASSUME JournalInv, Gardening
    PROVE  /\ Sound(journal') /\ journal'.denial = journal.denial
           /\ \A t \in Topics : Respects(journal, journal', t)
<1>1. PICK thread : thread = Decayed(journal).thread
  OBVIOUS
<1>2. PICK next : next = [t \in Topics |-> IF thread[t].source = "AUTO" THEN [thread[t] EXCEPT !.refs = @ \cap live]
                                          ELSE thread[t]]
  OBVIOUS
<1>3. journal' = [journal EXCEPT !.thread = next]
  BY <1>1, <1>2 DEF Gardening
<1>4. Sound(Decayed(journal))
      /\ \A t \in Topics : \/ thread[t] = journal.thread[t]
                           \/ journal.thread[t].manual = "NORMAL" /\ thread[t] = NoThread
  BY <1>1, DecayedIs DEF JournalInv
<1>5. \A t \in Topics : thread[t] \in Threads
      /\ (thread[t].manual # "NORMAL" => thread[t].there /\ thread[t].source = "OWNER_MANUAL")
  BY <1>1, <1>4 DEF Sound, Journals
<1>6. ASSUME NEW t \in Topics
      PROVE  /\ next[t] \in Threads
             /\ next[t].there = thread[t].there /\ next[t].manual = thread[t].manual
             /\ next[t].source = thread[t].source
             /\ thread[t].source # "AUTO" => next[t] = thread[t]
  <2>1. thread[t] \in Threads
    BY <1>5
  <2>2. CASE thread[t].source = "AUTO"
    <3>1. next[t] = [thread[t] EXCEPT !.refs = @ \cap live]
      BY <1>2, <2>2
    <3> QED
      BY <2>1, <2>2, <3>1 DEF Threads
  <2>3. CASE thread[t].source # "AUTO"
    BY <1>2, <2>1, <2>3
  <2> QED
    BY <2>2, <2>3
<1>7. next \in [Topics -> Threads]
  <2>1. next = [t \in Topics |-> next[t]]
    BY <1>2
  <2> QED
    BY <1>6, <2>1
<1>8. journal'.thread = next /\ journal'.denial = journal.denial /\ journal' \in Journals
  BY <1>3, <1>7 DEF JournalInv, Sound, Journals
<1>9. Sound(journal')
  BY <1>5, <1>6, <1>8 DEF Sound
<1>10. ASSUME NEW t \in Topics PROVE Respects(journal, journal', t)
  BY <1>4, <1>5, <1>6, <1>8, NoThreadIs DEF Respects, JournalInv, Sound
<1> QED
  BY <1>8, <1>9, <1>10

\* What is not the owner's doing, nor the passing of time.
LEMMA MachineStep ==
    ASSUME EventInv, JournalInv, Next, ~ (\E t \in Topics : OwnerEdits(t)), ~OwnerUndoes, ~WeekPasses
    PROVE  /\ Sound(journal') /\ journal'.denial = journal.denial
           /\ \A t \in Topics : Respects(journal, journal', t)
           /\ UNCHANGED <<revision, edits, weeks>>
<1>1. /\ Sound(journal)
      /\ \A a \in Actors : Range(act[a].msgs) \in SUBSET Nat
      /\ \A t \in Topics : Respects(journal, journal, t)
  BY DEF JournalInv, EventInv, StreamOK, ActType, Respects, Sound
<1>2. <<>> \in Patches
  BY DEF Patches
<1>3. ASSUME NEW ops \in Patches, journal' = Patched(journal, ops)
      PROVE  /\ Sound(journal') /\ journal'.denial = journal.denial
             /\ \A t \in Topics : Respects(journal, journal', t)
  BY <1>1, <1>3, PatchedIs
<1>4. CASE UNCHANGED <<journal, revision, edits, weeks>>
  BY <1>1, <1>4
<1>5. CASE \E a \in Actors : Enters(a) \/ Rejected(a)
  <2>1. UNCHANGED <<revision, edits, weeks>> /\ (journal' = Patched(journal, <<>>) \/ journal' = journal)
    BY <1>5 DEF Enters, Rejected
  <2> QED
    BY <1>1, <1>2, <1>3, <2>1
<1>6. CASE \E a \in Actors : \E ops \in Operations(Range(act[a].msgs)) : Applies(a, ops)
  <2>1. PICK a \in Actors : \E ops \in Operations(Range(act[a].msgs)) : Applies(a, ops)
    BY <1>6
  <2>2. PICK ops \in Operations(Range(act[a].msgs)) : Applies(a, ops)
    BY <2>1
  <2>3. ops \in Patches
    BY <1>1, OperationsAre
  <2> QED
    BY <1>3, <2>2, <2>3 DEF Applies
<1>7. CASE \E ops \in Operations(Range(act[Digest].msgs)) : DigestApplies(ops)
  <2>1. PICK ops \in Operations(Range(act[Digest].msgs)) : DigestApplies(ops)
    BY <1>7
  <2>2. ops \in Patches
    BY <1>1, <2>1, OperationsAre DEF Actors
  <2> QED
    BY <1>3, <2>1, <2>2 DEF DigestApplies
<1>8. CASE Gardening
  BY <1>8, GardeningIs DEF Gardening
<1> QED
  BY <1>4, <1>5, <1>6, <1>7, <1>8
     DEF Next, Message, BackgroundReads, DigestReads, Snapshot, Begins, GivesUp, Rest

LEMMA ManualIs ==
    ASSUME NEW thread \in Threads, NEW state \in {"NORMAL", "PINNED", "LOCKED"}
    PROVE  /\ Manual(thread, state) \in Threads /\ Manual(thread, state).there
           /\ Manual(thread, state).source = "OWNER_MANUAL"
BY DEF Manual, Threads

LEMMA DeletedIs ==
    ASSUME NEW j, Sound(j), NEW t \in Topics PROVE Sound(Deleted(j, t))
<1> DEFINE thread == [j.thread EXCEPT ![t] = NoThread]
           denial == [j.denial EXCEPT ![t] = [on |-> TRUE, refs |-> j.thread[t].refs]]
<1>1. j.thread \in [Topics -> Threads] /\ j.denial \in [Topics -> Denials] /\ j \in Journals
  BY DEF Sound, Journals
<1>2. [on |-> TRUE, refs |-> j.thread[t].refs] \in Denials
  BY <1>1 DEF Threads, Denials
<1>3. thread \in [Topics -> Threads] /\ denial \in [Topics -> Denials]
  BY <1>1, <1>2, NoThreadIs
<1>4. Deleted(j, t).thread = thread /\ Deleted(j, t) \in Journals
  BY <1>1, <1>3 DEF Deleted, Journals
<1>5. \A u \in Topics : thread[u] = j.thread[u] \/ thread[u] = NoThread
  BY <1>1
<1> HIDE DEF thread, denial
<1> QED
  BY <1>4, <1>5, NoThreadIs DEF Sound

LEMMA EditsAre ==
    ASSUME NEW j, Sound(j), NEW t \in Topics, NEW next \in Edits(j, t) PROVE Sound(next)
<1>1. j.thread[t] \in Threads
  BY DEF Sound, Journals
<1>2. ASSUME NEW s \in {"NORMAL", "PINNED", "LOCKED"}, NEW thread \in Threads,
             next = [j EXCEPT !.thread[t] = Manual(thread, s)]
      PROVE  Sound(next)
  BY <1>2, ManualIs, WithThread
<1>3. ASSUME NEW u \in Topics, next = [Deleted(j, u) EXCEPT !.thread[t] = Merged(@, j.thread[u].refs)]
      PROVE  Sound(next)
  <2>1. PICK rest : rest = Deleted(j, u)
    OBVIOUS
  <2>2. Sound(rest) /\ rest.thread[t] \in Threads /\ j.thread[u].refs \in SUBSET Nat
    BY <2>1, DeletedIs DEF Sound, Journals, Threads
  <2>3. PICK thread : thread = Merged(rest.thread[t], j.thread[u].refs)
    OBVIOUS
  <2>4. thread \in Threads /\ thread.there /\ thread.source = "OWNER_MANUAL"
    BY <2>2, <2>3 DEF Merged, Manual, Threads
  <2>5. next = [rest EXCEPT !.thread[t] = thread]
    BY <1>3, <2>1, <2>3
  <2> QED
    BY <2>2, <2>4, <2>5, WithThread
<1>4. CASE j.thread[t].there
  <2>1. ASSUME NEW s \in {"NORMAL", "PINNED", "LOCKED"}, next = [j EXCEPT !.thread[t] = Manual(@, s)]
        PROVE  Sound(next)
    <3>1. next = [j EXCEPT !.thread[t] = Manual(j.thread[t], s)]
      BY <2>1
    <3> QED
      BY <1>1, <1>2, <3>1
  <2> QED
    BY <1>3, <1>4, <2>1, DeletedIs DEF Edits
<1>5. CASE ~j.thread[t].there
  BY <1>2, <1>5, NoThreadIs DEF Edits
<1> QED
  BY <1>4, <1>5

LEMMA AgedIs ==
    ASSUME NEW j, Sound(j)
    PROVE  Sound(Aged(j)) /\ \A t \in Topics : Aged(j).thread[t].there = j.thread[t].there
<1> DEFINE thread == [t \in Topics |-> [j.thread[t] EXCEPT !.stale = j.thread[t].there]]
           denial == [t \in Topics |-> [j.denial[t] EXCEPT !.on = FALSE]]
<1>1. \A t \in Topics : j.thread[t] \in Threads /\ j.denial[t] \in Denials
  BY DEF Sound, Journals
<1>2. \A t \in Topics :
         /\ thread[t] \in Threads /\ thread[t].there = j.thread[t].there
         /\ thread[t].manual = j.thread[t].manual /\ thread[t].source = j.thread[t].source
  BY <1>1 DEF Threads
<1>3. \A t \in Topics : denial[t] \in Denials
  BY <1>1 DEF Denials
<1>4. thread \in [Topics -> Threads] /\ denial \in [Topics -> Denials]
  BY <1>2, <1>3
<1>5. Aged(j) = [thread |-> thread, denial |-> denial]
  BY DEF Aged
<1> HIDE DEF thread, denial
<1>6. Aged(j) \in Journals /\ Aged(j).thread = thread
  BY <1>4, <1>5 DEF Journals
<1> QED
  BY <1>2, <1>6 DEF Sound

\* An undo takes what the edit changed from before it.
LEMMA UndoIs == ASSUME JournalInv, OwnerUndoes PROVE Sound(journal')
<1> DEFINE thread == [t \in Topics |-> IF revision.before.thread[t] # revision.after.thread[t]
                                      THEN revision.before.thread[t] ELSE journal.thread[t]]
           denial == [t \in Topics |-> IF revision.before.denial[t] # revision.after.denial[t]
                                      THEN revision.before.denial[t] ELSE journal.denial[t]]
<1>1. DOMAIN journal = {"thread", "denial"}
  BY DEF JournalInv, Sound, Journals
<1>2. journal' = [field \in DOMAIN journal |-> [t \in Topics |->
          IF revision.before[field][t] # revision.after[field][t]
          THEN revision.before[field][t] ELSE journal[field][t]]]
  BY DEF OwnerUndoes
<1>3. journal' = [thread |-> thread, denial |-> denial]
  BY <1>1, <1>2
<1>4. thread \in [Topics -> Threads] /\ denial \in [Topics -> Denials]
  BY DEF JournalInv, Sound, Journals
<1>5. \A t \in Topics : thread[t] \in {revision.before.thread[t], journal.thread[t]}
  OBVIOUS
<1> HIDE DEF thread, denial
<1>6. journal' \in Journals /\ journal'.thread = thread
  BY <1>3, <1>4 DEF Journals
<1> QED
  BY <1>5, <1>6 DEF JournalInv, Sound

LEMMA NoRevisionIs ==
    /\ Sound(EmptyJournal)
    /\ NoRevision \in [undone : BOOLEAN, before : Journals, after : Journals]
    /\ NoRevision.before = EmptyJournal /\ NoRevision.after = EmptyJournal
<1>1. NoDenial \in Denials
  BY DEF NoDenial, Denials
<1>2. Sound(EmptyJournal)
  BY <1>1, NoThreadIs DEF EmptyJournal, Sound, Journals
<1>3. EmptyJournal \in Journals
  BY <1>2 DEF Sound
<1> QED
  BY <1>2, <1>3 DEF NoRevision

LEMMA JournalStep == EventInv /\ JournalInv /\ [Next]_vars => JournalInv'
<1> SUFFICES ASSUME EventInv, JournalInv, [Next]_vars PROVE JournalInv'
  OBVIOUS
<1>1. CASE \E t \in Topics : OwnerEdits(t)
  <2>1. PICK t \in Topics : OwnerEdits(t)
    BY <1>1
  <2>2. Sound(journal')
    BY <2>1, EditsAre DEF OwnerEdits, JournalInv
  <2>3. revision' = [undone |-> FALSE, before |-> journal, after |-> journal']
    BY <2>1 DEF OwnerEdits
  <2>4. journal \in Journals /\ journal' \in Journals
    BY <2>2 DEF JournalInv, Sound
  <2>5. revision' \in [undone : BOOLEAN, before : Journals, after : Journals]
        /\ revision'.before = journal /\ revision'.after = journal'
    BY <2>3, <2>4
  <2>6. edits' \in Nat /\ weeks' \in Nat
    BY <2>1 DEF OwnerEdits, JournalInv
  <2> QED
    BY <2>2, <2>5, <2>6 DEF JournalInv
<1>2. CASE OwnerUndoes
  BY <1>2, UndoIs, NoRevisionIs DEF OwnerUndoes, JournalInv
<1>3. CASE WeekPasses
  <2>1. Sound(Aged(journal)) /\ Sound(Aged(revision.before)) /\ Sound(Aged(revision.after))
    BY AgedIs DEF JournalInv
  <2>2. revision' = [revision EXCEPT !.before = Aged(revision.before), !.after = Aged(revision.after)]
    BY <1>3 DEF WeekPasses
  <2>3. Aged(revision.before) \in Journals /\ Aged(revision.after) \in Journals
    BY <2>1 DEF Sound
  <2>4. revision' \in [undone : BOOLEAN, before : Journals, after : Journals]
        /\ revision'.before = Aged(revision.before) /\ revision'.after = Aged(revision.after)
    BY <2>2, <2>3 DEF JournalInv
  <2> QED
    BY <1>3, <2>1, <2>4 DEF WeekPasses, JournalInv
<1>4. CASE UNCHANGED vars
  BY <1>4 DEF vars, JournalInv, Sound
<1>5. CASE Next /\ ~ (\E t \in Topics : OwnerEdits(t)) /\ ~OwnerUndoes /\ ~WeekPasses
  BY <1>5, MachineStep DEF JournalInv
<1> QED
  BY <1>1, <1>2, <1>3, <1>4, <1>5

\* In the journal, and in the two an undo goes between, a thread that is locked or
\* pinned is there, and is the owner's.
THEOREM JournalInvariance == Spec => [](EventInv /\ JournalInv)
<1>1. Init => JournalInv
  BY NoRevisionIs DEF Init, JournalInv
<1> QED
  BY <1>1, EventInvariance, JournalStep, PTL DEF Spec

\* Only the owner changes a thread he has locked, or removes one he has pinned:
\* not the patch the model was preparing when he did, the decay, the digest or
\* the gardening.
THEOREM OnlyTheOwnerMoves == Spec => OwnerHolds
<1>1. EventInv /\ JournalInv /\ [Next]_vars =>
          [edits' = edits /\ weeks' = weeks => \A t \in Topics :
             LET thread == journal.thread[t]
             IN  /\ thread.manual = "LOCKED" => journal'.thread[t] = thread
                 /\ thread.manual = "PINNED" => journal'.thread[t].there]_vars
  <2> SUFFICES ASSUME EventInv, JournalInv, Next, edits' = edits, weeks' = weeks, NEW t \in Topics
               PROVE  /\ journal.thread[t].manual = "LOCKED" => journal'.thread[t] = journal.thread[t]
                      /\ journal.thread[t].manual = "PINNED" => journal'.thread[t].there
    BY DEF vars
  <2>1. ~ (\E u \in Topics : OwnerEdits(u)) /\ ~OwnerUndoes /\ ~WeekPasses
    BY DEF OwnerEdits, OwnerUndoes, WeekPasses, JournalInv
  <2> QED
    BY <2>1, MachineStep DEF Respects
<1> QED
  BY <1>1, JournalInvariance, PTL DEF Spec, OwnerHolds

\* A thread the owner deleted comes back only on evidence that the deletion
\* still in force does not list, whoever brings it back.
THEOREM DeletionsHold == Spec => DeletedStaysGone
<1>1. EventInv /\ JournalInv /\ [Next]_vars =>
          [\A t \in Topics : Returns(t) /\ journal.denial[t].on =>
             ~(journal'.thread[t].refs \subseteq journal.denial[t].refs)]_vars
  <2> SUFFICES ASSUME EventInv, JournalInv, Next, NEW t \in Topics, Returns(t), journal.denial[t].on
               PROVE  ~(journal'.thread[t].refs \subseteq journal.denial[t].refs)
    BY DEF vars
  <2>1. ~ (\E u \in Topics : OwnerEdits(u)) /\ ~OwnerUndoes
    BY DEF Returns, OwnerEdits, OwnerUndoes, JournalInv
  <2>2. ~WeekPasses
    BY AgedIs DEF Returns, WeekPasses, JournalInv
  <2> QED
    BY <2>1, <2>2, MachineStep DEF Respects, Returns, Suppressed
<1> QED
  BY <1>1, JournalInvariance, PTL DEF Spec, DeletedStaysGone

-----------------------------------------------------------------------------
(* The long-term memory.  NoRevival speaks of one save, but a save writes  *)
(* what its operation read some steps earlier: the invariant says of every *)
(* save still to come what was read for it (Honest).                       *)

Records == [id : Memories, row : Rows]
Saves   == [id : Memories, was : {"live", "forgotten", "superseded"}, row : Rows, heir : 0..Size]
Works   == [do : {"none", "edit", "search", "remember", "consolidate", "maintain"},
            at : {"rest", "done", "neighbours", "gather", "check", "compare", "replace", "create",
                  "organize", "sources", "retire", "repair"},
            todo : SUBSET Saves, link : SUBSET ((0..Size) \X Memories), copies : SUBSET Records,
            own : SUBSET Records, content : SUBSET Contents, previous : 0..Size]

\* What an actor is about to save as live it has read as live, but for the sources of a
\* consolidation, which only clients do.
Honest(a, now) ==
    /\ \A w \in now.todo : w.row.status = "live" => w.was = "live" \/ now.do = "consolidate"
    /\ now.at = "sources" => now.do = "consolidate"
    /\ now.do = "consolidate" => a \in Clients
    /\ now.previous \in {Nobody} \cup Exists
    /\ now.at = "replace" => now.previous # Nobody

\* A copy, or a save to come, is of a memory that is there and leaves what it replaces.
Faithful(c) == c.id \in Exists /\ c.row.replaces = rows[c.id].replaces

\* A client stores no edges, and supersedes only what it goes on to create the heir of; a
\* save that outlives its operation is of an orphan.
Serves(now) ==
    /\ now.link = {}
    /\ \A w \in now.todo :
          /\ w.heir = Nobody
          /\ w.row.status = "superseded" /\ w.was # "superseded" =>
                w.id \in orphaned \/ (now.at = "create" /\ now.previous = w.id)

\* The keeper works on memories it has read as live, each of them once, and names an heir
\* for what it supersedes as a duplicate only.
Keeps(now) ==
    /\ now.at \in {"rest", "retire", "repair", "done"}
    /\ \A c \in now.copies : c.row.status = "live"
    /\ \A c, d \in now.copies : c.id = d.id => c = d
    /\ \A w \in now.todo : w.was = "live"
    /\ now.at = "retire" => \A w \in now.todo : w.row.status = "live"
    /\ now.at # "repair" => now.link = {} /\ \A w \in now.todo : w.heir = Nobody

Loyal(a, now) ==
    /\ \A w \in now.todo : Faithful(w)
    /\ \A c \in now.copies \cup now.own : Faithful(c)
    /\ a \in Clients => Serves(now)
    /\ a = Keeper => Keeps(now)

\* Ids are given out in order, and a memory replaces an older one, if any.
Ordered ==
    \A m \in Exists :
       /\ rows[m].replaces < m
       /\ \A n \in Memories : n < m => n \in Exists

RowsTyped == rows \in [Memories -> {Missing} \cup Rows]
Working   == op \in [Callers -> Works] /\ \A a \in Callers : Honest(a, op[a]) /\ Loyal(a, op[a])
MemoryInv == RowsTyped /\ Ordered /\ Working

LEMMA RestIs ==
    /\ AtRest \in Works /\ \A a \in Callers : Honest(a, AtRest) /\ Loyal(a, AtRest)
    /\ AtRest.todo = {} /\ AtRest.previous = Nobody /\ AtRest.link = {} /\ AtRest.copies = {}
    /\ AtRest.own = {} /\ AtRest.at = "rest"
<1>1. AtRest \in Works
  BY MemoryAssumption DEF AtRest, Works, Nobody
<1> QED
  BY <1>1 DEF AtRest, Honest, Loyal, Serves, Keeps

\* What is stored meanwhile makes nobody disloyal.
LEMMA LoyalStays ==
    ASSUME NEW b \in Callers, NEW now, Loyal(b, now), Exists \subseteq Exists',
           \A m \in Exists : rows'[m].replaces = rows[m].replaces, orphaned \subseteq orphaned'
    PROVE  Loyal(b, now)'
<1>1. ASSUME NEW c, Faithful(c) PROVE Faithful(c)'
  BY <1>1 DEF Faithful
<1>2. Serves(now) => Serves(now)'
  BY DEF Serves
<1>3. Keeps(now) <=> Keeps(now)'
  BY DEF Keeps
<1> QED
  BY <1>1, <1>2, <1>3 DEF Loyal

\* Whatever the actor goes on with, it is as honest and as loyal as that.
LEMMA GoesOn ==
    ASSUME Working, NEW a \in Callers, NEW now \in Works, Honest(a, now), Loyal(a, now)', Goes(a, now),
           Exists \subseteq Exists', \A m \in Exists : rows'[m].replaces = rows[m].replaces,
           orphaned \subseteq orphaned'
    PROVE  Working'
<1>0. Loyal(a, AtRest)'
  BY RestIs, LoyalStays
<1>1. PICK next \in Works : Honest(a, next) /\ Loyal(a, next)' /\ op' = [op EXCEPT ![a] = next]
  BY <1>0, RestIs DEF Goes
<1>2. op' \in [Callers -> Works]
  BY <1>1 DEF Working
<1>3. ASSUME NEW b \in Callers, NEW then, then = op'[b] PROVE Honest(b, then)' /\ Loyal(b, then)'
  <2>1. CASE b = a
    BY <1>1, <1>3, <2>1 DEF Working, Honest
  <2>2. CASE b # a
    <3>1. then = op[b]
      BY <1>1, <1>3, <2>2 DEF Working
    <3>2. Honest(b, then) /\ Loyal(b, then)
      BY <3>1 DEF Working
    <3> QED
      BY <3>2, LoyalStays DEF Honest
  <2> QED
    BY <2>1, <2>2
<1>4. ASSUME NEW b \in Callers PROVE (Honest(b, op[b]) /\ Loyal(b, op[b]))'
  BY <1>3 DEF Honest, Loyal, Serves, Keeps, Faithful
<1> QED
  BY <1>2, <1>4 DEF Working

LEMMA GoesKeeps ==
    ASSUME MemoryInv, NEW a \in Callers, NEW now \in Works, Honest(a, now), Loyal(a, now),
           Goes(a, now), UNCHANGED <<rows, orphaned>>
    PROVE  MemoryInv'
<1>1. RowsTyped' /\ Exists' = Exists /\ Ordered'
  BY DEF MemoryInv, RowsTyped, Exists, Ordered
<1>2. Loyal(a, now)'
  BY <1>1, LoyalStays
<1> QED
  BY <1>1, <1>2, GoesOn DEF MemoryInv

\* What a step of remember, consolidate or organize does, a client does.
LEMMA ClientsDo ==
    ASSUME MemoryInv, NEW a \in Callers, op[a].at \notin {"rest", "retire", "repair", "done"}
    PROVE  a \in Clients
BY DEF MemoryInv, Working, Loyal, Keeps, Callers

LEMMA ClientIsLoyal ==
    ASSUME NEW a \in Clients, NEW now, Serves(now), \A w \in now.todo : Faithful(w),
           \A c \in now.copies : Faithful(c), \A c \in now.own : Faithful(c)
    PROVE  Loyal(a, now)
BY MemoryAssumption DEF Loyal

LEMMA CopiesAre ==
    ASSUME RowsTyped, NEW ids, ids \subseteq Exists
    PROVE  Copies(ids) \in SUBSET Records /\ \A c \in Copies(ids) : Faithful(c)
<1>1. Copies(ids) \in SUBSET Records
  BY DEF RowsTyped, Exists, Copies, Records
<1>2. \A c \in Copies(ids) : Faithful(c)
  BY DEF Copies, Faithful
<1> QED
  BY <1>1, <1>2

LEMMA LiveIsThere ==
    ASSUME RowsTyped
    PROVE  LiveIds \subseteq Exists
<1>1. Missing.status = "none"
  BY DEF Missing
<1> QED
  BY <1>1 DEF LiveIds, Exists

LEMMA SaveIs ==
    ASSUME NEW copy \in Records, NEW r \in Rows, NEW heir \in 0..Size
    PROVE  /\ Save(copy, r, heir) \in Saves /\ Save(copy, r, heir).row = r
           /\ Save(copy, r, heir).was = copy.row.status /\ Save(copy, r, heir).id = copy.id
           /\ Save(copy, r, heir).heir = heir
           /\ Faithful(copy) /\ r.replaces = copy.row.replaces => Faithful(Save(copy, r, heir))
BY DEF Save, Saves, Records, Rows, Faithful

LEMMA TouchedIs ==
    ASSUME NEW held \in SUBSET Records
    PROVE  /\ Touched(held) \in SUBSET Saves
           /\ \A w \in Touched(held) : w.was = w.row.status /\ w.heir = Nobody
           /\ \A w \in Touched(held) : \E c \in held : w.row = c.row
           /\ (\A c \in held : Faithful(c)) => \A w \in Touched(held) : Faithful(w)
<1>1. Nobody \in 0..Size
  BY MemoryAssumption DEF Nobody
<1>2. ASSUME NEW c \in held
      PROVE  /\ Save(c, c.row, Nobody) \in Saves
             /\ Save(c, c.row, Nobody).was = Save(c, c.row, Nobody).row.status
             /\ Save(c, c.row, Nobody).heir = Nobody /\ Save(c, c.row, Nobody).row = c.row
             /\ Faithful(c) => Faithful(Save(c, c.row, Nobody))
  <2>1. c \in Records /\ c.row \in Rows
    BY DEF Records
  <2> QED
    BY <1>1, <2>1, SaveIs
<1> QED
  BY <1>2 DEF Touched

LEMMA StatusIs ==
    ASSUME NEW r \in Rows, NEW status \in {"live", "forgotten", "superseded"}
    PROVE  /\ WithStatus(r, status) \in Rows /\ WithStatus(r, status).status = status
           /\ WithStatus(r, status).replaces = r.replaces
BY DEF WithStatus, Rows

LEMMA MemoryEditsAre ==
    ASSUME NEW r \in Rows, NEW edited \in MemoryEdits(r)
    PROVE  /\ edited \in Rows /\ edited.replaces = r.replaces
           /\ edited.status \in {r.status, "forgotten"}
<1>1. CASE edited = WithStatus(r, "forgotten")
  BY <1>1, StatusIs
<1>2. CASE edited = r
  BY <1>2
<1>3. CASE \E pin \in BOOLEAN : edited = [r EXCEPT !.pinned = pin]
  BY <1>3 DEF Rows
<1>4. CASE \E text \in Contents : edited = [r EXCEPT !.content = text]
  BY <1>4 DEF Rows
<1> QED
  BY <1>1, <1>2, <1>3, <1>4 DEF MemoryEdits

-----------------------------------------------------------------------------
LEMMA EditKeeps == ASSUME MemoryInv, NEW a \in Callers, Edit(a) PROVE MemoryInv'
<1>1. PICK copy \in Copies(Exists) : \E r \in MemoryEdits(copy.row), at \in {"organize", "done"} :
          Goes(a, [AtRest EXCEPT !.do = "edit", !.at = at, !.todo = {Save(copy, r, Nobody)},
                                 !.own = {[id |-> copy.id, row |-> r]}])
  BY DEF Edit
<1>2. PICK r \in MemoryEdits(copy.row), at \in {"organize", "done"} :
          Goes(a, [AtRest EXCEPT !.do = "edit", !.at = at, !.todo = {Save(copy, r, Nobody)},
                                 !.own = {[id |-> copy.id, row |-> r]}])
  BY <1>1
<1>3. copy \in Records /\ copy.row \in Rows /\ copy.id \in Memories /\ Faithful(copy)
  BY CopiesAre DEF MemoryInv, Records
<1>4. r \in Rows /\ r.replaces = copy.row.replaces /\ r.status \in {copy.row.status, "forgotten"}
  BY <1>3, MemoryEditsAre
<1>5. PICK w : w = Save(copy, r, Nobody)
  OBVIOUS
<1>6. /\ w \in Saves /\ w.row = r /\ w.was = copy.row.status /\ w.id = copy.id /\ w.heir = Nobody
      /\ Faithful(w)
  BY <1>3, <1>4, <1>5, SaveIs, MemoryAssumption DEF Nobody
<1>7. PICK now : now = [AtRest EXCEPT !.do = "edit", !.at = at, !.todo = {w},
                                      !.own = {[id |-> copy.id, row |-> r]}]
  OBVIOUS
<1>8. /\ now.todo = {w} /\ now.do = "edit" /\ now.at = at /\ now.previous = Nobody
      /\ now.link = {} /\ now.copies = {} /\ now.own = {[id |-> copy.id, row |-> r]}
  BY <1>7 DEF AtRest
<1>9. now \in Works
  <2>0. [id |-> copy.id, row |-> r] \in Records
    BY <1>3, <1>4 DEF Records
  <2>1. PICK own \in SUBSET Records : own = {[id |-> copy.id, row |-> r]}
    BY <2>0
  <2>2. now = [AtRest EXCEPT !.do = "edit", !.at = at, !.todo = {w}, !.own = own]
    BY <1>7, <2>1
  <2> QED
    BY <1>6, <2>2, RestIs DEF Works
<1>10. Honest(a, now)
  BY <1>4, <1>6, <1>8 DEF Honest
<1>11. Goes(a, now)
  BY <1>2, <1>5, <1>7
<1>12. Loyal(a, now)
  <2>1. Serves(now)
    BY <1>4, <1>6, <1>8 DEF Serves
  <2>2. Faithful([id |-> copy.id, row |-> r])
    BY <1>3, <1>4 DEF Faithful
  <2> QED
    BY <1>6, <1>8, <2>1, <2>2, ClientIsLoyal DEF Edit, Begin
<1> QED
  BY <1>9, <1>10, <1>11, <1>12, GoesKeeps DEF Edit, Begin

LEMMA SearchKeeps == ASSUME MemoryInv, NEW a \in Callers, Search(a) PROVE MemoryInv'
<1>1. PICK found \in AtMost(LiveIds) :
          Goes(a, [AtRest EXCEPT !.do = "search", !.at = "neighbours",
                                 !.todo = Touched(Copies(found)), !.copies = Copies(found)])
  BY DEF Search
<1>2. Copies(found) \in SUBSET Records /\ \A c \in Copies(found) : Faithful(c)
  BY LiveIsThere, CopiesAre DEF MemoryInv, AtMost
<1>3. PICK todo : todo = Touched(Copies(found))
  OBVIOUS
<1>4. todo \in SUBSET Saves /\ \A w \in todo : w.was = w.row.status /\ w.heir = Nobody /\ Faithful(w)
  BY <1>2, <1>3, TouchedIs
<1>5. PICK now : now = [AtRest EXCEPT !.do = "search", !.at = "neighbours", !.todo = todo,
                                      !.copies = Copies(found)]
  OBVIOUS
<1>6. now \in Works
  BY <1>2, <1>4, <1>5, RestIs DEF Works
<1>7. Honest(a, now)
  <2>1. now.todo = todo /\ now.do = "search" /\ now.at = "neighbours" /\ now.previous = Nobody
    BY <1>5 DEF AtRest
  <2> QED
    BY <1>4, <2>1 DEF Honest
<1>8. Loyal(a, now)
  <2>1. now.todo = todo /\ now.link = {} /\ now.copies = Copies(found) /\ now.own = {}
    BY <1>5 DEF AtRest
  <2>2. Serves(now)
    BY <1>4, <2>1 DEF Serves
  <2> QED
    BY <1>2, <1>4, <2>1, <2>2, ClientIsLoyal DEF Search, Begin
<1> QED
  BY <1>1, <1>3, <1>5, <1>6, <1>7, <1>8, GoesKeeps DEF Search, Begin

LEMMA NeighboursKeeps == ASSUME MemoryInv, NEW a \in Callers, Neighbours(a) PROVE MemoryInv'
<1>1. PICK near \in SUBSET LiveIds :
          Goes(a, [op[a] EXCEPT !.todo = Touched(Copies(near)), !.copies = @ \cup Copies(near),
                                !.at = IF near = {} THEN "done" ELSE "neighbours"])
  BY DEF Neighbours, AtMost
<1>2. Copies(near) \in SUBSET Records /\ \A c \in Copies(near) : Faithful(c)
  BY LiveIsThere, CopiesAre DEF MemoryInv
<1>3. PICK todo : todo = Touched(Copies(near))
  OBVIOUS
<1>4. todo \in SUBSET Saves /\ \A w \in todo : w.was = w.row.status /\ w.heir = Nobody /\ Faithful(w)
  BY <1>2, <1>3, TouchedIs
<1>5. PICK now : now = [op[a] EXCEPT !.todo = todo, !.copies = op[a].copies \cup Copies(near),
                                     !.at = IF near = {} THEN "done" ELSE "neighbours"]
  OBVIOUS
<1>6. op[a] \in Works /\ Honest(a, op[a]) /\ Loyal(a, op[a]) /\ a \in Clients
  BY ClientsDo DEF MemoryInv, Working, Neighbours, AtStep
<1>7. Goes(a, now)
  BY <1>1, <1>3, <1>5, <1>6 DEF Works
<1>8. /\ now \in Works /\ now.todo = todo /\ now.do = op[a].do
      /\ now.at \in {"done", "neighbours"} /\ now.previous = op[a].previous
      /\ now.link = op[a].link /\ now.own = op[a].own /\ now.copies = op[a].copies \cup Copies(near)
  BY <1>2, <1>4, <1>5, <1>6 DEF Works
<1>9. Honest(a, now)
  BY <1>4, <1>6, <1>8 DEF Honest
<1>10. Loyal(a, now)
  <2>1. Serves(now)
    BY <1>4, <1>6, <1>8 DEF Serves, Loyal
  <2>2. \A c \in now.copies : Faithful(c)
    BY <1>2, <1>6, <1>8 DEF Loyal
  <2>3. \A c \in now.own : Faithful(c)
    BY <1>6, <1>8 DEF Loyal
  <2> QED
    BY <1>4, <1>6, <1>8, <2>1, <2>2, <2>3, ClientIsLoyal
<1> QED
  BY <1>7, <1>8, <1>9, <1>10, GoesKeeps DEF Neighbours, Quiet

\* remember goes on with a record it found, in any operation.
LEMMA ReturnedKeeps ==
    ASSUME MemoryInv, NEW a \in Clients, NEW now \in Works, Honest(a, now), Loyal(a, now),
           NEW copy \in Records, Faithful(copy), NEW save \in BOOLEAN, Returned(a, now, copy, save),
           UNCHANGED <<rows, orphaned>>
    PROVE  MemoryInv'
<1>0. a \in Callers
  BY DEF Callers
<1>1. /\ Touched({copy}) \in SUBSET Saves
      /\ \A w \in Touched({copy}) : w.was = w.row.status /\ w.heir = Nobody /\ Faithful(w)
  BY TouchedIs
<1>2. PICK todo : todo = IF save \/ now.do = "consolidate" THEN Touched({copy}) ELSE {}
  OBVIOUS
<1>3. todo \in SUBSET Saves /\ \A w \in todo : w.was = w.row.status /\ w.heir = Nobody /\ Faithful(w)
  BY <1>1, <1>2
<1>4. PICK next : next = [now EXCEPT !.at = IF now.do = "consolidate" THEN "sources" ELSE "done",
                                     !.todo = todo]
  OBVIOUS
<1>5. Goes(a, next)
  BY <1>2, <1>4 DEF Returned
<1>6. /\ next \in Works /\ next.todo = todo /\ next.do = now.do /\ next.previous = now.previous
      /\ next.at = IF now.do = "consolidate" THEN "sources" ELSE "done"
      /\ next.link = now.link /\ next.own = now.own /\ next.copies = now.copies
  BY <1>3, <1>4 DEF Works
<1>7. Honest(a, next)
  BY <1>0, <1>3, <1>6 DEF Honest
<1>8. Loyal(a, next)
  <2>1. Serves(next)
    BY <1>3, <1>6 DEF Serves, Loyal
  <2>2. (\A c \in next.copies : Faithful(c)) /\ \A c \in next.own : Faithful(c)
    BY <1>6 DEF Loyal
  <2> QED
    BY <1>3, <1>6, <2>1, <2>2, ClientIsLoyal
<1> QED
  BY <1>0, <1>5, <1>6, <1>7, <1>8, GoesKeeps

LEMMA CheckedKeeps ==
    ASSUME MemoryInv, NEW a \in Clients, NEW now \in Works, Honest(a, now), Loyal(a, now),
           now.todo = {}, Checked(a, now), UNCHANGED <<rows, orphaned>>
    PROVE  MemoryInv'
<1>1. CASE \E copy \in Copies(Exists) : Returned(a, now, copy, TRUE)
  <2>1. PICK copy \in Copies(Exists) : Returned(a, now, copy, TRUE)
    BY <1>1
  <2>2. copy \in Records /\ Faithful(copy)
    BY CopiesAre DEF MemoryInv
  <2> QED
    BY <2>1, <2>2, ReturnedKeeps
<1>2. CASE Goes(a, [now EXCEPT !.at = "compare"])
  <2>1. PICK next : next = [now EXCEPT !.at = "compare"]
    OBVIOUS
  <2>2. /\ next \in Works /\ next.todo = now.todo /\ next.do = now.do /\ next.at = "compare"
        /\ next.previous = now.previous /\ next.link = now.link /\ next.own = now.own
        /\ next.copies = now.copies /\ a \in Callers
    BY <2>1 DEF Works, Callers
  <2>3. Honest(a, next)
    BY <2>2 DEF Honest
  <2>4. Loyal(a, next)
    <3>1. Serves(next)
      BY <2>2 DEF Serves, Loyal
    <3>2. (\A c \in next.copies : Faithful(c)) /\ \A c \in next.own : Faithful(c)
      BY <2>2 DEF Loyal
    <3> QED
      BY <2>2, <3>1, <3>2, ClientIsLoyal
  <2> QED
    BY <1>2, <2>1, <2>2, <2>3, <2>4, GoesKeeps
<1> QED
  BY <1>1, <1>2 DEF Checked

LEMMA RememberKeeps == ASSUME MemoryInv, NEW a \in Callers, Remember(a) PROVE MemoryInv'
<1>1. PICK text \in Contents, previous \in {Nobody} \cup Exists :
          Checked(a, [AtRest EXCEPT !.do = "remember", !.content = {text}, !.previous = previous])
  BY DEF Remember
<1>2. previous \in 0..Size
  BY MemoryAssumption DEF Nobody, Exists, Memories
<1>3. PICK now : now = [AtRest EXCEPT !.do = "remember", !.content = {text}, !.previous = previous]
  OBVIOUS
<1>4. now \in Works
  BY <1>2, <1>3, RestIs DEF Works
<1>5. Honest(a, now)
  <2>1. now.todo = {} /\ now.do = "remember" /\ now.at = "rest" /\ now.previous = previous
    BY <1>3 DEF AtRest
  <2> QED
    BY <1>1, <2>1 DEF Honest
<1>6. Loyal(a, now) /\ now.todo = {}
  <2>1. now.todo = {} /\ now.link = {} /\ now.copies = {} /\ now.own = {}
    BY <1>3 DEF AtRest
  <2>2. Serves(now)
    BY <2>1 DEF Serves
  <2> QED
    BY <2>1, <2>2, ClientIsLoyal DEF Remember, Begin
<1> QED
  BY <1>1, <1>3, <1>4, <1>5, <1>6, CheckedKeeps DEF Remember, Begin

LEMMA ConsolidateKeeps == ASSUME MemoryInv, NEW a \in Callers, Consolidate(a) PROVE MemoryInv'
<1>1. PICK copy \in Copies(Exists), text \in Contents :
          Goes(a, [AtRest EXCEPT !.do = "consolidate", !.at = "gather", !.content = {text},
                                 !.copies = {copy}])
  BY DEF Consolidate
<1>2. copy \in Records /\ Faithful(copy)
  BY CopiesAre DEF MemoryInv
<1>3. PICK now : now = [AtRest EXCEPT !.do = "consolidate", !.at = "gather", !.content = {text},
                                      !.copies = {copy}]
  OBVIOUS
<1>4. now \in Works
  BY <1>2, <1>3, RestIs DEF Works
<1>5. Honest(a, now)
  <2>1. now.todo = {} /\ now.at = "gather" /\ a \in Clients /\ now.previous = Nobody
    BY <1>3 DEF AtRest, Consolidate, Begin
  <2> QED
    BY <2>1 DEF Honest
<1>6. Loyal(a, now)
  <2>1. now.todo = {} /\ now.link = {} /\ now.copies = {copy} /\ now.own = {}
    BY <1>3 DEF AtRest
  <2>2. Serves(now)
    BY <2>1 DEF Serves
  <2> QED
    BY <1>2, <2>1, <2>2, ClientIsLoyal DEF Consolidate, Begin
<1> QED
  BY <1>1, <1>3, <1>4, <1>5, <1>6, GoesKeeps DEF Consolidate, Begin

LEMMA GatherKeeps == ASSUME MemoryInv, NEW a \in Callers, Gather(a) PROVE MemoryInv'
<1>1. PICK copy \in Copies(Exists), at \in {"gather", "check"} :
          Goes(a, [op[a] EXCEPT !.copies = @ \cup {copy}, !.at = at])
  <2>1. \A ids : Copies(Exists \ ids) \subseteq Copies(Exists)
    BY DEF Copies
  <2> QED
    BY <2>1 DEF Gather
<1>2. copy \in Records /\ Faithful(copy)
  BY CopiesAre DEF MemoryInv
<1>3. op[a] \in Works /\ Honest(a, op[a]) /\ Loyal(a, op[a]) /\ op[a].todo = {} /\ a \in Clients
  BY ClientsDo DEF MemoryInv, Working, Gather, AtStep
<1>4. PICK now : now = [op[a] EXCEPT !.copies = op[a].copies \cup {copy}, !.at = at]
  OBVIOUS
<1>5. /\ now \in Works /\ now.todo = op[a].todo /\ now.do = op[a].do /\ now.at = at
      /\ now.previous = op[a].previous /\ now.link = op[a].link /\ now.own = op[a].own
      /\ now.copies = op[a].copies \cup {copy}
  BY <1>2, <1>3, <1>4 DEF Works
<1>6. Honest(a, now)
  BY <1>3, <1>5 DEF Honest
<1>7. Goes(a, now)
  BY <1>1, <1>3, <1>4 DEF Works
<1>8. Loyal(a, now)
  <2>1. Serves(now)
    BY <1>3, <1>5 DEF Serves, Loyal
  <2>2. (\A c \in now.copies : Faithful(c)) /\ \A c \in now.own : Faithful(c)
    BY <1>2, <1>3, <1>5 DEF Loyal
  <2> QED
    BY <1>3, <1>5, <2>1, <2>2, ClientIsLoyal
<1> QED
  BY <1>5, <1>6, <1>7, <1>8, GoesKeeps DEF Gather, Quiet

LEMMA CheckKeeps == ASSUME MemoryInv, NEW a \in Callers, Check(a) PROVE MemoryInv'
<1>1. op[a] \in Works /\ Honest(a, op[a]) /\ Loyal(a, op[a]) /\ op[a].todo = {} /\ a \in Clients
  BY ClientsDo DEF MemoryInv, Working, Check, AtStep
<1> QED
  BY <1>1, CheckedKeeps DEF Check, Quiet

LEMMA CompareKeeps == ASSUME MemoryInv, NEW a \in Callers, Compare(a) PROVE MemoryInv'
<1>1. op[a] \in Works /\ Honest(a, op[a]) /\ Loyal(a, op[a]) /\ op[a].todo = {} /\ a \in Clients
  BY ClientsDo DEF MemoryInv, Working, Compare, AtStep
<1>2. CASE \E copy \in Copies(LiveIds), save \in BOOLEAN : Returned(a, op[a], copy, save)
  <2>1. PICK copy \in Copies(LiveIds), save \in BOOLEAN : Returned(a, op[a], copy, save)
    BY <1>2
  <2>2. copy \in Records /\ Faithful(copy)
    BY LiveIsThere, CopiesAre DEF MemoryInv
  <2> QED
    BY <1>1, <2>1, <2>2, ReturnedKeeps DEF Compare, Quiet
<1>3. CASE Goes(a, [op[a] EXCEPT !.at = IF op[a].previous # Nobody THEN "replace" ELSE "create"])
  <2>1. PICK now : now = [op[a] EXCEPT !.at = IF op[a].previous # Nobody THEN "replace" ELSE "create"]
    OBVIOUS
  <2>2. /\ now \in Works /\ now.todo = op[a].todo /\ now.do = op[a].do
        /\ now.at \in {"replace", "create"} /\ now.previous = op[a].previous
        /\ now.at = "replace" => now.previous # Nobody
        /\ now.link = op[a].link /\ now.own = op[a].own /\ now.copies = op[a].copies
    BY <1>1, <2>1 DEF Works
  <2>3. Honest(a, now)
    BY <1>1, <2>2 DEF Honest
  <2>4. Loyal(a, now)
    <3>1. Serves(now)
      BY <1>1, <2>2 DEF Serves, Loyal
    <3>2. (\A c \in now.copies : Faithful(c)) /\ \A c \in now.own : Faithful(c)
      BY <1>1, <2>2 DEF Loyal
    <3> QED
      BY <1>1, <2>2, <3>1, <3>2, ClientIsLoyal
  <2> QED
    BY <1>3, <2>1, <2>2, <2>3, <2>4, GoesKeeps DEF Compare, Quiet
<1> QED
  BY <1>2, <1>3 DEF Compare

\* What is saved as superseded or forgotten revives nothing.
LEMMA ClosingIs ==
    ASSUME NEW copy \in Records, NEW heir \in 0..Size,
           NEW w, w = Save(copy, WithStatus(copy.row, "superseded"), heir)
    PROVE  /\ w \in Saves /\ w.row.status = "superseded" /\ w.id = copy.id /\ w.heir = heir
           /\ w.was = copy.row.status
           /\ Faithful(copy) => Faithful(w)
<1>1. copy.row \in Rows
  BY DEF Records
<1>2. /\ WithStatus(copy.row, "superseded") \in Rows
      /\ WithStatus(copy.row, "superseded").status = "superseded"
      /\ WithStatus(copy.row, "superseded").replaces = copy.row.replaces
  BY <1>1, StatusIs
<1> QED
  BY <1>2, SaveIs

LEMMA ReplaceKeeps == ASSUME MemoryInv, NEW a \in Callers, Replace(a) PROVE MemoryInv'
<1>1. PICK copy \in Copies({op[a].previous}) :
          Goes(a, [op[a] EXCEPT !.todo = {Save(copy, WithStatus(copy.row, "superseded"), Nobody)},
                                !.at = "create"])
  BY DEF Replace
<1>2. /\ op[a] \in Works /\ Honest(a, op[a]) /\ Loyal(a, op[a]) /\ op[a].at = "replace"
      /\ a \in Clients
  BY ClientsDo DEF MemoryInv, Working, Replace, AtStep
<1>3. copy \in Records /\ Faithful(copy) /\ copy.id = op[a].previous
  <2>1. {op[a].previous} \subseteq Exists
    BY <1>2 DEF Honest
  <2> QED
    BY <2>1, CopiesAre DEF MemoryInv, Copies
<1>4. PICK w : w = Save(copy, WithStatus(copy.row, "superseded"), Nobody)
  OBVIOUS
<1>5. /\ w \in Saves /\ w.row.status = "superseded" /\ w.heir = Nobody /\ w.id = op[a].previous
      /\ Faithful(w)
  BY <1>3, <1>4, ClosingIs, MemoryAssumption DEF Nobody
<1>6. PICK now : now = [op[a] EXCEPT !.todo = {w}, !.at = "create"]
  OBVIOUS
<1>7. /\ now \in Works /\ now.todo = {w} /\ now.do = op[a].do /\ now.at = "create"
      /\ now.previous = op[a].previous /\ now.link = op[a].link /\ now.own = op[a].own
      /\ now.copies = op[a].copies
  BY <1>2, <1>5, <1>6 DEF Works
<1>8. Honest(a, now)
  BY <1>2, <1>5, <1>7 DEF Honest
<1>9. Goes(a, now)
  BY <1>1, <1>4, <1>6
<1>10. Loyal(a, now)
  <2>1. Serves(now)
    BY <1>2, <1>5, <1>7 DEF Serves, Loyal
  <2>2. (\A c \in now.copies : Faithful(c)) /\ \A c \in now.own : Faithful(c)
    BY <1>2, <1>7 DEF Loyal
  <2> QED
    BY <1>2, <1>5, <1>7, <2>1, <2>2, ClientIsLoyal
<1> QED
  BY <1>7, <1>8, <1>9, <1>10, GoesKeeps DEF Replace, Quiet

\* A row that is written is a row; what is there stays there.
LEMMA WrittenIs ==
    ASSUME RowsTyped, NEW m \in Memories, NEW r \in Rows, rows' = [rows EXCEPT ![m] = r]
    PROVE  RowsTyped' /\ Exists \subseteq Exists'
<1>1. r # Missing
  BY DEF Rows, Missing
<1>2. RowsTyped'
  BY DEF RowsTyped
<1>3. Exists \subseteq Exists'
  BY <1>1 DEF RowsTyped, Exists
<1> QED
  BY <1>2, <1>3

LEMMA CreateKeeps == ASSUME MemoryInv, NEW a \in Callers, Create(a) PROVE MemoryInv'
<1>1. op[a] \in Works /\ Honest(a, op[a]) /\ Loyal(a, op[a]) /\ op[a].todo = {} /\ a \in Clients
  BY ClientsDo DEF MemoryInv, Working, Create, AtStep
<1>2. PICK m \in Memories \ Exists, text \in op[a].content, pin \in BOOLEAN :
          LET r == [status |-> "live", content |-> text, pinned |-> pin,
                    replaces |-> op[a].previous]
          IN  /\ \A n \in Memories : n < m => n \in Exists
              /\ rows' = [rows EXCEPT ![m] = r]
              /\ Goes(a, [op[a] EXCEPT !.at = "organize", !.own = {[id |-> m, row |-> r]}])
  BY DEF Create
<1>3. PICK r : r = [status |-> "live", content |-> text, pinned |-> pin,
                    replaces |-> op[a].previous]
  OBVIOUS
<1>4. r \in Rows /\ r.replaces = op[a].previous
  BY <1>1, <1>3 DEF Works, Rows
<1>5. RowsTyped' /\ Exists' = Exists \cup {m} /\ \A n \in Exists : rows'[n] = rows[n]
  <2>1. RowsTyped' /\ rows' = [rows EXCEPT ![m] = r] /\ rows \in [Memories -> {Missing} \cup Rows]
    BY <1>2, <1>3, <1>4, WrittenIs DEF MemoryInv, RowsTyped
  <2>2. r # Missing
    BY <1>3 DEF Missing
  <2> QED
    BY <1>2, <2>1, <2>2 DEF Exists
<1>6. Ordered'
  <2>1. r.replaces < m
    <3>1. op[a].previous \in {Nobody} \cup Exists
      BY <1>1 DEF Honest
    <3>2. ASSUME op[a].previous \in Exists PROVE op[a].previous < m
      <4>1. ~ (m < op[a].previous) /\ m # op[a].previous
        BY <1>2, <3>2 DEF MemoryInv, Ordered
      <4> QED
        BY <3>2, <4>1, MemoryAssumption DEF Exists, Memories
    <3> QED
      BY <1>4, <3>1, <3>2, MemoryAssumption DEF Nobody, Memories
  <2>2. rows'[m] = r
    BY <1>2, <1>3 DEF MemoryInv, RowsTyped
  <2>3. ASSUME NEW n \in Exists' PROVE rows'[n].replaces < n /\ \A k \in Memories : k < n => k \in Exists'
    BY <1>2, <1>5, <2>1, <2>2, <2>3 DEF MemoryInv, Ordered
  <2> QED
    BY <2>3 DEF Ordered
<1>7. PICK now : now = [op[a] EXCEPT !.at = "organize", !.own = {[id |-> m, row |-> r]}]
  OBVIOUS
<1>8. /\ now \in Works /\ now.todo = op[a].todo /\ now.do = op[a].do /\ now.at = "organize"
      /\ now.previous = op[a].previous /\ now.link = op[a].link /\ now.copies = op[a].copies
      /\ now.own = {[id |-> m, row |-> r]}
  <2>1. [id |-> m, row |-> r] \in Records
    BY <1>4 DEF Records
  <2>2. PICK own \in SUBSET Records : own = {[id |-> m, row |-> r]}
    BY <2>1
  <2> QED
    BY <1>1, <1>7, <2>2 DEF Works
<1>9. Honest(a, now)
  BY <1>1, <1>8 DEF Honest
<1>10. Goes(a, now)
  BY <1>2, <1>3, <1>7
<1>11. Loyal(a, now)'
  <2>1. (\A c \in now.copies : Faithful(c))'
    BY <1>1, <1>5, <1>8 DEF Loyal, Faithful
  <2>2. (\A c \in now.own : Faithful(c))'
    BY <1>2, <1>3, <1>4, <1>5, <1>8 DEF Faithful, MemoryInv, RowsTyped
  <2>3. Serves(now)'
    BY <1>1, <1>8 DEF Serves, Loyal, Create
  <2> QED
    BY <1>1, <1>8, <2>1, <2>2, <2>3, MemoryAssumption DEF Loyal
<1> QED
  BY <1>5, <1>8, <1>9, <1>10, <1>11, <1>6, GoesOn DEF MemoryInv, Create

LEMMA OrganizeKeeps == ASSUME MemoryInv, NEW a \in Callers, Organize(a) PROVE MemoryInv'
<1>1. PICK peers \in SUBSET LiveIds, chosen \in {{}, Touched(op[a].own)} :
          Goes(a, [op[a] EXCEPT !.todo = chosen \cup Touched(Copies(peers)), !.own = {},
                                !.at = IF op[a].do = "consolidate" THEN "sources" ELSE "done"])
  BY DEF Organize, AtMost
<1>2. op[a] \in Works /\ Honest(a, op[a]) /\ Loyal(a, op[a]) /\ a \in Clients
  BY ClientsDo DEF MemoryInv, Working, Organize, AtStep
<1>3. Copies(peers) \in SUBSET Records /\ \A c \in Copies(peers) : Faithful(c)
  BY LiveIsThere, CopiesAre DEF MemoryInv
<1>4. PICK todo : todo = chosen \cup Touched(Copies(peers))
  OBVIOUS
<1>5. todo \in SUBSET Saves /\ \A w \in todo : w.was = w.row.status /\ w.heir = Nobody /\ Faithful(w)
  <2>1. /\ Touched(op[a].own) \in SUBSET Saves
        /\ \A w \in Touched(op[a].own) : w.was = w.row.status /\ w.heir = Nobody /\ Faithful(w)
    BY <1>2, TouchedIs DEF Works, Loyal
  <2>2. /\ Touched(Copies(peers)) \in SUBSET Saves
        /\ \A w \in Touched(Copies(peers)) : w.was = w.row.status /\ w.heir = Nobody /\ Faithful(w)
    BY <1>3, TouchedIs
  <2> QED
    BY <1>4, <2>1, <2>2
<1>6. PICK now : now = [op[a] EXCEPT !.todo = todo, !.own = {},
                                     !.at = IF op[a].do = "consolidate" THEN "sources" ELSE "done"]
  OBVIOUS
<1>7. /\ now \in Works /\ now.todo = todo /\ now.do = op[a].do /\ now.previous = op[a].previous
      /\ now.at = IF op[a].do = "consolidate" THEN "sources" ELSE "done"
      /\ now.link = op[a].link /\ now.copies = op[a].copies /\ now.own = {}
  BY <1>2, <1>5, <1>6 DEF Works
<1>8. Honest(a, now)
  BY <1>2, <1>5, <1>7 DEF Honest
<1>9. Goes(a, now)
  BY <1>1, <1>4, <1>6
<1>10. Loyal(a, now)
  <2>1. Serves(now)
    BY <1>2, <1>5, <1>7 DEF Serves, Loyal
  <2>2. \A c \in now.copies : Faithful(c)
    BY <1>2, <1>7 DEF Loyal
  <2> QED
    BY <1>2, <1>5, <1>7, <2>1, <2>2, ClientIsLoyal
<1> QED
  BY <1>7, <1>8, <1>9, <1>10, GoesKeeps DEF Organize, Quiet

LEMMA SourcesKeeps == ASSUME MemoryInv, NEW a \in Callers, Sources(a) PROVE MemoryInv'
<1> DEFINE sources == { c \in op[a].copies : c.row.content \notin Episodes /\ ~c.row.pinned }
<1>1. /\ op[a] \in Works /\ Honest(a, op[a]) /\ Loyal(a, op[a]) /\ op[a].at = "sources"
      /\ a \in Clients
  BY ClientsDo DEF MemoryInv, Working, Sources, AtStep
<1>2. PICK todo : todo = { Save(c, WithStatus(c.row, "live"), Nobody) : c \in sources }
  OBVIOUS
<1>3. todo \in SUBSET Saves /\ \A w \in todo : w.row.status = "live" /\ w.heir = Nobody /\ Faithful(w)
  <2>1. Nobody \in 0..Size
    BY MemoryAssumption DEF Nobody
  <2>2. ASSUME NEW c \in sources, NEW w, w = Save(c, WithStatus(c.row, "live"), Nobody)
        PROVE  w \in Saves /\ w.row.status = "live" /\ w.heir = Nobody /\ Faithful(w)
    <3>1. c \in Records /\ c.row \in Rows /\ Faithful(c)
      BY <1>1 DEF Works, Records, Loyal
    <3>2. /\ WithStatus(c.row, "live") \in Rows /\ WithStatus(c.row, "live").status = "live"
          /\ WithStatus(c.row, "live").replaces = c.row.replaces
      BY <3>1, StatusIs
    <3> QED
      BY <2>1, <2>2, <3>1, <3>2, SaveIs
  <2> QED
    BY <1>2, <2>2
<1>4. PICK now : now = [op[a] EXCEPT !.at = "done", !.copies = {}, !.todo = todo]
  OBVIOUS
<1>5. Goes(a, now)
  BY <1>2, <1>4 DEF Sources
<1>6. /\ now \in Works /\ now.todo = todo /\ now.do = op[a].do /\ now.previous = op[a].previous
      /\ now.at = "done" /\ now.link = op[a].link /\ now.own = op[a].own /\ now.copies = {}
  BY <1>1, <1>3, <1>4 DEF Works
<1>7. Honest(a, now)
  BY <1>1, <1>6 DEF Honest
<1>8. Loyal(a, now)
  <2>1. Serves(now)
    BY <1>1, <1>3, <1>6 DEF Serves, Loyal
  <2>2. \A c \in now.own : Faithful(c)
    BY <1>1, <1>6 DEF Loyal
  <2> QED
    BY <1>1, <1>3, <1>6, <2>1, <2>2, ClientIsLoyal
<1> QED
  BY <1>5, <1>6, <1>7, <1>8, GoesKeeps DEF Sources, Quiet

-----------------------------------------------------------------------------
LEMMA LiveCopiesAre ==
    ASSUME NEW ids, ids \subseteq LiveIds
    PROVE  /\ \A c \in Copies(ids) : c.row.status = "live" /\ c.id \in ids
           /\ \A c, d \in Copies(ids) : c.id = d.id => c = d
BY DEF Copies, LiveIds

LEMMA KeeperIsLoyal ==
    ASSUME NEW now, Keeps(now), \A w \in now.todo : Faithful(w),
           \A c \in now.copies : Faithful(c), \A c \in now.own : Faithful(c)
    PROVE  Loyal(Keeper, now)
BY MemoryAssumption DEF Loyal

LEMMA KeeperIs ==
    ASSUME MemoryInv
    PROVE  /\ Keeper \in Callers /\ op[Keeper] \in Works /\ Honest(Keeper, op[Keeper])
           /\ Loyal(Keeper, op[Keeper]) /\ Keeps(op[Keeper])
BY DEF MemoryInv, Working, Callers, Loyal

LEMMA MaintainKeeps == ASSUME MemoryInv, Maintain PROVE MemoryInv'
<1>1. PICK warm \in SUBSET LiveIds :
          Goes(Keeper, [AtRest EXCEPT !.do = "maintain", !.at = "retire",
                                      !.todo = Touched(Copies(warm)), !.copies = Copies(LiveIds)])
  BY DEF Maintain, AtMost
<1>2. /\ Copies(warm) \in SUBSET Records /\ Copies(LiveIds) \in SUBSET Records
      /\ \A c \in Copies(warm) : Faithful(c) /\ c.row.status = "live"
      /\ \A c \in Copies(LiveIds) : Faithful(c) /\ c.row.status = "live"
      /\ \A c, d \in Copies(LiveIds) : c.id = d.id => c = d
  BY LiveIsThere, CopiesAre, LiveCopiesAre DEF MemoryInv
<1>3. PICK todo : todo = Touched(Copies(warm))
  OBVIOUS
<1>4. /\ todo \in SUBSET Saves
      /\ \A w \in todo : w.was = "live" /\ w.row.status = "live" /\ w.heir = Nobody /\ Faithful(w)
  BY <1>2, <1>3, TouchedIs
<1>5. PICK now : now = [AtRest EXCEPT !.do = "maintain", !.at = "retire", !.todo = todo,
                                      !.copies = Copies(LiveIds)]
  OBVIOUS
<1>6. now \in Works
  BY <1>2, <1>4, <1>5, RestIs DEF Works
<1>7. Honest(Keeper, now)
  <2>1. now.todo = todo /\ now.do = "maintain" /\ now.at = "retire" /\ now.previous = Nobody
    BY <1>5 DEF AtRest
  <2> QED
    BY <1>4, <2>1 DEF Honest
<1>8. Loyal(Keeper, now)
  <2>1. /\ now.todo = todo /\ now.at = "retire" /\ now.link = {} /\ now.own = {}
        /\ now.copies = Copies(LiveIds)
    BY <1>5 DEF AtRest
  <2>2. Keeps(now)
    BY <1>2, <1>4, <2>1 DEF Keeps
  <2> QED
    BY <1>2, <1>4, <2>1, <2>2, KeeperIsLoyal
<1> QED
  BY <1>1, <1>3, <1>5, <1>6, <1>7, <1>8, GoesKeeps DEF Maintain, Quiet, Callers

LEMMA RetireKeeps == ASSUME MemoryInv, Retire PROVE MemoryInv'
<1> DEFINE held  == op[Keeper].copies
           facts == Facts(held)
<1>0. Keeper \in Callers
  BY DEF Callers
<1>1. PICK survivor \in Survivors(facts) :
          Goes(Keeper, [op[Keeper] EXCEPT
             !.at = "repair", !.copies = held \ Retired(facts, survivor),
             !.todo = { Save(c, WithStatus(c.row, "superseded"), survivor[c.row.content].id) :
                          c \in Retired(facts, survivor) }])
  BY DEF Retire
<1>2. /\ op[Keeper] \in Works /\ Honest(Keeper, op[Keeper]) /\ Loyal(Keeper, op[Keeper])
      /\ Keeps(op[Keeper]) /\ op[Keeper].link = {}
  BY KeeperIs DEF Retire, AtStep
<1>3. /\ held \in SUBSET Records /\ facts \subseteq held
      /\ \A c \in held : Faithful(c) /\ c.row.status = "live"
  BY <1>2 DEF Works, Facts, Loyal, Keeps
<1>4. PICK todo : todo = { Save(c, WithStatus(c.row, "superseded"), survivor[c.row.content].id) :
                             c \in Retired(facts, survivor) }
  OBVIOUS
<1>5. /\ todo \in SUBSET Saves
      /\ \A w \in todo : w.row.status = "superseded" /\ w.was = "live" /\ Faithful(w)
  <2>1. ASSUME NEW c \in Retired(facts, survivor),
               NEW w, w = Save(c, WithStatus(c.row, "superseded"), survivor[c.row.content].id)
        PROVE  w \in Saves /\ w.row.status = "superseded" /\ w.was = "live" /\ Faithful(w)
    <3>1. c \in facts /\ c \in Records /\ Faithful(c) /\ c.row.status = "live"
      BY <1>3 DEF Retired
    <3>2. survivor[c.row.content] \in facts
      BY <3>1 DEF Survivors
    <3>3. survivor[c.row.content].id \in 0..Size
      BY <1>3, <3>2, MemoryAssumption DEF Records, Memories
    <3> QED
      BY <2>1, <3>1, <3>3, ClosingIs
  <2> QED
    BY <1>4, <2>1
<1>6. PICK now : now = [op[Keeper] EXCEPT !.at = "repair", !.todo = todo,
                                          !.copies = held \ Retired(facts, survivor)]
  OBVIOUS
<1>7. Goes(Keeper, now)
  BY <1>1, <1>2, <1>4, <1>6 DEF Works
<1>8. /\ now \in Works /\ now.todo = todo /\ now.do = op[Keeper].do
      /\ now.previous = op[Keeper].previous /\ now.at = "repair"
      /\ now.link = {} /\ now.own = op[Keeper].own /\ now.copies \subseteq held
  BY <1>2, <1>3, <1>5, <1>6 DEF Works
<1>9. Honest(Keeper, now)
  BY <1>2, <1>5, <1>8 DEF Honest
<1>10. Loyal(Keeper, now)
  <2>1. Keeps(now)
    BY <1>2, <1>3, <1>5, <1>8 DEF Keeps
  <2>2. (\A c \in now.copies : Faithful(c)) /\ \A c \in now.own : Faithful(c)
    BY <1>2, <1>3, <1>8 DEF Loyal
  <2> QED
    BY <1>5, <1>8, <2>1, <2>2, KeeperIsLoyal
<1> QED
  BY <1>0, <1>7, <1>8, <1>9, <1>10, GoesKeeps DEF Retire, Quiet

LEMMA RepairKeeps == ASSUME MemoryInv, Repair PROVE MemoryInv'
<1>0. Keeper \in Callers
  BY DEF Callers
<1>1. /\ op[Keeper] \in Works /\ Honest(Keeper, op[Keeper]) /\ Loyal(Keeper, op[Keeper])
      /\ Keeps(op[Keeper]) /\ op[Keeper].todo = {} /\ op[Keeper].link = {} /\ op[Keeper].at = "repair"
  BY KeeperIs DEF Repair, AtStep
<1>2. CASE Goes(Keeper, [op[Keeper] EXCEPT !.at = "done"])
  <2>1. PICK now : now = [op[Keeper] EXCEPT !.at = "done"]
    OBVIOUS
  <2>2. /\ now \in Works /\ now.todo = {} /\ now.do = op[Keeper].do
        /\ now.previous = op[Keeper].previous /\ now.at = "done"
        /\ now.link = {} /\ now.own = op[Keeper].own /\ now.copies = op[Keeper].copies
    BY <1>1, <2>1 DEF Works
  <2>3. Honest(Keeper, now)
    BY <1>1, <2>2 DEF Honest
  <2>4. Loyal(Keeper, now)
    <3>1. Keeps(now)
      BY <1>1, <2>2 DEF Keeps
    <3>2. (\A c \in now.copies : Faithful(c)) /\ \A c \in now.own : Faithful(c)
      BY <1>1, <2>2 DEF Loyal
    <3> QED
      BY <2>2, <3>1, <3>2, KeeperIsLoyal
  <2> QED
    BY <1>0, <1>2, <2>1, <2>2, <2>3, <2>4, GoesKeeps DEF Repair, Quiet
<1>3. CASE \E c \in op[Keeper].copies :
             Goes(Keeper, [op[Keeper] EXCEPT
                !.copies = @ \ {c},
                !.todo = { Save(p, WithStatus(p.row, "superseded"), Nobody) :
                             p \in Copies(LiveIds \cap {c.row.replaces}) }])
  <2>1. PICK c \in op[Keeper].copies :
             Goes(Keeper, [op[Keeper] EXCEPT
                !.copies = @ \ {c},
                !.todo = { Save(p, WithStatus(p.row, "superseded"), Nobody) :
                             p \in Copies(LiveIds \cap {c.row.replaces}) }])
    BY <1>3
  <2>2. /\ Copies(LiveIds \cap {c.row.replaces}) \in SUBSET Records
        /\ \A p \in Copies(LiveIds \cap {c.row.replaces}) : Faithful(p) /\ p.row.status = "live"
    BY LiveIsThere, CopiesAre, LiveCopiesAre DEF MemoryInv
  <2>3. PICK todo : todo = { Save(p, WithStatus(p.row, "superseded"), Nobody) :
                               p \in Copies(LiveIds \cap {c.row.replaces}) }
    OBVIOUS
  <2>4. /\ todo \in SUBSET Saves
        /\ \A w \in todo : w.row.status = "superseded" /\ w.was = "live" /\ Faithful(w)
    <3>1. Nobody \in 0..Size
      BY MemoryAssumption DEF Nobody
    <3>2. ASSUME NEW p \in Copies(LiveIds \cap {c.row.replaces}),
                 NEW w, w = Save(p, WithStatus(p.row, "superseded"), Nobody)
          PROVE  w \in Saves /\ w.row.status = "superseded" /\ w.was = "live" /\ Faithful(w)
      <4>1. p \in Records /\ Faithful(p) /\ p.row.status = "live"
        BY <2>2, <3>2
      <4> QED
        BY <3>1, <3>2, <4>1, ClosingIs
    <3> QED
      BY <2>3, <3>2
  <2>5. PICK now : now = [op[Keeper] EXCEPT !.copies = op[Keeper].copies \ {c}, !.todo = todo]
    OBVIOUS
  <2>6. Goes(Keeper, now)
    BY <1>1, <2>1, <2>3, <2>5 DEF Works
  <2>7. /\ now \in Works /\ now.todo = todo /\ now.do = op[Keeper].do
        /\ now.previous = op[Keeper].previous /\ now.at = op[Keeper].at
        /\ now.link = {} /\ now.own = op[Keeper].own /\ now.copies \subseteq op[Keeper].copies
    BY <1>1, <2>4, <2>5 DEF Works
  <2>8. Honest(Keeper, now)
    BY <1>1, <2>4, <2>7 DEF Honest
  <2>9. Loyal(Keeper, now)
    <3>1. Keeps(now)
      BY <1>1, <2>4, <2>7 DEF Keeps
    <3>2. (\A e \in now.copies : Faithful(e)) /\ \A e \in now.own : Faithful(e)
      BY <1>1, <2>7 DEF Loyal
    <3> QED
      BY <2>4, <2>7, <3>1, <3>2, KeeperIsLoyal
  <2> QED
    BY <1>0, <2>6, <2>7, <2>8, <2>9, GoesKeeps DEF Repair, Quiet
<1> QED
  BY <1>2, <1>3 DEF Repair

-----------------------------------------------------------------------------
\* A save leaves the memories there are, and what they replace.
LEMMA StoredIs ==
    ASSUME RowsTyped, NEW m \in Exists, NEW r \in Rows, r.replaces = rows[m].replaces,
           rows' = [rows EXCEPT ![m] = r]
    PROVE  RowsTyped' /\ Exists' = Exists /\ \A n \in Exists : rows'[n].replaces = rows[n].replaces
<1>1. r # Missing
  BY DEF Rows, Missing
<1>2. m \in Memories
  BY DEF Exists
<1> QED
  BY <1>1, <1>2 DEF RowsTyped, Exists

LEMMA WriteKeeps == ASSUME MemoryInv, NEW a \in Callers, Write(a) PROVE MemoryInv'
<1>1. PICK w \in op[a].todo :
          /\ rows' = [rows EXCEPT ![w.id] = w.row]
          /\ Goes(a, [op[a] EXCEPT !.todo = @ \ {w},
                                   !.link = { <<w.heir, w.id>> : h \in {w.heir} \ {Nobody} }])
  BY DEF Write
<1>2. op[a] \in Works /\ Honest(a, op[a]) /\ Loyal(a, op[a])
  BY DEF MemoryInv, Working
<1>3. /\ w \in Saves /\ w.id \in Memories /\ w.row \in Rows /\ w.heir \in 0..Size
      /\ w.id \in Exists /\ w.row.replaces = rows[w.id].replaces
  BY <1>1, <1>2 DEF Works, Saves, Loyal, Faithful
<1>4. RowsTyped' /\ Exists' = Exists /\ \A m \in Exists : rows'[m].replaces = rows[m].replaces
  BY <1>1, <1>3, StoredIs DEF MemoryInv
<1>5. PICK link \in SUBSET ((0..Size) \X Memories) :
          link = { <<w.heir, w.id>> : h \in {w.heir} \ {Nobody} }
  <2>1. <<w.heir, w.id>> \in (0..Size) \X Memories
    BY <1>3
  <2>2. { <<w.heir, w.id>> : h \in {w.heir} \ {Nobody} } \subseteq {<<w.heir, w.id>>}
    OBVIOUS
  <2> QED
    BY <2>1, <2>2
<1>6. PICK now : now = [op[a] EXCEPT !.todo = op[a].todo \ {w}, !.link = link]
  OBVIOUS
<1>7. Goes(a, now)
  BY <1>1, <1>2, <1>5, <1>6 DEF Works
<1>8. /\ now \in Works /\ now.todo = op[a].todo \ {w} /\ now.do = op[a].do
      /\ now.previous = op[a].previous /\ now.at = op[a].at /\ now.link = link
      /\ now.copies = op[a].copies /\ now.own = op[a].own
  BY <1>2, <1>5, <1>6 DEF Works
<1>9. Honest(a, now)
  BY <1>2, <1>8 DEF Honest
<1>10. Loyal(a, now)
  <2>1. w.heir = Nobody => link = {}
    BY <1>5
  <2>2. Serves(op[a]) => Serves(now)
    BY <1>1, <1>8, <2>1 DEF Serves
  <2>3. Keeps(op[a]) => Keeps(now)
    BY <1>1, <1>8, <2>1 DEF Keeps
  <2> QED
    BY <1>2, <1>8, <2>2, <2>3 DEF Loyal
<1>11. Ordered'
  BY <1>4 DEF MemoryInv, Ordered
<1>12. UNCHANGED orphaned
  BY DEF Write
<1>13. Loyal(a, now)'
  BY <1>4, <1>10, <1>12, LoyalStays
<1> QED
  BY <1>4, <1>7, <1>8, <1>9, <1>11, <1>12, <1>13, GoesOn DEF MemoryInv

LEMMA LinkKeeps == ASSUME MemoryInv, NEW a \in Callers, Link(a) PROVE MemoryInv'
<1>1. op[a] \in Works /\ Honest(a, op[a]) /\ Loyal(a, op[a])
  BY DEF MemoryInv, Working
<1>2. PICK now : now = [op[a] EXCEPT !.link = {}]
  OBVIOUS
<1>3. /\ now \in Works /\ now.todo = op[a].todo /\ now.do = op[a].do
      /\ now.previous = op[a].previous /\ now.at = op[a].at /\ now.link = {}
      /\ now.copies = op[a].copies /\ now.own = op[a].own
  BY <1>1, <1>2 DEF Works
<1>4. Honest(a, now)
  BY <1>1, <1>3 DEF Honest
<1>5. Loyal(a, now)
  BY <1>1, <1>3 DEF Loyal, Serves, Keeps
<1> QED
  BY <1>2, <1>3, <1>4, <1>5, GoesKeeps DEF Link

\* A save that was begun lands as it was; only the edge after it is lost.
LEMMA CutKeeps == ASSUME MemoryInv, NEW a \in Callers, Cut(a) PROVE MemoryInv'
<1>1. PICK begunSave \in SUBSET op[a].todo :
          /\ Goes(a, [AtRest EXCEPT !.do = op[a].do, !.at = "done",
                                    !.todo = { [w EXCEPT !.heir = Nobody] : w \in begunSave }])
          /\ orphaned' = orphaned \cup HeirDue(a)
                           \cup { w.id : w \in { w \in begunSave : w.heir # Nobody } }
  BY DEF Cut
<1>2. op[a] \in Works /\ Honest(a, op[a]) /\ Loyal(a, op[a])
  BY DEF MemoryInv, Working
<1>3. PICK todo : todo = { [w EXCEPT !.heir = Nobody] : w \in begunSave }
  OBVIOUS
<1>4. /\ todo \in SUBSET Saves
      /\ \A v \in todo : v.row.status = "live" => v.was = "live" \/ op[a].do = "consolidate"
      /\ \A v \in todo : v.heir = Nobody /\ \E w \in op[a].todo :
            v.row = w.row /\ v.was = w.was /\ v.id = w.id
  <2>1. Nobody \in 0..Size
    BY MemoryAssumption DEF Nobody
  <2>2. ASSUME NEW w \in begunSave, NEW v, v = [w EXCEPT !.heir = Nobody]
        PROVE  v \in Saves /\ v.row = w.row /\ v.was = w.was /\ v.id = w.id /\ v.heir = Nobody
    <3>1. w \in Saves
      BY <1>2 DEF Works
    <3> QED
      BY <2>1, <2>2, <3>1 DEF Saves
  <2>3. ASSUME NEW v \in todo
        PROVE  /\ v \in Saves /\ (v.row.status = "live" => v.was = "live" \/ op[a].do = "consolidate")
               /\ v.heir = Nobody
               /\ \E w \in op[a].todo : v.row = w.row /\ v.was = w.was /\ v.id = w.id
    <3>1. PICK w \in begunSave : v = [w EXCEPT !.heir = Nobody]
      BY <1>3
    <3>2. v \in Saves /\ v.row = w.row /\ v.was = w.was /\ v.id = w.id /\ v.heir = Nobody
      BY <2>2, <3>1
    <3> QED
      BY <1>2, <3>2 DEF Honest
  <2> QED
    BY <2>3
<1>5. PICK now : now = [AtRest EXCEPT !.do = op[a].do, !.at = "done", !.todo = todo]
  OBVIOUS
<1>6. now \in Works
  BY <1>2, <1>4, <1>5, RestIs DEF Works
<1>7. Honest(a, now)
  <2>1. now.todo = todo /\ now.do = op[a].do /\ now.at = "done" /\ now.previous = Nobody
    BY <1>5 DEF AtRest
  <2> QED
    BY <1>2, <1>4, <2>1 DEF Honest
<1>8. RowsTyped' /\ Exists' = Exists /\ Ordered' /\ UNCHANGED rows /\ orphaned \subseteq orphaned'
  BY <1>1 DEF MemoryInv, RowsTyped, Exists, Ordered, Cut
<1>9. Loyal(a, now)'
  <2>1. /\ now.todo = todo /\ now.at = "done" /\ now.link = {} /\ now.copies = {} /\ now.own = {}
    BY <1>5 DEF AtRest
  <2>2. (\A w \in todo : Faithful(w))'
    BY <1>2, <1>4, <1>8 DEF Loyal, Faithful
  <2>3. a \in Clients => Serves(now)'
    <3>1. SUFFICES ASSUME a \in Clients, NEW v \in todo, v.row.status = "superseded",
                          v.was # "superseded"
                   PROVE  v.id \in orphaned'
      BY <1>4, <2>1 DEF Serves
    <3>2. v.id \in orphaned \/ (op[a].at = "create" /\ op[a].previous = v.id)
      BY <1>2, <1>4, <3>1 DEF Loyal, Serves
    <3> QED
      BY <1>1, <3>2 DEF HeirDue
  <2>4. a = Keeper => Keeps(now)'
    BY <1>2, <1>4, <2>1 DEF Loyal, Keeps
  <2> QED
    BY <2>1, <2>2, <2>3, <2>4 DEF Loyal
<1> QED
  BY <1>1, <1>3, <1>5, <1>6, <1>7, <1>8, <1>9, GoesOn DEF MemoryInv

LEMMA RestartKeeps == ASSUME MemoryInv, Restart PROVE MemoryInv'
<1>1. RowsTyped' /\ Exists' = Exists /\ Ordered' /\ UNCHANGED rows /\ orphaned \subseteq orphaned'
  BY DEF MemoryInv, RowsTyped, Exists, Ordered, Restart
<1>2. Working'
  <2>1. ASSUME NEW a \in Callers PROVE Honest(a, AtRest)' /\ Loyal(a, AtRest)'
    BY <1>1, RestIs, LoyalStays DEF Honest
  <2>2. op' = [a \in Callers |-> AtRest]
    BY DEF Restart
  <2>3. ASSUME NEW a \in Callers PROVE (Honest(a, op[a]) /\ Loyal(a, op[a]))'
    <3>1. op'[a] = AtRest
      BY <2>2
    <3> QED
      BY <2>1, <3>1 DEF Honest, Loyal, Serves, Keeps, Faithful
  <2> QED
    BY <2>2, <2>3, RestIs DEF Working
<1> QED
  BY <1>1, <1>2 DEF MemoryInv

LEMMA MemoryStep == ASSUME MemoryInv, [MemoryNext]_memoryVars PROVE MemoryInv'
<1>1. CASE UNCHANGED memoryVars
  <2>1. RowsTyped' /\ Ordered' /\ Exists' = Exists /\ UNCHANGED <<rows, op, orphaned>>
    BY <1>1 DEF MemoryInv, RowsTyped, Ordered, Exists, memoryVars
  <2>2. Working'
    BY <2>1 DEF MemoryInv, Working, Honest, Loyal, Serves, Keeps, Faithful
  <2> QED
    BY <2>1, <2>2 DEF MemoryInv
<1>2. ASSUME NEW a \in Callers, Operation(a) \/ Step(a) \/ Cut(a) PROVE MemoryInv'
  BY <1>2, EditKeeps, SearchKeeps, RememberKeeps, ConsolidateKeeps, NeighboursKeeps, GatherKeeps,
     CheckKeeps, CompareKeeps, ReplaceKeeps, CreateKeeps, OrganizeKeeps, SourcesKeeps, WriteKeeps,
     LinkKeeps, CutKeeps DEF Operation, Step
<1>3. CASE Keep
  BY <1>3, MaintainKeeps, RetireKeeps, RepairKeeps DEF Keep
<1>4. CASE Restart
  BY <1>4, RestartKeeps
<1> QED
  BY <1>1, <1>2, <1>3, <1>4 DEF MemoryNext

LEMMA MemoryBegins == ASSUME MemoryInit PROVE MemoryInv
<1>1. RowsTyped
  <2>0. Nobody \in 0..Size
    BY MemoryAssumption DEF Nobody
  <2>1. ASSUME NEW r \in [status : {"live"}, content : Contents, pinned : {FALSE},
                          replaces : {Nobody}]
        PROVE  r \in Rows
    BY <2>0 DEF Rows
  <2> QED
    BY <2>1 DEF MemoryInit, RowsTyped
<1>2. Working
  BY RestIs DEF MemoryInit, Working
<1>3. Ordered
  <2>1. SUFFICES ASSUME NEW m \in Exists PROVE rows[m].replaces < m
    BY DEF MemoryInit, Ordered
  <2>2. rows[m].replaces = Nobody /\ m \in Memories
    BY DEF MemoryInit, Exists
  <2> QED
    BY <2>2, MemoryAssumption DEF Nobody, Memories
<1> QED
  BY <1>1, <1>2, <1>3 DEF MemoryInv

\* A row that comes back was saved from a copy that had read it as live, so the save is
\* stale, or it is a source that a consolidation archives.
LEMMA SavesReviveNothing ==
    ASSUME MemoryInv, NEW a \in Callers, Write(a), NEW m \in Memories, Closed(m),
           rows'[m].status = "live"
    PROVE  m \in stale' \/ \E c \in Clients : op[c].do = "consolidate"
<1>1. PICK w \in op[a].todo :
          /\ rows' = [rows EXCEPT ![w.id] = w.row]
          /\ stale' = stale \cup { n \in {w.id} : rows[n].status # w.was }
  BY DEF Write
<1>2. Honest(a, op[a])
  BY DEF MemoryInv, Working
<1>3. m = w.id /\ w.row.status = "live"
  BY <1>1 DEF MemoryInv, RowsTyped, Closed
<1>4. CASE w.was = "live"
  BY <1>1, <1>3, <1>4 DEF Closed
<1>5. CASE op[a].do = "consolidate"
  BY <1>2, <1>5 DEF Honest
<1> QED
  BY <1>2, <1>3, <1>4, <1>5 DEF Honest

\* A new memory has an id that none had.
LEMMA CreationRevivesNothing ==
    ASSUME MemoryInv, NEW a \in Callers, Create(a), NEW m \in Memories, Closed(m)
    PROVE  rows'[m].status # "live"
<1>1. PICK n \in Memories \ Exists : \E r : rows' = [rows EXCEPT ![n] = r]
  BY DEF Create
<1>2. m # n
  BY <1>1 DEF Closed, Exists, Missing
<1>3. rows'[m] = rows[m]
  BY <1>1, <1>2 DEF MemoryInv, RowsTyped
<1> QED
  BY <1>3 DEF Closed

\* Every row is well formed, ids are given in order, what is about to be saved as live was
\* read as live or is a source of a consolidation, and a client and the maintenance that are
\* about to save an heir or its predecessor hold what they read of it.
THEOREM MemoryInvariance == MemorySpec => []MemoryInv
BY MemoryBegins, MemoryStep, PTL DEF MemorySpec

\* For any clients, contents and number of memories, operations and faults: a memory that
\* was forgotten or superseded comes back only by the save of a copy read before, or as a
\* source that a consolidation archives (NoRevival).
THEOREM NothingIsRevived == MemorySpec => NoRevival
<1>1. ASSUME MemoryInv, [MemoryNext]_memoryVars
      PROVE  [\A m \in Memories : Closed(m) /\ rows'[m].status = "live" =>
                m \in stale' \/ \E a \in Clients : op[a].do = "consolidate"]_memoryVars
  <2>1. SUFFICES ASSUME NEW m \in Memories, Closed(m), rows'[m].status = "live"
                 PROVE  m \in stale' \/ \E a \in Clients : op[a].do = "consolidate"
    OBVIOUS
  <2>2. rows' # rows
    BY <2>1 DEF Closed
  <2>3. PICK a \in Callers : Write(a) \/ Create(a)
    BY <1>1, <2>2 DEF MemoryNext, memoryVars, Operation, Step, Keep, Edit, Search, Remember, Consolidate,
       Begin, Quiet, Neighbours, Gather, Check, Compare, Replace, Organize, Sources, Link, Cut,
       Maintain, Retire, Repair, Restart
  <2> QED
    BY <1>1, <2>1, <2>3, SavesReviveNothing, CreationRevivesNothing
<1> QED
  BY <1>1, MemoryInvariance, PTL DEF MemorySpec, NoRevival

-----------------------------------------------------------------------------
(* No memory is superseded away.  HasHeir speaks of the way from heir to   *)
(* heir, which may be long; that it leads out is shown by a rank: whoever  *)
(* is superseded has an heir that is not, or one of a higher rank, so that *)
(* the highest of some superseded memories has an heir outside of them.    *)
(* Ranks exist because clients supersede in favour of a memory yet to be   *)
(* created, which ranks above all others once it is superseded itself, and *)
(* the keeper ranks what it supersedes in a round by the round.            *)

\* The memories that have to have an heir.
Owed == { m \in Memories : rows[m].status = "superseded" /\ m \notin stale \cup orphaned }

AwaitsHeir(m) == \E a \in Clients : op[a].at = "create" /\ op[a].previous = m

\* What the keeper may yet supersede as a duplicate in this round.
Retiring == IF op[Keeper].at = "retire" THEN { c.id : c \in op[Keeper].copies }
            ELSE { w.id : w \in { v \in op[Keeper].todo : v.heir # Nobody } }

\* The keeper's round began with memories 1..N, and K are those it keeps: the heirs of what
\* it retires, and what the memories it looks after replace.
Attended(N, K) ==
    /\ \A m \in 1..N : m \in Exists
    /\ Retiring \subseteq 1..N
    /\ op[Keeper].at # "retire" => Retiring \cap K = {}
    /\ \A c \in op[Keeper].copies : c.id \in K
    /\ \A w \in op[Keeper].todo : w.heir # Nobody => w.heir \in K
    /\ \A e \in op[Keeper].link : e[1] \in K
    /\ \A w \in op[Keeper].todo : w.row.status = "superseded" /\ w.heir = Nobody =>
           w.id \in stale \cup orphaned \/ \E c \in K : rows[c].replaces = w.id

\* In its round the keeper gives a duplicate rank T and what m replaces rank T + 1 + m at
\* most: an heir n leaves room below it for what the round may still make of it.
Outranks(rank, T, N, n, m) ==
    /\ n \in Owed => rank[m] < rank[n]
    /\ n \in 1..N => rank[m] < T + 1 + n
    /\ n \in Retiring => rank[m] < T

Ranks(rank, T, b, N, K) ==
    /\ T + Size + 2 <= b /\ \A m \in Memories : rank[m] < b
    /\ \A c \in K : c \in Owed => T + 1 + c <= rank[c]
    /\ \A m \in Owed :
          \/ AwaitsHeir(m)
          \/ \E e \in op[Keeper].link : e[2] = m /\ rank[m] = T
          \/ \E n \in Heirs(m) : Outranks(rank, T, N, n, m)

HeirInv ==
    \E N \in 0..Size : \E K \in SUBSET (1..N) : Attended(N, K) /\
       \E rank \in [Memories -> Nat], T, b \in Nat : Ranks(rank, T, b, N, K)

LEMMA KeptAre ==
    ASSUME NEW N \in 0..Size, NEW K \in SUBSET (1..N), NEW c \in K
    PROVE  c \in Memories /\ c \in Nat /\ c <= N /\ c <= Size
BY MemoryAssumption DEF Memories

\* Ranks stay when nothing more is owed an heir.
LEMMA RanksStay ==
    ASSUME NEW rank \in [Memories -> Nat], NEW T \in Nat, NEW b \in Nat, NEW N \in 0..Size,
           NEW K \in SUBSET (1..N), NEW L \in SUBSET K, Ranks(rank, T, b, N, K),
           Owed' \subseteq Owed, Retiring' \subseteq Retiring, Retiring' \subseteq 1..N,
           \A m \in Owed' : \A n \in Heirs(m) : n \in Heirs(m)',
           \A m \in Owed' : AwaitsHeir(m) =>
              AwaitsHeir(m)' \/ \E n \in Memories : n \in Heirs(m)' /\ n \notin Owed' /\ n > N,
           \A e \in op[Keeper].link : e[2] \in Owed' =>
              \/ e \in op'[Keeper].link
              \/ e[1] \in L /\ e[1] \notin Retiring' /\ e[1] \in Heirs(e[2])'
    PROVE  Ranks(rank, T, b, N, L)'
<1>1. (\A c \in L : c \in Owed => T + 1 + c <= rank[c])'
  BY DEF Ranks
<1>2. ASSUME NEW m \in Owed'
      PROVE  (\/ AwaitsHeir(m)
              \/ \E e \in op[Keeper].link : e[2] = m /\ rank[m] = T
              \/ \E n \in Heirs(m) : Outranks(rank, T, N, n, m))'
  <2>0. m \in Owed /\ rank[m] \in Nat
    BY DEF Owed
  <2>1. CASE AwaitsHeir(m)
    <3>1. SUFFICES ASSUME NEW n \in Memories, n \in Heirs(m)', n \notin Owed', n > N
                   PROVE  Outranks(rank, T, N, n, m)'
      BY <2>1
    <3>2. n \notin 1..N /\ n \notin Retiring'
      BY <3>1 DEF Memories
    <3> QED
      BY <3>1, <3>2 DEF Outranks
  <2>2. CASE \E e \in op[Keeper].link : e[2] = m /\ rank[m] = T
    <3>1. PICK e \in op[Keeper].link : e[2] = m /\ rank[m] = T
      BY <2>2
    <3>2. CASE e \in op'[Keeper].link
      BY <3>1, <3>2
    <3>3. CASE e[1] \in L /\ e[1] \notin Retiring' /\ e[1] \in Heirs(e[2])'
      <4>1. PICK n \in 1..N : n = e[1]
        BY <3>3
      <4>2. n \in Owed' => rank[m] < rank[n]
        <5>1. SUFFICES ASSUME n \in Owed' PROVE T < rank[n]
          BY <3>1
        <5>2. T + 1 + n <= rank[n] /\ rank[n] \in Nat
          <6>1. n \in K /\ n \in Owed /\ n \in Memories
            BY <3>3, <4>1, <5>1, KeptAre
          <6> QED
            BY <6>1 DEF Ranks
        <5> QED
          BY <5>2
      <4>3. Outranks(rank, T, N, n, m)'
        BY <3>1, <3>3, <4>1, <4>2 DEF Outranks
      <4>4. n \in Heirs(m)'
        BY <3>1, <3>3, <4>1
      <4> QED
        BY <4>3, <4>4
    <3> QED
      BY <3>1, <3>2, <3>3
  <2>3. CASE \E n \in Heirs(m) : Outranks(rank, T, N, n, m)
    <3>1. PICK n \in Heirs(m) : Outranks(rank, T, N, n, m)
      BY <2>3
    <3>2. Outranks(rank, T, N, n, m)'
      BY <3>1 DEF Outranks
    <3>3. n \in Heirs(m)'
      BY <3>1
    <3> QED
      BY <3>2, <3>3
  <2> QED
    BY <2>0, <2>1, <2>2, <2>3 DEF Ranks
<1> QED
  BY <1>1, <1>2 DEF Ranks

\* One more is owed an heir: it is ranked above those it is an heir of, and has an heir.
LEMMA RankIsGiven ==
    ASSUME NEW rank \in [Memories -> Nat], NEW T \in Nat, NEW b \in Nat, NEW N \in 0..Size,
           NEW K \in SUBSET (1..N), Ranks(rank, T, b, N, K),
           NEW m \in Memories, m \notin Owed, NEW r \in Nat, NEW top \in Nat, b <= top, r < top,
           Owed' = Owed \cup {m}, Retiring' \subseteq Retiring, op[Keeper].link \subseteq op'[Keeper].link,
           \A k \in Memories : \A n \in Heirs(k) : n \in Heirs(k)',
           \A k \in Memories : AwaitsHeir(k) => AwaitsHeir(k)',
           b <= r \/ (m <= N /\ T + 1 + m <= r) \/ (m \in Retiring /\ T <= r),
           m \in K => T + 1 + m <= r,
           \/ AwaitsHeir(m)'
           \/ r = T /\ \E e \in op'[Keeper].link : e[2] = m
           \/ \E n \in K : n # m /\ n \notin Retiring' /\ r < T + 1 + n /\ n \in Heirs(m)'
    PROVE  \E ranked \in [Memories -> Nat] : Ranks(ranked, T, top, N, K)'
<1>1. PICK ranked \in [Memories -> Nat] :
          ranked[m] = r /\ \A k \in Memories : k # m => ranked[k] = rank[k]
  <2>1. [rank EXCEPT ![m] = r] \in [Memories -> Nat]
    OBVIOUS
  <2> QED
    BY <2>1
<1>2. T + Size + 2 <= top /\ \A k \in Memories : ranked[k] < top
  <2>1. T + Size + 2 <= b /\ \A k \in Memories : rank[k] < b
    BY DEF Ranks
  <2>2. ASSUME NEW k \in Memories PROVE ranked[k] < top
    BY <1>1, <2>1
  <2> QED
    BY <2>1, <2>2, MemoryAssumption
<1>3. (\A c \in K : c \in Owed => T + 1 + c <= ranked[c])'
  <2>1. SUFFICES ASSUME NEW c \in K, c \in Owed' PROVE T + 1 + c <= ranked[c]
    OBVIOUS
  <2>2. c \in Memories
    BY KeptAre
  <2> QED
    BY <1>1, <2>1, <2>2 DEF Ranks
<1>4. ASSUME NEW k \in Owed'
      PROVE  (\/ AwaitsHeir(k)
              \/ \E e \in op[Keeper].link : e[2] = k /\ ranked[k] = T
              \/ \E n \in Heirs(k) : Outranks(ranked, T, N, n, k))'
  <2>1. CASE k = m
    <3>1. CASE \E n \in K : n # m /\ n \notin Retiring' /\ r < T + 1 + n /\ n \in Heirs(m)'
      <4>1. PICK n \in K : n # m /\ n \notin Retiring' /\ r < T + 1 + n /\ n \in Heirs(m)'
        BY <3>1
      <4>2. n \in Owed' => ranked[m] < ranked[n]
        <5>1. SUFFICES ASSUME n \in Owed' PROVE ranked[m] < ranked[n]
          OBVIOUS
        <5>2. n \in Memories /\ T + 1 + n <= rank[n] /\ rank[n] \in Nat
          <6>1. n \in K /\ n \in Owed /\ n \in Memories
            BY <4>1, <5>1, KeptAre
          <6> QED
            BY <6>1 DEF Ranks
        <5> QED
          BY <1>1, <4>1, <5>2
      <4>3. Outranks(ranked, T, N, n, m)'
        BY <1>1, <4>1, <4>2 DEF Outranks
      <4> QED
        BY <2>1, <4>1, <4>3
    <3> QED
      BY <1>1, <2>1, <3>1
  <2>2. CASE k # m
    <3>0. k \in Owed /\ k \in Memories /\ ranked[k] = rank[k] /\ rank[k] < b
      BY <1>1, <2>2 DEF Owed, Ranks
    <3>1. CASE AwaitsHeir(k)
      BY <3>0, <3>1
    <3>2. CASE \E e \in op[Keeper].link : e[2] = k /\ rank[k] = T
      BY <3>0, <3>2
    <3>3. CASE \E n \in Heirs(k) : Outranks(rank, T, N, n, k)
      <4>1. PICK n \in Heirs(k) : Outranks(rank, T, N, n, k)
        BY <3>3
      <4>2. n \in Owed' => ranked[k] < ranked[n]
        <5>1. CASE n = m
          <6>1. /\ m <= N => rank[k] < T + 1 + m
                /\ m \in Retiring => rank[k] < T
            BY <4>1, <5>1 DEF Outranks, Memories
          <6>2. rank[k] \in Nat /\ rank[k] < b /\ m \in Nat /\ ranked[m] = r
            BY <1>1, <3>0 DEF Memories
          <6>3. rank[k] < r
            BY <6>1, <6>2
          <6> QED
            BY <3>0, <5>1, <6>2, <6>3
        <5>2. CASE n # m
          BY <1>1, <3>0, <4>1, <5>2 DEF Outranks, Owed
        <5> QED
          BY <5>1, <5>2
      <4>3. Outranks(ranked, T, N, n, k)'
        BY <3>0, <4>1, <4>2 DEF Outranks
      <4> QED
        BY <3>0, <4>1, <4>3
    <3> QED
      BY <3>0, <3>1, <3>2, <3>3 DEF Ranks
  <2> QED
    BY <2>1, <2>2
<1> QED
  BY <1>2, <1>3, <1>4 DEF Ranks

\* The keeper's round goes on as it was while it takes no step.
LEMMA AttendedStays ==
    ASSUME NEW N \in 0..Size, NEW K \in SUBSET (1..N), Attended(N, K), op'[Keeper] = op[Keeper],
           Exists \subseteq Exists', \A m \in Exists : rows'[m].replaces = rows[m].replaces,
           stale \subseteq stale', orphaned \subseteq orphaned'
    PROVE  Attended(N, K)' /\ Retiring' = Retiring
<1>1. Retiring' = Retiring
  BY DEF Retiring
<1>2. \A m \in 1..N : m \in Exists'
  BY DEF Attended
<1>3. \A w \in op'[Keeper].todo : w.row.status = "superseded" /\ w.heir = Nobody =>
         w.id \in stale' \cup orphaned' \/ \E c \in K : rows'[c].replaces = w.id
  <2>1. SUFFICES ASSUME NEW w \in op[Keeper].todo, w.row.status = "superseded" /\ w.heir = Nobody,
                        NEW c \in K, rows[c].replaces = w.id
                 PROVE  rows'[c].replaces = w.id
    BY DEF Attended
  <2>2. c \in Exists
    BY DEF Attended
  <2> QED
    BY <2>1, <2>2
<1> QED
  BY <1>1, <1>2, <1>3 DEF Attended

\* Nothing is owed an heir that was not before, and heirs stay.
LEMMA SameDebts ==
    ASSUME UNCHANGED <<rows, edges>>, stale \subseteq stale', orphaned \subseteq orphaned'
    PROVE  /\ Owed' \subseteq Owed /\ Exists' = Exists
           /\ \A m : \A n \in Heirs(m) : n \in Heirs(m)'
<1>1. Owed' \subseteq Owed /\ Exists' = Exists
  BY DEF Owed, Exists
<1>2. ASSUME NEW m, NEW n \in Heirs(m) PROVE n \in Heirs(m)'
  BY <1>2 DEF Heirs
<1> QED
  BY <1>1, <1>2

\* What a client does before it creates, and after.
LEMMA ClientKeepsRanks ==
    ASSUME MemoryInv, HeirInv, NEW a \in Clients, NEW now, Goes(a, now), op[a].at # "create",
           UNCHANGED <<rows, edges, stale, orphaned>>
    PROVE  HeirInv'
<1>1. PICK N \in 0..Size : \E K \in SUBSET (1..N) : Attended(N, K) /\
          \E rank \in [Memories -> Nat], T, b \in Nat : Ranks(rank, T, b, N, K)
  BY DEF HeirInv
<1>2. PICK K \in SUBSET (1..N) : Attended(N, K) /\
          \E rank \in [Memories -> Nat], T, b \in Nat : Ranks(rank, T, b, N, K)
  BY <1>1
<1>3. PICK rank \in [Memories -> Nat], T \in Nat, b \in Nat : Ranks(rank, T, b, N, K)
  BY <1>2
<1>4. /\ op'[Keeper] = op[Keeper] /\ a # Keeper
      /\ \A c \in Clients : c # a => op'[c] = op[c]
  BY MemoryAssumption DEF Goes, MemoryInv, Working, Callers
<1>5. Attended(N, K)' /\ Retiring' = Retiring
  BY <1>2, <1>4, SameDebts, AttendedStays
<1>6. ASSUME NEW m, AwaitsHeir(m) PROVE AwaitsHeir(m)'
  BY <1>4, <1>6 DEF AwaitsHeir
<1>7. Ranks(rank, T, b, N, K)'
  <2>1. Retiring' \subseteq 1..N
    BY <1>5 DEF Attended
  <2> QED
    BY <1>3, <1>4, <1>5, <1>6, <2>1, SameDebts, RanksStay
<1> QED
  BY <1>5, <1>7 DEF HeirInv

\* Most steps of an operation store nothing.
LEMMA QuietStep ==
    ASSUME MemoryInv, NEW a \in Callers,
           \/ Operation(a)
           \/ Neighbours(a) \/ Gather(a) \/ Check(a) \/ Compare(a) \/ Replace(a) \/ Organize(a) \/ Sources(a)
    PROVE  /\ a \in Clients /\ op[a].at # "create" /\ UNCHANGED <<rows, edges, stale, orphaned>>
           /\ \E now : Goes(a, now)
<1>1. /\ a \in Clients /\ op[a].at # "create" /\ UNCHANGED <<rows, edges, stale, orphaned>>
  <2>1. CASE Operation(a)
    <3>1. Begin(a)
      BY <2>1 DEF Operation, Edit, Search, Remember, Consolidate
    <3> QED
      BY <3>1, RestIs DEF Begin
  <2>2. CASE ~ Operation(a)
    BY <2>2, ClientsDo DEF Neighbours, Gather, Check, Compare, Replace, Organize, Sources, AtStep, Quiet
  <2> QED
    BY <2>1, <2>2
<1>2. ASSUME NEW now, Checked(a, now) PROVE \E then : Goes(a, then)
  BY <1>2 DEF Checked, Returned
<1>3. ASSUME Operation(a) PROVE \E now : Goes(a, now)
  BY <1>2, <1>3 DEF Operation, Edit, Search, Remember, Consolidate
<1>4. ASSUME ~ Operation(a) PROVE \E now : Goes(a, now)
  <2>1. Neighbours(a) => \E now : Goes(a, now)
    BY DEF Neighbours
  <2>2. Gather(a) => \E now : Goes(a, now)
    BY DEF Gather
  <2>3. Check(a) => \E now : Goes(a, now)
    BY <1>2 DEF Check
  <2>4. Compare(a) => \E now : Goes(a, now)
    BY DEF Compare, Returned
  <2>5. Replace(a) => \E now : Goes(a, now)
    BY DEF Replace
  <2>6. Organize(a) => \E now : Goes(a, now)
    BY DEF Organize
  <2>7. Sources(a) => \E now : Goes(a, now)
    BY DEF Sources
  <2> QED
    BY <1>4, <2>1, <2>2, <2>3, <2>4, <2>5, <2>6, <2>7
<1> QED
  BY <1>1, <1>3, <1>4

\* A memory that is created is the heir its client has kept a superseded one waiting for.
LEMMA CreateKeepsRanks ==
    ASSUME MemoryInv, HeirInv, NEW a \in Callers, Create(a)
    PROVE  HeirInv'
<1>1. PICK N \in 0..Size : \E K \in SUBSET (1..N) : Attended(N, K) /\
          \E rank \in [Memories -> Nat], T, b \in Nat : Ranks(rank, T, b, N, K)
  BY DEF HeirInv
<1>2. PICK K \in SUBSET (1..N) : Attended(N, K) /\
          \E rank \in [Memories -> Nat], T, b \in Nat : Ranks(rank, T, b, N, K)
  BY <1>1
<1>3. PICK rank \in [Memories -> Nat], T \in Nat, b \in Nat : Ranks(rank, T, b, N, K)
  BY <1>2
<1>4. /\ a \in Clients /\ a # Keeper /\ op \in [Callers -> Works]
      /\ UNCHANGED <<edges, stale, orphaned>>
  BY ClientsDo, MemoryAssumption DEF Create, AtStep, MemoryInv, Working
<1>5. /\ op'[Keeper] = op[Keeper]
      /\ \A c \in Clients : c # a => op'[c] = op[c]
  BY <1>4 DEF Create, Goes, Callers
<1>6. PICK m \in Memories \ Exists :
          \E r : /\ r.status = "live" /\ r.replaces = op[a].previous /\ r # Missing
                /\ rows' = [rows EXCEPT ![m] = r]
  <2>1. PICK m \in Memories \ Exists, text \in op[a].content, pin \in BOOLEAN :
            rows' = [rows EXCEPT ![m] = [status |-> "live", content |-> text, pinned |-> pin,
                                         replaces |-> op[a].previous]]
    BY DEF Create
  <2>2. PICK r : r = [status |-> "live", content |-> text, pinned |-> pin, replaces |-> op[a].previous]
    OBVIOUS
  <2>3. r.status = "live" /\ r.replaces = op[a].previous /\ r # Missing
    BY <2>2 DEF Missing
  <2> QED
    BY <2>1, <2>2, <2>3
<1>7. PICK r : /\ r.status = "live" /\ r.replaces = op[a].previous /\ r # Missing
               /\ rows' = [rows EXCEPT ![m] = r]
  BY <1>6
<1>8. rows'[m] = r /\ \A n \in Memories : n # m => rows'[n] = rows[n]
  BY <1>6, <1>7 DEF MemoryInv, RowsTyped
<1>9. Exists \subseteq Exists' /\ \A n \in Exists : rows'[n].replaces = rows[n].replaces
  BY <1>6, <1>7, <1>8 DEF Exists
<1>10. Attended(N, K)' /\ Retiring' = Retiring
  BY <1>2, <1>4, <1>5, <1>9, AttendedStays
<1>11. Owed' \subseteq Owed /\ m \notin Owed'
  BY <1>4, <1>6, <1>7, <1>8 DEF Owed
<1>12. ASSUME NEW k, NEW n \in Heirs(k) PROVE n \in Heirs(k)'
  BY <1>4, <1>6, <1>7, <1>8, <1>12 DEF Heirs, Exists
<1>13. m > N
  BY <1>2, <1>6, <1>7, MemoryAssumption DEF Attended, Memories
<1>14. ASSUME NEW k \in Owed', AwaitsHeir(k)
       PROVE  AwaitsHeir(k)' \/ \E n \in Memories : n \in Heirs(k)' /\ n \notin Owed' /\ n > N
  <2>1. PICK c \in Clients : op[c].at = "create" /\ op[c].previous = k
    BY <1>14 DEF AwaitsHeir
  <2>2. CASE c = a
    <3>1. m \in Heirs(k)'
      BY <1>6, <1>7, <1>8, <2>1, <2>2 DEF Heirs
    <3> QED
      BY <1>6, <1>7, <1>11, <1>13, <3>1
  <2>3. CASE c # a
    BY <1>5, <2>1, <2>3 DEF AwaitsHeir
  <2> QED
    BY <2>2, <2>3
<1>15. Ranks(rank, T, b, N, K)'
  <2>1. Retiring' \subseteq 1..N
    BY <1>10 DEF Attended
  <2> QED
    BY <1>3, <1>5, <1>10, <1>11, <1>12, <1>14, <2>1, RanksStay
<1> QED
  BY <1>10, <1>15 DEF HeirInv

LEMMA UpToIs ==
    ASSUME Ordered
    PROVE  \E N \in 0..Size : Exists = 1..N
<1>1. CASE Exists = {}
  <2>1. 0 \in 0..Size /\ 1..0 = {}
    BY MemoryAssumption
  <2> QED
    BY <1>1, <2>1
<1>2. CASE Exists # {}
  <2>1. Exists \subseteq 0..Size /\ Exists \subseteq Memories
    BY MemoryAssumption DEF Exists, Memories
  <2>2. PICK N : N = Max(Exists)
    OBVIOUS
  <2>3. N \in Exists /\ \A m \in Exists : m <= N
    BY <1>2, <2>1, <2>2, GreatestIs, MemoryAssumption
  <2>4. ASSUME NEW m \in 1..N PROVE m \in Exists
    <3>1. m \in Memories /\ (m < N \/ m = N)
      BY <2>1, <2>3, MemoryAssumption DEF Memories
    <3> QED
      BY <2>3, <3>1 DEF Ordered
  <2>5. Exists \subseteq 1..N
    BY <2>1, <2>3, MemoryAssumption DEF Memories
  <2> QED
    BY <2>1, <2>3, <2>4, <2>5
<1> QED
  BY <1>1, <1>2

\* A round begins above all ranks given so far.
LEMMA MaintainKeepsRanks == ASSUME MemoryInv, HeirInv, Maintain PROVE HeirInv'
<1>1. PICK M \in 0..Size : \E K \in SUBSET (1..M) : Attended(M, K) /\
          \E rank \in [Memories -> Nat], T, b \in Nat : Ranks(rank, T, b, M, K)
  BY DEF HeirInv
<1>2. PICK rank \in [Memories -> Nat], T \in Nat, b \in Nat :
          \E K \in SUBSET (1..M) : Ranks(rank, T, b, M, K)
  BY <1>1
<1>3. PICK N \in 0..Size : Exists = 1..N
  BY UpToIs DEF MemoryInv
<1>4. PICK warm \in SUBSET LiveIds :
          Goes(Keeper, [AtRest EXCEPT !.do = "maintain", !.at = "retire",
                                      !.todo = Touched(Copies(warm)), !.copies = Copies(LiveIds)])
  BY DEF Maintain, AtMost
<1>5. PICK now : now = [AtRest EXCEPT !.do = "maintain", !.at = "retire",
                                      !.todo = Touched(Copies(warm)), !.copies = Copies(LiveIds)]
  OBVIOUS
<1>6. /\ now.at = "retire" /\ now.todo = Touched(Copies(warm)) /\ now.copies = Copies(LiveIds)
      /\ now.link = {}
  BY <1>5 DEF AtRest
<1>7. /\ op'[Keeper] = now /\ \A a \in Clients : op'[a] = op[a]
      /\ UNCHANGED <<rows, edges, stale, orphaned>>
  <2>1. op \in [Callers -> Works] /\ op' = [op EXCEPT ![Keeper] = now]
    BY <1>4, <1>5, <1>6 DEF Goes, MemoryInv, Working
  <2> QED
    BY <2>1, MemoryAssumption DEF Callers, Maintain, Quiet
<1>8. LiveIds \subseteq Exists /\ LiveIds \in SUBSET (1..N)
  BY <1>3, LiveIsThere DEF MemoryInv
<1>9. PICK K \in SUBSET (1..N) : K = LiveIds
  BY <1>8
<1>10. Retiring' \subseteq K
  BY <1>6, <1>7, <1>9, LiveCopiesAre DEF Retiring
<1>11. \A w \in now.todo : w.heir = Nobody /\ w.row.status = "live"
  <2>1. Copies(warm) \in SUBSET Records /\ \A c \in Copies(warm) : c.row.status = "live"
    BY <1>8, CopiesAre, LiveCopiesAre DEF MemoryInv
  <2> QED
    BY <1>6, <2>1, TouchedIs
<1>12. Attended(N, K)'
  <2>1. Exists' = Exists
    BY <1>7 DEF Exists
  <2>2. \A c \in now.copies : c.id \in K
    BY <1>6, <1>9, LiveCopiesAre
  <2>3. \A w \in now.todo : w.heir = Nobody /\ w.row.status # "superseded"
    BY <1>11
  <2> QED
    BY <1>3, <1>6, <1>7, <1>8, <1>10, <2>1, <2>2, <2>3 DEF Attended
<1>13. Ranks(rank, b, b + Size + 2, N, K)'
  <2>0. Owed' = Owed
    BY <1>7 DEF Owed
  <2>1. \A m \in Memories : rank[m] < b /\ rank[m] \in Nat
    BY <1>2 DEF Ranks
  <2>2. \A c \in K : c \notin Owed'
    BY <1>9, <2>0 DEF LiveIds, Owed
  <2>3. ASSUME NEW m \in Owed'
        PROVE  (\/ AwaitsHeir(m)
                \/ \E e \in op[Keeper].link : e[2] = m /\ rank[m] = b
                \/ \E n \in Heirs(m) : Outranks(rank, b, N, n, m))'
    <3>0. m \in Owed /\ m \in Memories /\ op[Keeper].link = {}
      BY <2>0, RestIs DEF Owed, Maintain
    <3>1. CASE AwaitsHeir(m)
      BY <1>7, <3>1 DEF AwaitsHeir
    <3>2. CASE \E n \in Heirs(m) : n \in Owed => rank[m] < rank[n]
      <4>1. PICK n \in Heirs(m) : n \in Owed => rank[m] < rank[n]
        BY <3>2
      <4>2. n \in Heirs(m)'
        BY <1>7 DEF Heirs
      <4>3. \A k \in 1..N : rank[m] < b + 1 + k
        BY <2>1, <3>0
      <4>4. Outranks(rank, b, N, n, m)'
        BY <2>0, <2>1, <3>0, <4>1, <4>3 DEF Outranks
      <4> QED
        BY <4>2, <4>4
    <3> QED
      BY <1>2, <3>0, <3>1, <3>2 DEF Ranks, Outranks
  <2>4. b + Size + 2 <= b + Size + 2 /\ \A m \in Memories : rank[m] < b + Size + 2
    BY <2>1, MemoryAssumption
  <2> QED
    BY <2>2, <2>3, <2>4 DEF Ranks
<1>14. b + Size + 2 \in Nat
  BY MemoryAssumption
<1> QED
  BY <1>12, <1>13, <1>14 DEF HeirInv

\* A step of the keeper that stores nothing, and keeps the memories of L.
LEMMA KeeperKeepsRanks ==
    ASSUME MemoryInv, NEW N \in 0..Size, NEW K \in SUBSET (1..N), NEW L \in SUBSET K,
           \E rank \in [Memories -> Nat], T, b \in Nat : Ranks(rank, T, b, N, K),
           NEW now, op' = [op EXCEPT ![Keeper] = now], op[Keeper].link = {},
           UNCHANGED <<rows, edges, stale, orphaned>>, Attended(N, L)', Retiring' \subseteq Retiring
    PROVE  HeirInv'
<1>1. PICK rank \in [Memories -> Nat], T \in Nat, b \in Nat : Ranks(rank, T, b, N, K)
  OBVIOUS
<1>2. \A a \in Clients : op'[a] = op[a]
  BY MemoryAssumption DEF MemoryInv, Working, Callers
<1>3. ASSUME NEW m, AwaitsHeir(m) PROVE AwaitsHeir(m)'
  BY <1>2, <1>3 DEF AwaitsHeir
<1>4. Retiring' \subseteq 1..N
  BY DEF Attended
<1>5. Ranks(rank, T, b, N, L)'
  BY <1>1, <1>3, <1>4, SameDebts, RanksStay
<1> QED
  BY <1>5 DEF HeirInv

\* Retired duplicates are kept no longer; their survivors are.
LEMMA RetireKeepsRanks == ASSUME MemoryInv, HeirInv, Retire PROVE HeirInv'
<1> DEFINE held  == op[Keeper].copies
           facts == Facts(held)
<1>1. PICK N \in 0..Size : \E K \in SUBSET (1..N) : Attended(N, K) /\
          \E rank \in [Memories -> Nat], T, b \in Nat : Ranks(rank, T, b, N, K)
  BY DEF HeirInv
<1>2. PICK K \in SUBSET (1..N) : Attended(N, K) /\
          \E rank \in [Memories -> Nat], T, b \in Nat : Ranks(rank, T, b, N, K)
  BY <1>1
<1>3. PICK survivor \in Survivors(facts) :
          Goes(Keeper, [op[Keeper] EXCEPT
             !.at = "repair", !.copies = held \ Retired(facts, survivor),
             !.todo = { Save(c, WithStatus(c.row, "superseded"), survivor[c.row.content].id) :
                          c \in Retired(facts, survivor) }])
  BY DEF Retire
<1>4. /\ op[Keeper] \in Works /\ op[Keeper].link = {} /\ op[Keeper].at = "retire"
      /\ held \subseteq Records /\ \A c, d \in held : c.id = d.id => c = d
  BY KeeperIs DEF Retire, AtStep, Keeps, Works
<1>5. PICK out : out = Retired(facts, survivor)
  OBVIOUS
<1>6. out \subseteq held /\ facts \subseteq held
  BY <1>5 DEF Retired, Facts
<1>7. PICK todo : todo = { Save(c, WithStatus(c.row, "superseded"), survivor[c.row.content].id) : c \in out }
  OBVIOUS
<1>8. PICK now : now = [op[Keeper] EXCEPT !.at = "repair", !.copies = held \ out, !.todo = todo]
  OBVIOUS
<1>9. now.at = "repair" /\ now.copies = held \ out /\ now.todo = todo /\ now.link = {}
  BY <1>4, <1>8 DEF Works
<1>10. op' = [op EXCEPT ![Keeper] = now]
  BY <1>3, <1>5, <1>7, <1>8, <1>9 DEF Goes
<1>11. op'[Keeper] = now
  BY <1>10, KeeperIs DEF MemoryInv, Working
<1>12. PICK L \in SUBSET K : L = K \ { c.id : c \in out }
  OBVIOUS
<1>13. \A c \in held \ out : c.id \in L
  BY <1>2, <1>4, <1>6, <1>12 DEF Attended
<1>14. ASSUME NEW w \in todo PROVE w.heir \in L /\ w.heir # Nobody /\ \E c \in out : w.id = c.id
  <2>1. PICK c \in out : w = Save(c, WithStatus(c.row, "superseded"), survivor[c.row.content].id)
    BY <1>7
  <2>2. c \in facts /\ w.id = c.id /\ w.heir = survivor[c.row.content].id
    BY <1>5, <2>1 DEF Retired, Save
  <2>3. PICK kept : kept = survivor[c.row.content]
    OBVIOUS
  <2>4. kept \in facts /\ kept.row.content = c.row.content
    BY <2>2, <2>3 DEF Survivors, Twins
  <2>5. kept \notin out
    BY <1>5, <2>3, <2>4 DEF Retired
  <2>6. kept.id \in L /\ kept \in Records
    BY <1>4, <1>6, <1>13, <2>4, <2>5
  <2> QED
    BY <2>1, <2>2, <2>3, <2>6, MemoryAssumption DEF Records, Memories, Nobody
<1>15. Retiring' = { w.id : w \in { v \in todo : v.heir # Nobody } }
  BY <1>9, <1>11 DEF Retiring
<1>16. Retiring' \subseteq Retiring /\ Retiring' \cap L = {}
  <2>1. Retiring' \subseteq { c.id : c \in out }
    BY <1>14, <1>15
  <2>2. { c.id : c \in out } \subseteq Retiring
    BY <1>4, <1>6 DEF Retiring
  <2> QED
    BY <1>12, <2>1, <2>2
<1>17. UNCHANGED <<rows, edges, stale, orphaned>> /\ Exists' = Exists
  BY DEF Retire, Quiet, Exists
<1>18. Attended(N, L)'
  <2>1. (\A m \in 1..N : m \in Exists) /\ Retiring \subseteq 1..N
    BY <1>2 DEF Attended
  <2> QED
    BY <1>9, <1>11, <1>13, <1>14, <1>16, <1>17, <2>1 DEF Attended
<1> QED
  BY <1>2, <1>4, <1>10, <1>16, <1>17, <1>18, KeeperKeepsRanks

\* What the repair supersedes is replaced by a memory that is kept.
LEMMA RepairKeepsRanks == ASSUME MemoryInv, HeirInv, Repair PROVE HeirInv'
<1>1. PICK N \in 0..Size : \E K \in SUBSET (1..N) : Attended(N, K) /\
          \E rank \in [Memories -> Nat], T, b \in Nat : Ranks(rank, T, b, N, K)
  BY DEF HeirInv
<1>2. PICK K \in SUBSET (1..N) : Attended(N, K) /\
          \E rank \in [Memories -> Nat], T, b \in Nat : Ranks(rank, T, b, N, K)
  BY <1>1
<1>3. /\ op[Keeper] \in Works /\ op[Keeper].link = {} /\ op[Keeper].todo = {}
      /\ op[Keeper].at = "repair" /\ \A c \in op[Keeper].copies : Faithful(c)
  BY KeeperIs DEF Repair, AtStep, Loyal
<1>4. UNCHANGED <<rows, edges, stale, orphaned>> /\ Exists' = Exists
  BY DEF Repair, Quiet, Exists
<1>5. (\A m \in 1..N : m \in Exists') /\ \A c \in op[Keeper].copies : c.id \in K
  BY <1>2, <1>4 DEF Attended
<1>6. CASE Goes(Keeper, [op[Keeper] EXCEPT !.at = "done"])
  <2>1. op' = [op EXCEPT ![Keeper] = AtRest]
    BY <1>3, <1>6 DEF Goes, Works
  <2>2. op'[Keeper] = AtRest
    BY <2>1, KeeperIs DEF MemoryInv, Working
  <2>3. Retiring' = {}
    BY <2>2, RestIs DEF Retiring
  <2>4. Attended(N, K)'
    BY <1>5, <2>2, <2>3, RestIs DEF Attended
  <2> QED
    BY <1>2, <1>3, <1>4, <2>1, <2>3, <2>4, KeeperKeepsRanks
<1>7. CASE \E c \in op[Keeper].copies :
             Goes(Keeper, [op[Keeper] EXCEPT
                !.copies = @ \ {c},
                !.todo = { Save(p, WithStatus(p.row, "superseded"), Nobody) :
                             p \in Copies(LiveIds \cap {c.row.replaces}) }])
  <2>1. PICK c \in op[Keeper].copies :
             Goes(Keeper, [op[Keeper] EXCEPT
                !.copies = @ \ {c},
                !.todo = { Save(p, WithStatus(p.row, "superseded"), Nobody) :
                             p \in Copies(LiveIds \cap {c.row.replaces}) }])
    BY <1>7
  <2>2. PICK todo : todo = { Save(p, WithStatus(p.row, "superseded"), Nobody) :
                               p \in Copies(LiveIds \cap {c.row.replaces}) }
    OBVIOUS
  <2>3. PICK now : now = [op[Keeper] EXCEPT !.copies = op[Keeper].copies \ {c}, !.todo = todo]
    OBVIOUS
  <2>4. now.at = "repair" /\ now.copies = op[Keeper].copies \ {c} /\ now.todo = todo /\ now.link = {}
    BY <1>3, <2>3 DEF Works
  <2>5. op' = [op EXCEPT ![Keeper] = now]
    <3>1. Goes(Keeper, now)
      BY <1>3, <2>1, <2>2, <2>3 DEF Works
    <3> QED
      BY <2>4, <3>1 DEF Goes
  <2>6. op'[Keeper] = now
    BY <2>5, KeeperIs DEF MemoryInv, Working
  <2>7. c.id \in K /\ rows[c.id].replaces = c.row.replaces
    BY <1>3, <1>5, <2>1 DEF Faithful
  <2>8. ASSUME NEW w \in todo PROVE w.heir = Nobody /\ \E k \in K : rows'[k].replaces = w.id
    <3>1. PICK p \in Copies(LiveIds \cap {c.row.replaces}) :
              w = Save(p, WithStatus(p.row, "superseded"), Nobody)
      BY <2>2
    <3>2. p.id = c.row.replaces
      BY LiveCopiesAre
    <3>3. w.heir = Nobody /\ w.id = p.id
      BY <3>1 DEF Save
    <3> QED
      BY <1>4, <2>7, <3>2, <3>3
  <2>9. Retiring' = {}
    BY <2>4, <2>6, <2>8 DEF Retiring
  <2>10. Attended(N, K)'
    BY <1>5, <2>4, <2>6, <2>8, <2>9 DEF Attended
  <2> QED
    BY <1>2, <1>3, <1>4, <2>5, <2>9, <2>10, KeeperKeepsRanks
<1> QED
  BY <1>6, <1>7 DEF Repair

\* What a save changes: at most the memory it is of comes to be owed an heir, and then the
\* save is not stale and was of one not superseded before.
LEMMA SavedIs ==
    ASSUME MemoryInv, NEW a \in Callers, Write(a)
    PROVE  \E w \in op[a].todo :
              /\ Goes(a, [op[a] EXCEPT !.todo = @ \ {w},
                                       !.link = { <<w.heir, w.id>> : h \in {w.heir} \ {Nobody} }])
              /\ w.id \in Memories /\ Exists' = Exists
              /\ \A m \in Exists : rows'[m].replaces = rows[m].replaces
              /\ \A m \in Memories : \A n \in Heirs(m) : n \in Heirs(m)'
              /\ Owed' \subseteq Owed \cup {w.id}
              /\ w.id \in Owed' /\ w.id \notin Owed =>
                    /\ w.row.status = "superseded" /\ w.was # "superseded"
                    /\ w.id \notin stale \cup orphaned
                    /\ Owed' = Owed \cup {w.id}
<1>1. PICK w \in op[a].todo :
          /\ rows' = [rows EXCEPT ![w.id] = w.row]
          /\ stale' = stale \cup { m \in {w.id} : rows[m].status # w.was }
          /\ Goes(a, [op[a] EXCEPT !.todo = @ \ {w},
                                   !.link = { <<w.heir, w.id>> : h \in {w.heir} \ {Nobody} }])
  BY DEF Write
<1>2. w.row \in Rows /\ w.id \in Exists /\ w.id \in Memories /\ w.row.replaces = rows[w.id].replaces
  BY <1>1 DEF MemoryInv, Working, Works, Saves, Loyal, Faithful
<1>3. Exists' = Exists /\ \A m \in Exists : rows'[m].replaces = rows[m].replaces
  BY <1>1, <1>2, StoredIs DEF MemoryInv
<1>4. UNCHANGED <<edges, orphaned>> /\ stale \subseteq stale'
  BY <1>1 DEF Write
<1>5. ASSUME NEW m \in Memories, NEW n \in Heirs(m) PROVE n \in Heirs(m)'
  <2>1. n \in Exists /\ rows[n].replaces = m => n \in Exists' /\ rows'[n].replaces = m
    BY <1>3
  <2> QED
    BY <1>4, <1>5, <2>1 DEF Heirs, Exists
<1>6. rows'[w.id] = w.row /\ \A m \in Memories : m # w.id => rows'[m] = rows[m]
  BY <1>1, <1>2 DEF MemoryInv, RowsTyped
<1>7. Owed' \subseteq Owed \cup {w.id}
  BY <1>4, <1>6 DEF Owed
<1>8. ASSUME w.id \in Owed', w.id \notin Owed
      PROVE  /\ w.row.status = "superseded" /\ w.was # "superseded"
             /\ w.id \notin stale \cup orphaned
             /\ Owed' = Owed \cup {w.id}
  <2>1. w.row.status = "superseded" /\ w.id \notin stale' \cup orphaned'
    BY <1>6, <1>8 DEF Owed
  <2>2. w.id \notin stale \cup orphaned /\ rows[w.id].status = w.was
    BY <1>1, <1>4, <2>1
  <2>3. w.was # "superseded"
    BY <1>2, <1>8, <2>2 DEF Owed
  <2>4. ASSUME NEW m \in Owed PROVE m \in Owed'
    <3>1. m # w.id /\ m \in Memories
      BY <1>8 DEF Owed
    <3>2. m \notin stale'
      BY <1>1, <3>1 DEF Owed
    <3> QED
      BY <1>4, <1>6, <3>1, <3>2 DEF Owed
  <2> QED
    BY <1>7, <1>8, <2>1, <2>2, <2>3, <2>4
<1> QED
  BY <1>1, <1>2, <1>3, <1>5, <1>7, <1>8

\* What a client supersedes ranks above all.
LEMMA ClientWriteKeepsRanks == ASSUME MemoryInv, HeirInv, NEW a \in Clients, Write(a) PROVE HeirInv'
<1>0. a \in Callers /\ a # Keeper
  BY MemoryAssumption DEF Callers
<1>1. PICK N \in 0..Size : \E K \in SUBSET (1..N) : Attended(N, K) /\
          \E rank \in [Memories -> Nat], T, b \in Nat : Ranks(rank, T, b, N, K)
  BY DEF HeirInv
<1>2. PICK K \in SUBSET (1..N) : Attended(N, K) /\
          \E rank \in [Memories -> Nat], T, b \in Nat : Ranks(rank, T, b, N, K)
  BY <1>1
<1>3. PICK rank \in [Memories -> Nat], T \in Nat, b \in Nat : Ranks(rank, T, b, N, K)
  BY <1>2
<1>4. PICK w \in op[a].todo :
              /\ Goes(a, [op[a] EXCEPT !.todo = @ \ {w},
                                       !.link = { <<w.heir, w.id>> : h \in {w.heir} \ {Nobody} }])
              /\ w.id \in Memories /\ Exists' = Exists
              /\ \A m \in Exists : rows'[m].replaces = rows[m].replaces
              /\ \A m \in Memories : \A n \in Heirs(m) : n \in Heirs(m)'
              /\ Owed' \subseteq Owed \cup {w.id}
              /\ w.id \in Owed' /\ w.id \notin Owed =>
                    /\ w.row.status = "superseded" /\ w.was # "superseded"
                    /\ w.id \notin stale \cup orphaned
                    /\ Owed' = Owed \cup {w.id}
  BY <1>0, SavedIs
<1>5. /\ op'[Keeper] = op[Keeper] /\ \A c \in Clients : c # a => op'[c] = op[c]
      /\ op[a].at = "create" => op'[a].at = "create" /\ op'[a].previous = op[a].previous
  <2>1. op \in [Callers -> Works]
    BY DEF MemoryInv, Working
  <2>2. PICK now : now = [op[a] EXCEPT !.todo = op[a].todo \ {w},
                                       !.link = { <<w.heir, w.id>> : h \in {w.heir} \ {Nobody} }]
    OBVIOUS
  <2>3. now.at = op[a].at /\ now.previous = op[a].previous /\ Goes(a, now)
    BY <1>0, <1>4, <2>1, <2>2 DEF Works
  <2> QED
    BY <1>0, <2>1, <2>3 DEF Goes, Callers
<1>6. stale \subseteq stale' /\ orphaned \subseteq orphaned'
  BY DEF Write
<1>7. Attended(N, K)' /\ Retiring' = Retiring
  BY <1>2, <1>4, <1>5, <1>6, AttendedStays
<1>8. ASSUME NEW m, AwaitsHeir(m) PROVE AwaitsHeir(m)'
  BY <1>5, <1>8 DEF AwaitsHeir
<1>9. CASE Owed' \subseteq Owed
  <2>1. Retiring' \subseteq 1..N
    BY <1>7 DEF Attended
  <2>2. Owed' \subseteq Memories
    BY DEF Owed
  <2>3. Ranks(rank, T, b, N, K)'
    BY <1>3, <1>4, <1>5, <1>7, <1>8, <1>9, <2>1, <2>2, RanksStay
  <2> QED
    BY <1>7, <2>3 DEF HeirInv
<1>10. CASE ~ (Owed' \subseteq Owed)
  <2>1. /\ w.id \in Owed' /\ w.id \notin Owed /\ Owed' = Owed \cup {w.id}
        /\ w.row.status = "superseded" /\ w.was # "superseded" /\ w.id \notin orphaned
    BY <1>4, <1>10
  <2>2. op[a].at = "create" /\ op[a].previous = w.id
    BY <1>0, <2>1 DEF MemoryInv, Working, Loyal, Serves
  <2>3. AwaitsHeir(w.id)'
    BY <1>5, <2>2 DEF AwaitsHeir
  <2>4. w.id \in K => T + 1 + w.id <= b
    <3>1. SUFFICES ASSUME w.id \in K PROVE T + 1 + w.id <= b
      OBVIOUS
    <3>2. w.id \in Nat /\ w.id <= Size
      BY <3>1, KeptAre
    <3>3. T + Size + 2 <= b
      BY <1>3 DEF Ranks
    <3> QED
      BY <3>2, <3>3, MemoryAssumption
  <2>5. PICK m \in Memories : m = w.id
    BY <1>4
  <2>6. PICK top \in Nat : top = b + 1
    OBVIOUS
  <2>7. b <= top /\ b < top /\ b <= b
    BY <2>6
  <2>8. \E ranked \in [Memories -> Nat] : Ranks(ranked, T, top, N, K)'
    BY <1>3, <1>4, <1>5, <1>7, <1>8, <2>1, <2>3, <2>4, <2>5, <2>7, RankIsGiven
  <2> QED
    BY <1>7, <2>8 DEF HeirInv
<1> QED
  BY <1>9, <1>10

\* What the keeper supersedes it ranks by its round: a duplicate lowest, and above them what
\* is replaced, by its age.
LEMMA KeeperWriteKeepsRanks == ASSUME MemoryInv, HeirInv, Write(Keeper) PROVE HeirInv'
<1>1. PICK N \in 0..Size : \E K \in SUBSET (1..N) : Attended(N, K) /\
          \E rank \in [Memories -> Nat], T, b \in Nat : Ranks(rank, T, b, N, K)
  BY DEF HeirInv
<1>2. PICK K \in SUBSET (1..N) : Attended(N, K) /\
          \E rank \in [Memories -> Nat], T, b \in Nat : Ranks(rank, T, b, N, K)
  BY <1>1
<1>3. PICK rank \in [Memories -> Nat], T \in Nat, b \in Nat : Ranks(rank, T, b, N, K)
  BY <1>2
<1>4. PICK w \in op[Keeper].todo :
              /\ Goes(Keeper, [op[Keeper] EXCEPT !.todo = @ \ {w},
                                       !.link = { <<w.heir, w.id>> : h \in {w.heir} \ {Nobody} }])
              /\ w.id \in Memories /\ Exists' = Exists
              /\ \A m \in Exists : rows'[m].replaces = rows[m].replaces
              /\ \A m \in Memories : \A n \in Heirs(m) : n \in Heirs(m)'
              /\ Owed' \subseteq Owed \cup {w.id}
              /\ w.id \in Owed' /\ w.id \notin Owed =>
                    /\ w.row.status = "superseded" /\ w.was # "superseded"
                    /\ w.id \notin stale \cup orphaned
                    /\ Owed' = Owed \cup {w.id}
  BY KeeperIs, SavedIs
<1>5. op[Keeper] \in Works /\ Keeps(op[Keeper]) /\ op[Keeper].link = {}
  BY KeeperIs DEF Write
<1>6. PICK link : link = { <<w.heir, w.id>> : h \in {w.heir} \ {Nobody} }
  OBVIOUS
<1>7. PICK now : now = [op[Keeper] EXCEPT !.todo = op[Keeper].todo \ {w}, !.link = link]
  OBVIOUS
<1>8. /\ now.at = op[Keeper].at /\ now.todo = op[Keeper].todo \ {w} /\ now.link = link
      /\ now.copies = op[Keeper].copies /\ Goes(Keeper, now)
  BY <1>4, <1>5, <1>6, <1>7 DEF Works
<1>9. /\ op'[Keeper] \in {now, AtRest} /\ \A c \in Clients : op'[c] = op[c]
      /\ op[Keeper].at # "done" => op'[Keeper] = now
  BY <1>8, MemoryAssumption DEF Goes, MemoryInv, Working, Callers
<1>10. /\ op'[Keeper].todo \subseteq op[Keeper].todo /\ op'[Keeper].copies \subseteq op[Keeper].copies
       /\ op'[Keeper].link \subseteq link
       /\ op'[Keeper].at = "retire" <=> op[Keeper].at = "retire"
       /\ op'[Keeper].at = "retire" => op'[Keeper].copies = op[Keeper].copies
  BY <1>8, <1>9, RestIs
<1>11. stale \subseteq stale' /\ orphaned \subseteq orphaned'
  BY DEF Write
<1>12. Retiring' \subseteq Retiring
  BY <1>10 DEF Retiring
<1>13. Attended(N, K)'
  <2>1. (\A m \in 1..N : m \in Exists') /\ Retiring' \subseteq 1..N
    BY <1>2, <1>4, <1>12 DEF Attended
  <2>2. op'[Keeper].at # "retire" => Retiring' \cap K = {}
    BY <1>2, <1>10, <1>12 DEF Attended
  <2>3. \A c \in op'[Keeper].copies : c.id \in K
    BY <1>2, <1>10 DEF Attended
  <2>4. \A v \in op'[Keeper].todo : v.heir # Nobody => v.heir \in K
    BY <1>2, <1>10 DEF Attended
  <2>5. \A e \in op'[Keeper].link : e[1] \in K
    BY <1>2, <1>6, <1>10 DEF Attended
  <2>6. \A v \in op'[Keeper].todo : v.row.status = "superseded" /\ v.heir = Nobody =>
           v.id \in stale' \cup orphaned' \/ \E c \in K : rows'[c].replaces = v.id
    <3>1. SUFFICES ASSUME NEW v \in op[Keeper].todo, v.row.status = "superseded" /\ v.heir = Nobody,
                          NEW c \in K, rows[c].replaces = v.id
                   PROVE  rows'[c].replaces = v.id
      BY <1>2, <1>10, <1>11 DEF Attended
    <3>2. c \in Exists
      BY <1>2 DEF Attended
    <3> QED
      BY <1>4, <3>1, <3>2
  <2> QED
    BY <2>1, <2>2, <2>3, <2>4, <2>5, <2>6 DEF Attended
<1>14. ASSUME NEW m, AwaitsHeir(m) PROVE AwaitsHeir(m)'
  BY <1>9, <1>14 DEF AwaitsHeir
<1>15. CASE Owed' \subseteq Owed
  <2>1. Retiring' \subseteq 1..N
    BY <1>13 DEF Attended
  <2>2. Owed' \subseteq Memories
    BY DEF Owed
  <2>3. Ranks(rank, T, b, N, K)'
    BY <1>3, <1>4, <1>5, <1>12, <1>14, <1>15, <2>1, <2>2, RanksStay
  <2> QED
    BY <1>13, <2>3 DEF HeirInv
<1>16. CASE ~ (Owed' \subseteq Owed)
  <2>1. /\ w.id \in Owed' /\ w.id \notin Owed /\ Owed' = Owed \cup {w.id}
        /\ w.row.status = "superseded" /\ w.id \notin stale \cup orphaned
    BY <1>4, <1>16
  <2>2. PICK m \in Memories : m = w.id
    BY <1>4
  <2>3. op[Keeper].at # "retire" /\ T + Size + 2 <= b
    BY <1>3, <1>5, <2>1 DEF Keeps, Ranks
  <2>4. Retiring = { v.id : v \in { v \in op[Keeper].todo : v.heir # Nobody } } /\ Retiring \cap K = {}
    BY <1>2, <2>3 DEF Retiring, Attended
  <2>5. CASE w.heir # Nobody
    <3>1. m \in Retiring /\ m \notin K
      BY <2>2, <2>4, <2>5
    <3>2. \E e \in op'[Keeper].link : e[2] = m
      <4>1. op[Keeper].at # "done"
        BY <1>5, <2>5 DEF Keeps
      <4> QED
        <5>1. op'[Keeper].link = link
          BY <1>8, <1>9, <4>1
        <5>2. <<w.heir, w.id>> \in link
          BY <1>6, <2>5
        <5> QED
          BY <2>2, <5>1, <5>2
    <3>3. T \in Nat /\ b <= b /\ T < b
      BY <2>3, MemoryAssumption
    <3>4. \E ranked \in [Memories -> Nat] : Ranks(ranked, T, b, N, K)'
      BY <1>3, <1>4, <1>5, <1>12, <1>14, <2>1, <2>2, <3>1, <3>2, <3>3, RankIsGiven
    <3> QED
      BY <1>13, <3>4 DEF HeirInv
  <2>6. CASE w.heir = Nobody
    <3>1. PICK c \in K : rows[c].replaces = m
      BY <1>2, <2>1, <2>2, <2>6 DEF Attended
    <3>2. c \in Exists /\ c \in Memories /\ c <= N /\ m < c
      <4>1. c \in Exists
        BY <1>2 DEF Attended
      <4> QED
        BY <3>1, <4>1, KeptAre DEF MemoryInv, Ordered
    <3>3. c \in Heirs(m)'
      BY <1>4, <3>1, <3>2 DEF Heirs, Exists
    <3>4. c # m /\ c \notin Retiring'
      BY <1>12, <2>4, <3>2 DEF Memories
    <3>5. PICK r \in Nat : r = T + 1 + m
      BY DEF Memories
    <3>6. r < b /\ r < T + 1 + c /\ m <= N /\ b <= b
      BY <2>3, <3>2, <3>5, MemoryAssumption DEF Memories
    <3>7. T + 1 + m <= r
      BY <3>5
    <3>8. \E ranked \in [Memories -> Nat] : Ranks(ranked, T, b, N, K)'
      BY <1>3, <1>4, <1>5, <1>12, <1>14, <2>1, <2>2, <3>3, <3>4, <3>6, <3>7, RankIsGiven
    <3> QED
      BY <1>13, <3>8 DEF HeirInv
  <2> QED
    BY <2>5, <2>6
<1> QED
  BY <1>15, <1>16

\* An edge that is stored names the heir.
LEMMA LinkKeepsRanks == ASSUME MemoryInv, HeirInv, NEW a \in Callers, Link(a) PROVE HeirInv'
<1>1. PICK N \in 0..Size : \E K \in SUBSET (1..N) : Attended(N, K) /\
          \E rank \in [Memories -> Nat], T, b \in Nat : Ranks(rank, T, b, N, K)
  BY DEF HeirInv
<1>2. PICK K \in SUBSET (1..N) : Attended(N, K) /\
          \E rank \in [Memories -> Nat], T, b \in Nat : Ranks(rank, T, b, N, K)
  BY <1>1
<1>3. PICK rank \in [Memories -> Nat], T \in Nat, b \in Nat : Ranks(rank, T, b, N, K)
  BY <1>2
<1>4. a = Keeper /\ op[Keeper].at = "repair" /\ op[Keeper] \in Works
  <2>1. a \notin Clients
    BY DEF Link, MemoryInv, Working, Loyal, Serves
  <2>2. a = Keeper
    BY <2>1 DEF Callers
  <2> QED
    BY <2>2, KeeperIs DEF Link, Keeps
<1>5. PICK now : now = [op[Keeper] EXCEPT !.link = {}]
  OBVIOUS
<1>6. /\ now.at = "repair" /\ now.todo = op[Keeper].todo /\ now.link = {}
      /\ now.copies = op[Keeper].copies
  BY <1>4, <1>5 DEF Works
<1>7. op'[Keeper] = now /\ \A c \in Clients : op'[c] = op[c]
  BY <1>4, <1>5, <1>6, MemoryAssumption DEF Link, Goes, MemoryInv, Working, Callers
<1>8. Retiring' = Retiring /\ Retiring \cap K = {}
  BY <1>2, <1>4, <1>6, <1>7 DEF Retiring, Attended
<1>9. /\ UNCHANGED <<rows, stale, orphaned>> /\ edges' = edges \cup op[Keeper].link
      /\ Exists' = Exists /\ Owed' = Owed
  BY <1>4 DEF Link, Exists, Owed
<1>10. Attended(N, K)'
  <2>1. \A c \in K : rows'[c] = rows[c]
    BY <1>9
  <2> QED
    BY <1>2, <1>4, <1>6, <1>7, <1>8, <1>9, <2>1 DEF Attended
<1>11. ASSUME NEW m, AwaitsHeir(m) PROVE AwaitsHeir(m)'
  BY <1>7, <1>11 DEF AwaitsHeir
<1>12. ASSUME NEW m, NEW n \in Heirs(m) PROVE n \in Heirs(m)'
  BY <1>9, <1>12 DEF Heirs
<1>13. ASSUME NEW e \in op[Keeper].link
       PROVE  e[1] \in K /\ e[1] \notin Retiring' /\ e[1] \in Heirs(e[2])'
  <2>1. e[1] \in K
    BY <1>2 DEF Attended
  <2>2. PICK m : m = e[2]
    OBVIOUS
  <2>3. e[1] \in Heirs(m)'
    BY <1>9, <2>2 DEF Heirs
  <2> QED
    BY <1>8, <2>1, <2>2, <2>3
<1>14. Ranks(rank, T, b, N, K)'
  <2>1. Retiring' \subseteq 1..N
    BY <1>10 DEF Attended
  <2> QED
    BY <1>3, <1>8, <1>9, <1>11, <1>12, <1>13, <2>1, RanksStay
<1> QED
  BY <1>10, <1>14 DEF HeirInv

\* Who awaits an heir when the operation is cut, or the process ends, is an orphan.
LEMMA CutKeepsRanks == ASSUME MemoryInv, HeirInv, NEW a \in Callers, Cut(a) PROVE HeirInv'
<1>1. PICK N \in 0..Size : \E K \in SUBSET (1..N) : Attended(N, K) /\
          \E rank \in [Memories -> Nat], T, b \in Nat : Ranks(rank, T, b, N, K)
  BY DEF HeirInv
<1>2. PICK K \in SUBSET (1..N) : Attended(N, K) /\
          \E rank \in [Memories -> Nat], T, b \in Nat : Ranks(rank, T, b, N, K)
  BY <1>1
<1>3. PICK rank \in [Memories -> Nat], T \in Nat, b \in Nat : Ranks(rank, T, b, N, K)
  BY <1>2
<1>4. PICK begunSave \in SUBSET op[a].todo :
          /\ op[a].link # {} => begunSave = {}
          /\ Goes(a, [AtRest EXCEPT !.do = op[a].do, !.at = "done",
                                    !.todo = { [w EXCEPT !.heir = Nobody] : w \in begunSave }])
          /\ orphaned' = orphaned \cup HeirDue(a)
                           \cup { w.id : w \in { w \in begunSave : w.heir # Nobody } }
  BY DEF Cut
<1>5. PICK todo : todo = { [w EXCEPT !.heir = Nobody] : w \in begunSave }
  OBVIOUS
<1>6. PICK now : now = [AtRest EXCEPT !.do = op[a].do, !.at = "done", !.todo = todo]
  OBVIOUS
<1>7. now.at = "done" /\ now.todo = todo /\ now.link = {} /\ now.copies = {}
  BY <1>6 DEF AtRest
<1>8. op'[a] \in {now, AtRest} /\ \A c \in Callers : c # a => op'[c] = op[c]
  BY <1>4, <1>5, <1>6 DEF Goes, MemoryInv, Working
<1>9. /\ op'[a].at # "retire" /\ op'[a].todo \subseteq todo /\ op'[a].link = {}
      /\ op'[a].copies = {}
  BY <1>7, <1>8, RestIs
<1>10. UNCHANGED <<rows, edges, stale>> /\ orphaned \subseteq orphaned'
  BY <1>4 DEF Cut
<1>11. ASSUME NEW v \in todo
       PROVE  v.heir = Nobody /\ \E w \in op[a].todo : /\ v.row = w.row /\ v.id = w.id
                                                       /\ w.heir # Nobody => v.id \in orphaned'
  <2>1. PICK w \in begunSave : v = [w EXCEPT !.heir = Nobody]
    BY <1>5
  <2>2. w \in Saves
    BY DEF MemoryInv, Working, Works
  <2>3. v.heir = Nobody /\ v.row = w.row /\ v.id = w.id
    BY <2>1, <2>2 DEF Saves
  <2> QED
    BY <1>4, <2>3
<1>12. Retiring' \subseteq Retiring /\ Attended(N, K)'
  <2>1. CASE a # Keeper
    BY <1>2, <1>8, <1>10, <2>1, SameDebts, AttendedStays DEF Callers
  <2>2. CASE a = Keeper
    <3>1. Retiring' = {}
      BY <1>9, <1>11, <2>2 DEF Retiring
    <3>2. \A m \in 1..N : m \in Exists'
      BY <1>2, <1>10 DEF Attended, Exists
    <3>3. ASSUME NEW v \in todo, v.row.status = "superseded"
          PROVE  v.id \in stale' \cup orphaned' \/ \E c \in K : rows'[c].replaces = v.id
      BY <1>2, <1>10, <1>11, <2>2, <3>3 DEF Attended
    <3>4. \A v \in todo : v.heir = Nobody
      BY <1>11
    <3> QED
      BY <1>9, <2>2, <3>1, <3>2, <3>3, <3>4 DEF Attended
  <2> QED
    BY <2>1, <2>2
<1>13. HeirDue(a) \cap Owed' = {}
  BY <1>4 DEF Owed
<1>14. ASSUME NEW m \in Owed', AwaitsHeir(m) PROVE AwaitsHeir(m)'
  <2>1. PICK c \in Clients : op[c].at = "create" /\ op[c].previous = m
    BY <1>14 DEF AwaitsHeir
  <2>2. c # a
    BY <1>13, <1>14, <2>1 DEF HeirDue
  <2> QED
    BY <1>8, <2>1, <2>2 DEF AwaitsHeir, Callers
<1>15. ASSUME NEW e \in op[Keeper].link, e[2] \in Owed' PROVE e \in op'[Keeper].link
  <2>1. a # Keeper
    BY <1>13, <1>15 DEF HeirDue
  <2> QED
    BY <1>8, <2>1 DEF Callers
<1>16. Ranks(rank, T, b, N, K)'
  <2>1. Retiring' \subseteq 1..N
    BY <1>12 DEF Attended
  <2> QED
    BY <1>3, <1>10, <1>12, <1>14, <1>15, <2>1, SameDebts, RanksStay
<1> QED
  BY <1>12, <1>16 DEF HeirInv

LEMMA RestartKeepsRanks == ASSUME MemoryInv, HeirInv, Restart PROVE HeirInv'
<1>1. PICK N \in 0..Size : \E K \in SUBSET (1..N) : Attended(N, K) /\
          \E rank \in [Memories -> Nat], T, b \in Nat : Ranks(rank, T, b, N, K)
  BY DEF HeirInv
<1>2. PICK K \in SUBSET (1..N) : Attended(N, K) /\
          \E rank \in [Memories -> Nat], T, b \in Nat : Ranks(rank, T, b, N, K)
  BY <1>1
<1>3. PICK rank \in [Memories -> Nat], T \in Nat, b \in Nat : Ranks(rank, T, b, N, K)
  BY <1>2
<1>4. /\ op'[Keeper] = AtRest /\ UNCHANGED <<rows, edges, stale>>
      /\ orphaned' = orphaned \cup UNION { HeirDue(a) : a \in Callers }
  BY DEF Restart, Callers
<1>5. Retiring' = {}
  BY <1>4, RestIs DEF Retiring
<1>6. Attended(N, K)'
  BY <1>2, <1>4, <1>5, RestIs DEF Attended, Exists
<1>7. ASSUME NEW a \in Callers, NEW m \in HeirDue(a) PROVE m \notin Owed'
  BY <1>4, <1>7 DEF Owed
<1>8. ASSUME NEW m \in Owed' PROVE ~ AwaitsHeir(m)
  BY <1>7, <1>8 DEF AwaitsHeir, HeirDue, Callers
<1>9. ASSUME NEW e \in op[Keeper].link PROVE e[2] \notin Owed'
  BY <1>7, <1>9 DEF HeirDue, Callers
<1>10. Ranks(rank, T, b, N, K)'
  <2>1. stale \subseteq stale' /\ orphaned \subseteq orphaned' /\ UNCHANGED <<rows, edges>>
    BY <1>4
  <2> QED
    BY <1>3, <1>5, <1>8, <1>9, <2>1, SameDebts, RanksStay
<1> QED
  BY <1>6, <1>10 DEF HeirInv

LEMMA HeirStep == ASSUME MemoryInv, HeirInv, [MemoryNext]_memoryVars PROVE HeirInv'
<1>1. CASE UNCHANGED memoryVars
  <2>1. /\ UNCHANGED <<rows, edges, op, stale, orphaned>> /\ Exists' = Exists
    BY <1>1 DEF memoryVars, Exists
  <2>2. PICK N \in 0..Size : \E K \in SUBSET (1..N) : Attended(N, K) /\
            \E rank \in [Memories -> Nat], T, b \in Nat : Ranks(rank, T, b, N, K)
    BY DEF HeirInv
  <2>3. PICK K \in SUBSET (1..N) : Attended(N, K) /\
            \E rank \in [Memories -> Nat], T, b \in Nat : Ranks(rank, T, b, N, K)
    BY <2>2
  <2>4. PICK rank \in [Memories -> Nat], T \in Nat, b \in Nat : Ranks(rank, T, b, N, K)
    BY <2>3
  <2>5. Attended(N, K)' /\ Retiring' = Retiring
    BY <2>1, <2>3, AttendedStays
  <2>6. ASSUME NEW m, AwaitsHeir(m) PROVE AwaitsHeir(m)'
    BY <2>1, <2>6 DEF AwaitsHeir
  <2>7. Retiring' \subseteq 1..N
    BY <2>5 DEF Attended
  <2>8. Ranks(rank, T, b, N, K)'
    BY <2>1, <2>4, <2>5, <2>6, <2>7, SameDebts, RanksStay
  <2> QED
    BY <2>5, <2>8 DEF HeirInv
<1>2. ASSUME NEW a \in Callers, Operation(a) \/ Step(a) \/ Cut(a) PROVE HeirInv'
  <2>1. CASE Write(a)
    BY <2>1, ClientWriteKeepsRanks, KeeperWriteKeepsRanks DEF Callers
  <2>2. CASE Create(a) \/ Link(a) \/ Cut(a)
    BY <2>2, CreateKeepsRanks, LinkKeepsRanks, CutKeepsRanks
  <2>3. CASE \/ Operation(a)
             \/ Neighbours(a) \/ Gather(a) \/ Check(a) \/ Compare(a) \/ Replace(a) \/ Organize(a)
             \/ Sources(a)
    BY <2>3, QuietStep, ClientKeepsRanks
  <2> QED
    BY <1>2, <2>1, <2>2, <2>3 DEF Step
<1>3. CASE Keep
  BY <1>3, MaintainKeepsRanks, RetireKeepsRanks, RepairKeepsRanks DEF Keep
<1>4. CASE Restart
  BY <1>4, RestartKeepsRanks
<1> QED
  BY <1>1, <1>2, <1>3, <1>4 DEF MemoryNext

LEMMA HeirBegins == ASSUME MemoryInit PROVE HeirInv
<1>1. op[Keeper] = AtRest
  BY DEF MemoryInit, Callers
<1>2. Owed = {}
  <2>1. ASSUME NEW m \in Memories PROVE rows[m].status \in {"none", "live"}
    <3>1. CASE rows[m] = Missing
      BY <3>1 DEF Missing
    <3>2. CASE rows[m] \in [status : {"live"}, content : Contents, pinned : {FALSE}, replaces : {Nobody}]
      BY <3>2
    <3> QED
      BY <3>1, <3>2 DEF MemoryInit
  <2> QED
    BY <2>1 DEF Owed
<1>3. 0 \in 0..Size /\ 1..0 = {} /\ {} \in SUBSET (1..0)
  BY MemoryAssumption
<1>4. Retiring = {}
  BY <1>1, RestIs DEF Retiring
<1>5. Attended(0, {})
  BY <1>1, <1>3, <1>4, RestIs DEF Attended
<1>6. PICK rank \in [Memories -> Nat] : \A m \in Memories : rank[m] = 0
  <2>1. [m \in Memories |-> 0] \in [Memories -> Nat]
    OBVIOUS
  <2> QED
    BY <2>1
<1>7. PICK b \in Nat : b = Size + 2
  BY MemoryAssumption
<1>8. Ranks(rank, 0, b, 0, {})
  <2>1. 0 + Size + 2 <= b /\ \A m \in Memories : rank[m] < b
    BY <1>6, <1>7, MemoryAssumption
  <2> QED
    BY <1>2, <2>1 DEF Ranks
<1> QED
  BY <1>3, <1>5, <1>8 DEF HeirInv

\* The highest of some settled memories has an heir that is not one of them.
LEMMA RanksLeadOut == ASSUME HeirInv PROVE HasHeir
<1>1. PICK N \in 0..Size : \E K \in SUBSET (1..N) :
          \E rank \in [Memories -> Nat], T, b \in Nat : Ranks(rank, T, b, N, K)
  BY DEF HeirInv
<1>2. PICK rank \in [Memories -> Nat], T \in Nat, b \in Nat :
          \E K \in SUBSET (1..N) : Ranks(rank, T, b, N, K)
  BY <1>1
<1>3. \A m \in Memories : rank[m] \in 0..b
  BY <1>2 DEF Ranks
<1>4. ASSUME NEW m \in Memories, Settled(m)
      PROVE  m \in Owed /\ \E n \in Heirs(m) : n \in Owed => rank[m] < rank[n]
  <2>1. m \in Owed /\ ~ AwaitsHeir(m) /\ \A e \in op[Keeper].link : e[2] # m
    BY <1>4 DEF Settled, Owed, AwaitsHeir, HeirDue, Callers
  <2> QED
    BY <1>2, <2>1 DEF Ranks, Outranks
<1>5. SUFFICES ASSUME NEW S \in SUBSET { m \in Memories : Settled(m) }, S # {}
               PROVE  \E m \in S : \E n \in Heirs(m) : n \notin S
  BY DEF HasHeir
<1>6. PICK H : H = { rank[m] : m \in S }
  OBVIOUS
<1>7. H \subseteq 0..b /\ H # {}
  BY <1>3, <1>5, <1>6
<1>8. Max(H) \in H /\ \A x \in H : x <= Max(H)
  BY <1>7, GreatestIs
<1>9. PICK m \in S : \A k \in S : rank[k] <= rank[m]
  BY <1>6, <1>8
<1>10. PICK n \in Heirs(m) : n \in Owed => rank[m] < rank[n]
  BY <1>4, <1>5
<1>11. n \notin S
  <2>1. SUFFICES ASSUME n \in S PROVE FALSE
    OBVIOUS
  <2>2. n \in Memories /\ m \in Memories /\ n \in Owed
    BY <1>4, <1>5, <2>1
  <2> QED
    BY <1>3, <1>9, <1>10, <2>1, <2>2
<1> QED
  BY <1>10, <1>11

\* No knowledge is superseded away, for any number of memories, clients, operations and
\* faults: from a superseded memory whose heir no fault and no stale save prevented, the way
\* from heir to heir leads to one that is not superseded (HasHeir).
THEOREM HeirsLeadOut == MemorySpec => []HasHeir
<1>1. MemorySpec => []HeirInv
  BY MemoryBegins, MemoryStep, HeirBegins, HeirStep, PTL DEF MemorySpec
<1> QED
  BY <1>1, RanksLeadOut, PTL
=============================================================================
