------------------------------- MODULE Memory -------------------------------
(***************************************************************************)
(* The long-term memory: the service's operations over its rows.           *)
(*   memory/service.py     remember, update, forget, archive, reactivate,  *)
(*                         set_pinned, maintain, consolidate,              *)
(*                         _activate_selected                              *)
(*   memory/search.py      retrieve                                        *)
(*   memory/clustering.py  organize                                        *)
(*   memory/sqlite.py      get, save, create: each call is a thread, so    *)
(*                         other operations run between any two of them    *)
(*                                                                         *)
(* Every operation reads whole records, changes its copies and saves them  *)
(* whole.  What a save writes besides status, content, pin and             *)
(* supersedes_id (heat, evidence, cluster) is abstracted; the statuses     *)
(* ACTIVE, COLD, DORMANT and ARCHIVED are one, "live".  Similarity,        *)
(* ranking, embeddings and clusters only choose which records an operation *)
(* reads: the choice is left open, as is the order of a batch of saves.    *)
(***************************************************************************)
EXTENDS Naturals, FiniteSets

CONSTANTS Size,        \* memory ids are 1..Size, in the order of created_at
          Contents,    \* normalized contents
          Episodes,    \* the contents of kind EPISODIC; the others are facts
          Clients,     \* coroutines of turns, replies and background phases
          Keeper,      \* the activity that maintains the memory, one at a time
          AtOnce,       \* bound on the records one operation warms or organizes at once
          MaxOps,      \* bound on the operations of Clients
          MaxFaults    \* bound on failed, cancelled and killed operations

ASSUME MemoryAssumption ==
    /\ Size \in Nat /\ AtOnce \in Nat /\ MaxOps \in Nat /\ MaxFaults \in Nat
    /\ Episodes \subseteq Contents /\ Keeper \notin Clients

Callers  == Clients \cup {Keeper}
Memories == 1..Size
Nobody   == 0

\* A memory's row; an id without one has not been given out.
Rows    == [status : {"live", "forgotten", "superseded"}, content : Contents,
            pinned : BOOLEAN, replaces : 0..Size]
Missing == [status |-> "none"]

VARIABLES
    rows,      \* table memories
    edges,     \* memory_edges: <<survivor, duplicate>> of relation SUPERSEDES
    op,        \* [Callers -> what the actor is in the middle of]
    stale,     \* history: memories a save has put back to a status read earlier
    orphaned,  \* history: superseded memories whose heir a fault prevented
    begun,     \* history: operations begun by Clients
    faults     \* history: operations that failed or were cut short

memoryVars == <<rows, edges, op, stale, orphaned, begun, faults>>

Exists  == { m \in Memories : rows[m] # Missing }
LiveIds == { m \in Memories : rows[m].status = "live" }

AtMost(ids) == { s \in SUBSET ids : Cardinality(s) <= AtOnce }

Copies(ids) == { [id |-> m, row |-> rows[m]] : m \in ids }

\* A save to come: the record as it was read, the row to write, and the memory it gives
\* way to, if any.
Save(copy, row, heir) == [id |-> copy.id, was |-> copy.row.status, row |-> row, heir |-> heir]

\* The records as they were read, with another heat, more evidence or a new cluster.
Touched(copies) == { Save(c, c.row, Nobody) : c \in copies }

\* An actor at rest; one that works goes on at `at' once the saves in todo are done and the
\* edge `link' is stored.  It holds copies of records, one of them its own to organize, and
\* the arguments of remember.
AtRest == [do |-> "none", at |-> "rest", todo |-> {}, link |-> {}, copies |-> {}, own |-> {},
           content |-> {}, previous |-> Nobody]

\* a goes on: the last step with nothing left to save ends the operation.
Goes(a, next) ==
    op' = [op EXCEPT ![a] = IF next.at = "done" /\ next.todo = {} THEN AtRest ELSE next]

AtStep(a, at) == op[a].at = at /\ op[a].todo = {} /\ op[a].link = {}

Begin(a) == /\ op[a] = AtRest /\ a \in Clients /\ begun < MaxOps
            /\ begun' = begun + 1
            /\ UNCHANGED <<rows, edges, stale, orphaned, faults>>

Quiet == UNCHANGED <<rows, edges, stale, orphaned, begun, faults>>

\* The process starts over some stored memories.
MemoryInit ==
    /\ rows \in [Memories -> {Missing} \cup
                    [status : {"live"}, content : Contents, pinned : {FALSE}, replaces : {Nobody}]]
    /\ \A m \in Exists, n \in Memories : n < m => n \in Exists
    /\ edges = {}
    /\ op = [a \in Callers |-> AtRest]
    /\ stale = {} /\ orphaned = {}
    /\ begun = 0 /\ faults = 0

-----------------------------------------------------------------------------
(* Operations on one memory: the record is read, changed and saved.        *)

WithStatus(row, status) == [row EXCEPT !.status = status]

\* Mutant: reactivate does not look at the status.
MemoryEditsRevive(row) == {WithStatus(row, "forgotten"), WithStatus(row, "live")}

\* forget; archive and reactivate, for live records only; set_pinned and update.
MemoryEdits(row) ==
    { WithStatus(row, "forgotten") : s \in {row.status} \ {"forgotten"} }
    \cup { row : s \in {row.status} \cap {"live"} }
    \cup { [row EXCEPT !.pinned = pin] : pin \in BOOLEAN }
    \cup { [row EXCEPT !.content = text] : text \in Contents }

\* update organizes a record with another content, tags or entities anew.
Edit(a) ==
    /\ Begin(a)
    /\ \E copy \in Copies(Exists) : \E row \in MemoryEdits(copy.row), at \in {"organize", "done"} :
          /\ row.content # copy.row.content => at = "organize"
          /\ at = "organize" => row = [copy.row EXCEPT !.content = row.content]
          /\ Goes(a, [AtRest EXCEPT !.do = "edit", !.at = at, !.todo = {Save(copy, row, Nobody)},
                                    !.own = {[id |-> copy.id, row |-> row]}])

-----------------------------------------------------------------------------
(* A search that activates what it selects.                                *)

Search(a) ==
    /\ Begin(a)
    /\ \E found \in AtMost(LiveIds) \ {{}} :
          Goes(a, [AtRest EXCEPT !.do = "search", !.at = "neighbours",
                                 !.todo = Touched(Copies(found)), !.copies = Copies(found)])

\* Siblings in a cluster and neighbours in the graph get a little of the heat, once each.
Neighbours(a) ==
    /\ AtStep(a, "neighbours")
    /\ LET held == { c.id : c \in op[a].copies }
       IN  \E near \in AtMost(LiveIds \ held) :
              Goes(a, [op[a] EXCEPT !.todo = Touched(Copies(near)),
                                    !.copies = @ \cup Copies(near),
                                    !.at = IF near = {} THEN "done" ELSE "neighbours"])
    /\ Quiet

-----------------------------------------------------------------------------
(* remember, called for itself or by consolidate.                          *)

\* remember returns a record that exists, often with evidence added; consolidate adds its
\* own in any case, and goes on with its sources.
Returned(a, now, copy, save) ==
    LET within == now.do = "consolidate"
    IN  Goes(a, [now EXCEPT !.at = IF within THEN "sources" ELSE "done",
                            !.todo = IF save \/ within THEN Touched({copy}) ELSE {}])

\* find_by_normalized_content returns the row updated last; which one that is is left open.
\* A live one takes the evidence; a closed one does not count.
Checked(a, now) ==
    LET same == { c \in Copies(Exists) : {c.row.content} = now.content }
    IN  \/ \E copy \in same : copy.id \in LiveIds /\ Returned(a, now, copy, TRUE)
        \/ /\ same = {} \/ \E copy \in same : copy.id \notin LiveIds
           /\ Goes(a, [now EXCEPT !.at = "compare"])

Remember(a) ==
    /\ Begin(a)
    /\ \E text \in Contents, previous \in {Nobody} \cup Exists :
          Checked(a, [AtRest EXCEPT !.do = "remember", !.content = {text}, !.previous = previous])

\* consolidate reads its sources one by one, then remembers what they say together.
Consolidate(a) ==
    /\ Begin(a)
    /\ \E copy \in Copies(Exists), text \in Contents \ Episodes :
          Goes(a, [AtRest EXCEPT !.do = "consolidate", !.at = "gather", !.content = {text},
                                 !.copies = {copy}])

Gather(a) ==
    /\ AtStep(a, "gather")
    /\ \E copy \in Copies(Exists \ { c.id : c \in op[a].copies }), at \in {"gather", "check"} :
          Goes(a, [op[a] EXCEPT !.copies = @ \cup {copy}, !.at = at])
    /\ Quiet

Check(a) == AtStep(a, "check") /\ Checked(a, op[a]) /\ Quiet

\* The same event or a near duplicate is returned, with or without more evidence; a conflict
\* is returned as such unless the caller names the memory to replace.
Compare(a) ==
    /\ AtStep(a, "compare")
    /\ \/ \E copy \in Copies(LiveIds), save \in BOOLEAN : Returned(a, op[a], copy, save)
       \/ Goes(a, [op[a] EXCEPT !.at = IF op[a].previous # Nobody THEN "replace" ELSE "create"])
    /\ Quiet

\* The replaced memory is read and saved as superseded before its heir is created.
Replace(a) ==
    /\ AtStep(a, "replace")
    /\ \E copy \in Copies({op[a].previous}) :
          Goes(a, [op[a] EXCEPT !.todo = {Save(copy, WithStatus(copy.row, "superseded"), Nobody)},
                                !.at = "create"])
    /\ Quiet

Create(a) ==
    /\ AtStep(a, "create")
    /\ \E m \in Memories \ Exists, text \in op[a].content, pin \in BOOLEAN :
          LET row == [status |-> "live", content |-> text, pinned |-> pin,
                      replaces |-> op[a].previous]
          IN  /\ \A n \in Memories : n < m => n \in Exists
              /\ op[a].do = "consolidate" => ~pin
              /\ rows' = [rows EXCEPT ![m] = row]
              /\ Goes(a, [op[a] EXCEPT !.at = "organize", !.own = {[id |-> m, row |-> row]}])
    /\ UNCHANGED <<edges, stale, orphaned, begun, faults>>

\* organize saves the record, as it is held, with the members of its cluster or the peer it
\* makes one with; a record without an embedding is left alone.
Organize(a) ==
    /\ AtStep(a, "organize")
    /\ \E peers \in AtMost(LiveIds \ { c.id : c \in op[a].own }),
          todo \in {{}, Touched(op[a].own)} :
          /\ peers # {} => todo # {}
          /\ Goes(a, [op[a] EXCEPT !.todo = todo \cup Touched(Copies(peers)), !.own = {},
                                   !.at = IF op[a].do = "consolidate" THEN "sources" ELSE "done"])
    /\ Quiet

\* consolidate archives its sources but episodes and pinned ones, whatever their status.
Sources(a) ==
    /\ AtStep(a, "sources")
    /\ Goes(a, [op[a] EXCEPT !.at = "done", !.copies = {}, !.todo =
                  { Save(c, WithStatus(c.row, "live"), Nobody) :
                       c \in { c \in op[a].copies : c.row.content \notin Episodes /\ ~c.row.pinned } }])
    /\ Quiet

-----------------------------------------------------------------------------
(* maintain: heat, exact duplicates, then the repair of what was replaced. *)

Maintain ==
    /\ op[Keeper] = AtRest
    /\ \E warm \in AtMost(LiveIds) :
          Goes(Keeper, [AtRest EXCEPT !.do = "maintain", !.at = "retire",
                                      !.todo = Touched(Copies(warm)), !.copies = Copies(LiveIds)])
    /\ Quiet

Facts(copies)       == { c \in copies : c.row.content \notin Episodes }
Twins(text, copies) == { c \in copies : c.row.content = text }

\* Of equal facts one survives: a pinned one, if any, and which of them its evidence,
\* confidence and age decide.
Survivors(facts) ==
    { s \in [{ c.row.content : c \in facts } -> facts] :
        \A text \in DOMAIN s :
           /\ s[text] \in Twins(text, facts)
           /\ (\E c \in Twins(text, facts) : c.row.pinned) => s[text].row.pinned }

\* Mutant: the survivor is retired with its twins.
RetiredAll(facts, survivor) ==
    { c \in facts : ~c.row.pinned /\ Cardinality(Twins(c.row.content, facts)) > 1 }

\* The others are retired, but for pinned ones.
Retired(facts, survivor) ==
    { c \in facts : ~c.row.pinned /\ survivor[c.row.content] # c }

Retire ==
    /\ AtStep(Keeper, "retire")
    /\ LET held  == op[Keeper].copies
           facts == Facts(held)
       IN  \E survivor \in Survivors(facts) :
             Goes(Keeper, [op[Keeper] EXCEPT
                !.at = "repair", !.copies = held \ Retired(facts, survivor),
                !.todo = { Save(c, WithStatus(c.row, "superseded"), survivor[c.row.content].id) :
                             c \in Retired(facts, survivor) }])
    /\ Quiet

\* Mutant: explicit replacements are not looked after.
RepairNothing ==
    /\ AtStep(Keeper, "repair")
    /\ Goes(Keeper, [op[Keeper] EXCEPT !.copies = {}, !.at = "done"])
    /\ Quiet

\* A record that replaces another has the other superseded.
Repair ==
    /\ AtStep(Keeper, "repair")
    /\ \/ /\ op[Keeper].copies = {}
          /\ Goes(Keeper, [op[Keeper] EXCEPT !.at = "done"])
       \/ \E c \in op[Keeper].copies :
             Goes(Keeper, [op[Keeper] EXCEPT
                !.copies = @ \ {c},
                !.todo = { Save(p, WithStatus(p.row, "superseded"), Nobody) :
                             p \in Copies(LiveIds \cap {c.row.replaces}) }])
    /\ Quiet

-----------------------------------------------------------------------------
(* The store, and what may go wrong.                                       *)

\* One save: the whole row, whatever it is by now.  A duplicate's edge follows.
Write(a) ==
    /\ op[a].link = {}
    /\ \E w \in op[a].todo :
          /\ rows' = [rows EXCEPT ![w.id] = w.row]
          /\ stale' = stale \cup { m \in {w.id} : rows[m].status # w.was }
          /\ Goes(a, [op[a] EXCEPT !.todo = @ \ {w},
                                   !.link = { <<w.heir, w.id>> : h \in {w.heir} \ {Nobody} }])
    /\ UNCHANGED <<edges, orphaned, begun, faults>>

Link(a) ==
    /\ op[a].link # {}
    /\ edges' = edges \cup op[a].link
    /\ Goes(a, [op[a] EXCEPT !.link = {}])
    /\ UNCHANGED <<rows, stale, orphaned, begun, faults>>

\* Superseded memories whose heir the actor has not stored yet.
HeirDue(a) == { e[2] : e \in op[a].link } \cup { m \in {op[a].previous} : op[a].at = "create" }

\* The operation raises or is cancelled: a save its thread has begun still lands.
Cut(a) ==
    /\ op[a] # AtRest /\ faults < MaxFaults
    /\ faults' = faults + 1
    /\ \E begunSave \in SUBSET op[a].todo :
          /\ Cardinality(begunSave) <= 1 /\ (op[a].link # {} => begunSave = {})
          /\ Goes(a, [AtRest EXCEPT !.do = op[a].do, !.at = "done",
                                    !.todo = { [w EXCEPT !.heir = Nobody] : w \in begunSave }])
          /\ orphaned' = orphaned \cup HeirDue(a) \cup { w.id : w \in { w \in begunSave : w.heir # Nobody } }
    /\ UNCHANGED <<rows, edges, stale, begun>>

\* The process ends and starts again over the same rows.
Restart ==
    /\ faults < MaxFaults
    /\ faults' = faults + 1
    /\ op' = [a \in Callers |-> AtRest]
    /\ orphaned' = orphaned \cup UNION { HeirDue(a) : a \in Callers }
    /\ UNCHANGED <<rows, edges, stale, begun>>

-----------------------------------------------------------------------------
Operation(a) == Edit(a) \/ Search(a) \/ Remember(a) \/ Consolidate(a)

Step(a) ==
    \/ Neighbours(a) \/ Gather(a) \/ Check(a) \/ Compare(a) \/ Replace(a) \/ Create(a)
    \/ Organize(a) \/ Sources(a) \/ Write(a) \/ Link(a)

Keep == Maintain \/ Retire \/ Repair

MemoryNext ==
    \/ \E a \in Callers : Operation(a) \/ Step(a) \/ Cut(a)
    \/ Keep \/ Restart

\* Threads and coroutines that are not cut go on; the memory is maintained again and again.
MemorySpec == /\ MemoryInit /\ [][MemoryNext]_memoryVars
        /\ \A a \in Callers : WF_memoryVars(Step(a))
        /\ WF_memoryVars(Keep)

-----------------------------------------------------------------------------
(* Properties.                                                             *)

Closed(m) == rows[m].status \in {"forgotten", "superseded"}

\* What was forgotten or superseded comes back only by the save of a copy that was read
\* before; a new read never revives it.  (consolidate archives whatever it was given.)
NoRevival ==
    [][\A m \in Memories : Closed(m) /\ rows'[m].status = "live" =>
         m \in stale' \/ \E a \in Clients : op[a].do = "consolidate"]_memoryVars

\* No knowledge is superseded away: unless a fault or a stale save came between, the way
\* from heir to heir leads from a superseded memory to one that is not.
Heirs(m) == { n \in Memories : rows[n] # Missing /\ rows[n].replaces = m }
            \cup { e[1] : e \in { e \in edges : e[2] = m } }

Settled(m) == /\ rows[m].status = "superseded" /\ m \notin stale \cup orphaned
              /\ \A a \in Callers : m \notin HeirDue(a)

HasHeir ==
    \A S \in SUBSET { m \in Memories : Settled(m) } :
        S # {} => \E m \in S : \E n \in Heirs(m) : n \notin S

\* Maintenance has the last word on what operations left side by side: of a memory and its
\* replacement, and of two equal facts nobody pinned, one is closed in the end.  (They are
\* on one page: of a larger store it compares a hundred, or forty, at a time.)
Beside(m, n) ==
    /\ m # n /\ rows[m].status = "live" /\ rows[n].status = "live"
    /\ \/ rows[n].replaces = m
       \/ /\ rows[m].content = rows[n].content /\ rows[m].content \notin Episodes
          /\ ~rows[m].pinned /\ ~rows[n].pinned

MaintenanceSettles ==
    \A m, n \in Memories : Beside(m, n) ~> ~Beside(m, n)
=============================================================================
