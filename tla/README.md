# A TLA+ model of ZhaoXi

ZhaoXi is a personal assistant: one process, one owner, one asyncio event loop,
several SQLite databases, and language models behind HTTP. This directory holds
TLA+ modules of the parts whose correctness depends on the order of steps, the
TLC configurations that check them, and TLAPS proofs: of the permission gateway
(its policy, its grants and approvals, and that it implements an abstract
specification of what it promises) with the agent in front of it, of the model
calls, the agent's loop, workflows, the planner, the maintenance queue and the
journal, and of the remarks the assistant adds to a conversation. Source paths below are relative to
`src/zhaoxi/` in the repository unless they start with `docs/`.

Contents: 1 the system, 2 modules and code, 3 runs, bounds and what they show,
4 fairness, 5 proofs, 6 findings, 7 what is only checked and what is left out,
8 plan.

## 1. The system

One event loop runs everything, so two pieces of Python interleave only at an
`await`; database writes made with `sqlite3` directly are not suspension points
but are still separate transactions, between which the process can die. Most
hazards of this code come from three sources: a coroutine that is cancelled (by
a request timeout, by the owner starting to talk) between an effect and its
record; two coroutines that each hold their own copy of one stored object; and
a restart between two transactions.

| Part | State | Operations | Talks to | Hard part | Must hold |
|---|---|---|---|---|---|
| Permission gateway, store, executor (`permission/`) | confirmations and grants, in memory and on disk; the policy | `execute`, `evaluate`, `approve`, `deny`, `revoke`, `batch_grant`, `consume_matching`, load at start | asked by the agent, planner, workflows, CLI | memory is changed before disk; two transactions per approval; crash between | one run per grant, of what was shown; refusals and revocations last |
| Agent pause and resumption (`core/agent.py`, `interfaces/gateway.py`) | `_pending_permissions`, the frozen tail of a response | pause, text or button answer, batch loop, tail | gateway | the running tool may be cut short; a click waits for the lock | nothing runs that was not chosen; every open question can be answered |
| Model calls (`reliability/retry.py`, `sdk/retry.py`, `models/resilient.py`) | per request a call and token budget; per provider a circuit breaker | `generate`, retry, fall back, extension, probe | all callers of a model | nested retries; breakers shared by requests | the reserve is kept; a breaker opens for its own provider |
| Agent loop (`core/agent.py`, `core/loop_safety.py`, `tools/discovery.py`) | step counters, credits, locks, outcomes | model round, tool round, discovery, repair, closing, regeneration | model calls, gateway, tools | credits and limits combine; pause restarts the loop | no unsafe repetition, a closing reply, honest status |
| Workflows (`workflow/`) | a run and its steps in SQLite | start, advance, provide input, approve, deny, pause, resume, retry, cancel | executor and gateway | restart anywhere; forgotten questions; fall-through | an approval buys one execution; a completed step is not run again |
| Planner (`planner/`) | a goal with its plan in SQLite; pending permissions in memory | run, resume, approve, deny, cancel, restore | models, executor | `cancel` and the loop hold two copies | bounded attempts, nothing starts after cancel |
| Proactive messages (`proactive/`, `internal_activity/activities/legacy.py`) | schedules, events, deliveries; mode in memory | heartbeat: fire, buffer; worker: gate, ask, deliver, resolve, flush | models, sinks, foreground | two coroutines, each write an await; preemption | told once, never swallowed, suitable moment |
| Background activities (`internal_activity/`) | state per activity, daily budget, history | tick, select, reserve, run, back off | foreground cancels them | cancellation at any await; debt against play | work is remembered and comes first, play is not starved, the group is not bothered |
| Work after a turn (`interfaces/maintenance.py`) | durable queue of jobs with named phases | enqueue (coalesce), run phases, requeue, invalidate | memory and cognition handlers | a restart turns running into uncertain; yields to the owner between phases | no phase twice, no trigger of a burst lost, nothing after a clear |
| Current cognition and experience stream (`current_cognition/`, `cognitive_stream/`) | a journal with two cursors; an append-only stream whose rows expire | maintain, digest, owner's edits, undo, gardening | models | pages read before the lock; edits while the model answers | no owner's message is skipped; the owner's word stands |
| Interface gateway and sessions (`interfaces/`, `session/`) | turn lock, conversation, references, answer cache | chat, regenerate, history, activate a delivery, answer a permission, clear | agent, web | a turn cut short; saves in a thread; a clear without the lock | what was answered is kept, what was cleared stays cleared, nothing twice |
| Fast chat (`core/fast_chat.py`) | none of its own | one model call without tools | model calls | - | - |
| Perception (`perception/`, `zhaoxi_ext/qq_napcat`) | observations, ambient buckets, snapshots, reply guard | accept, merge, deduplicate, answer, digest, review | sessions, cognition, models | duplicated messages, lost connections, a guard read early | each message answered once, bots do not keep her talking, talk digested once |
| Long-term memory (`memory/`) | memories, edges, clusters | remember, search, edit, consolidate, maintain | maintenance, activities, tools | whole-row saves of copies read before | a superseded memory has an heir; what is closed stays closed |
| Reflection (`reflection/`) | one record per period | collect, generate, retry | activities | a failure state per period | one reflection per period |
| Decisions (`decision/`) | journals, follow-ups | record, review, ask once | activities | a follow-up asked once | - |
| Conversation beat (`proactive/beat.py`, `continuation.py`) | a session per active conversation, in memory: its last word, its budget | synchronise, note a word, gate, reserve, send, poke | worker, turn lock, sink | the model answers while the owner speaks, leaves or clears | no remark on a moment that has passed, a bounded number of them |
| Tools (`tools/`) | registry and manifests | look up, execute | executor | effects are outside | - |
| Cognitive services (`cognitive/`) | none | assemble text | memory | - | - |
| Shells: web, desktop, voice | windows, devices, sockets | routes, events | gateway | devices that fail | - |
| Reliability services (`reliability/`) | backups, task supervisor | start, shut down, back up, restore | all databases | a restore of several databases | all or none |
| Agenda, archive, expression, personality, observability, configuration | lists, files, texts | edit, show | tools | - | - |

`PROJECT.json` repeats the list with the sources of each part, its status and
the reason where a part is not modelled, and names the hazards at the lines
where they bite.

## 2. Modules and code

    PermissionPolicy <- Permission <- AgentBatch <- PermissionProofs  (<- is EXTENDS)
                            \---- implements Authorization
    ModelCalls  <- ModelCallsProofs     AgentLoop <- AgentLoopProofs
    Planner     <- PlannerProofs
    Workflow, Session      <- WorkflowProofs
    Maintenance, InternalActivity <- BackgroundProofs
    Cognition, Memory      <- CognitionProofs
    Perception, Proactive  <- SpeechProofs (EXTENDS)
    Beat        <- SpeechProofs (INSTANCE)
    MC<module>: the instance of each for TLC (Permission in AgentBatch's; none for Beat)

Components that share a proof module have names of their own: `ActivitySpec` of
`InternalActivity`, `ProactiveSpec` of `Proactive`, `MemorySpec` of `Memory`,
`SessionSpec` of `Session`.

`AgentBatch` is the composition of the agent with the gateway and uses every
action of `Permission` it drives; its run is the one that checks `Permission`
too. `AgentLoop`, `Workflow` and `Planner` ask the same gateway, of which they
keep only what a question can become (open, granted, spent, denied, expired).
`AgentLoop` sees of the budget of `ModelCalls` only how bad it is (normal,
warning, danger, exhausted). `Maintenance` runs its phases without knowing what
they do; one of them is a job of `Cognition`, where it may begin at any time.
`Session` leaves the agent's work inside a turn to `AgentLoop`.

**PermissionPolicy** is `permission/policy.py` with the parts of
`gateway.evaluate` and of the execution guard that depend only on the call, the
owner's sentence and the settings: `Decision` applies the overrides in the
code's order. A sentence is the set of markers found in it.

**Permission** is `PermissionGateway`, `InMemoryPermissionStore`,
`SQLitePermissionStore` and `ToolExecutor.execute`. `pending` and `grants` are
the dictionaries, `dpending` and `dgrants` the tables. Every store operation
changes memory in the action that begins it and writes the table in
`PersistPending` or `PersistGrant`; `op` says which write is next. Between the
two a write may raise (`WriteFails`) or the process may die (`CrashAndRestart`,
which reloads both dictionaries from disk and refuses what the start-up
refuses). `Run` starts the tool. `issued` stands for uuid4: an id is handed out
once, and confirmations have other ids than grants and invocations
(`IdsAssumption`). `expired` is time: the confirmations past their `expires_at`.

**Authorization** is the promise to the owner, without stores or calls: a
question is asked, answered once, and each grant it gives starts at most one
run while the answer is yes; a restart may forget an answer, never a refusal
that was announced. `Permission!Promise` is the refinement mapping and
`KeepsPromise` the property.

**AgentBatch** adds to it the agent's frozen response: `CallNext`, `SkipNext`
and `TurnEnds` are the loop over calls, `AnswerByText`, `Click` and
`AnswerByButton` the two ways to answer (a click is checked first and then
waits for the lock), `SkipMember`, `FirstMember`, `LaterMember` and
`LaterMemberExpired` the batch loop of `resolve_permission_batch`, `BatchEnds`
its end and the tail of the response, `Revokes` the owner taking a grant back
meanwhile. A tool may be cut short after its effect.

**ModelCalls** is `CallBudget`, `CircuitBreaker`, `retry_async` and
`ResilientProvider.generate`, several requests over shared providers. `Step` is
the code from one await to the next.

**AgentLoop** is `_run_loop` and its callees with `LoopSafety` and
`ToolDiscoveryState`. `Round` is the head of the loop, `Model` the handling of
one answer (calls, a reply, a broken reply, an error), `ToolCalls` one call or
one member of a resumed batch, `Answer` the owner's decision, `Regenerate` a
reply made again. What the model answers, what a tool returns and how the
budget goes are free choices.

**Workflow** is `WorkflowRuntime` on one run, with `WorkflowRegistry._validate`
as the assumption on definitions (`Accepted`). `db` is the stored run, `run` the
copy of the operation in progress, `pc` its suspension point.

**Planner** is `PlannerRuntime` on one goal: the runner with `goal`, its copy,
and the canceller with `cancelling`, its own. Both save to `db`.

**Proactive** is the heartbeat (`Scheduler.tick`, `EventBuffer.add`) and the
decision worker (`DecisionWorker._tick`, `deliver`, `resolve`,
`flush_deferred`, `ProactiveRuntime.process`, the sinks). Each await is a step,
made from the local copies in `heart` and `worker`. A delivery that was decided
on is a `letter` the worker carries: `Look` is the sink's `get_delivery`,
`SaveDelivery` the `save_delivery` after it, and the mode may change before
either.

**Session** is the gateway's turn lock (`queue` in order of arrival, `turn` what
its holder does), the conversation's window `conv` with the messages that have
left it but are not archived (`evicted`), the stored `row` and `archive`, and
the `cache` of answers. A save copies the conversation and writes in a `thread`;
other calls wait, a clear does not: `Clear` takes no lock, as
`DELETE /api/session` does not.

**Maintenance** is `PostTurnMaintenanceQueue`: `table` and `order` are the rows,
`worker` and `current` the worker task and its phase, `busy` a turn in the
foreground. `Enqueue` merges a burst into a job that was never picked,
`Invalidate` is a clear, which cancels rows and task and leaves the task to
write its own end (`WorkerStops`).

**Cognition** is the stream (`log`, of which `live` has not expired), the
journal with its `cursor` and the cursor `digested` of fast chat, and those who
write: jobs of the queue, the background's maintenance and its digest, each with
what it read in `act` and a place at the `lock`. What a writer read is a list,
`msgs`: a job merged with a later one keeps the order in which it came to hold
its messages (`Snapshot`), goes on after the cursor's place in the list
(`Pending`) and moves the cursor to the list's last element (`Advanced`), which
need not be the newest. Two histories go with it: `cut`, what a job has let go
of, cut off at the front (`Newest`) or dropped as being before the cursor's
place, and `passedOver`, what the cursor passed of that. The owner's edits
(`OwnerEdits`, `OwnerUndoes`) take no lock; `revision` is what undo goes back to.

**InternalActivity** is the tick (`examine`, `select`, then run, one after the
other) over `item`, the state kept in memory, and `stored`, the state as saved.
`fg` and `presence` are the foreground's, `day` and `group` the counters that
are saved at once. A visit to the group has a clock of its own, `run.age`, since
its message is recorded with the time at which the visit began. `Progress` is whatever the tick or the running activity does
next; `social_wander` is modelled step by step, other handlers succeed, find
nothing, or fail. What the generator `select_registered` lets through is given by
its outcome, the one set of candidates that agrees with debt and budget in the
order of their ranks (`Reserved`). Names that `Maintenance` has too begin with
"Activity": `BackgroundProofs` extends both.

**Perception** has one task per message (`at`, with what it knows in `own`), the
table of observations (`row`), the queue for `_direct_lock` (`line`, `inside`),
`conversation_lock` (`talk`), the answers in the stream (`replies`), and the
group's digest (`flush`, `snaps`, `review`).

**Memory** has the `rows` and `edges` and per actor an operation `op` with the
copies it read and the saves it still has to make. `Edit`, `Search`, `Remember`,
`Consolidate` and `Organize` are the clients' operations, `Maintain` the
keeper's; every save writes a whole row from a copy, as `save` does.

**Beat** is the session of an active conversation (`ConversationBeatLoop`), who
is there (`Interaction`: `presence`, `since`, `touched`), the turns that note the
owner's words, and the `worker` that makes a remark: `Tick` and `Poke` are the
gate, `Reserve` the token taken before the model is asked, `Send` the second
look under the lock of the turns, `Deliver` the sink. `clock` counts the stamps
the code keeps; two stamps are never equal. Remarks in `stored` outlive a
restart, the rest does not. The module has no run; section 5 says what is
proved of it.

History variables (`runs`, `told`, `fired`, `chosen`, `tried`, `starts`, `seen`,
`answered`, `stale`, ...) are marked as such where they are declared; no guard
of the code's actions reads one, except where a bound is named.

## 3. Runs, bounds and what they show

Every run checks deadlock but those of `AgentBatch`, `Session`, `Maintenance`,
`Cognition` and `Perception`: their instances are done when the bounded number
of replies, calls, jobs or messages has been handled.

| Run | Instance | Shows |
|---|---|---|
| `agent_batch` | 2 confirmations, 4 grants; a look-up, two merged deletions and a message; 2 replies; a revocation; a sentence that restricts to reading or nothing | one run per grant, runs bounded by what was chosen, every open question can be answered, the gateway implements `Authorization` |
| `model_calls` | an owner's request (4 calls, budget 5, hard limit 6, reserve 2, extension 1) and a background one (1 call); 2 providers, 2 attempts, threshold 2, answers of 0 or 2 tokens | the reserve is there for the closing reply; breakers open for their own provider |
| `agent_loop` | 2 tools, 8 steps, 2 model rounds, 2 tool rounds, 1 repair, 1 discovery; five lists of calls a model may answer with | no run after trouble, a model's closing reply, honest status; regeneration only replies |
| `workflow` | 3 definitions, at most 3 steps per `_advance`, 2 executions of a step | approvals buy one execution, completed steps are not repeated, operations end |
| `planner` | plans of 2 steps, 2 calls per response, 2 rounds, 1 new plan, 2 attempts, 1 answered wait | bounded attempts, nothing runs once cancelled |
| `proactive` | times 0..2, a buffer of 2, an ordinary and an urgent event, three starts, 1 upset | told once, never swallowed, spoken at a suitable moment, settled in the end |
| `session` | 2 requests, the first sent twice, a delivery, one call of regenerate, history or activate; a window of 3, a cache of 1; 2 faults, 1 clear, 1 crash | no message twice, what was answered is in the window or the archive, a clear holds, a repeated request gets its answer |
| `maintenance` | a turn's job and two of one burst, 2 phases, room for 2 in a batch and 2 in the queue, 2 turns, a clear, a restart | no phase twice, merged triggers are handled, nothing is done for a cleared session, every job gets an outcome |
| `cognition` | a queue job and the two activities, pages of 3, batches of 1; 2 messages, 2 edits and a week, or 5 messages | no message is skipped but by a list out of order, the owner's locks and deletions stand |
| `activity` | a digest every 3 heartbeats and a walk every heartbeat, a rest of 2 for the group, one model call a tick and 2 a day, ticks of 2 heartbeats, 1 disturbance | requests displace activities without losing work, one message to a group that is left alone, work before play, play not starved |
| `perception` | two messages of a bot and one of the owner, or one of a bot and two of the group; 2 merged, one part, a guard that looks at the newest answer only, batches of 2, 2 attempts, 1 disturbance | answered once, a bot waits for the owner, talk digested once, snapshots settle |
| `memory` | a client and the keeper, 2 memories, a fact and an episode, batches of 1, 2 operations, 1 fault | a superseded memory has an heir, nothing closed comes back but by a stale save, maintenance ends |

Why the bounds suffice:

- A response with a look-up before, two merged members and a call after the
  batch has all four positions the code tells apart. Two grants beyond the
  questions' own let a batch be cut short and answered again; a revocation may
  fall anywhere. Two replies allow an answer and its repetition or the answer
  to what follows.
- An owner's budget that is one answer above its base meets the soft limit, the
  extension, the reserve and the hard limit each with an answer that fits and
  one that does not.
- `ModelLimit` is 2 where the default is 3: the limit, one discovery and one
  repair are still all reached within `MaxSteps`, which is larger than their sum
  so that it is not what ends the loop.
- A workflow's definitions are a question with a branch, a retried tool and a
  failure handler; two tools that ask, with a gateway that forgets its
  questions at a restart; and one that goes round by falling through. Two
  executions tell one from a repeated one.
- Two attempts, two rounds and one new plan let an attempt be the last, a round
  be the last, and the plan be replaced once and refused once.
- A clock of two periods has one period missed and one in time. A buffer of two
  with two sensed events and a reminder overflows. One upset, a crash, a
  cancellation, an error or a change of mode, may fall between any two writes,
  also between the decision to speak and the stored delivery.
- A window of three holds a turn and half of the next: the second turn evicts
  messages of the first before its own answer is there. A cache of one has
  forgotten the first answer when the repeated request comes late.
- A burst of two and a turn's job in a queue of two are refused, merged and
  kept; two turns let the worker give way twice in one job.
- A batch of one leaves the second of two messages behind for the next round;
  two edits are a deletion or a lock and its undoing. A job's list gets out of
  order only over a longer stream: with five messages, pages of three and a
  background that has moved the cursor back, TLC reaches a job that holds
  `<<3, 2, 4>>` with the cursor at 2, and a list cut to its newest three. The
  constraint `LongStreamsAreQuiet` of `MCCognition` keeps the two apart: a stream
  of more than two messages has signals only, and a journal that is empty and
  that nobody edits.
- A day of two model calls, one tick of one: the tick's, the day's and the
  activity's own budget each refuse once; an interval of three is long enough
  for the walk to have its turn and short enough to become due again.
- A bot's second message may join the first, wait behind it, or come after the
  answer; the owner's message falls between any two of these, and the answer to
  it pushes the one to the bot out of the guard's sight.
- Two memories are a memory and its heir, or a source and its consolidation,
  or a duplicate and its survivor. One client and the keeper already hold two
  copies of one row.

Every property of a passing run has a mutant in `PROJECT.json`: a plausible
error in one definition (a write left out, a swapped order, a guard dropped)
with which TLC finds the property violated under the same configuration. The
mutated forms stand beside the definitions they replace, under the comment
"Mutant".

No run checks types: where there are proofs, `TypeOK` is part of the inductive
invariant (section 5); elsewhere the definition of that name, where there is
one, documents the types.

## 4. Fairness

`Permission`, `AgentBatch`, `ModelCalls`, `AgentLoop`, `Planner`, `Session` and
`Cognition` are checked for safety. The others state fairness:

- **Workflow**: weak fairness of `Written`, `Advance`, `Call`: a write returns,
  the loop goes on, a tool answers or its timeout cuts it off.
- **Proactive**: weak fairness of both coroutines, the clock, the end of quiet
  hours and of the owner's business. Strong fairness of two rounds of the
  worker: one in which every deferral is over (`FlushesAll`: `next_decision_at`
  is left to each round, and it passes), and one in which the waiting reminder
  is among the rows read (`ReadsAll`: rows are read oldest first and what
  sensors report expires, so a reminder becomes the oldest).
- **Maintenance**: weak fairness of the worker (`Pick`, `PhaseEnds`, `Leave`,
  `WorkerStops`), of the end of a turn, and of the batch's delay (`Ripen`). A
  job enqueued while the cancelled worker is still ending is excepted
  (`Stranded`): the code starts no worker for it until the next job.
- **InternalActivity**: weak fairness of the heartbeat, of the tick and the
  running activity, of the foreground's end, of cooldowns and of midnight.
  Model and network calls have timeouts, and requests end. Disturbances need
  not happen.
- **Perception**: weak fairness of each message's task, of the review of
  snapshots, of time, and of the reconnection, which the transport tries
  without end.
- **Memory**: weak fairness of each actor's next step (SQLite calls return),
  and of `Keep`: the activity maintains again and again.

Fairness is of steps that change what the program has, not of steps that only
use up a bound (`WF_program`).

## 5. Proofs

A property the runs check is seldom inductive: it says too little of the steps
before it. Each proof module therefore states an inductive invariant, proves
that `Init` has it and each action keeps it (one lemma or step per action), and
draws the properties from it. The parts of each invariant were model-checked on
the component's instance before they were proved. The theorems hold for every
value of the constants that meets the module's assumptions; these say what the
code's settings validate or its ids guarantee, TLC evaluates them in the runs,
and bounds of the models are only natural numbers.

| Module | Properties proved |
|---|---|
| `PermissionProofs` | `OneRunPerGrant`, `RunsBoundedByApprovals`, `OpenQuestionHasAWait`, `KeepsPromise` of the run; `NoRunAfterRevocation`, `RunsWhatWasApproved`; four theorems on the policy |
| `ModelCallsProofs` | `ReserveIsKept`, `OpensForItsOwnFailures` |
| `AgentLoopProofs` | `NothingRunsAfterTrouble`, `ModelHasTheLastWord`, `CompletedIsHonest` |
| `WorkflowProofs` | `EffectNeedsApproval`, `CompletedStepNotRerun` of workflows; `ShownOnce`, `AnsweredIsKept`, `ClearHolds`, `RepeatIsServed` of the session |
| `PlannerProofs` | `AttemptsBounded`, `NothingRunsOnceCancelled` |
| `BackgroundProofs` | `PhaseOnce`, `MergedIsHandled`, `NothingAfterClear` of the queue; `YieldsToForeground`, `SpeaksInTurn`, `WorkBeforePlay` of the activities |
| `CognitionProofs` | `NoEventSkipped`, `OwnerHolds`, `DeletedStaysGone` of the journal; `NoRevival`, `HasHeir` of the long-term memory |
| `SpeechProofs` | `AnsweredOnce`, `BotWaitsForOwner`, `DigestedOnce` of messages from outside; `ToldOnce`, `ReminderIsNotSwallowed`, `SpeaksWhenWelcome` of reminders and messages of her own; `SpeaksToThisMoment`, `SilentInTheEnd`, `NoRemarkIsMistaken` of unasked remarks |

### PermissionProofs

The theorems hold for any sets of confirmations, grants, invocations and calls,
any policy and any kinds of calls. They assume `ConstantsAssumption` (the
constants have the shapes their comments say), `ResponseAssumption` (so has the
response) and, for the refinement, `IdsAssumption` (no confirmation has the id
of a grant or an invocation: all are fresh uuids).

The policy. About `Decision`, for every kind of call, sentence and setting:
`ReadOnlyIsBinding` (a sentence that restricts to reading refuses every other
call, whatever the settings), `BoundaryNeverSilenced` (a call across an
execution boundary runs unprompted only on explicit words),
`SayingMoreOnlyTightens` and `PromptOnlyTightens` (a restriction added to the
sentence, or a tool's prompt switched on, never loosens the answer).

One run per grant. `Invariance` (`Spec => []IInv`), `TypeCorrect` and
`AtMostOneRunPerGrant`. `OneRunPerGrant` is not inductive: in a state where a
grant has run once but its record says unused, the next call would use it again.
What excludes that state is the order of `consume_matching` and `Run`, *and*
that a crash reloads the tables. `IInv` says so:

- `RunIsStored`: a grant that started a tool is used in memory and on disk;
- `DiskFollowsMemory`: no grant is on disk that memory does not have;
- `UnissuedIsUnknown`: an id not yet handed out names no record, so a new grant
  does not overwrite one that has run;
- `OperationInv`: what the operation in progress has already done: at
  `consume_grant` the grant is used in memory and has not run, at `run` it is
  used on disk too and has still not run;
- `TypeOK`.

`TypeStep` and `InvStep` show that each action keeps them; `EvaluateType`,
`EvaluateInv`, `NewGrantType` and `NewGrantInv` are the lemmas about `evaluate`
and the creation of a grant, which several actions share.

Revocations and approvals, two layers over `IInv`.

- `NothingRunsAfterRevocation`, from `RevocationInv`: an answered revocation is
  in memory and on disk (`RevokedStays`), the grant being stored as revoked is
  revoked (`Revoking`), and the one a tool is about to start on is not
  (`Starting`).
- `RunsOnlyWhatWasApproved`, from `ApprovalInv`: every grant in memory, and
  every one on disk, has behind it a question the user was asked about that
  very call, or for a batch member about the same tool, and said yes to
  (`MemoryIsBacked`, `DiskIsBacked`); memory and disk agree on the questions
  (`PendingAgrees`); ids of batches not yet begun name nothing
  (`BatchIdsAreFresh`); and so for the operation in progress (`Approving`,
  `Batching`, `Running`). `SettledStays` and `BackingStays` say why an answer,
  once given, keeps backing its grants.

The promise. `GatewayKeepsPromise` (`Spec => KeepsPromise`) is the refinement.
On top of the invariants above it needs `PromiseInv`: an announced refusal is on
disk (`DeniedStays`), a confirmation being stored as denied is settled in memory
(`Denying`), and a grant has the same confirmation in memory and on disk
(`OwnersAgree`). The lemmas `Stutters` ... `Restarts` give for each step of
`Authorization` the conditions under which a step of the gateway maps to it;
`EvaluateKeeps` ... `CrashKeeps` show them action by action.

The agent. `AgentInvariance` (`AgentSpec => Spec /\ []AgentAll`) shows that
every step of the agent is a step of the gateway or leaves it alone, so what is
proved of the gateway holds of the composition (`AgentRunsOnce`,
`AgentKeepsPromise`); the theorems about `Spec` cover every other caller too,
the planner and the workflows included. `RunsAreApproved` (`AgentSpec =>
[]RunsBoundedByApprovals`) counts: `Owed` says that the runs of a call, and the
one still due to it in the batch under way, are at most as many as the times it
was chosen. It needs that whatever is about to start was chosen or may run
unasked (`Chosen`), that the request under way is for the call the agent is at
(`Handled`), and that a grant leads back to the invocation its confirmation was
asked for, before and after a reload (`OwnIds`).

The agent's questions. `EveryQuestionCanBeAnswered` (`AgentSpec =>
[]OpenQuestionHasAWait`). The loop over a response files a wait for what it
asks; what could leave a question without one is a resumed batch that has to
ask again, because the call it resumes finds no grant. `QuestionInv` shows it
finds one: until a restart, while nothing has gone wrong (`Undisturbed`),

- `Filed`: a wait's question is about the call and the id the wait will resume
  with, and no two questions share an id;
- `Granted`: an approved question with a wait has a grant for that very call,
  unused until the first member is executed on it (`OwnGrant`, `FirstDue`), and
  no other call's evaluation can take it, since ids are not shared;
- `Deriving`: the grant of a later member waits, unused, for its evaluation;
- `Asking` and `Resuming`: only the question under way has no wait yet, and a
  batch under way belongs to a settled question and to chosen members.

So an evaluation in a batch always takes the first branch of `Evaluate`. When
something goes wrong the hypothesis of the property no longer holds and, but for
a restart, never holds again; a restart denies what is open, and no step asks
anything after it (`Restarted`), as the response is gone with the process.

### ModelCallsProofs

Assumes `BudgetAssumption`: what `BudgetPolicy` validates of its limits
(`reliability/retry.py:41`), one provider, one attempt and a threshold of one at
least. `CallsInvariance` is proved of

- `Spares`: a call sent before any closing call left the whole reserve, because
  the budget is asked right before; with `Fits`, the hypothesis of the property
  itself that one answer fits in the reserve, this gives `Kept`, which is
  `ReserveIsKept`;
- `CountsFailures`: a breaker's count is the number of complete calls that
  failed since its last answer, and it is open only at the threshold. Both go up
  together and start again together, however requests interleave at a provider;
- `UnderWay` and `TypeOK`.

### AgentLoopProofs

Assumes `LimitAssumption`: the limits are natural numbers, `ModelLimit` within
`MaxSteps`, and a response has calls. `LoopInvariance` is proved of

- `InTime`: between two rounds there is a round left, and a step. The last round
  that is granted is a closing one, which ends in a reply, a report, or a repair
  that is granted one more; hence `ModelHasTheLastWord` (`Settled`);
- `Trouble`: an outcome that must not be repeated, or a second failure of one
  tool, has closed the request for good, and nothing, not even a regenerated
  reply, opens it; `Earlier` ties the runs to the outcomes before them; hence
  `NothingRunsAfterTrouble`;
- `Repaired`: an outcome counted as repaired is an invalid call followed by a
  success of the same tool; with `Settled`, hence `CompletedIsHonest`;
- `Members` (what a confirmation was asked for are calls of tools) and `TypeOK`.

How many calls at the head of a response are merged into one question is a
cardinality; `SameCalls` shows with the library's theorems on finite sets that
it is what the code's loop counts.

### WorkflowProofs: workflows

Assumes `SetupAssumption`: the definition is one `_validate` accepts.
`RunInvariance` is proved of

- `GrantInv`: executions of a step that asks are at most its approvals, and
  fewer while a grant is unused: `EffectNeedsApproval`;
- `CopyInv`: what the stored run has as completed the copy has too, and the step
  about to be called is not completed in the copy. `CompletedStepNotRerun`
  speaks of the *stored* run, so it needs this relation of the two;
- `WaitsInStep`: a run waiting for a permission waits in its current step, so an
  approval that comes later is the current step's;
- the types (`RunTyped`, `GateTyped`).

### WorkflowProofs: the session

Assumes `WindowAssumption` (the window and the cache hold at least one entry)
and `CallersAssumption`. `SessionInvariance` is proved of `SessionInv`; none of
the run's properties is inductive alone:

- `MemorySound`: the window and the row are in `Windows`. `ShownOnce` needs more
  than distinct messages: a regeneration finds the user's message *before* a
  reply, so between two replies stands a user's message (`Alternates`), and while
  the agent answers one stands after the last (`Asks`). A message may be among the
  evicted too; then no reply precedes it (`Foremost`), so that the window a save
  rebuilds without the evicted still alternates;
- `RegenerateSound`: while a reply is made again the window is the start of the
  old one (`Cut`), and the old one can be put back as it was;
- `Recorded`: replies to a request are numbered by how many there were, so a new
  reply is a new message;
- `ThreadSound`: what the saving thread has read is still so when the turn ends,
  unless a clear came, since everybody else waits for the lock;
- `KeptSound`: what a client was given is in the window, among the evicted or
  archived, or in the old window of a regeneration. `Due` is what the turn is
  about to give: it goes through the save with the rest, and becomes kept only
  when it is stored: `AnsweredIsKept`;
- `ErasedSound`: cleared messages are no younger than the session and than the
  time the turn goes by, so the archive's replay of deliveries passes them over,
  and they are in nothing a thread or a regeneration writes back: `ClearHolds`.

`RepeatIsServed` is an action property: who leaves the queue is looked up in the
cache in the same step, and `ChatSound` says that the request of a running chat
has no kept answer.

The model inserts deliveries and filters windows with recursive functions. What
holds of every stage of one is proved without the library's induction theorems:
if it failed at some stage there would be a first such stage (`LeastIs`), and
the step before it does not fail (`StepsAre`).

### PlannerProofs

Assumes `PlannerAssumption`. `PlannerInvariance` is proved of `Tells(goal)`,
that a goal counts at least the attempts that were made, for each copy from
which work may go on: the stored goal while its status lets a call load it
(`StoreInv`), the runner's copy while it works (`WorkInv`), returns
(`ReturnInv`) or has just been loaded (`LoadInv`). A tool that waits for a
permission is executed later, on an attempt counted before: `Room` is that
attempt, and `EntryInv` ties the pending permission in memory to the stored
wait. The copy `cancel` writes may be stale, but it is stored as cancelled
(`CancelInv`), which no call goes on from. `NothingRunsOnceCancelled` is an
action property and rests on the same invariant: once the flag is raised there
is no pending permission, and an approval that was loaded before finds its
question no longer open (`EntryInv`, `LoadInv`); the other executions look at
the flag in the same step.

### BackgroundProofs: the queue

Assumes `PhasesAssumption`, `PriorityAssumption`, `NamesAssumption`.
`QueueInvariance` is proved of

- `OneRuns`: one job is running, in the first phase that is not recorded;
- `Begun`: a phase was begun at most once, and only one that is recorded or the
  one under way; what is queued, again or for the first time, has its next phase
  still to begin. A phase cut short by a restart therefore is never queued
  again: `PhaseOnce`;
- `Merged`: a job merged into another is one of its triggers, and no trigger is
  added after the other has begun: `MergedIsHandled`;
- `Cancelled`: what a clear cancelled stays cancelled, although the worker it
  cancels writes its own end later: `NothingAfterClear`.

### BackgroundProofs: the activities

Assumes `ActivityAssumption`: activities are finitely many and registered once
each, work and play are different categories, limits and intervals are natural
numbers. Budgets, policies, ranks and backoff are arbitrary.
`ActivityInvariance` is proved of `YieldsToForeground`, `ActivityTypes` and

- `OnceATick`: what is still to be looked at, what is a candidate and what runs
  are different activities, and something runs just while the tick waits for it;
- `Speaking`: while a walk is under way and has not spoken, or may still begin in
  this tick, the group is at rest. This is not what the code checks when it
  speaks: the rest is judged at the tick's start, from the age of the last message
  *written down*, and holds because no other walk speaks in the tick (`OnceATick`)
  and because a message is written down before it is sent, with the time the
  history `quiet` counts from too: the beginning of the visit, so the rest after
  the message is shorter by what the model took (section 6). A crash between
  record and network can only leave the group a rest nobody owed it. A message
  about to go out is counted already, and what allowed it still holds, for no
  await lies between;
- `Owing`: dirty work that has been ready since before the tick is still to be
  looked at or makes debt already, and debt holds of the candidates it was
  counted from.

`NothingHoldsUpARequest`, `TheGroupIsLeftInPeace` (`SpeaksInTurn`) and
`PlayComesLast` (`WorkBeforePlay`) follow; the last from `StartGuard`: what is
started was let through against debt, with nothing left to look at. Work whose
own check fails in the tick has had its turn, so play may follow it in that tick
if its interval is no longer than the tick has lasted: `WorkBeforePlay` says
untried work.

### CognitionProofs: the journal

Assumes `ReadsAssumption`: pages and batches are not empty. `EventInvariance`
is proved of

- `Whole`: what a writer of the journal holds of the stream has no gap: each
  live message of the owner's that is not younger than the last of its list is
  in the list, at whatever place, or in its `cut`, or was dealt with (`Gapless`).
  A page is read from its start and cut at its end, so it has no gap when it is
  read, later messages are younger, and expired ones do not count; what is merged
  into a job is a page without what the job holds already, so that the last of
  the joined list is the last of a page (`MergedIs`); what a job drops, before
  the cursor's place or at the front of too long a list, goes to its `cut`
  (`PendingIs`). This survives any wait for the lock and any writer in between;
- `NoGap`: no live message behind the cursor is neither accounted for nor passed
  over (`Covered`), which is `NoEventSkipped`; `StreamOK` and `ActType`.

`JournalInvariance` adds `Sound`: a thread that is locked or pinned is there and
is the owner's, in the journal and in the two that undo goes between. From it
and `MachineStep`, which shows of everybody but the owner that it respects
(`Respects`) locks, pins and deletions, follow `OnlyTheOwnerMoves`
(`Spec => OwnerHolds`) and `DeletionsHold` (`Spec => DeletedStaysGone`).

### CognitionProofs: the long-term memory

Assumes `MemoryAssumption`: sizes and bounds are natural numbers, episodes are
among the contents, the keeper is no client. `NoRevival` is an action property
of one save, but a save writes what its operation read some steps before, often
with other operations in between. `MemoryInvariance` is therefore about the
saves still to come:

- `Honest`: what an actor is about to save as live it has read as live, unless
  it archives the sources of a consolidation, which only clients do; an actor
  about to replace a memory has one to replace, and it is there. The first part
  holds across `Cut`, after which a save already begun still lands;
- `Loyal`: what is read of a memory and saved later names the predecessor the row
  has; a client supersedes only what it goes on to create the heir of; the keeper
  works on memories it read as live, each of them once;
- `Ordered`, `RowsTyped` and `Works`: ids are given in order and a memory replaces
  an older one; rows, copies and saves are well formed.

Hence `NothingIsRevived`: when a closed memory becomes live by a save
(`SavesReviveNothing`), either its status is no longer the one that was read, so
the save is stale, or it is a source. A new memory has an id that none had
(`CreationRevivesNothing`), and nothing else writes rows.

`HeirsLeadOut` (`MemorySpec => []HasHeir`) says that following heirs ends: every
set of superseded memories has one whose heir is outside it. An heir may itself
be superseded, by a client in favour of a younger memory or by the keeper in
favour of an older one, so neither ids nor times fall along the way. `HeirInv`
instead says that there is a `rank` of the memories that rises from each to an
heir of it (`Ranks`); in any set the memory of the highest rank leads out. Each
step gives the ranks of the next state:

- a client supersedes in favour of a memory that does not exist yet
  (`AwaitsHeir`) and is live when it is created: what waits for it may have any
  rank;
- in one round the keeper retires duplicates in favour of a memory it keeps, and
  repairs what the memories it looks after replace. `Attended` says that what it
  keeps (`K`) it does not retire in the same round, though others may supersede
  it meanwhile. So all it retires gets one rank `T` above those of earlier
  rounds, what a kept `m` replaces less than `T + 1 + m`, and what comes later
  is above both. The next round takes a higher `T`;
- a memory a fault or a stale save came between (`orphaned`, `stale`) is owed no
  heir (`Owed`); a crash of the keeper leaves what it has superseded without its
  edge as an orphan.

### SpeechProofs: messages from outside

Assumes `PerceptionAssumption`: messages are finitely many, those that address
her are not the others, the owner is no bot and the limits are positive.
`PerceptionInvariance` is proved of

- `Answering`: a message that was ingested has a stored row and a task of its
  own that nobody else has (two tasks for one row would both find nothing
  sent), and a row that was answered stays stored. A message that comes again
  meets the row; one whose task was cut short finds it pending for nobody and
  ends too. Hence `AnsweredOnce`;
- `Guarding`: a bot's message that the guard let through has, for each answer to
  that bot recorded by now, a word of the owner's after it, or came before it, or
  `Lookback` newer answers had been recorded in the group when the guard looked.
  The guard reads before the task waits for the lock; answers recorded meanwhile
  are younger than the message, so what it was told stays true: with the record
  of each answer this is `BotWaitsForOwner`;
- `Digesting`: what the batch under way holds is still in the buffer, and a
  message of the group is in one snapshot or none, as its row says. The batch is
  what was buffered when it was read, messages that arrive later are not in it,
  and only one batch is under way: `DigestedOnce`;
- `Queue` (those in the line wait, each once) and `TypeOK`.

### SpeechProofs: reminders and messages of her own

About `Proactive`. Assumes `ProactiveAssumption`: times, limits and ranks are
natural numbers, the buffer has room for one, urgent events are sensed ones, and
sensed events are no reminders. `ProactiveInvariance` is proved of

- `TellingSound`: what was told is covered by a delivery that is on record as
  delivered. `ToldOnce` says less and is not inductive: the row of an event that
  was told may still be pending after a cancellation or a crash, and only the
  record keeps it from being told again;
- `DeliveriesSound`: a delivery covers the event it is named by, a reminder's
  covers no other, and only a reminder's is ever deferred. So the record that is
  looked up by one name also stands for what was told with it;
- `WorkerSound`: what the worker goes by after an await is still so. Its batch
  holds nothing that is covered or still queued; what it flushes is deferred;
  what it settles of the reminders has a delivery. These are read before the
  model is asked and hold after, because only the worker delivers. `LetterSound`
  says of a delivery on its way that nothing it covers was told, and that it is
  still allowed, unless the clock or the mode has moved on since it was decided
  (`overtaken`);
- `HeartSound` and `RowsSound`: the buffer adds and gives up sensed events, and
  no attempt is counted for a reminder.

`NothingIsToldTwice` (`ToldOnce`) follows. `RemindersAreNotSwallowed` and
`RemarksAreWelcome` are action properties over the same invariant: the first
splits on who settles the event. The second is about the step that stores a
delivery, two awaits after the decision: `LetterSound` carries what the decision
saw to it. It needs of the batch that it holds sensed events only, and that what
was deferred is a reminder, so that the conditions for sensed events concern the
answer of the model alone, which is checked again when it arrives. Nothing is
said of a delivery that was overtaken (section 6).

### SpeechProofs: unasked remarks

About `Beat`, and what may go wrong between the question to the model and the delivery of its
answer. `SpeaksToThisMomentHolds`: nothing is stored once the
owner has said a word the model was not shown. `SilentInTheEndHolds`: after the
owner's last touch a conversation gets at most `Maximum` unasked remarks, and
one more that the touch cut short while it was being stored.
`NoRemarkIsMistakenHolds`: the id of a remark, made of the conversation's start
and a count, is never that of an earlier one, so the sink, which skips known
ids, stores it. Each is proved from `BeatInv`, because each alone says too
little of the steps before it:

- `Stamps`: nothing is stamped later than the clock, hence a new conversation
  has a start no session, worker or stored remark has.
- `Underway`: while the conversation the worker began in goes on, the session is
  still the one its number was taken from.
- `Heard`: a word the worker does not know of is in the session's `last`, or the
  conversation is another; `Locked`: it cannot come during a delivery.
- `Numbered`: the session's count covers every remark stored for it.
- `Paid`: what was said and what the budget still has are together at most
  `Maximum`, but for a remark cut short; a poke is preceded by a touch, so it
  finds nothing unanswered.

The assumption is that budgets and bounds are natural numbers and the maximum at
least 1, as `config/settings.py:71` has it. The properties and the parts of
`BeatInv` were model-checked beforehand with budgets of 1, four stamps, one call
and two remarks (`Spec` of `Beat` has half a million states there), and each of
the three is violated when, in turn, the token leaves out the last word, `sent`
takes nothing from the budget, or `sync` always begins a new session.

## 6. Findings

All were seen while modelling; none has a run of its own. The models behave as
the code does, and the properties are stated so that they hold of it, with the
exception named where the behaviour below would break them.

Permission, agent, workflows, planner:

- An approval is stored in two transactions (`permission/sqlite.py:74`, and
  line 32 promises to "persist every mutation atomically"): a crash between
  leaves an approval nobody can use or give again.
- A batch cut short runs a member twice (`core/agent.py:1813`): the wait is
  dropped after the last member only, and every later member gets a fresh
  grant. `docs/v0.x/Zhaoxi_v0.4_Permission_Development_Plan.md:400` says once.
  If the unused grant of its first member is revoked meanwhile, the same answer
  leaves a question without a wait.
- A workflow that goes round by falling through is accepted
  (`workflow/registry.py:123`): the validation follows declared successors only.
- A crash of a workflow between a tool's execution and the save of its result
  calls the tool again (`workflow/runtime.py:284`;
  `docs/v0.x/Zhaoxi_v0.5_Workflow_Development_Task.md:278`).
- A cancelled goal is stored as running (`planner/runtime.py:409`): `cancel`
  writes its copy, the runner's next save writes the other.
- `core/loop_safety.py:67` gives no credit for a discovery that only looks at
  the catalogue, repeats or fails; `core/agent.py:1454` and `1461` credit an
  escalation whatever it brought.
- Denying a confirmation that was approved is answered as a refusal and leaves
  the grant usable (`cli.py:518`, `permission/store.py:52`).
- The text of `request_budget_extension` allows two requests, the code one
  (`reliability/retry.py:130`).
- An expired question of a workflow makes every later approval raise.

Sessions, maintenance, proactive messages:

- A clear takes no lock (`web/app.py:856`, `interfaces/gateway.py:627`): a
  failing `regenerate` puts the window of before the clear back, a save thread
  that read before the clear may write the old row, and a delivery's
  synchronisation compares with the creation time it read before. `ClearHolds`
  therefore speaks of clears while no turn runs.
  `docs/v1.4.x/Zhaoxi_v1.4.0_Progressive_Response_Visibility_Patch_Task.md:96`
  and `168` state it without that condition.
- A job enqueued right after `invalidate`, while the cancelled worker is not yet
  done, waits until the next job or restart (`interfaces/maintenance.py:83`).
- A full buffer may give up a reminder's event, where
  `docs/v0.x/Zhaoxi_v0.6_Proactive_Agent_Development_Task.md:168` keeps
  persistent events; `ReminderIsNotSwallowed` makes the exception explicit. A
  stale write may then make such an event pending again.
- The quiet mode is kept in memory only, where the same document (line
  237) has it persist.
- Between the last gate and the stored delivery the sink asks the store twice
  (`proactive/worker.py:156`, `proactive/notifications.py:22-28`). Quiet, "off"
  or a message of the owner that begins there does not stop the remark, unless
  the owner's message cancels the worker. `SpeaksWhenWelcome` excepts such
  deliveries (`overtaken`); without the exception TLC finds them.
- A round of the worker reads the clock at its start and judges its rows by it
  (`proactive/worker.py:36`, `40`): a reminder may be told after night has fallen
  if a beat's model call took that long in the same round. `mode.quiet` is quiet
  by the clock the worker goes by.

Cognition, activities, perception:

- A merged job can skip a message. Merging appends the later list without
  sorting it (`interfaces/maintenance.py:59-60`), and maintenance goes on after
  the cursor's place in the list and moves the cursor to the list's last element
  (`current_cognition/maintainer.py:66-70`). A job holds what followed the
  cursor when it was enqueued; the background, which read earlier, then moves
  the cursor back; what is merged into the job now follows that older cursor.
  If the job then holds, say, `[202, 2, 203]` and the cursor is at 2, message
  202 is dropped and the cursor goes to 203. So it is with a message that the limit of
  200 cuts off a merged list. `NoEventSkipped` excepts just these
  (`passedOver`); without the exception TLC finds the first.
  `docs/v1.2.x/Zhaoxi_v1.2.8_Internal_Activity_开发任务书.md:629` has the rules
  of the cursor keep recent context from being swallowed silently.
- A cursor may move back; 200 rows without an owner's message, or without a
  signal while the journal is empty, stop it (`cognitive_stream/store.py:123`).
- A second deletion of a topic replaces the suppression of the first, so the
  first one's evidence may bring the topic back (`current_cognition/editor.py:101`;
  `docs/v1.4.x/Zhaoxi_v1.4.5_开发记录.md:40`).
- An activity set to manual while a candidate is awaited still runs in that tick
  (`internal_activity/runtime.py:326`;
  `docs/v1.4.x/Zhaoxi_v1.4.5_Dashboard_Control_Plane_开发任务书.md:1798`).
- A message to the group is recorded with the time at which the visit began
  (`internal_activity/activities/social.py:130`, `179`), before the model is
  asked, so the next one may come that much earlier than the cooldown after it
  was sent. `SpeaksInTurn` counts the rest from the visit.
- A kill in the middle of an activity leaves it not dirty. Work whose ticks last
  as long as its interval keeps play out: `PlayIsNotStarved` assumes a longer
  interval. "Only runnable debt blocks leisure" (`runtime.py:313`), yet debt
  that only the day's budget refuses blocks it until midnight.
- The guard against answering bots reads before the message waits for
  `_direct_lock` (`perception/runtime.py:115`): two messages of one bot in flight
  are both answered, where `docs/v1.3.x/Zhaoxi_v1.3.2_开发记录.md:38` has one
  reply at most. A merged message whose first part is delivered again alone is
  answered again. An answer partly sent, or not confirmed, is not recorded and
  the guard does not see it. A lost connection may leave a row pending until the
  next start, and then it is not answered. The guard sees the 30 newest answers
  in the group (`perception/reply_guard.py:35-36`, `cognitive_stream/store.py:121-125`),
  those to the owner and to other members included: after 30 of them the bot is
  answered again though the owner has said nothing; `BotWaitsForOwner` says so.

Memory:

- A save of a copy read before (`_activate_selected`, organize, update,
  maintain) makes a forgotten memory retrievable again, although
  `ForgetMemoryTool` (`tools/builtin/memory_tools.py`) says it no longer is.
  `NoRevival` excepts the saves of stale copies (`stale`), and consolidation,
  which archives its sources whatever their status, a forgotten one included.
  Stale copies also overwrite `cluster_id`.
- A pin set while maintenance runs is lost and the memory may be retired,
  although `PinMemoryTool` says pinned memories are exempt.
- A fault between the save of the previous memory as superseded and the creation
  of its heir (`memory/service.py:134`) loses both; `HasHeir` excepts these
  (`orphaned`).
- `find_by_normalized_content` looks at the row updated last only, so a closed
  row hides an older live duplicate. Equal facts are compared within one page
  (100, or 40 in `memory_gardening`) and may never meet.
- Consolidation, not modelled: `_fit_batch` stops at the first candidate that
  does not fit, so an oversized cluster at the head blocks the rest
  (`memory/consolidation.py:198`), and `episodes_since_consolidation_check` loses
  updates.

Other parts:

- A restore's safeguard backup applies the retention and may delete the backup
  being restored; the restore is not atomic across stores.
- The beat: the session may be gone when a remark comes back from the sink or the
  pending events (`proactive/worker.py:213`), which raises after the remark is
  stored; `checked` is computed before the wait for `delivery_lock` (line 218); a
  remark cut short after its row was written is not paid for.

## 7. What is only checked, and what is left out

Model-checked but not proved:

- liveness under fairness, in `Workflow`, `Proactive`, `Maintenance`,
  `InternalActivity`, `Perception` and `Memory`: out of the prover's reach.

Every invariant and every safety action property of a run is proved.

The list of hazards in `PROJECT.json` holds those with a
property; known ones without a place there: a second click on an answered
question (`interfaces/gateway.py:491`), answers interrupted and goals left
running by a restart (`planner/runtime.py:173`, `217`), an outcome lost with the
request that was cut short (`core/agent.py:1670`), and those named in section 6.

Abstractions, by module:

- **Permission**: a call is one value for its name, argument digest and
  resource scope; validation of arguments and truncation of output change no
  permission state.
- **AgentBatch**: conversation records and traces are left out; a call the
  safety rules block is one skipped at will.
- **ModelCalls**: wording of errors and metrics; a budget without a policy is
  one without reserve and extension.
- **AgentLoop**: fingerprints of repeated calls (the other locks imply them for
  the properties here), interim replies and schemas. A request that ended can be
  regenerated.
- **Workflow**: the expression language (a branch goes either way), the
  management overrides, traces, and the `RecursionError` an endless definition
  would end in. A step may ask a gateway with a store in SQLite or, as the
  executor has by default, in memory. `OperationsEnd` is claimed for definitions
  that name their successors.
- **Planner**: one goal; prompts, memories and texts. `cancel` may come at any
  await, as its class contract and the v0.3 plan (lines 32 and 564) intend.
  A response of several calls cut short is stored without its attempts;
  `AttemptsBounded` excepts that case (`lost`) and the hazard is listed.
- **Proactive**: one reminder; which rows are the oldest, when a deferral is
  over and how long the pause between decisions is are left open. Events of
  priority INFO and the commands of the shells are left out; the beat has its own
  module. `ToldOnce` counts stored deliveries: a push lost to
  a preemption is not repeated by the code. The worker looks for what was told
  among the newest 1000 deliveries (`list_deliveries(1000)`, `worker.py:43`), in
  the model among all. A write under way when its writer is cancelled or the
  process dies has landed at once or never does.
- **Session**: tool messages, the segments and quotes of a reply, thumbnails,
  pages of the history. A message is its identity, so one sent again after a
  clear keeps its first time, which matters only for where a delivery is put.
  The agent's part of a turn gives a reply or fails.
- **Maintenance**: metrics, durations, the trimming of old payloads, and jobs of
  equal id (enqueue leaves a stored id as it is).
- **Cognition**: the overview and the other two collections, which take the same
  steps as the threads; the model's texts and the checks of its patch (which
  operations it may hold is a free choice within them). The instance does not
  combine a list out of order with edits, expiry or other members' messages; the
  proofs do.
- **InternalActivity**: in the instance only the walk reads the group (with
  `social_lurk` among the `Readers`, as in the theorems, it is too large); receipts and events, the perception activity's own pace
  and queue, settings other than the social switch, which candidates need a
  model, leisure not counted for want of evidence, the idle and sleeping
  presences, forced presence, clean-up of the daily files.
- **Perception**: images and look-ups of quoted messages, sources other than QQ
  with the planner's gate, the fast lane, the ledger's text, the contents of
  sessions, ambient messages of the owner, the expiry of observations, an
  orderly stop, the guard's look-back of 24 hours (an older answer is out of its
  sight too) and the 200 events among which it looks for the owner's word (it then
  only answers less), and a crash between `commit_batch` and the stream's record.
- **Memory**: heat, evidence, confidence, clusters, entities and embeddings only
  choose what an operation reads and which duplicate survives: free choices.
  ACTIVE, COLD, DORMANT and ARCHIVED are one status. The keeper's own organizing
  is left out, since both activities pass `organize=False`, and so is the choice
  of what to consolidate.
- **Beat**: the continuation, which only works where there is no beat; forced
  presence; momentum, the open thread and the text. Whether a window, a silence,
  a cool-down, quiet hours or a busy desktop stands in the way is a free choice,
  so the theorems do not rest on them. A remark and another delivery share the
  store and nothing else. A remark whose row is being written when the owner
  enters is stored in that step or never (`Enter`), in the code perhaps a moment
  later, when the thread that writes it gets to it.

Not modelled at all are the parts marked so in `PROJECT.json`, with the reason.
The map covers about one line in seven of `src/zhaoxi` and its plugins. What it
leaves out is for the most part not stateful in a way steps interleave on: the
HTTP routes and pages of the shells, the command line, observability, prompts
and other text assembly, parsing and schemas, ranking and embeddings, SQL, and
the tools' effects on files and devices. The stateful rest is in the plan.

## 8. Plan

Modules still worth writing:

1. **Storage**: backup, retention and restore of several databases with a crash
   at any step, over the task supervisor's shutdown.
2. **Consolidation** (the choice of what to consolidate, its counters) with
   **Reflection** (one record per period, its failure state).
3. **Decisions**: a follow-up asked once, journals against edits.
4. The voice runtime's states.

Theorems: what section 7 lists as model-checked only is out of the prover's
reach, so what is left to prove belongs to these modules.
