----------------------------- MODULE AgentBatch -----------------------------
(***************************************************************************)
(* The agent's pause on a permission and its resumption, composed with the *)
(* permission gateway: one model response is a frozen sequence of tool     *)
(* calls, consecutive calls of one tool are merged into one confirmation,  *)
(* and the user may approve some of its members.                           *)
(*   core/agent.py  _run_loop (the loop over tool calls),                  *)
(*                  _handle_pending_permission_input,                      *)
(*                  resolve_permission_batch, _execute_remaining_calls     *)
(*                                                                         *)
(* One turn runs at a time (the conversation gateway's lock).  The only    *)
(* suspension point is the running tool: there a timeout may cancel the    *)
(* coroutine, or the tool may raise, after it has had its effect.          *)
(***************************************************************************)
EXTENDS Permission, Sequences, FiniteSetsExt

CONSTANT Response,   \* the tool calls of one model response, in order
         MaxReplies  \* how often the user answers

\* A response is a sequence of calls; "no wait" is no wait.
ASSUME ResponseAssumption ==
    /\ Response \in Seq(Calls) /\ MaxReplies \in Nat /\ "agent" \in Origins
    /\ None \notin [first : DOMAIN Response, last : DOMAIN Response, inv : Invocations]

Positions == DOMAIN Response

VARIABLES
    task,     \* the coroutine that holds the turn
    waits,    \* agent._pending_permissions
    ran,      \* history: how often the call at a position was started
    chosen,   \* history: how often the user approved a position
    clicks,   \* button answers waiting for the gateway's lock, in order
    replies   \* number of answers given so far

agentVars == <<task, waits, ran, chosen, clicks, replies>>
allVars   == <<vars, agentVars>>

NoTask == [kind |-> "none", conf |-> None, pos |-> 0, approved |-> {}, forced |-> FALSE]

AgentInit ==
    /\ Init
    /\ task = [NoTask EXCEPT !.kind = "turn", !.pos = 1]
    /\ waits = [c \in Confirmations |-> None]
    /\ ran = [p \in Positions |-> 0]
    /\ chosen = [p \in Positions |-> 0]
    /\ clicks = <<>>
    /\ replies = 0

-----------------------------------------------------------------------------
\* _mergeable_batch_count: the last position merged with the call at p.
BatchEnd(p) ==
    Max({ q \in p..Len(Response) : \A r \in p..q : Tool[Response[r]] = Tool[Response[p]] })

Waiting == { c \in Confirmations : waits[c] # None }

AgentRequest(inv, p) == [inv |-> inv, call |-> Response[p], origin |-> "agent"]

\* A fresh invocation id for an unmerged call.
UnusedInvocations ==
    { i \in Invocations : /\ \A c \in Confirmations :
                               pending[c] # None => pending[c].request.inv # i
                          /\ op.req # None => op.req.inv # i }

\* The next call of the response is handed to the executor; a call the policy
\* refuses is recorded as failed and the loop goes on.
CallNext ==
    /\ task.kind = "turn" /\ op = Idle
    /\ task.pos \in Positions /\ ~task.forced
    /\ \E inv \in UnusedInvocations : Execute(AgentRequest(inv, task.pos))
    /\ task' = IF op' = Idle THEN [task EXCEPT !.pos = @ + 1] ELSE task
    /\ UNCHANGED <<waits, ran, chosen, clicks, replies>>

\* A loop that is forced to finish records the call as not executed.
SkipNext ==
    /\ task.kind = "turn" /\ op = Idle
    /\ task.pos \in Positions
    /\ task' = [task EXCEPT !.pos = @ + 1]
    /\ UNCHANGED <<vars, waits, ran, chosen, clicks, replies>>

TurnEnds ==
    /\ task.kind = "turn" /\ op = Idle
    /\ task.pos \notin Positions
    /\ task' = NoTask
    /\ UNCHANGED <<vars, waits, ran, chosen, clicks, replies>>

-----------------------------------------------------------------------------
(* The user's answer.                                                      *)

Members(c) == waits[c].first .. waits[c].last

Answer(c, approved) ==
    /\ task.kind = "none" /\ op = Idle
    /\ waits[c] # None
    /\ IF approved # {} THEN Approve(c) ELSE Deny(c)
    /\ task' = [kind |-> "batch", conf |-> c, pos |-> waits[c].first, approved |-> approved,
                forced |-> FALSE]
    /\ chosen' = [p \in Positions |-> chosen[p] + IF p \in approved THEN 1 ELSE 0]
    /\ UNCHANGED <<waits, ran>>

\* In the conversation a single wait can be answered for any of its members.
AnswerByText ==
    /\ replies < MaxReplies
    /\ replies' = replies + 1
    /\ \E c \in Confirmations : /\ Waiting = {c}
                              /\ \E s \in SUBSET Members(c) : Answer(c, s)
    /\ UNCHANGED clicks

\* A button answers for all members.  Whether the record is still unresolved is
\* looked at before the lock is taken ...
Click ==
    /\ replies < MaxReplies
    /\ replies' = replies + 1
    /\ \E c \in Confirmations, yes \in BOOLEAN :
          /\ pending[c] # None /\ ~pending[c].resolved
          /\ clicks' = Append(clicks, [conf |-> c, yes |-> yes])
    /\ UNCHANGED <<vars, task, waits, ran, chosen>>

\* ... and the wait is looked up once it is held.
AnswerByButton ==
    /\ clicks # <<>>
    /\ LET click == Head(clicks)
       IN  Answer(click.conf, IF click.yes THEN Members(click.conf) ELSE {})
    /\ clicks' = Tail(clicks)
    /\ UNCHANGED replies

\* No wait: "the original task cannot be found".
ClickInVain ==
    /\ task.kind = "none" /\ op = Idle
    /\ clicks # <<>>
    /\ waits[Head(clicks).conf] = None
    /\ clicks' = Tail(clicks)
    /\ UNCHANGED <<vars, task, waits, ran, chosen, replies>>

-----------------------------------------------------------------------------
(* resolve_permission_batch: the members in order.                         *)

AtMember == /\ task.kind = "batch" /\ op = Idle
            /\ task.pos \in Members(task.conf)

SkipMember ==
    /\ AtMember
    /\ task' = [task EXCEPT !.pos = @ + 1]
    /\ UNCHANGED <<vars, waits, ran, chosen, clicks, replies>>

\* The first member resumes under the invocation id it was paused with.
FirstMember ==
    /\ AtMember
    /\ task.pos = waits[task.conf].first /\ task.pos \in task.approved
    /\ Execute(AgentRequest(waits[task.conf].inv, task.pos))
    /\ task' = IF op' = Idle THEN [task EXCEPT !.pos = @ + 1] ELSE task
    /\ UNCHANGED <<waits, ran, chosen, clicks, replies>>

\* Mutant: the user's selection is not looked at.
LaterMemberAnyway ==
    /\ AtMember
    /\ task.pos # waits[task.conf].first
    /\ \E inv \in BatchInvocations :
          ExecuteBatchMember(task.conf, AgentRequest(inv, task.pos))
    /\ UNCHANGED <<task, waits, ran, chosen, clicks, replies>>

\* A later member runs under a new id and a grant derived from the approval.
LaterMember ==
    /\ AtMember
    /\ task.pos # waits[task.conf].first /\ task.pos \in task.approved
    /\ \E inv \in BatchInvocations :
          ExecuteBatchMember(task.conf, AgentRequest(inv, task.pos))
    /\ UNCHANGED <<task, waits, ran, chosen, clicks, replies>>

\* grant_batch_member raises once the confirmation has expired: the coroutine
\* ends, the wait stays.
LaterMemberExpired ==
    /\ AtMember
    /\ task.pos # waits[task.conf].first /\ task.pos \in task.approved
    /\ task.conf \in expired
    /\ task' = NoTask
    /\ UNCHANGED <<vars, waits, ran, chosen, clicks, replies>>

\* All members have a result: the wait is dropped and the rest of the response
\* goes through the ordinary loop, which executes nothing more when a member was
\* declined.
BatchEnds ==
    /\ task.kind = "batch" /\ op = Idle
    /\ task.pos \notin Members(task.conf)
    /\ waits' = [waits EXCEPT ![task.conf] = None]
    /\ task' = [NoTask EXCEPT !.kind = "turn", !.pos = task.pos,
                              !.forced = task.approved # Members(task.conf)]
    /\ UNCHANGED <<vars, ran, chosen, clicks, replies>>

-----------------------------------------------------------------------------
(* The gateway operation in progress, seen from the coroutine.             *)

\* The call came back as "waiting for permission".  The loop files a wait for
\* the call and the calls merged with it; a resumed batch cannot use a second
\* question and ends with an error.
\* Mutant: no wait is filed for the question.
StoreQuestionForgotten ==
    /\ op.stage = "ask_pending"
    /\ PersistPending
    /\ task' = NoTask
    /\ UNCHANGED <<waits, ran, chosen, clicks, replies>>

StoreQuestion ==
    /\ op.stage = "ask_pending"
    /\ PersistPending
    /\ waits' = IF task.kind = "turn"
                THEN [waits EXCEPT ![op.conf] = [first |-> task.pos,
                                                 last  |-> BatchEnd(task.pos),
                                                 inv   |-> op.req.inv]]
                ELSE waits
    /\ task' = NoTask
    /\ UNCHANGED <<ran, chosen, clicks, replies>>

StoreRecord ==
    /\ op.stage # "ask_pending"
    /\ PersistPending \/ PersistGrant
    /\ UNCHANGED agentVars

BatchEvaluate ==
    /\ EvaluateBatchMember
    /\ task' = IF op' = Idle THEN [task EXCEPT !.pos = @ + 1] ELSE task
    /\ UNCHANGED <<waits, ran, chosen, clicks, replies>>

\* The tool runs to its end, or the coroutine is cancelled while it runs.
RunTool ==
    /\ Run
    /\ ran' = [ran EXCEPT ![task.pos] = @ + 1]
    /\ task' \in {[task EXCEPT !.pos = @ + 1], NoTask}
    /\ UNCHANGED <<waits, chosen, clicks, replies>>

StoreFails ==
    /\ WriteFails
    /\ task' = NoTask
    /\ UNCHANGED <<waits, ran, chosen, clicks, replies>>

Expires == \E c \in Confirmations : Expire(c) /\ UNCHANGED agentVars

\* A command typed between two turns revokes a grant.
Revokes == /\ task.kind = "none"
           /\ \E g \in Grants : Revoke(g)
           /\ UNCHANGED agentVars

\* Waits live in memory only; the start-up denies what they were waiting for.
Restart ==
    /\ CrashAndRestart
    /\ waits' = [c \in Confirmations |-> None]
    /\ clicks' = <<>>
    /\ task' = NoTask
    /\ UNCHANGED <<ran, chosen, replies>>

AgentNext ==
    \/ CallNext \/ SkipNext \/ TurnEnds
    \/ AnswerByText \/ Click \/ AnswerByButton \/ ClickInVain
    \/ SkipMember \/ FirstMember \/ LaterMember \/ LaterMemberExpired \/ BatchEnds
    \/ StoreQuestion \/ StoreRecord \/ BatchEvaluate \/ RunTool \/ StoreFails
    \/ Expires \/ Revokes \/ Restart

AgentSpec == AgentInit /\ [][AgentNext]_allVars

-----------------------------------------------------------------------------
(* Properties.                                                             *)

\* The calls the policy may let through without a question.
MayRunUnasked(p) ==
    \E intent \in Intents, confirmWrite \in {"on", "off"} :
        Decision(Policies, Kind[Response[p]], intent, confirmWrite).status = "allow"

\* A call the user is always asked about is started at most as often as the user chose
\* it: members left out of a selection, refused batches and batches cut short
\* run nothing by themselves (agent.resolve_permission_batch).
RunsBoundedByApprovals ==
    \A p \in Positions : MayRunUnasked(p) \/ ran[p] <= chosen[p]

\* A question of the agent that is still open can be answered: while no write
\* failed, nothing expired or was revoked and no answer was given twice, the
\* agent holds the wait that resumes the call.  (A repeated answer asks for the
\* first member again when its grant is used or revoked, and that question has
\* no wait.)
OpenQuestionHasAWait ==
    /\ op = Idle /\ ~faulty /\ expired = {}
    /\ \A g \in Grants : grants[g] # None => ~grants[g].revoked
    /\ \A p \in Positions : chosen[p] <= 1
    => \A c \in Confirmations :
          pending[c] # None /\ ~pending[c].resolved => waits[c] # None

=============================================================================
