---------------------------- MODULE Authorization ---------------------------
(***************************************************************************)
(* What the permission system promises its users, without stores, calls or *)
(* invocation ids: a question is asked, answered once, and each of its     *)
(* grants starts at most one tool run, only while the answer is "yes".  A  *)
(* restart may forget an answer nobody was told, never a refusal that was. *)
(* Permission.tla implements this specification.                           *)
(***************************************************************************)
CONSTANTS Confirmations, Grants, None

VARIABLES
    status,   \* [Confirmations -> Status]
    owner,    \* the confirmation each grant was given on
    spent,    \* grants that have started a tool run
    told      \* confirmations whose refusal the user was told

vars == <<status, owner, spent, told>>

Status == {"new", "open", "approved", "refused", "lost"}

\* What a restart may make of each status; a question never stored is lost,
\* and an open one may be refused by the start-up.
Reload(s) == CASE s = "new"      -> {"new"}
               [] s = "open"     -> {"open", "refused", "lost"}
               [] s = "approved" -> {"approved", "open", "refused", "lost"}
               [] s = "refused"  -> {"refused", "open", "lost"}
               [] s = "lost"     -> {"lost"}

Init ==
    /\ status = [c \in Confirmations |-> "new"]
    /\ owner = [g \in Grants |-> None]
    /\ spent = {}
    /\ told = {}

Ask(c) ==
    /\ status[c] = "new"
    /\ status' = [status EXCEPT ![c] = "open"]
    /\ UNCHANGED <<owner, spent, told>>

\* The first grant comes with the approval ...
Approve(c, g) ==
    /\ status[c] = "open" /\ owner[g] = None /\ g \notin spent
    /\ status' = [status EXCEPT ![c] = "approved"]
    /\ owner' = [owner EXCEPT ![g] = c]
    /\ UNCHANGED <<spent, told>>

\* ... and the members of a batch get theirs later.
Share(c, g) ==
    /\ status[c] = "approved" /\ owner[g] = None /\ g \notin spent
    /\ owner' = [owner EXCEPT ![g] = c]
    /\ UNCHANGED <<status, spent, told>>

Refuse(c) ==
    /\ status[c] = "open"
    /\ status' = [status EXCEPT ![c] = "refused"]
    /\ UNCHANGED <<owner, spent, told>>

TellRefusal(c) ==
    /\ status[c] = "refused"
    /\ told' = told \cup {c}
    /\ UNCHANGED <<status, owner, spent>>

Spend(g) ==
    /\ g \notin spent
    /\ owner[g] # None /\ status[owner[g]] = "approved"
    /\ spent' = spent \cup {g}
    /\ UNCHANGED <<status, owner, told>>

Restart ==
    /\ status' \in [Confirmations -> Status]
    /\ \A c \in Confirmations : status'[c] \in Reload(status[c])
    /\ owner' \in [Grants -> Confirmations \cup {None}]
    /\ \A g \in Grants : owner'[g] \in {owner[g], None}
    /\ told \subseteq told' /\ told' \subseteq Confirmations
    /\ \A c \in told' : status'[c] = "refused"
    /\ UNCHANGED spent

Next ==
    \/ Restart
    \/ \E c \in Confirmations :
          \/ Ask(c) \/ Refuse(c) \/ TellRefusal(c)
          \/ \E g \in Grants : Approve(c, g) \/ Share(c, g)
    \/ \E g \in Grants : Spend(g)

Spec == Init /\ [][Next]_vars
=============================================================================
