---------------------------- MODULE MCProactive -----------------------------
(* A reminder of every kind and misfire policy, an ordinary remark and an   *)
(* urgent one, with a buffer for two events.                                *)
EXTENDS Proactive

CONSTANTS remark, alarm

MCStarts ==
    { [kind |-> "interval", misfire |-> p, known |-> {remark}] : p \in {"skip", "fire_once"} }
    \cup { [kind |-> "once", misfire |-> "expire", known |-> {}] }

MCRank(e) == CASE e = remark -> 1 [] e = alarm -> 3 [] OTHER -> 2
=============================================================================
