---------------------------- MODULE MCAgentBatch ----------------------------
(* A response of a look-up, two deletions, merged into one            *)
(* confirmation, and a message that is asked about on its own.              *)
EXTENDS AgentBatch, TLC

CONSTANTS c1, c2, g1, g2, g3, g4, i1, i2, b1, b2, deleteA, deleteB, send, look

MCKind == [call \in Calls |->
    CASE call = look -> [tool |-> "other", level |-> "read", effects |-> {"none"},
                         highImpact |-> FALSE]
      [] call = send -> [tool |-> "other", level |-> "external_action",
                         effects |-> {"external_communication"}, highImpact |-> FALSE]
      [] OTHER       -> [tool |-> "forget_memory", level |-> "delete",
                         effects |-> {"data_deletion"}, highImpact |-> FALSE]]

MCTool == [call \in Calls |-> MCKind[call].tool]

MCPolicies == [level \in Levels |->
                 CASE level = "read" -> "allow"
                   [] level = "dangerous" -> "deny"
                   [] OTHER -> "require_confirmation"]

MCIntents == {{}, {"read_only"}}

LookDeleteSend == <<look, deleteA, deleteB, send>>
Symmetry == Permutations(Confirmations) \cup Permutations(Grants)
            \cup Permutations(Invocations) \cup Permutations(BatchInvocations)
=============================================================================
