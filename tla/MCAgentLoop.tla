---------------------------- MODULE MCAgentLoop ----------------------------
(* The model calls a tool twice, two tools, or looks for tools first.      *)
EXTENDS AgentLoop

CONSTANTS read, write

MCResponses ==
    {<<write, write>>, <<read, write>>, <<"expand", write>>, <<"expand">>, <<"look">>}
=============================================================================
