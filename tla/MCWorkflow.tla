----------------------------- MODULE MCWorkflow -----------------------------
(* Definitions of workflows for TLC.                                       *)
EXTENDS Workflow

Step(type, next, onFailure, attempts, policies) ==
    [type |-> type, next |-> next, onTrue |-> NoStep, onFalse |-> NoStep,
     onFailure |-> onFailure, attempts |-> attempts, policies |-> policies]

Branch(onTrue, onFalse) ==
    [Step("condition", NoStep, NoStep, 1, {"allow"}) EXCEPT !.onTrue = onTrue, !.onFalse = onFalse]

\* A question, a branch, a tool with a retry and a handler for its failure.
Asking ==
    << Step("ask", 2, NoStep, 1, {"allow"}),
       Branch(3, 4),
       Step("tool", 4, 4, 2, {"confirm", "allow", "deny"}),
       Step("set", 5, NoStep, 1, {"allow"}),
       Step("end", NoStep, NoStep, 1, {"allow"}) >>

\* Two tools in a row.
TwoTools ==
    << Step("tool", 2, NoStep, 2, {"confirm", "allow"}),
       Step("tool", 3, 3, 1, {"confirm"}),
       Step("end", NoStep, NoStep, 1, {"allow"}) >>

\* Step 2 has no declared successor and falls through to step 3, so that a
\* failure of step 4 leads back to both tools.
Looping ==
    << Step("set", 3, NoStep, 1, {"allow"}),
       Step("set", NoStep, NoStep, 1, {"allow"}),
       Step("tool", 4, NoStep, 1, {"allow"}),
       Step("tool", 5, 2, 1, {"allow"}),
       Step("end", NoStep, NoStep, 1, {"allow"}) >>

With(flow, persisted) == [flow |-> flow, persisted |-> persisted]

All == {With(Asking, TRUE), With(TwoTools, FALSE), With(Looping, TRUE)}
=============================================================================
