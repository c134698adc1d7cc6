---------------------------- MODULE MCModelCalls ----------------------------
(* A request of the owner, with the budget of the interactive policy, and   *)
(* a background decision, which has one call, share two providers.          *)
EXTENDS ModelCalls

CONSTANTS owner, background

MCLimits ==
    [r \in {owner, background} |->
        IF r = owner THEN [calls |-> 4, base |-> 5, hard |-> 6, reserve |-> 2, extension |-> 1]
        ELSE [calls |-> 1, base |-> 1, hard |-> 1, reserve |-> 0, extension |-> 0]]
=============================================================================
