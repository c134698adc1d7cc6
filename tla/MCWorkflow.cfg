CONSTANTS
    Setups <- All
    MaxSteps = 3
    MaxCalls = 2
SPECIFICATION Spec
INVARIANTS EffectNeedsApproval
PROPERTIES CompletedStepNotRerun OperationsEnd
