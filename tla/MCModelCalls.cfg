SPECIFICATION Spec
CONSTANTS
    owner = owner
    background = background
    Requests = {owner, background}
    Limits <- MCLimits
    LastProvider = 2
    MaxAttempts = 2
    Threshold = 2
    WarnPercent = 50
    Stages = {"planning", "finalization"}
    Usages = {0, 2}
INVARIANTS ReserveIsKept OpensForItsOwnFailures
