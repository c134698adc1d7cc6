CONSTANTS
    Tools = {"read", "write"}
    Confirmed = {"write"}
    MaxRounds = 2
    MaxReplans = 1
    MaxAttempts = 2
    MaxPlan = 2
    MaxResponse = 2
    MaxPauses = 1
SPECIFICATION Spec
INVARIANTS AttemptsBounded
PROPERTIES NothingRunsOnceCancelled
