SPECIFICATION Spec
CONSTANTS
    read = read
    write = write
    Tools = {read, write}
    MaxSteps = 8
    ModelLimit = 2
    ToolLimit = 2
    RepairLimit = 1
    DiscoveryLimit = 1
    Responses <- MCResponses
INVARIANTS NothingRunsAfterTrouble ModelHasTheLastWord CompletedIsHonest
