SPECIFICATION AgentSpec
CONSTANTS
    c1 = c1
    c2 = c2
    g1 = g1
    g2 = g2
    g3 = g3
    g4 = g4
    i1 = i1
    i2 = i2
    b1 = b1
    b2 = b2
    deleteA = deleteA
    deleteB = deleteB
    send = send
    look = look
    None = None
    Confirmations = {c1, c2}
    Grants = {g1, g2, g3, g4}
    Invocations = {i1, i2}
    BatchInvocations = {b1, b2}
    Calls = {look, deleteA, deleteB, send}
    Origins = {"agent"}
    Kind <- MCKind
    Tool <- MCTool
    Policies <- MCPolicies
    Intents <- MCIntents
    Response <- LookDeleteSend
    MaxReplies = 2
SYMMETRY Symmetry
CHECK_DEADLOCK FALSE
INVARIANTS OneRunPerGrant RunsBoundedByApprovals OpenQuestionHasAWait
PROPERTIES KeepsPromise
