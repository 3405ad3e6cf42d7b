SPECIFICATION Spec
CONSTANTS
    a1 = a1
    t1 = t1
    t2 = t2
    Agents <- OneAgent
    Tasks <- OneTask
    Target <- AllToA1
    Priority <- SamePriority
    Conns = {c1, c2}
    Handlers = {h1}
    NoConn = NoConn
    NoTask = NoTask
    NoAgent = NoAgent
    NULL = NULL
    ReapAfter = 1
    MaxAge = 0
    MaxDefer = 1
    SendCap = 1
    Verdicts = {"success"}
    MaxConcurrent = 1
    Budget <- AnyFault
SYMMETRY ConnSymmetry
CHECK_DEADLOCK FALSE
INVARIANTS TypeOK NoStrandedTask DispatchedStamped NoEarlyRelease AgentVerdictEarned
