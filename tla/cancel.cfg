SPECIFICATION FairSpec
CONSTANTS
    a1 = a1
    t1 = t1
    t2 = t2
    Agents <- OneAgent
    Tasks <- OneTask
    Target <- AllToA1
    Priority <- SamePriority
    Conns = {c1}
    Handlers = {h1, h2}
    NoConn = NoConn
    NoTask = NoTask
    NoAgent = NoAgent
    NULL = NULL
    ReapAfter = 1
    MaxAge = 1
    MaxDefer = 0
    SendCap = 1
    Verdicts = {"success"}
    MaxConcurrent = 1
    Budget <- CancelFault
CHECK_DEADLOCK FALSE
INVARIANTS TerminalHasResult
PROPERTIES ImplementsLedger TerminalLeftOnlyByStaleWrite WatchedIsLeft
