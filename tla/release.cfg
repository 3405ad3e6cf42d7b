SPECIFICATION FairSpec
CONSTANTS
    a1 = a1
    a2 = a2
    Tasks = {1, 2}
    Agents <- TwoAgents
    Target <- OnePerAgent
    Base = 2
    Backstop = 4
    WriteWait = 2
    MaxAt = 6
    Horizon = 14
    MaxFaults = 1
    Off = Off
CHECK_DEADLOCK FALSE
INVARIANTS TypeOK ReleasedInTime
PROPERTIES EarlyBySameSecond EveryReleaseComes
