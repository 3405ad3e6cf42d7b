SPECIFICATION FairSpec
CONSTANTS
    d1 = d1
    n1 = n1
    n2 = n2
    None = None
    Plugins <- TwoPlugins
    Listeners = {1}
    Decisions = {d1}
    Notices = {n1, n2}
    MaxHooks = 2
    MaxRuntimes = 1
    MaxLoadErrors = 1
CHECK_DEADLOCK FALSE
INVARIANTS ResourcesExact DecisionIsHeard
PROPERTIES EveryCallEnds
