SPECIFICATION Spec
CONSTANTS
    c1 = c1
    c2 = c2
    c3 = c3
    g1 = g1
    g2 = g2
    None = None
    Calls <- Three
    Agents = {1, 2}
    GroupIds = {g1, g2}
    Episodes <- SomeDays
    Groups0 <- TwoGroups
    AuthRequired = TRUE
    Retention = 1
    MaxDay = 2
    MaxFaults = 1
    RefCap = 1
CHECK_DEADLOCK FALSE
INVARIANTS TypeOK TargetsOfTheTime EffectsTraced DeniedStaysOut ExitCodesEarned
PROPERTIES UndoesOnlyUnseen OrphanOnlyByLateCancel
