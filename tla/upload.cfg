SPECIFICATION FairSpec
CONSTANTS
    u1 = u1
    u2 = u2
    None = None
    Transfers <- TwoTransfers
    Source <- TwoSources
    StaleParts <- AnyPart
    Episodes <- AloneOrBoth
    Cap = 1
    MaxLinks = 2
    MaxCancels = 2
    MaxDiskErrors = 1
CHECK_DEADLOCK FALSE
INVARIANTS TypeOK SuccessMeansDelivered ChunksInOrder
PROPERTIES SettledLeftOnlyByPump LiveIsLeft
