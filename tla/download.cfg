SPECIFICATION FairSpec
CONSTANTS
    d1 = d1
    d2 = d2
    None = None
    Zero = Zero
    Transfers <- TwoTransfers
    Source <- TwoSources
    StaleParts <- AnyPart
    Overlap = FALSE
    Episodes <- AloneOrBoth
    Cap = 1
    MaxLinks = 2
    MaxCancels = 2
    MaxDiskErrors = 1
CHECK_DEADLOCK FALSE
INVARIANTS TypeOK SuccessMeansIntact
PROPERTIES SettledLeftOnlyByHandler LiveIsLeft
