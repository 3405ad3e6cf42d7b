SPECIFICATION Spec
CONSTANTS
    d1 = d1
    d2 = d2
    None = None
    Zero = Zero
    Transfers <- TwoTransfers
    Source <- TwoSources
    StaleParts <- NoPart
    Overlap = TRUE
    Episodes <- OnlyBoth
    Cap = 1
    MaxLinks = 1
    MaxCancels = 0
    MaxDiskErrors = 0
CHECK_DEADLOCK FALSE
PROPERTIES VerifiedStays
