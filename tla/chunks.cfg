SPECIFICATION Spec
CONSTANTS
    Data <- Letters
    NoData = "none"
    TotalChunks = 8
    File <- EightChunks
    ResumeAt = 1
    MaxPending = 3
CHECK_DEADLOCK FALSE
INVARIANTS DiskIsPrefix FinishedIsWhole BufferBounded AllSentAllWritten
