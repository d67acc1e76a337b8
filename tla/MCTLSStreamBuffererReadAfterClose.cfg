\* A user read issued after close(), with a successful socket read whose
\* handler is still queued when close() runs.
CONSTANTS
    Low <- MCLow
    High <- MCHigh
    Rec <- MCRec
    MaxBytes <- MCMaxBytes
    MaxOps <- MCMaxOps
    ReadSizes <- MCReadSizes
    MaxWrites <- MCMaxWrites
    ExecutorReads = FALSE
    ReadsAfterClose = TRUE

SPECIFICATION Spec

PROPERTY ImplementsStream

\* The adapter really stops: after close() every handler has run, and the
\* bounded user and peer have no step left.
CHECK_DEADLOCK FALSE
