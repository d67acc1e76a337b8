\* The spec's "exactly one pull outstanding at any time", checked against
\* close(): expected to be violated.
CONSTANTS
    Low <- MCLow
    High <- MCHigh
    Rec <- MCRec
    MaxBytes <- MCMaxBytes
    MaxOps <- MCMaxOps
    ReadSizes <- MCReadSizes
    MaxWrites = 0
    ExecutorReads = FALSE
    ReadsAfterClose = FALSE

SPECIFICATION Spec

INVARIANT AtMostOnePull

CHECK_DEADLOCK FALSE
