\* Liveness of user reads and writes on the buffered TLS adapter, under the
\* fairness of the io_service thread and of the transport.
CONSTANTS
    Low <- MCLow
    High <- MCHigh
    Rec <- MCRec
    MaxBytes <- LiveMaxBytes
    MaxOps <- LiveRWMaxOps
    ReadSizes <- LiveReadSizes
    MaxWrites <- MCMaxWrites
    ExecutorReads = FALSE
    ReadsAfterClose = FALSE

SPECIFICATION Spec

PROPERTY ReadsComplete

\* The adapter really stops once closed and drained, or when the bounded
\* user and peer have no step left.
CHECK_DEADLOCK FALSE
