\* read_some called on the io_service thread: the thread blocks on a
\* future that only a handler of that same thread can fulfil. Expected to
\* be violated.
CONSTANTS
    Low <- MCLow
    High <- MCHigh
    Rec <- MCRec
    MaxBytes <- LiveMaxBytes
    MaxOps <- LiveMaxOps
    ReadSizes <- LiveReadSizes
    MaxWrites = 0
    ExecutorReads = TRUE
    ReadsAfterClose = FALSE

SPECIFICATION Spec

PROPERTY ReadsComplete

\* The blocked thread stops the system; the property, not the deadlock
\* check, is what this run is about.
CHECK_DEADLOCK FALSE
