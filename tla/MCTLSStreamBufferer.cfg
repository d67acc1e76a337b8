\* The safety and liveness run of the buffered TLS adapter.
CONSTANTS
    Low <- MCLow
    High <- MCHigh
    Rec <- MCRec
    MaxBytes <- MCMaxBytes
    MaxOps <- MCMaxOps
    ReadSizes <- MCReadSizes
    MaxWrites <- MCMaxWrites
    ExecutorReads = TRUE
    ReadsAfterClose = FALSE

SPECIFICATION Spec

INVARIANT TypeOK
INVARIANT NoByteLost
INVARIANT BufferBound
INVARIANT OnePullWhileOpen
INVARIANT PullingFlagTracksLoop

PROPERTY ImplementsStream


\* The adapter really stops: after close() every handler has run, and the
\* bounded user and peer have no step left.
CHECK_DEADLOCK FALSE
