\* One io thread and the application thread: the races need no second
\* io thread, only close() called from the application.
CONSTANTS
    IoThreads = {t1}
    User = user
    NoOwner = none
    Low <- MCLow
    High <- MCHigh
    ReadSizes <- MCReadSizes
    MaxBytes <- MCMaxBytes
    MaxOps <- MCMaxOps
    MaxWrites <- NoWrites
SPECIFICATION Spec
INVARIANT NoRaceOnQueues
\* The system stops once the bounds are spent and every handler has run.
CHECK_DEADLOCK FALSE
