\* One io thread and the application thread calling write_some while the
\* pull loop reads in the strand.
CONSTANTS
    IoThreads = {t1}
    User = user
    NoOwner = none
    Low <- MCLow
    High <- MCHigh
    ReadSizes <- MCReadSizes
    MaxBytes <- MCMaxBytes
    MaxOps <- MCMaxOps
    MaxWrites <- MCMaxWrites
SPECIFICATION Spec
INVARIANT NoRaceOnEngine
\* The system stops once the bounds are spent and every handler has run.
CHECK_DEADLOCK FALSE
