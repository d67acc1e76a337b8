\* Two io threads and the application thread; threads are interchangeable.
CONSTANTS
    IoThreads = {t1, t2}
    User = user
    NoOwner = none
    Low <- MCLow
    High <- MCHigh
    ReadSizes <- MCReadSizes
    MaxBytes <- MCMaxBytes
    MaxOps <- MCMaxOps
    MaxWrites <- MCMaxWrites
SPECIFICATION Spec
SYMMETRY ThreadSymmetry
INVARIANT NoLockCycle
\* The system stops once the bounds are spent and every handler has run.
CHECK_DEADLOCK FALSE
