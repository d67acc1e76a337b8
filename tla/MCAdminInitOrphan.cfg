\* A create reply that comes after the coroutine gave up.
CONSTANTS
    MaxCommands <- MCInitMaxCommands
    MaxSerial <- MCInitMaxSerial
    PartialWrites = FALSE
    RemoteServices <- MCRemoteServices
    RetryCount <- MCRetryCount
    ServerCommands <- MCServerCommands

SPECIFICATION Spec

PROPERTY NoOrphanService

\* Both peers stop once initialization is reported and the bounded commands
\* are answered.
CHECK_DEADLOCK FALSE
