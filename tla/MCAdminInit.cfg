\* The client's initialization over the command table of both peers.
CONSTANTS
    MaxCommands <- MCInitMaxCommands
    MaxSerial <- MCInitMaxSerial
    PartialWrites = FALSE
    RemoteServices <- MCRemoteServices
    RetryCount <- MCRetryCount
    ServerCommands <- MCServerCommands

SPECIFICATION Spec

INVARIANT TypeOK
INVARIANT HandlerMatchesReply
INVARIANT NotifiedOnlyIfRunning

PROPERTY RepliesHandled
PROPERTY InitializationReported

\* Both peers stop once initialization is reported and the bounded commands
\* are answered.
CHECK_DEADLOCK FALSE
