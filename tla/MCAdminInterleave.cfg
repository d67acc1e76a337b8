\* A fiber write_some that takes one piece at a time: concurrent
\* AsyncSendCommand calls on fiber 0. Expected to be violated.
CONSTANTS
    MaxCommands <- MCMaxCommands
    MaxSerial <- MCMaxSerial
    PartialWrites = TRUE

SPECIFICATION Spec

INVARIANT ParametersMatchHeader

CHECK_DEADLOCK FALSE
