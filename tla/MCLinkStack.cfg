\* Endpoint construction over every stack shape and every abstract
\* parameter stack of the right length or one short.
CONSTANTS
    Stacks <- MCStacks
    Garbage <- MCGarbage

SPECIFICATION Spec

INVARIANT ReadsWithinStack
INVARIANT SetsUsedOnce

\* Once the endpoint is built the caller has nothing more to do.
CHECK_DEADLOCK FALSE
