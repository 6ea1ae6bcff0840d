\* Four requests, a server that may close, a handler installed late.
SPECIFICATION FairClientSpec
CONSTANTS
    MaxRequests = 4
    PartialWrites = FALSE
INVARIANTS
    CalledOnce
    RepliesMatch
PROPERTIES
    ServerIsService
    CallsReturn
\* The pages stop asking.
CHECK_DEADLOCK FALSE
