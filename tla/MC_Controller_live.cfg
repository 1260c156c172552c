\* checkRbac grants or denies but never rejects: every request that
\* arrives at any registered route is eventually answered.
CONSTANTS
    NONE = NONE
    UPDATE_FEATURE = UPDATE_FEATURE
    PermNames <- MCPermNames
    Calls <- MCCalls
    Reqs = {r1}
    RbacMayReject = FALSE
    FileHandlerMayReject = FALSE

SPECIFICATION Spec

PROPERTY EveryRequestAnswered

\* Once the request is answered the server idles waiting for clients.
CHECK_DEADLOCK FALSE
