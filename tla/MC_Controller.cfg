\* Every registration entry point, a request to any of them, checkRbac
\* that grants or denies: permission is checked before anything else and
\* the lookup may reject; AuthorizationFirst still holds.
CONSTANTS
    NONE = NONE
    UPDATE_FEATURE = UPDATE_FEATURE
    PermNames <- MCPermNames
    Calls <- MCCalls
    Reqs = {r1}
    RbacMayReject = TRUE
    FileHandlerMayReject = TRUE

SPECIFICATION Spec

INVARIANTS
    TypeOK
    AuthorizationFirst

\* Once both requests are answered the server idles waiting for clients.
CHECK_DEADLOCK FALSE
