\* checkRbac's promise may reject (a failed permission lookup): is every
\* request still answered?
CONSTANTS
    NONE = NONE
    UPDATE_FEATURE = UPDATE_FEATURE
    PermNames <- MCPermNames
    Calls <- MCCalls
    Reqs = {r1}
    RbacMayReject = TRUE
    FileHandlerMayReject = FALSE

SPECIFICATION Spec

PROPERTY EveryRequestAnswered

CHECK_DEADLOCK FALSE
