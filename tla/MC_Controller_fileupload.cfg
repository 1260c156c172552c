\* fileupload's async file handler may reject (a failed upload): is every
\* request still answered?
CONSTANTS
    NONE = NONE
    UPDATE_FEATURE = UPDATE_FEATURE
    PermNames <- MCPermNames
    Calls <- MCCalls
    Reqs = {r1}
    RbacMayReject = FALSE
    FileHandlerMayReject = TRUE

SPECIFICATION Spec

PROPERTY EveryRequestAnswered

CHECK_DEADLOCK FALSE
