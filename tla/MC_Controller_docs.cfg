\* Does the OpenAPI document of each routeWithOpenApi route list the 403
\* and 415 that its checkPermission and content-type middleware send?
CONSTANTS
    NONE = NONE
    UPDATE_FEATURE = UPDATE_FEATURE
    PermNames <- MCPermNames
    Calls <- MCCalls
    Reqs = {r1}
    RbacMayReject = FALSE
    FileHandlerMayReject = FALSE

SPECIFICATION Spec

INVARIANT DocumentedErrorCodes

CHECK_DEADLOCK FALSE
