\* Three clicks whose requests may fail, one focus revalidation, and the
\* unawaited refetch: the star converges to the server.
SPECIFICATION Spec
CONSTANTS
    MaxClicks = 3
    MaxFocus = 1
INVARIANT TypeOK
 
\* Once every request and fetch has settled the page waits for the user.
CHECK_DEADLOCK FALSE
