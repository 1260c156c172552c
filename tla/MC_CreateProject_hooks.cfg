\* Does every render of the mounted form call the same hooks when the
\* newCreateProjectUI flag changes under it?
CONSTANTS
    Subs = {s1}

SPECIFICATION Spec

INVARIANT HooksConsistent

CHECK_DEADLOCK FALSE
