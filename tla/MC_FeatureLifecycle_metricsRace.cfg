\* Metrics handlers interleave as section 5 says they may ("concurrent
\* metrics events for the same feature could race"), as they do on the
\* unit test's plain EventEmitter: does a live feature ever regress?
CONSTANTS
    Features = {f1}
    dev = dev
    prod = prod
    unknown = unknown
    Envs <- MCEnvs
    EnvType <- MCEnvType
    MaxEvents = 3
    Delivery = "concurrent"

SPECIFICATION Spec

PROPERTY NoRegression

CHECK_DEADLOCK FALSE
