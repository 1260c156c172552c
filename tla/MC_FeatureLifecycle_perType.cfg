\* Handlers of different event types interleave (spec.md section 5): a
\* metrics handler decides from a stage read before an archive landed.
CONSTANTS
    Features = {f1}
    dev = dev
    prod = prod
    unknown = unknown
    Envs <- MCEnvs
    EnvType <- MCEnvType
    MaxEvents = 4
    Delivery = "perType"

SPECIFICATION Spec

INVARIANT TransitionsFollowGraph

CHECK_DEADLOCK FALSE
