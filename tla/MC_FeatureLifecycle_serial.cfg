\* Handlers run one at a time: the transition table with no race, and the
\* liveness of production traffic.
CONSTANTS
    Features = {f1, f2}
    dev = dev
    prod = prod
    unknown = unknown
    Envs <- MCEnvs
    EnvType <- MCEnvType
    MaxEvents = 7
    Delivery = "serial"

SPECIFICATION Spec

INVARIANTS
    TypeOK
    TransitionsFollowGraph

PROPERTIES
    ProdTrafficGoesLive

\* The event sources may fall silent: a quiet bus with nothing pending is
\* a real resting state of the service.
CHECK_DEADLOCK FALSE
