SPECIFICATION Spec
CONSTANTS
    Conns = {c1, c2}
    Grace = 2
INVARIANTS
    LInv
    PoolOutlivesRequests
    ExitIsGraceful
    NoDeadlock
PROPERTIES
    SignalEndsProcess
    ImplementsGracefulStop
CHECK_DEADLOCK FALSE
