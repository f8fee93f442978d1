\* One test with explicit ports whose pubsub is not rpc + 1, one with random ports.
CONSTANTS
    Runner = {r1, r2}
    U16Max = 7
    PortMin = 1
    PortMax = 3
    GossipSpan = 1
    MaxAttempts = 2
    ExplicitPorts <- MCExplicitSkewed
    ExternalPorts = {}
    MaxCopies = 1
    NoPorts = NoPorts
SPECIFICATION Spec
SYMMETRY MCSymmetry
INVARIANT
    ValidatorSocketsReserved
\* A test binary ends once every test has finished.
CHECK_DEADLOCK FALSE
