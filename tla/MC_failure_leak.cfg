\* One test whose start-up fails after its ports were marked.
CONSTANTS
    Runner = {r1}
    U16Max = 7
    PortMin = 1
    PortMax = 3
    GossipSpan = 1
    MaxAttempts = 2
    ExplicitPorts <- MCExplicitOne
    ExternalPorts = {}
    MaxCopies = 2
    NoPorts = NoPorts
SPECIFICATION Spec
INVARIANTS
    NoLeakOnFailure
CHECK_DEADLOCK FALSE
