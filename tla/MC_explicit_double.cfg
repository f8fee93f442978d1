\* Two tests given the same explicit TestValidatorPorts.
CONSTANTS
    Runner = {r1, r2}
    U16Max = 7
    PortMin = 1
    PortMax = 3
    GossipSpan = 1
    MaxAttempts = 2
    ExplicitPorts <- MCExplicitOne
    ExternalPorts = {}
    MaxCopies = 2
    NoPorts = NoPorts
SPECIFICATION Spec
INVARIANTS
    NoDoubleReservation
CHECK_DEADLOCK FALSE
