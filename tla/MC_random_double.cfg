\* Two tests with random ports: find_ports runs when the props are built.
CONSTANTS
    Runner = {r1, r2}
    U16Max = 7
    PortMin = 1
    PortMax = 3
    GossipSpan = 1
    MaxAttempts = 2
    ExplicitPorts <- MCExplicitNone
    ExternalPorts = {}
    MaxCopies = 2
    NoPorts = NoPorts
SPECIFICATION Spec
INVARIANTS
    NoDoubleReservation
CHECK_DEADLOCK FALSE
