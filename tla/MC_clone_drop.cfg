\* One test that clones its runner handle and drops a clone.
CONSTANTS
    Runner = {r1}
    U16Max = 7
    PortMin = 1
    PortMax = 3
    GossipSpan = 1
    MaxAttempts = 2
    ExplicitPorts <- MCExplicitOne
    ExternalPorts = {}
    MaxCopies = 2
    NoPorts = NoPorts
SPECIFICATION Spec
INVARIANTS
    RegistryCoversLive
CHECK_DEADLOCK FALSE
