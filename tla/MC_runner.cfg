\* Two tests, each with explicit or random ports, up to two handle clones;
\* the code's own steps and the collaborators' answers are fair.
CONSTANTS
    Runner = {r1, r2}
    U16Max = 7
    PortMin = 1
    PortMax = 3
    GossipSpan = 1
    MaxAttempts = 2
    ExplicitPorts <- MCExplicitBoth
    ExternalPorts = {}
    MaxCopies = 2
    NoPorts = NoPorts
SPECIFICATION FairSpec
INVARIANTS
    TypeOK
    RegistryAccounted
    ServicesBoundWhileLive
PROPERTIES
    StartupSettles
\* A test binary ends once every test has finished.
CHECK_DEADLOCK FALSE
