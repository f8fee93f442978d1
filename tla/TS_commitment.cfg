CONSTANTS
    MaxConfirmations = 32
    None = None
SPECIFICATION Spec
INVARIANTS
    TypeOK
    CommitmentLevelsNested
PROPERTIES
    SatisfactionStable
CHECK_DEADLOCK FALSE
