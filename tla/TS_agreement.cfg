CONSTANTS
    MaxConfirmations = 32
    None = None
SPECIFICATION Spec
INVARIANT
    ReportedAgreesWithCommitment
CHECK_DEADLOCK FALSE
