CHECK_DEADLOCK FALSE
SPECIFICATION Spec
CONSTANTS
    Layouts <- MCLayouts
    Fees = {0, 1}
    MaxEpoch = 3
INVARIANTS
    WalkersAgreeWithTheTokenProgram
PROPERTIES
    FeeChangesAsAnnounced
