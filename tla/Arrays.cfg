SPECIFICATION Spec
CONSTANTS
    pool = pool
    otherPool = otherPool
    Null = Null
    Pool = pool
    Ranges <- MCRanges
    TickSpacing <- MCTickSpacing
    Addresses <- MCAddresses
INVARIANTS
    TypeOK
    ArraysHoldTheRange
    AccountListsAgree
