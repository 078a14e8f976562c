SPECIFICATION ResolvingSpec
CONSTANTS
    Null = Null
    v1 = v1
    v2 = v2
    alice = alice
    bob = bob
    a = a
    b = b
    rwd = rwd
    MintA = a
    MintB = b
    MaxU64 = 1000
    Vaults <- OneVault
    Users <- OneUser
    Owner <- OwnerIsAlice
    Protocol <- AllOrca
    PositionIds = {p1, p2}
    RewardMint = a
    Token2022Mints <- NoMints
    TransferFeeMints <- NoMints
    HookMints <- NoMints
    FeeConfigs <- NoMints
    InitialFee <- FreeMints
    InitialWallet <- WalletOfFive
    InitialMarket <- MarketOfTen
    Ranges <- TickRanges
    TickSpacing = 8
    Chunk = 5
    MaxReward = 5
    MaxClock = 0
    Rates = {2000}
    BinWidths = {10}
    Amounts = {5}
    Floors = {1}
    Shares = {10000}
    Slippages = {0}
INVARIANTS
    TypeOK
    RecordedPositionIsLive
    PendingMeansNoPosition
    OrcaPendingIsFunded
PROPERTIES
    ImplementsLifecycle
    OnlyExitsOrphanAPosition
    TreasuryTakesOnlyItsCut
    NothingLeaks
    PendingIsResolved
