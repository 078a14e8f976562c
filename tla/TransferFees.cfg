SPECIFICATION LeavingSpec
CONSTANTS
    Null = Null
    v1 = v1
    v2 = v2
    alice = alice
    bob = bob
    a = a
    b = b
    rwd = rwd
    MintA = a
    MintB = b
    MaxU64 = 1000
    Vaults <- OneVault
    Users <- OneUser
    Owner <- OwnerIsAlice
    Protocol <- AllRaydium
    PositionIds = {p1}
    RewardMint = a
    Token2022Mints <- AllPair
    TransferFeeMints <- OnlyA
    HookMints <- NoMints
    FeeConfigs <- TransferFeeConfigs
    InitialFee <- FreeMints
    InitialWallet <- WalletOfFive
    InitialMarket <- MarketOfFifteen
    Ranges <- OneTickRange
    TickSpacing = 8
    Chunk = 15
    MaxReward = 15
    MaxClock = 0
    Rates = {2000}
    BinWidths = {10}
    Amounts = {5}
    Floors = {1}
    Shares = {10000}
    Slippages = {0}
INVARIANTS
    FeesAreAlwaysMeasurable
PROPERTIES
    SnapshotIsTakenAtOpen
    TreasuryTakesOnlyItsCut
    OwnerGetsOut
