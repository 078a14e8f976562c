SPECIFICATION Spec
CONSTANTS
    Null = Null
    v1 = v1
    v2 = v2
    alice = alice
    bob = bob
    a = a
    b = b
    rwd = rwd
    MintA = a
    MintB = b
    MaxU64 = 1000
    Vaults <- OneVault
    Users <- OneUser
    Owner <- OwnerIsAlice
    Protocol <- AllOrca
    PositionIds = {p1}
    RewardMint = Null
    Token2022Mints <- AllPair
    TransferFeeMints <- OnlyA
    HookMints <- NoMints
    FeeConfigs <- NoMints
    InitialFee <- FeeOnA
    InitialWallet <- WalletOfFive
    InitialMarket <- MarketOfFive
    Ranges <- TickRanges
    TickSpacing = 8
    Chunk = 5
    MaxReward = 5
    MaxClock = 0
    Rates = {2000}
    BinWidths = {10}
    Amounts = {3, 5}
    Floors = {1}
    Shares = {10000}
    Slippages = {0}
INVARIANTS
    EmergencyWithdrawIsAlwaysAvailable
