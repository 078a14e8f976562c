SPECIFICATION Spec
CONSTANTS
    plain = plain
    hooked = hooked
    Null = Null
    Vault = Vault
    Other = Other
    RewardMints <- MCRewardMints
    BlockedMints <- MCBlockedMints
    RewardSlots = 3
INVARIANTS
    RewardsReachTheVault
    OrcaCollectionNeverBlocked
PROPERTIES
    CollectionServesEverySlot
