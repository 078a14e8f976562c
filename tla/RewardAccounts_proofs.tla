------------------------ MODULE RewardAccounts_proofs ------------------------
(***************************************************************************)
(* For any mints, any number of slots and any list a client can assemble:  *)
(* a reward collection pays the vault, and serves every slot it can.       *)
(***************************************************************************)
EXTENDS RewardAccounts, Inductions

\* The invariant that makes a payment of an earlier collection stay right
\* while slots are added: it names a slot of the pool, and slots never change.
RewardInv == TypeOK /\ RewardsReachTheVault

\* Binding fixes the recipient of every active slot.
LEMMA BoundRecipient ==
    ASSUME RewardsBound, NEW k \in Initialized, protocol \in {"Orca", "Raydium"}
    PROVE  Recipient(k) = Ata(Vault, slots[k])
BY DEF RewardsBound, ActiveSlots, Initialized, OrcaSlotBound, RaydiumSlotBound,
       IsVaultAta, Recipient, RecipientPlace

\* What a collection pays, it pays to the vault's own accounts.
LEMMA PaidToTheVault ==
    ASSUME RewardsBound, protocol \in {"Orca", "Raydium"},
           NEW S \in SUBSET Initialized, NEW p \in {PaidTo(k) : k \in S}
    PROVE  p[1] \in Initialized /\ p[2] = Ata(Vault, slots[p[1]])
<1>1. PICK k \in S : p = <<k, Recipient(k)>>
    BY DEF PaidTo
<1> QED
    BY <1>1, BoundRecipient

\* The protocol of a vault's pool never changes.
LEMMA ProtocolIsFixed == Spec => [](protocol \in {"Orca", "Raydium"})
<1>1. Init => protocol \in {"Orca", "Raydium"}
    BY DEF Init
<1>2. protocol \in {"Orca", "Raydium"} /\ [Next]_vars => (protocol \in {"Orca", "Raydium"})'
    BY DEF Next, vars, OrcaCollectRewards, RaydiumCollectRewards, InitializeReward,
           OpenVaultAta, EarnReward, AssembleList, DropList
<1> QED
    BY <1>1, <1>2, PTL DEF Spec

\* Every step keeps the invariant.
LEMMA StepKeepsRewardInv ==
    ASSUME RewardInv, protocol \in {"Orca", "Raydium"}, [Next]_vars
    PROVE  RewardInv'
<1> USE DEF RewardInv, TypeOK, RewardsReachTheVault, Initialized
<1>1. CASE OrcaCollectRewards
    <2>1. \A p \in paid' : p[1] \in Initialized /\ p[2] = Ata(Vault, slots[p[1]])
        BY <1>1, PaidToTheVault
           DEF OrcaCollectRewards, OrcaRewardsCollectable, CollectedSlots
    <2> QED
        BY <1>1, <2>1 DEF OrcaCollectRewards, Ata
<1>2. CASE RaydiumCollectRewards
    <2>1. \A p \in paid' : p[1] \in Initialized /\ p[2] = Ata(Vault, slots[p[1]])
        BY <1>2, PaidToTheVault DEF RaydiumCollectRewards
    <2> QED
        BY <1>2, <2>1 DEF RaydiumCollectRewards, Ata
<1>3. ASSUME NEW m \in RewardMints, InitializeReward(m) PROVE RewardInv'
    <2>1. /\ slots' \in Seq(RewardMints)
          /\ DOMAIN slots \subseteq DOMAIN slots'
          /\ \A i \in DOMAIN slots : slots'[i] = slots[i]
        BY <1>3 DEF InitializeReward
    <2> QED
        BY <1>3, <2>1 DEF InitializeReward, Ata
<1>4. ASSUME NEW m \in RewardMints, OpenVaultAta(m) PROVE RewardInv'
    BY <1>4 DEF OpenVaultAta, Ata
<1>5. ASSUME NEW i \in Initialized, EarnReward(i) PROVE RewardInv'
    BY <1>5 DEF EarnReward, Ata
<1>6. CASE AssembleList
    BY <1>6 DEF AssembleList, Ata
<1>7. CASE DropList
    BY <1>7 DEF DropList, Ata
<1>8. CASE UNCHANGED vars
    BY <1>8 DEF vars, Ata
<1> QED
    BY <1>1, <1>2, <1>3, <1>4, <1>5, <1>6, <1>7, <1>8 DEF Next

\* The invariant holds in every behaviour.
LEMMA RewardInvariant == Spec => []RewardInv
<1>1. Init => RewardInv
    BY DEF Init, RewardInv, TypeOK, RewardsReachTheVault
<1>2. RewardInv /\ protocol \in {"Orca", "Raydium"} /\ [Next]_vars => RewardInv'
    BY StepKeepsRewardInv
<1> QED
    BY <1>1, <1>2, ProtocolIsFixed, PTL DEF Spec

\* Whatever list the client hands over, and however many slots the pool owner
\* has added since it was assembled, rewards go to the vault's own account for
\* the mint of their slot (collect_rewards, bind_reward_transfer_accounts).
THEOREM RewardsGoToTheVault == Spec => []RewardsReachTheVault
BY RewardInvariant, PTL DEF RewardInv

\* A collection leaves owed only what no transfer of the program can move: a
\* slot the list does not cover makes it fail (the exact count of accounts).
THEOREM CollectionIsComplete == Spec => CollectionServesEverySlot
<1>1. TypeOK /\ [Next]_vars =>
          [paid' \notin {paid, {}} => \A i \in owed' : ~V2Transferable(slots[i])]_vars
    <2>1. SUFFICES ASSUME TypeOK, Next, paid' \notin {paid, {}}, NEW i \in owed'
                   PROVE  ~V2Transferable(slots[i])
        OBVIOUS
    <2>2. OrcaCollectRewards \/ RaydiumCollectRewards
        BY <2>1 DEF Next, InitializeReward, OpenVaultAta, EarnReward, AssembleList, DropList
    <2>3. CASE OrcaCollectRewards
        BY <2>1, <2>3 DEF OrcaCollectRewards, CollectedSlots, TypeOK
    <2>4. CASE RaydiumCollectRewards
        BY <2>1, <2>4 DEF RaydiumCollectRewards
    <2> QED
        BY <2>2, <2>3, <2>4
<1>2. Spec => []TypeOK
    BY RewardInvariant, PTL DEF RewardInv
<1> QED
    BY <1>1, <1>2, PTL DEF Spec, CollectionServesEverySlot

----------------------------------------------------------------------------
\* An Orca list gives every slot four accounts, in the order of the slots.
LEMMA OrcaListCells ==
    ASSUME slots \in Seq(RewardMints), protocol = "Orca"
    PROVE  /\ FreshList \in Seq(Accounts)
           /\ Len(FreshList) = 4 * Len(slots)
           /\ \A i \in Initialized :
                 /\ FreshList[4 * (i - 1) + 1] = Ata(Vault, slots[i])
                 /\ FreshList[4 * (i - 1) + 2] = MintAccount(slots[i])
                 /\ FreshList[4 * (i - 1) + 3] = RewardVault(i)
                 /\ FreshList[4 * (i - 1) + 4] = ProgramOf(slots[i])
<1> DEFINE seqs == [i \in Initialized |-> SlotAccounts(i, Ata(Vault, slots[i]))]
           n == Len(slots)
<1>1. n \in Nat /\ Initialized = 1 .. n
    BY DEF Initialized
<1>2. ASSUME NEW i \in Initialized
      PROVE  /\ seqs[i] = <<Ata(Vault, slots[i]), MintAccount(slots[i]),
                            RewardVault(i), ProgramOf(slots[i])>>
             /\ seqs[i] \in Seq(Accounts) /\ Len(seqs[i]) = 4
    <2>1. slots[i] \in RewardMints /\ i \in Nat
        BY <1>1
    <2>2. /\ Ata(Vault, slots[i]) \in Accounts /\ MintAccount(slots[i]) \in Accounts
          /\ RewardVault(i) \in Accounts /\ ProgramOf(slots[i]) \in Accounts
        BY <2>1 DEF Accounts, Ata, MintAccount, RewardVault, ProgramOf
    <2>3. seqs[i] = <<Ata(Vault, slots[i]), MintAccount(slots[i]),
                      RewardVault(i), ProgramOf(slots[i])>>
        BY DEF SlotAccounts
    <2> HIDE DEF seqs
    <2>4. ASSUME NEW a \in Accounts, NEW b \in Accounts, NEW c \in Accounts,
                 NEW d \in Accounts
          PROVE  <<a, b, c, d>> \in Seq(Accounts) /\ Len(<<a, b, c, d>>) = 4
        OBVIOUS
    <2> QED
        BY <2>2, <2>3, <2>4
<1>3. seqs \in Seq(Seq(Accounts)) /\ Len(seqs) = n
    BY <1>1, <1>2
<1>4. FreshList = FlattenSeq(seqs)
    BY DEF FreshList
<1> HIDE DEF seqs, n
<1>5. /\ FlattenSeq(seqs) \in Seq(Accounts)
      /\ \E start : Placed(start, seqs, FlattenSeq(seqs))
    BY <1>3, FlattenedCells
<1>5a. PICK start : Placed(start, seqs, FlattenSeq(seqs))
    BY <1>5
<1>5b. /\ start[0] = 0
       /\ \A i \in 1 .. n : start[i] = start[i - 1] + Len(seqs[i])
       /\ Len(FlattenSeq(seqs)) = start[n]
       /\ \A i \in 1 .. n, j \in Nat :
             j \in 1 .. Len(seqs[i]) =>
                FlattenSeq(seqs)[start[i - 1] + j] = seqs[i][j]
    BY <1>3, <1>5a DEF Placed, StartsOf
<1>6. \A i \in 0 .. n : start[i] = 4 * i
    <2> DEFINE Bad == {i \in 0 .. n : start[i] # 4 * i}
    <2>1. ASSUME Bad # {} PROVE FALSE
        <3>0. Bad \subseteq Nat
            BY <1>1
        <3> HIDE DEF Bad
        <3>1. PICK i \in Bad : \A m \in Bad : i <= m
            BY <2>1, <3>0, LeastNumber
        <3>2. i # 0 /\ i \in 1 .. n /\ i - 1 \in 0 .. n /\ ~(i <= i - 1)
            BY <1>1, <1>5b DEF Bad
        <3>3. start[i - 1] = 4 * (i - 1)
            BY <3>1, <3>2 DEF Bad
        <3>4. start[i] = start[i - 1] + 4
            BY <1>1, <1>2, <1>3, <1>5b, <3>2
        <3> QED
            BY <1>1, <3>2, <3>3, <3>4 DEF Bad
    <2> QED
        BY <2>1
<1>7. ASSUME NEW i \in Initialized, NEW j \in 1 .. 4
      PROVE  FreshList[4 * (i - 1) + j] = seqs[i][j]
    <2>0. Len(seqs[i]) = 4 /\ Len(seqs) = n
        BY <1>2, <1>3
    <2>1. i \in 1 .. Len(seqs) /\ i - 1 \in 0 .. n /\ j \in Nat /\ j \in 1 .. Len(seqs[i])
        BY <1>1, <2>0
    <2>2. start[i - 1] = 4 * (i - 1)
        BY <1>6, <2>1
    <2>3. i \in 1 .. n /\ j \in Nat /\ j \in 1 .. Len(seqs[i])
        BY <2>0, <2>1
    <2>4. FlattenSeq(seqs)[start[i - 1] + j] = seqs[i][j]
        BY <1>5b, <2>3
    <2> QED
        BY <1>4, <2>2, <2>4
<1>8. Len(FreshList) = 4 * n
    <2>1. n \in 0 .. n
        BY <1>1
    <2> QED
        BY <1>3, <1>4, <1>5b, <1>6, <2>1
<1>9. ASSUME NEW i \in Initialized
      PROVE  /\ FreshList[4 * (i - 1) + 1] = Ata(Vault, slots[i])
             /\ FreshList[4 * (i - 1) + 2] = MintAccount(slots[i])
             /\ FreshList[4 * (i - 1) + 3] = RewardVault(i)
             /\ FreshList[4 * (i - 1) + 4] = ProgramOf(slots[i])
    <2>1. /\ FreshList[4 * (i - 1) + 1] = seqs[i][1]
          /\ FreshList[4 * (i - 1) + 2] = seqs[i][2]
          /\ FreshList[4 * (i - 1) + 3] = seqs[i][3]
          /\ FreshList[4 * (i - 1) + 4] = seqs[i][4]
        BY <1>7
    <2> QED
        BY <1>2, <2>1
<1> QED
    BY <1>4, <1>5, <1>8, <1>9 DEF n

\* The client that lists every slot as it is now, with the vault's accounts open
\* for the mints that can be moved, is never refused on Orca, whatever the
\* number of slots and wherever the blocked mints lie among them.
THEOREM OrcaIsNeverBlocked == Spec => []OrcaCollectionNeverBlocked
<1>1. ASSUME TypeOK PROVE OrcaCollectionNeverBlocked
    <2>1. SUFFICES ASSUME protocol = "Orca", list = FreshList,
                          ToSet(slots) \ BlockedMints \subseteq open
                   PROVE  OrcaRewardsCollectable
        BY DEF OrcaCollectionNeverBlocked
    <2>2. slots \in Seq(RewardMints)
        BY <1>1 DEF TypeOK
    <2>3. /\ list \in Seq(Accounts)
          /\ Len(list) = 4 * Len(slots)
          /\ \A i \in Initialized :
                /\ list[4 * (i - 1) + 1] = Ata(Vault, slots[i])
                /\ list[4 * (i - 1) + 2] = MintAccount(slots[i])
                /\ list[4 * (i - 1) + 3] = RewardVault(i)
                /\ list[4 * (i - 1) + 4] = ProgramOf(slots[i])
        BY <2>1, <2>2, OrcaListCells
    <2>4. list # Null
        BY <2>3, NullAssumption
    <2>5. Len(ActiveSlots) = Len(slots) /\ DOMAIN ActiveSlots = Initialized
          /\ \A k \in Initialized : ActiveSlots[k] = k
        BY <2>2 DEF ActiveSlots, Initialized
    <2>6. AccountsPerSlot = 4 /\ RecipientPlace = 1
        BY <2>1 DEF AccountsPerSlot, RecipientPlace
    <2>7. ExpectedCount
        BY <2>2, <2>3, <2>5, <2>6 DEF ExpectedCount
    <2>8. ASSUME NEW k \in Initialized PROVE OrcaSlotBound(k)
        BY <2>3, <2>5, <2>6 DEF OrcaSlotBound, Base, IsVaultAta
    <2>9. RewardsBound
        BY <2>1, <2>5, <2>7, <2>8 DEF RewardsBound
    <2>10. ASSUME NEW k \in CollectedSlots PROVE RecipientExists(Recipient(k))
        <3>1. k \in Initialized /\ slots[k] \notin BlockedMints
            BY <2>10 DEF CollectedSlots, V2Transferable
        <3>2. slots[k] \in open
            BY <2>1, <2>2, <3>1 DEF ToSet, Initialized
        <3>3. Recipient(k) = Ata(Vault, slots[k])
            BY <2>3, <2>6, <3>1 DEF Recipient, Base
        <3> QED
            BY <3>2, <3>3 DEF RecipientExists, Ata
    <2> QED
        BY <2>1, <2>4, <2>9, <2>10 DEF OrcaRewardsCollectable
<1>2. TypeOK => OrcaCollectionNeverBlocked
    BY <1>1
<1> QED
    BY <1>2, RewardInvariant, PTL DEF RewardInv
=============================================================================
