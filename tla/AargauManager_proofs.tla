------------------------- MODULE AargauManager_proofs -------------------------
(***************************************************************************)
(* The safety invariants of the whole program, proved through one lemma:   *)
(* whatever instruction runs, what it does to the vault accounts and to    *)
(* the ownership of positions is one of seven kinds of step.  The same     *)
(* kinds show that the program implements the abstract lifecycle.          *)
(***************************************************************************)
EXTENDS AargauTypes_proofs

----------------------------------------------------------------------------
(* The kinds of step *)

\* Position p stays what a vault may have recorded of it.
Keeps(p) ==
    positions[p] # Null =>
        /\ positions'[p] # Null
        /\ positions'[p].owner = positions[p].owner
        /\ positions'[p].range = positions[p].range

OnlyVault(v) == \A w \in Vaults \ {v} : vaults'[w] = vaults[w]

OnlyPosition(p) == \A q \in PositionIds \ {p} : positions'[q] = positions[q]

Frame == vaults' = vaults /\ \A p \in PositionIds : Keeps(p)

Creates(v) ==
    /\ ~Exists(v)
    /\ OnlyVault(v) /\ vaults'[v] = NewVaultAccount
    /\ positions' = positions

Leaves(v) ==
    /\ Exists(v)
    /\ OnlyVault(v) /\ vaults'[v] = Null
    /\ positions' = positions

Cancels(v) ==
    /\ Exists(v) /\ vaults[v].pending_rebalance # Null
    /\ OnlyVault(v)
    /\ vaults'[v] = [vaults[v] EXCEPT !.pending_rebalance = Null]
    /\ positions' = positions

Opens(v, p, r) ==
    /\ Exists(v) /\ vaults[v].position_address = Null
    /\ positions[p] = Null
    /\ \/ vaults[v].pending_rebalance = Null
       \/ vaults[v].pending_rebalance.range = r
    /\ OnlyVault(v) /\ vaults'[v] # Null
    /\ vaults'[v].position_address = p
    /\ vaults'[v].position_mint = IF Protocol[v] = "Meteora" THEN Null ELSE p
    /\ vaults'[v].position_range = r
    /\ vaults'[v].pending_rebalance = Null
    /\ OnlyPosition(p) /\ positions'[p] # Null
    /\ positions'[p].owner = v /\ positions'[p].range = r

Closes(v) ==
    /\ Exists(v) /\ HasActivePosition(v)
    /\ vaults[v].pending_rebalance = Null
    /\ OnlyVault(v) /\ vaults'[v] # Null
    /\ vaults'[v].position_address = Null
    /\ vaults'[v].position_mint =
         IF Protocol[v] = "Meteora" THEN vaults[v].position_mint ELSE Null
    /\ vaults'[v].position_range = Null
    /\ Protocol[v] = "Meteora" => vaults'[v].pending_rebalance = Null
    /\ OnlyPosition(Recorded(v)) /\ positions'[Recorded(v)] = Null

Moves(v, r) ==
    /\ Exists(v) /\ HasActivePosition(v) /\ Protocol[v] = "Meteora"
    /\ vaults[v].pending_rebalance = Null
    /\ OnlyVault(v) /\ vaults'[v] # Null
    /\ vaults'[v].position_address = Recorded(v)
    /\ vaults'[v].position_mint = vaults[v].position_mint
    /\ vaults'[v].position_range = r
    /\ vaults'[v].pending_rebalance = Null
    /\ OnlyPosition(Recorded(v)) /\ positions'[Recorded(v)] # Null
    /\ positions'[Recorded(v)].owner = ActivePosition(v).owner
    /\ positions'[Recorded(v)].range = r

VaultStep(v) ==
    \/ Frame \/ Creates(v) \/ Leaves(v) \/ Cancels(v) \/ Closes(v)
    \/ \E p \in PositionIds, r \in Ranges : Opens(v, p, r)
    \/ \E r \in Ranges : Moves(v, r)

----------------------------------------------------------------------------
(* What the CPIs leave alone *)

LEMMA CpisKeepOwnership ==
  ASSUME NEW pos \in Position, NEW c, NEW n
  PROVE  /\ AddLiquidity(pos, c).owner = pos.owner
         /\ AddLiquidity(pos, c).range = pos.range
         /\ RemoveLiquidity(pos, n).owner = pos.owner
         /\ RemoveLiquidity(pos, n).range = pos.range
         /\ ClaimFees(pos).owner = pos.owner
         /\ ClaimFees(pos).range = pos.range
         /\ PayReward(pos, n).owner = pos.owner
         /\ PayReward(pos, n).range = pos.range
BY DEF AddLiquidity, RemoveLiquidity, ClaimFees, PayReward, Position

\* New contents of the active position, ownership and vault accounts kept.
LEMMA ActiveFrame ==
  ASSUME TypeOK, NEW v \in Vaults, Exists(v), HasActivePosition(v),
         NEW pos \in Position,
         pos.owner = ActivePosition(v).owner, pos.range = ActivePosition(v).range,
         ActivePositionBecomes(v, pos), vaults' = vaults
  PROVE  Frame
<1>1. Recorded(v) \in PositionIds /\ pos # Null
  BY ActivePositionType, NullAssumption
<1>2. positions' = [positions EXCEPT ![Recorded(v)] = pos]
  BY DEF ActivePositionBecomes
<1>3. positions \in [PositionIds -> Position \cup {Null}]
  BY DEF TypeOK
<1>4. ASSUME NEW p \in PositionIds PROVE Keeps(p)
  <2>1. CASE p = Recorded(v)
    BY <1>1, <1>2, <1>3, <2>1 DEF Keeps, ActivePosition
  <2>2. CASE p # Recorded(v)
    BY <1>2, <1>3, <2>2 DEF Keeps
  <2> QED
    BY <2>1, <2>2
<1> QED
  BY <1>4 DEF Frame

\* New contents of one position, ownership and vault accounts kept.
LEMMA OnePositionFrame ==
  ASSUME TypeOK, NEW p \in PositionIds, NEW pos \in Position,
         pos.owner = positions[p].owner, pos.range = positions[p].range,
         positions' = [positions EXCEPT ![p] = pos], vaults' = vaults
  PROVE  Frame
<1>1. pos # Null
  BY NullAssumption
<1>2. positions \in [PositionIds -> Position \cup {Null}]
  BY DEF TypeOK
<1> QED
  BY <1>1, <1>2 DEF Frame, Keeps

LEMMA UnchangedFrame ==
  ASSUME vaults' = vaults, positions' = positions
  PROVE  Frame
BY DEF Frame, Keeps

----------------------------------------------------------------------------
(* Each instruction is a step of one kind *)

LEMMA OwnStep ==
  ASSUME TypeOK, NEW v \in Vaults, Own(v)
  PROVE  VaultStep(v)
<1>1. ASSUME NEW width \in BinWidths, CreateVault(v, width)
      PROVE  Creates(v)
  BY <1>1 DEF CreateVault, Creates, OnlyVault, TypeOK
<1>2. ASSUME NEW S \in VaultTokenPairs(v), NEW c, Deposit(v, S, c)
      PROVE  Frame
  BY <1>2, UnchangedFrame DEF Deposit
<1>3. ASSUME NEW S, NEW pct, NEW min, Withdraw(v, S, pct, min)
      PROVE  Frame \/ Leaves(v)
  <2>1. /\ Exists(v)
        /\ positions' = positions
        /\ vaults' = vaults \/ vaults' = [vaults EXCEPT ![v] = Null]
    BY <1>3 DEF Withdraw, UngatedVault, CloseVault
  <2> QED
    BY <2>1, UnchangedFrame DEF Leaves, OnlyVault, TypeOK
<1>4. ASSUME NEW S, EmergencyWithdraw(v, S)
      PROVE  Leaves(v)
  <2>1. /\ Exists(v)
        /\ positions' = positions
        /\ vaults' = [vaults EXCEPT ![v] = Null]
    BY <1>4 DEF EmergencyWithdraw, UngatedVault, CloseVault
  <2> QED
    BY <2>1 DEF Leaves, OnlyVault, TypeOK
<1>5. CASE CancelPendingRebalance(v)
  <2>1. /\ Exists(v) /\ vaults[v].pending_rebalance # Null
        /\ vaults' = [vaults EXCEPT ![v].pending_rebalance = Null]
        /\ positions' = positions
    BY <1>5 DEF CancelPendingRebalance, UngatedVault
  <2>2. Cancels(v)
    BY <2>1 DEF Cancels, OnlyVault, TypeOK
  <2> QED
    BY <2>2 DEF VaultStep
<1> QED
  BY <1>1, <1>2, <1>3, <1>4, <1>5 DEF Own, Exit, VaultStep
\* A vault account that forgets its position, which is gone.
LEMMA ClosesFrom ==
  ASSUME TypeOK, NEW v \in Vaults, Exists(v), HasActivePosition(v),
         vaults[v].pending_rebalance = Null,
         NEW vault \in VaultAccount,
         vault.position_address = Null, vault.position_range = Null,
         vault.position_mint = IF Protocol[v] = "Meteora"
                                 THEN vaults[v].position_mint ELSE Null,
         Protocol[v] = "Meteora" => vault.pending_rebalance = Null,
         ActivePositionBecomes(v, Null), vaults' = [vaults EXCEPT ![v] = vault]
  PROVE  Closes(v)
<1>1. vaults'[v] = vault /\ vault # Null /\ OnlyVault(v)
  BY NullAssumption DEF TypeOK, OnlyVault
<1>2. Recorded(v) \in PositionIds
  BY ActivePositionType
<1>3. OnlyPosition(Recorded(v)) /\ positions'[Recorded(v)] = Null
  BY <1>2 DEF ActivePositionBecomes, OnlyPosition, TypeOK
<1> QED
  BY <1>1, <1>3 DEF Closes

\* A vault account that records a position opened for it.
LEMMA OpensFrom ==
  ASSUME TypeOK, NEW v \in Vaults, NEW p \in PositionIds, NEW r,
         Exists(v), WithoutVaultPosition(v), FreshPosition(p),
         \/ vaults[v].pending_rebalance = Null
         \/ vaults[v].pending_rebalance.range = r,
         NEW vault \in VaultAccount,
         vault.position_address = p, vault.position_range = r,
         vault.position_mint = IF Protocol[v] = "Meteora" THEN Null ELSE p,
         vault.pending_rebalance = Null,
         NEW pos \in Position, pos.owner = v, pos.range = r,
         positions' = [positions EXCEPT ![p] = pos],
         vaults' = [vaults EXCEPT ![v] = vault]
  PROVE  Opens(v, p, r)
<1>1. vaults'[v] = vault /\ vault # Null /\ OnlyVault(v)
  BY NullAssumption DEF TypeOK, OnlyVault
<1>2. positions'[p] = pos /\ pos # Null /\ OnlyPosition(p)
  BY NullAssumption DEF OnlyPosition, TypeOK
<1> QED
  BY <1>1, <1>2 DEF Opens, WithoutVaultPosition, FreshPosition, Recorded

LEMMA MeteoraStep ==
  ASSUME TypeOK, NEW v \in Vaults, ManageMeteora(v)
  PROVE  VaultStep(v)
<1>1. ASSUME NEW p \in PositionIds, NEW r \in Ranges, MeteoraOpenPosition(v, p, r)
      PROVE  Opens(v, p, r)
  <2> DEFINE vault == WithPosition(vaults[v], p, FALSE, r)
  <2>1. /\ Exists(v) /\ vaults[v] \in VaultAccount
        /\ Protocol[v] = "Meteora" /\ vaults[v].pending_rebalance = Null
    BY <1>1, ManagedVaultType
       DEF MeteoraOpenPosition, MeteoraVault, ManagedVault, NoPendingRebalance
  <2>2. vault \in VaultAccount
    BY <2>1, WithPositionType
  <2>3. /\ vault.position_address = p /\ vault.position_range = r
        /\ vault.position_mint = Null /\ vault.pending_rebalance = Null
    BY <2>1 DEF WithPosition, VaultAccount
  <2>4. /\ NewPosition(v, r) \in Position
        /\ NewPosition(v, r).owner = v /\ NewPosition(v, r).range = r
    BY NewPositionType DEF NewPosition
  <2>5. /\ WithoutVaultPosition(v) /\ FreshPosition(p)
        /\ positions' = [positions EXCEPT ![p] = NewPosition(v, r)]
        /\ vaults' = [vaults EXCEPT ![v] = vault]
    BY <1>1 DEF MeteoraOpenPosition
  <2> HIDE DEF vault
  <2> QED
    BY <2>1, <2>2, <2>3, <2>4, <2>5, OpensFrom
<1>2. ASSUME NEW max \in Ceilings, NEW used \in Ceilings, NEW s \in Slippages,
             MeteoraIncreaseLiquidity(v, max, used, s)
      PROVE  Frame
  <2>1. /\ Exists(v) /\ HasActivePosition(v)
        /\ mintFee \in [Mints -> TransferFeeConfig] /\ used \in Coins
    BY <1>2, ManagedVaultType, CeilingsType
       DEF MeteoraIncreaseLiquidity, MeteoraPosition, MeteoraVault
  <2>2. ActivePosition(v) \in Position
    BY <2>1, ActivePositionType
  <2>3. /\ AddLiquidity(ActivePosition(v), used) \in Position
        /\ AddLiquidity(ActivePosition(v), used).owner = ActivePosition(v).owner
        /\ AddLiquidity(ActivePosition(v), used).range = ActivePosition(v).range
    BY <2>1, <2>2, AddLiquidityType, CpisKeepOwnership
  <2> QED
    BY <1>2, <2>1, <2>3, ActiveFrame DEF MeteoraIncreaseLiquidity
<1>3. ASSUME NEW bps \in Shares, MeteoraDecreaseLiquidity(v, bps)
      PROVE  Frame
  <2>1. Exists(v) /\ HasActivePosition(v) /\ bps \in 0 .. BpsDivisor
    BY <1>3, ManagedVaultType, ShareIsBps
       DEF MeteoraDecreaseLiquidity, MeteoraPosition, MeteoraVault
  <2>2. ActivePosition(v) \in Position
    BY <2>1, ActivePositionType
  <2>3. /\ RemoveLiquidity(ActivePosition(v), bps) \in Position
        /\ RemoveLiquidity(ActivePosition(v), bps).owner = ActivePosition(v).owner
        /\ RemoveLiquidity(ActivePosition(v), bps).range = ActivePosition(v).range
    BY <2>1, <2>2, RemoveLiquidityType, CpisKeepOwnership
  <2> QED
    BY <1>3, <2>1, <2>3, ActiveFrame DEF MeteoraDecreaseLiquidity
<1>4. CASE MeteoraCollectFees(v)
  <2>1. Exists(v) /\ HasActivePosition(v)
    BY <1>4, ManagedVaultType DEF MeteoraCollectFees, MeteoraPosition, MeteoraVault
  <2>2. ActivePosition(v) \in Position
    BY <2>1, ActivePositionType
  <2>3. /\ ClaimFees(ActivePosition(v)) \in Position
        /\ ClaimFees(ActivePosition(v)).owner = ActivePosition(v).owner
        /\ ClaimFees(ActivePosition(v)).range = ActivePosition(v).range
    BY <2>1, <2>2, ClaimFeesType, CpisKeepOwnership
  <2>4. Frame
    BY <1>4, <2>1, <2>3, ActiveFrame DEF MeteoraCollectFees
  <2> QED
    BY <2>4 DEF VaultStep
<1>5. CASE MeteoraClosePosition(v)
  <2> DEFINE vault == [vaults[v] EXCEPT !.position_address = Null,
                                        !.position_range = Null]
  <2>1. /\ Exists(v) /\ HasActivePosition(v) /\ vaults[v] \in VaultAccount
        /\ vaults[v].pending_rebalance = Null /\ Protocol[v] = "Meteora"
    BY <1>5, ManagedVaultType DEF MeteoraClosePosition, MeteoraPosition,
       MeteoraVault, ManagedVault, NoPendingRebalance
  <2>2. vault \in VaultAccount
    BY <2>1 DEF VaultAccount
  <2>3. /\ vault.position_address = Null /\ vault.position_range = Null
        /\ vault.position_mint = vaults[v].position_mint
        /\ vault.pending_rebalance = Null
    BY <2>1 DEF VaultAccount
  <2>4. ActivePositionBecomes(v, Null) /\ vaults' = [vaults EXCEPT ![v] = vault]
    BY <1>5 DEF MeteoraClosePosition, TypeOK
  <2> HIDE DEF vault
  <2>5. Closes(v)
    BY <2>1, <2>2, <2>3, <2>4, ClosesFrom
  <2> QED
    BY <2>5 DEF VaultStep
<1>6. ASSUME NEW r \in Ranges, NEW max \in Ceilings, NEW used \in Ceilings,
             NEW s \in Slippages, ManualRebalance(v, r, max, used, s)
      PROVE  Moves(v, r)
  <2> DEFINE pos == ActivePosition(v)
             emptied == [ClaimFees(pos) EXCEPT !.principal = NoCoins]
             added == AddLiquidity(emptied, used)
             moved == [added EXCEPT !.range = r]
             vault == MeteoraRebalanced(vaults[v], r)
  <2>1. /\ Exists(v) /\ HasActivePosition(v) /\ vaults[v] \in VaultAccount
        /\ vaults[v].pending_rebalance = Null /\ Protocol[v] = "Meteora"
    BY <1>6, ManagedVaultType DEF ManualRebalance, MeteoraPosition,
       MeteoraVault, ManagedVault, NoPendingRebalance
  <2>2. mintFee \in [Mints -> TransferFeeConfig] /\ used \in Coins
    BY CeilingsType DEF TypeOK
  <2>3. pos \in Position /\ Recorded(v) \in PositionIds
    BY <2>1, ActivePositionType
  <2>4. ClaimFees(pos) \in Position /\ ClaimFees(pos).owner = pos.owner
    BY <2>3, ClaimFeesType, CpisKeepOwnership
  <2>5. emptied \in Position /\ emptied.owner = pos.owner
    BY <2>4, NoCoinsType DEF Position
  <2>6. added \in Position /\ added.owner = pos.owner
    BY <2>2, <2>5, AddLiquidityType, CpisKeepOwnership
  <2>7. moved \in Position /\ moved.owner = pos.owner /\ moved.range = r
    <3> HIDE DEF added
    <3> QED
      BY <2>6 DEF Position
  <2>8. positions' = [positions EXCEPT ![Recorded(v)] = moved]
    BY <1>6 DEF ManualRebalance, ActivePositionBecomes
  <2>9. vaults' = [vaults EXCEPT ![v] = vault]
    BY <1>6 DEF ManualRebalance, TypeOK
  <2>10. /\ vault # Null
         /\ vault.position_address = Recorded(v)
         /\ vault.position_mint = vaults[v].position_mint
         /\ vault.position_range = r /\ vault.pending_rebalance = Null
    <3>1. vault \in VaultAccount
      BY <2>1 DEF MeteoraRebalanced, VaultAccount, TypeOK
    <3> QED
      BY <2>1, <3>1, NullAssumption DEF MeteoraRebalanced, VaultAccount, Recorded
  <2> HIDE DEF moved, vault
  <2>11. vaults'[v] = vault /\ OnlyVault(v)
    BY <2>9 DEF OnlyVault, TypeOK
  <2>12. positions'[Recorded(v)] = moved /\ OnlyPosition(Recorded(v))
    BY <2>3, <2>8 DEF OnlyPosition, TypeOK
  <2> QED
    BY <2>1, <2>7, <2>10, <2>11, <2>12, NullAssumption DEF Moves
<1> QED
  BY <1>1, <1>2, <1>3, <1>4, <1>5, <1>6 DEF ManageMeteora, VaultStep
\* What an open leg stores of an NFT-backed position.
NftRecorded(vault, p, r) ==
    WithPosition(RecordPairTransferFees(vault), p, TRUE, r)

LEMMA NftRecord ==
  ASSUME mintFee \in [Mints -> TransferFeeConfig],
         NEW vault \in VaultAccount, NEW p \in PositionIds, NEW r \in Ranges
  PROVE  /\ NftRecorded(vault, p, r) \in VaultAccount
         /\ NftRecorded(vault, p, r).position_address = p
         /\ NftRecorded(vault, p, r).position_mint = p
         /\ NftRecorded(vault, p, r).position_range = r
         /\ NftRecorded(vault, p, r).pending_rebalance = vault.pending_rebalance
<1>1. RecordPairTransferFees(vault) \in VaultAccount
  BY RecordPairTransferFeesType
<1>2. WithPosition(RecordPairTransferFees(vault), p, TRUE, r) \in VaultAccount
  BY <1>1, WithPositionType
<1>3. RecordPairTransferFees(vault).pending_rebalance = vault.pending_rebalance
  BY DEF RecordPairTransferFees, VaultAccount
<1> QED
  BY <1>1, <1>2, <1>3 DEF NftRecorded, WithPosition, VaultAccount

LEMMA NftForgotten ==
  ASSUME NEW vault \in VaultAccount
  PROVE  /\ WithoutPosition(vault) \in VaultAccount
         /\ WithoutPosition(vault).position_address = Null
         /\ WithoutPosition(vault).position_mint = Null
         /\ WithoutPosition(vault).position_range = Null
BY WithoutPositionType DEF WithoutPosition, VaultAccount

\* A position that an open leg funds at once.
LEMMA FundedPosition ==
  ASSUME mintFee \in [Mints -> TransferFeeConfig], NEW v \in Vaults,
         NEW r \in Ranges, NEW used \in Coins
  PROVE  /\ AddLiquidity(NewPosition(v, r), used) \in Position
         /\ AddLiquidity(NewPosition(v, r), used).owner = v
         /\ AddLiquidity(NewPosition(v, r), used).range = r
BY NewPositionType, AddLiquidityType, CpisKeepOwnership DEF NewPosition

LEMMA OrcaStep ==
  ASSUME TypeOK, NEW v \in Vaults, ManageOrca(v)
  PROVE  VaultStep(v)
<1>1. ASSUME NEW p \in PositionIds, NEW r \in Ranges, OrcaOpenPosition(v, p, r)
      PROVE  Opens(v, p, r)
  <2> DEFINE vault == NftRecorded(vaults[v], p, r)
  <2>1. /\ Exists(v) /\ vaults[v] \in VaultAccount
        /\ mintFee \in [Mints -> TransferFeeConfig]
        /\ Protocol[v] = "Orca" /\ vaults[v].pending_rebalance = Null
    BY <1>1, ManagedVaultType
       DEF OrcaOpenPosition, OrcaVault, ManagedVault, NoPendingRebalance
  <2>2. /\ vault \in VaultAccount
        /\ vault.position_address = p /\ vault.position_mint = p
        /\ vault.position_range = r /\ vault.pending_rebalance = Null
    BY <2>1, NftRecord
  <2>3. /\ NewPosition(v, r) \in Position
        /\ NewPosition(v, r).owner = v /\ NewPosition(v, r).range = r
    BY NewPositionType DEF NewPosition
  <2>4. /\ WithoutVaultPosition(v) /\ FreshPosition(p)
        /\ positions' = [positions EXCEPT ![p] = NewPosition(v, r)]
        /\ vaults' = [vaults EXCEPT ![v] = vault]
    BY <1>1 DEF OrcaOpenPosition, NftRecorded, TypeOK
  <2>5. /\ vaults[v].pending_rebalance = Null
        /\ vault.position_mint = IF Protocol[v] = "Meteora" THEN Null ELSE p
    BY <2>1, <2>2
  <2> HIDE DEF vault
  <2> QED
    BY <2>1, <2>2, <2>3, <2>4, <2>5, OpensFrom
<1>2. ASSUME NEW max \in Ceilings, NEW used \in Ceilings,
             OrcaIncreaseLiquidity(v, max, used)
      PROVE  Frame
  <2>1. OrcaPosition(v) /\ used \in Coins
    BY <1>2, CeilingsType DEF OrcaIncreaseLiquidity
  <2>2. /\ AddLiquidity(ActivePosition(v), used) \in Position
        /\ AddLiquidity(ActivePosition(v), used).owner = ActivePosition(v).owner
        /\ AddLiquidity(ActivePosition(v), used).range = ActivePosition(v).range
    BY <2>1, OrcaPositionType, AddLiquidityType, CpisKeepOwnership
  <2> QED
    BY <1>2, <2>1, <2>2, OrcaPositionType, ActiveFrame DEF OrcaIncreaseLiquidity
<1>3. ASSUME NEW bps \in Shares, NEW min \in FloorsOf(Pair),
             OrcaDecreaseLiquidity(v, bps, min)
      PROVE  Frame
  <2>1. OrcaPosition(v) /\ bps \in 0 .. BpsDivisor
    BY <1>3, ShareIsBps DEF OrcaDecreaseLiquidity
  <2>2. /\ RemoveLiquidity(ActivePosition(v), bps) \in Position
        /\ RemoveLiquidity(ActivePosition(v), bps).owner = ActivePosition(v).owner
        /\ RemoveLiquidity(ActivePosition(v), bps).range = ActivePosition(v).range
    BY <2>1, OrcaPositionType, RemoveLiquidityType, CpisKeepOwnership
  <2> QED
    BY <1>3, <2>1, <2>2, OrcaPositionType, ActiveFrame DEF OrcaDecreaseLiquidity
<1>4. CASE OrcaCollectFees(v)
  <2>1. OrcaPosition(v) /\ OrcaCollectEffects(ActivePosition(v))
    BY <1>4 DEF OrcaCollectFees
  <2>2. ActivePosition(v) \in Position /\ ClaimFees(ActivePosition(v)) \in Position
    BY <2>1, OrcaPositionType, ClaimFeesType
  <2>3. OrcaAfterCollect(ActivePosition(v)) \in Position
    BY <2>1, OrcaPositionType, OrcaCollectType
  <2>4. /\ OrcaAfterCollect(ActivePosition(v)).owner = ActivePosition(v).owner
        /\ OrcaAfterCollect(ActivePosition(v)).range = ActivePosition(v).range
    BY <2>2, CpisKeepOwnership DEF OrcaAfterCollect
  <2>5. Frame
    BY <1>4, <2>1, <2>3, <2>4, OrcaPositionType, ActiveFrame DEF OrcaCollectFees
  <2> QED
    BY <2>5 DEF VaultStep
<1>5. CASE OrcaClosePosition(v)
  <2>1. OrcaPosition(v) /\ Protocol[v] = "Orca" /\ vaults[v].pending_rebalance = Null
    BY <1>5 DEF OrcaClosePosition, OrcaPosition, OrcaVault, ManagedVault,
       NoPendingRebalance
  <2>2. ActivePositionBecomes(v, Null)
        /\ vaults' = [vaults EXCEPT ![v] = WithoutPosition(vaults[v])]
    BY <1>5 DEF OrcaClosePosition, TypeOK
  <2>3. Closes(v)
    BY <2>1, <2>2, OrcaPositionType, NftForgotten, ClosesFrom
  <2> QED
    BY <2>3 DEF VaultStep
<1>6. ASSUME NEW r \in Ranges, NEW bps \in Shares, NEW min \in FloorsOf(Pair),
             StartRebalanceOrca(v, r, bps, min)
      PROVE  Closes(v)
  <2> DEFINE vault == OrcaStarted(vaults[v], r)
  <2>1. OrcaPosition(v) /\ Protocol[v] = "Orca" /\ vaults[v].pending_rebalance = Null
    BY <1>6 DEF StartRebalanceOrca, OrcaPosition, OrcaVault, ManagedVault,
       NoPendingRebalance
  <2>2. ActivePositionBecomes(v, Null) /\ vaults' = [vaults EXCEPT ![v] = vault]
    BY <1>6 DEF StartRebalanceOrca, TypeOK
  <2>3. vault \in VaultAccount
    BY <2>1, OrcaPositionType, NftForgotten, SetPendingType DEF OrcaStarted, Pending
  <2>4. /\ vault.position_address = Null /\ vault.position_mint = Null
        /\ vault.position_range = Null
    BY <2>1, OrcaPositionType, NftForgotten DEF OrcaStarted, VaultAccount
  <2> HIDE DEF vault
  <2> QED
    BY <2>1, <2>2, <2>3, <2>4, OrcaPositionType, ClosesFrom
<1>7. ASSUME NEW p \in PositionIds, NEW max \in Ceilings, NEW used \in Ceilings,
             RetryPendingRebalance(v, p, max, used)
      PROVE  \E r \in Ranges : Opens(v, p, r)
  <2> DEFINE r == vaults[v].pending_rebalance.range
             opened == NftRecorded(vaults[v], p, r)
             vault == OrcaRebalanced(vaults[v], p, r)
             pos == AddLiquidity(NewPosition(v, r), used)
  <2>1. /\ Exists(v) /\ vaults[v] \in VaultAccount
        /\ mintFee \in [Mints -> TransferFeeConfig]
        /\ Protocol[v] = "Orca" /\ vaults[v].pending_rebalance # Null
        /\ used \in Coins
    BY <1>7, ManagedVaultType, CeilingsType
       DEF RetryPendingRebalance, OrcaVault, ManagedVault
  <2>2. r \in Ranges
    BY <2>1 DEF VaultAccount, PendingRebalance
  <2>3. /\ opened \in VaultAccount
        /\ opened.position_address = p /\ opened.position_mint = p
        /\ opened.position_range = r
    BY <2>1, <2>2, NftRecord
  <2>4. /\ vault \in VaultAccount
        /\ vault.position_address = p /\ vault.position_mint = p
        /\ vault.position_range = r /\ vault.pending_rebalance = Null
    <3>1. vault = [opened EXCEPT !.pending_rebalance = Null]
      BY DEF OrcaRebalanced, NftRecorded
    <3> HIDE DEF opened, vault
    <3> QED
      BY <2>3, <3>1, ClearPendingType DEF VaultAccount
  <2>5. pos \in Position /\ pos.owner = v /\ pos.range = r
    BY <2>1, <2>2, FundedPosition
  <2>6. /\ WithoutVaultPosition(v) /\ FreshPosition(p)
        /\ positions' = [positions EXCEPT ![p] = pos]
        /\ vaults' = [vaults EXCEPT ![v] = vault]
    BY <1>7 DEF RetryPendingRebalance, TypeOK
  <2>7. vault.position_mint = IF Protocol[v] = "Meteora" THEN Null ELSE p
    BY <2>1, <2>4
  <2> HIDE DEF vault, pos
  <2>8. Opens(v, p, r)
    BY <2>1, <2>4, <2>5, <2>6, <2>7, OpensFrom
  <2> QED
    BY <2>2, <2>8
<1> QED
  BY <1>1, <1>2, <1>3, <1>4, <1>5, <1>6, <1>7 DEF ManageOrca, VaultStep
LEMMA RaydiumCollectedPosition ==
  ASSUME TypeOK, NEW v \in Vaults, RaydiumPosition(v),
         RaydiumCollect(v, ActivePosition(v))
  PROVE  /\ RaydiumAfterCollect(ActivePosition(v)) \in Position
         /\ RaydiumAfterCollect(ActivePosition(v)).owner = ActivePosition(v).owner
         /\ RaydiumAfterCollect(ActivePosition(v)).range = ActivePosition(v).range
<1>1. ActivePosition(v) \in Position /\ ClaimFees(ActivePosition(v)) \in Position
  BY RaydiumPositionType, ClaimFeesType
<1>2. RaydiumAfterCollect(ActivePosition(v)) \in Position
  BY RaydiumPositionType, RaydiumCollectType
<1> QED
  BY <1>1, <1>2, CpisKeepOwnership DEF RaydiumAfterCollect

LEMMA RaydiumStep ==
  ASSUME TypeOK, NEW v \in Vaults, ManageRaydium(v)
  PROVE  VaultStep(v)
<1>1. ASSUME NEW p \in PositionIds, NEW r \in Ranges, RaydiumOpenPosition(v, p, r)
      PROVE  Opens(v, p, r)
  <2> DEFINE vault == NftRecorded(vaults[v], p, r)
  <2>1. /\ Exists(v) /\ vaults[v] \in VaultAccount
        /\ mintFee \in [Mints -> TransferFeeConfig]
        /\ Protocol[v] = "Raydium" /\ vaults[v].pending_rebalance = Null
    BY <1>1, ManagedVaultType
       DEF RaydiumOpenPosition, RaydiumVault, ManagedVault, NoPendingRebalance
  <2>2. /\ vault \in VaultAccount
        /\ vault.position_address = p /\ vault.position_mint = p
        /\ vault.position_range = r /\ vault.pending_rebalance = Null
    BY <2>1, NftRecord
  <2>3. /\ NewPosition(v, r) \in Position
        /\ NewPosition(v, r).owner = v /\ NewPosition(v, r).range = r
    BY NewPositionType DEF NewPosition
  <2>4. /\ WithoutVaultPosition(v) /\ FreshPosition(p)
        /\ positions' = [positions EXCEPT ![p] = NewPosition(v, r)]
        /\ vaults' = [vaults EXCEPT ![v] = vault]
    BY <1>1 DEF RaydiumOpenPosition, NftRecorded, TypeOK
  <2>5. /\ vaults[v].pending_rebalance = Null
        /\ vault.position_mint = IF Protocol[v] = "Meteora" THEN Null ELSE p
    BY <2>1, <2>2
  <2> HIDE DEF vault
  <2> QED
    BY <2>1, <2>2, <2>3, <2>4, <2>5, OpensFrom
<1>2. ASSUME NEW max \in Ceilings, NEW used \in Ceilings,
             RaydiumIncreaseLiquidity(v, max, used)
      PROVE  Frame
  <2>1. RaydiumPosition(v) /\ used \in Coins
    BY <1>2, CeilingsType DEF RaydiumIncreaseLiquidity
  <2>2. /\ AddLiquidity(ActivePosition(v), used) \in Position
        /\ AddLiquidity(ActivePosition(v), used).owner = ActivePosition(v).owner
        /\ AddLiquidity(ActivePosition(v), used).range = ActivePosition(v).range
    BY <2>1, RaydiumPositionType, AddLiquidityType, CpisKeepOwnership
  <2> QED
    BY <1>2, <2>1, <2>2, RaydiumPositionType, ActiveFrame DEF RaydiumIncreaseLiquidity
<1>3. ASSUME NEW bps \in Shares, NEW min \in FloorsOf(Pair),
             RaydiumDecreaseLiquidity(v, bps, min)
      PROVE  Frame
  <2> DEFINE collected == RaydiumAfterCollect(ActivePosition(v))
             pos == RemoveLiquidity(collected, bps)
  <2>1. /\ RaydiumPosition(v) /\ RaydiumCollect(v, ActivePosition(v))
        /\ bps \in 0 .. BpsDivisor
    BY <1>3, ShareIsBps DEF RaydiumDecreaseLiquidity
  <2>2. /\ collected \in Position
        /\ collected.owner = ActivePosition(v).owner
        /\ collected.range = ActivePosition(v).range
    BY <2>1, RaydiumCollectedPosition
  <2>3. /\ pos \in Position
        /\ pos.owner = ActivePosition(v).owner
        /\ pos.range = ActivePosition(v).range
    BY <2>1, <2>2, RemoveLiquidityType, CpisKeepOwnership
  <2>4. ActivePositionBecomes(v, pos) /\ vaults' = vaults
    BY <1>3 DEF RaydiumDecreaseLiquidity
  <2> HIDE DEF pos
  <2> QED
    BY <2>1, <2>3, <2>4, RaydiumPositionType, ActiveFrame
<1>4. CASE RaydiumCollectFees(v)
  <2>1. RaydiumPosition(v) /\ RaydiumCollect(v, ActivePosition(v))
    BY <1>4 DEF RaydiumCollectFees
  <2>2. Frame
    BY <1>4, <2>1, RaydiumCollectedPosition, RaydiumPositionType, ActiveFrame
       DEF RaydiumCollectFees
  <2> QED
    BY <2>2 DEF VaultStep
<1>5. CASE RaydiumClosePosition(v)
  <2>1. RaydiumPosition(v) /\ Protocol[v] = "Raydium" /\ vaults[v].pending_rebalance = Null
    BY <1>5 DEF RaydiumClosePosition, RaydiumPosition, RaydiumVault, ManagedVault,
       NoPendingRebalance
  <2>2. ActivePositionBecomes(v, Null)
        /\ vaults' = [vaults EXCEPT ![v] = WithoutPosition(vaults[v])]
    BY <1>5 DEF RaydiumClosePosition, TypeOK
  <2>3. Closes(v)
    BY <2>1, <2>2, RaydiumPositionType, NftForgotten, ClosesFrom
  <2> QED
    BY <2>3 DEF VaultStep
<1>6. ASSUME NEW r \in Ranges, NEW min \in FloorsOf(Pair),
             StartRebalanceRaydium(v, r, min)
      PROVE  Closes(v)
  <2> DEFINE vault == RecordPendingRebalance(vaults[v], r)
  <2>1. RaydiumPosition(v) /\ Protocol[v] = "Raydium" /\ vaults[v].pending_rebalance = Null
    BY <1>6 DEF StartRebalanceRaydium, RaydiumPosition, RaydiumVault, ManagedVault,
       NoPendingRebalance
  <2>2. ActivePositionBecomes(v, Null) /\ vaults' = [vaults EXCEPT ![v] = vault]
    BY <1>6 DEF StartRebalanceRaydium, TypeOK
  <2>3. vault \in VaultAccount
    BY <2>1, RaydiumPositionType, NftForgotten, SetPendingType DEF RecordPendingRebalance
  <2>4. /\ vault.position_address = Null /\ vault.position_mint = Null
        /\ vault.position_range = Null
    BY <2>1, RaydiumPositionType, NftForgotten DEF RecordPendingRebalance, VaultAccount
  <2> HIDE DEF vault
  <2> QED
    BY <2>1, <2>2, <2>3, <2>4, RaydiumPositionType, ClosesFrom
<1>7. ASSUME NEW p \in PositionIds, NEW max \in Ceilings, NEW used \in Ceilings,
             RetryPendingRebalanceRaydium(v, p, max, used)
      PROVE  \E r \in Ranges : Opens(v, p, r)
  <2> DEFINE r == vaults[v].pending_rebalance.range
             opened == NftRecorded(vaults[v], p, r)
             vault == RecordRebalancedPosition(RecordPairTransferFees(vaults[v]), p, r)
             pos == AddLiquidity(NewPosition(v, r), used)
  <2>1. /\ Exists(v) /\ vaults[v] \in VaultAccount
        /\ mintFee \in [Mints -> TransferFeeConfig]
        /\ Protocol[v] = "Raydium" /\ vaults[v].pending_rebalance # Null
        /\ used \in Coins
    BY <1>7, ManagedVaultType, CeilingsType
       DEF RetryPendingRebalanceRaydium, RaydiumVault, ManagedVault
  <2>2. r \in Ranges
    BY <2>1 DEF VaultAccount, PendingRebalance
  <2>3. /\ opened \in VaultAccount
        /\ opened.position_address = p /\ opened.position_mint = p
        /\ opened.position_range = r
    BY <2>1, <2>2, NftRecord
  <2>4. /\ vault \in VaultAccount
        /\ vault.position_address = p /\ vault.position_mint = p
        /\ vault.position_range = r /\ vault.pending_rebalance = Null
    <3>1. vault = [opened EXCEPT !.pending_rebalance = Null]
      BY DEF RecordRebalancedPosition, NftRecorded
    <3> HIDE DEF opened, vault
    <3> QED
      BY <2>3, <3>1, ClearPendingType DEF VaultAccount
  <2>5. pos \in Position /\ pos.owner = v /\ pos.range = r
    BY <2>1, <2>2, FundedPosition
  <2>6. /\ WithoutVaultPosition(v) /\ FreshPosition(p)
        /\ positions' = [positions EXCEPT ![p] = pos]
        /\ vaults' = [vaults EXCEPT ![v] = vault]
    BY <1>7 DEF RetryPendingRebalanceRaydium, TypeOK
  <2>7. vault.position_mint = IF Protocol[v] = "Meteora" THEN Null ELSE p
    BY <2>1, <2>4
  <2> HIDE DEF vault, pos
  <2>8. Opens(v, p, r)
    BY <2>1, <2>4, <2>5, <2>6, <2>7, OpensFrom
  <2> QED
    BY <2>2, <2>8
<1> QED
  BY <1>1, <1>2, <1>3, <1>4, <1>5, <1>6, <1>7 DEF ManageRaydium, VaultStep
----------------------------------------------------------------------------
(* The environment leaves ownership and vault accounts alone *)

LEMMA AccrueFeesFrame ==
  ASSUME TypeOK, NEW p \in PositionIds, NEW m \in Pair, AccrueFees(p, m)
  PROVE  Frame
<1>1. positions[p] \in Position /\ positions[p].fees \in Coins
  BY EarningType DEF AccrueFees
<1>2. m \in Mints /\ Chunk \in Nat
  BY EnvironmentAssumption DEF Mints
<1>3. [positions[p].fees EXCEPT ![m] = @ + Chunk] \in Coins
  BY <1>1, <1>2, AddOneType
<1> DEFINE richer == [positions[p] EXCEPT
                        !.fees = [positions[p].fees EXCEPT ![m] = @ + Chunk]]
<1>4. /\ richer \in Position
      /\ richer.owner = positions[p].owner /\ richer.range = positions[p].range
  BY <1>1, <1>3 DEF Position
<1>5. positions' = [positions EXCEPT ![p] = richer] /\ vaults' = vaults
  BY <1>1 DEF AccrueFees, TypeOK, Position
<1> HIDE DEF richer
<1> QED
  BY <1>4, <1>5, OnePositionFrame

LEMMA AccrueRewardFrame ==
  ASSUME TypeOK, NEW p \in PositionIds, AccrueReward(p)
  PROVE  Frame
<1> DEFINE owed == [positions[p] EXCEPT !.reward = positions[p].reward + Chunk]
<1>1. positions[p] \in Position /\ positions[p].reward \in Nat
  BY EarningType DEF AccrueReward
<1>2. positions[p].reward + Chunk \in Nat
  BY <1>1, EnvironmentAssumption
<1>3. /\ owed \in Position
      /\ owed.owner = positions[p].owner /\ owed.range = positions[p].range
  BY <1>1, <1>2 DEF Position
<1>4. positions' = [positions EXCEPT ![p] = owed] /\ vaults' = vaults
  BY <1>1 DEF AccrueReward, TypeOK, Position
<1> HIDE DEF owed
<1> QED
  BY <1>3, <1>4, OnePositionFrame

LEMMA TraderSwapFrame ==
  ASSUME TypeOK, NEW p \in PositionIds, NEW sold \in Pair, NEW bought \in Pair,
         TraderSwap(p, sold, bought)
  PROVE  Frame
<1>1. /\ positions[p] \in Position
      /\ positions[p].principal \in Coins
  BY EarningType DEF TraderSwap
<1>2. /\ sold \in Mints /\ bought \in Mints /\ sold # bought
      /\ Chunk \in Nat
  BY StateAssumption, EnvironmentAssumption DEF TraderSwap, Mints, Pair
<1> DEFINE less == [positions[p].principal EXCEPT ![bought] = @ - Chunk]
           swapped == [less EXCEPT ![sold] = @ + Chunk]
           pos == [positions[p] EXCEPT !.principal = swapped]
<1>3. less \in Coins
  BY <1>1, <1>2, TakeOneType DEF TraderSwap
<1>4. swapped \in Coins
  <2> HIDE DEF less
  <2> QED
    BY <1>2, <1>3, AddOneType
<1>5. positions' = [positions EXCEPT ![p] = pos] /\ vaults' = vaults
  <2>1. Swapped(positions[p].principal, sold, bought) = swapped
    BY <1>1, <1>2 DEF Swapped, Coins
  <2> HIDE DEF swapped
  <2> QED
    BY <2>1 DEF TraderSwap
<1>6. /\ pos \in Position
      /\ pos.owner = positions[p].owner /\ pos.range = positions[p].range
  <2> HIDE DEF swapped
  <2> QED
    BY <1>1, <1>4 DEF Position
<1> HIDE DEF pos
<1> QED
  BY <1>5, <1>6, OnePositionFrame

LEMMA EnvironmentStep ==
  ASSUME TypeOK, Administer \/ Trade \/ TokenPrograms \/ Tick \/ UNCHANGED vars
  PROVE  Frame
<1>1. CASE Administer
  BY <1>1, UnchangedFrame DEF Administer, InitializeProtocol, SetProtocolPause
<1>2. CASE Trade
  <2>1. MintA \in Pair /\ MintB \in Pair
    BY DEF Pair
  <2>2. CASE FundRewardVault
    BY <2>2, UnchangedFrame DEF FundRewardVault
  <2> QED
    BY <1>2, <2>1, <2>2, AccrueFeesFrame, AccrueRewardFrame, TraderSwapFrame
       DEF Trade
<1>3. CASE TokenPrograms
  BY <1>3, UnchangedFrame
     DEF TokenPrograms, HarvestWithheld, OpenRewardAccount, SetTransferFee, NewEpoch
<1>4. CASE Tick
  BY <1>4, UnchangedFrame DEF Tick
<1>5. CASE UNCHANGED vars
  BY <1>5, UnchangedFrame DEF vars
<1> QED
  BY <1>1, <1>2, <1>3, <1>4, <1>5

\* Every step of the program is of one of the seven kinds, for one vault.
LEMMA EveryStep ==
  ASSUME TypeOK, [Next]_vars
  PROVE  Frame \/ \E v \in Vaults : VaultStep(v)
<1>1. CASE \E v \in Vaults : \/ Own(v) \/ ManageMeteora(v)
                             \/ ManageOrca(v) \/ ManageRaydium(v)
  BY <1>1, OwnStep, MeteoraStep, OrcaStep, RaydiumStep
<1>2. CASE Administer \/ Trade \/ TokenPrograms \/ Tick \/ UNCHANGED vars
  BY <1>2, EnvironmentStep
<1> QED
  BY <1>1, <1>2 DEF Next

----------------------------------------------------------------------------
(* The invariants *)

\* One vault's share of PendingMeansNoPosition and RecordedPositionIsLive.
PendingOk(v) ==
    vaults[v].pending_rebalance # Null =>
        /\ vaults[v].position_address = Null
        /\ vaults[v].position_mint = Null
        /\ vaults[v].position_range = Null
        /\ Protocol[v] # "Meteora"

RecordOk(v) ==
    LET vault == vaults[v]
        p == vault.position_address
    IN  IF p = Null
          THEN vault.position_range = Null /\ vault.position_mint = Null
          ELSE /\ positions[p] # Null
               /\ positions[p].owner = v
               /\ positions[p].range = vault.position_range
               /\ vault.position_mint =
                    IF Protocol[v] = "Meteora" THEN Null ELSE p

VaultOk(v) == Exists(v) => PendingOk(v) /\ RecordOk(v)

\* Neither invariant is inductive alone: that a close clears the Meteora
\* position_mint is known only because RecordOk says it is Null already, and
\* that another vault's step spares this vault's position only because the
\* recorded owner of a position is one vault.
Ownership == \A v \in Vaults : VaultOk(v)

LEMMA FrameKeepsVault ==
  ASSUME TypeOK, NEW v \in Vaults, VaultOk(v), vaults'[v] = vaults[v],
         Exists(v) /\ Recorded(v) # Null => Keeps(Recorded(v))
  PROVE  VaultOk(v)'
BY DEF VaultOk, PendingOk, RecordOk, Exists, Recorded, Keeps

\* A step that changes one position, and the vault it belongs to, spares the
\* others.
LEMMA OtherVaultKeeps ==
  ASSUME TypeOK, Ownership, NEW v \in Vaults, NEW w \in Vaults \ {v},
         NEW p \in PositionIds, OnlyVault(v), OnlyPosition(p),
         positions[p] = Null \/ positions[p].owner = v
  PROVE  VaultOk(w)'
<1>1. VaultOk(w) /\ vaults'[w] = vaults[w]
  BY DEF Ownership, OnlyVault
<1>2. ASSUME Exists(w), Recorded(w) # Null
      PROVE  Keeps(Recorded(w))
  <2>1. positions[Recorded(w)] # Null /\ positions[Recorded(w)].owner = w
    BY <1>1, <1>2 DEF VaultOk, RecordOk, Recorded
  <2>2. Recorded(w) \in PositionIds
    BY <1>2 DEF TypeOK, VaultAccount, Exists, Recorded
  <2>3. Recorded(w) # p
    BY <2>1
  <2> QED
    BY <2>1, <2>2, <2>3 DEF OnlyPosition, Keeps
<1> QED
  BY <1>1, <1>2, FrameKeepsVault
LEMMA StepKeepsOwnership ==
  ASSUME TypeOK, Ownership, NEW v \in Vaults, VaultStep(v)
  PROVE  Ownership'
<1>0. VaultOk(v)
  BY DEF Ownership
<1>1. CASE Frame
  <2>1. ASSUME NEW w \in Vaults PROVE VaultOk(w)'
    <3>1. VaultOk(w) /\ vaults'[w] = vaults[w]
      BY <1>1 DEF Ownership, Frame
    <3>2. Exists(w) /\ Recorded(w) # Null => Recorded(w) \in PositionIds
      BY DEF TypeOK, VaultAccount, Exists, Recorded
    <3> QED
      BY <1>1, <3>1, <3>2, FrameKeepsVault DEF Frame
  <2> QED
    BY <2>1 DEF Ownership
<1>2. CASE Creates(v) \/ Leaves(v) \/ Cancels(v)
  <2>1. ASSUME NEW w \in Vaults \ {v} PROVE VaultOk(w)'
    <3>1. VaultOk(w) /\ vaults'[w] = vaults[w] /\ positions' = positions
      BY <1>2 DEF Ownership, Creates, Leaves, Cancels, OnlyVault
    <3> QED
      BY <3>1, FrameKeepsVault DEF Keeps
  <2>2. ASSUME Creates(v) PROVE VaultOk(v)'
    BY <2>2 DEF Creates, NewVaultAccount, VaultOk, PendingOk, RecordOk
  <2>3. ASSUME Leaves(v) PROVE VaultOk(v)'
    BY <2>3 DEF Leaves, VaultOk, Exists
  <2>4. ASSUME Cancels(v) PROVE VaultOk(v)'
    <3>1. vaults[v] \in VaultAccount /\ vaults[v] # Null
      BY <2>4 DEF Cancels, Exists, TypeOK
    <3>2. /\ vaults'[v].pending_rebalance = Null
          /\ vaults'[v].position_address = vaults[v].position_address
          /\ vaults'[v].position_mint = vaults[v].position_mint
          /\ vaults'[v].position_range = vaults[v].position_range
      BY <2>4, <3>1 DEF Cancels, VaultAccount
    <3>3. PendingOk(v)'
      BY <3>2 DEF PendingOk
    <3>4. RecordOk(v)'
      BY <1>0, <2>4, <3>2 DEF Cancels, VaultOk, RecordOk
    <3> QED
      BY <3>3, <3>4 DEF VaultOk
  <2> QED
    BY <1>2, <2>1, <2>2, <2>3, <2>4 DEF Ownership
<1>3. CASE Closes(v)
  <2>1. /\ Recorded(v) \in PositionIds
        /\ positions[Recorded(v)].owner = v
        /\ Protocol[v] = "Meteora" => vaults[v].position_mint = Null
    BY <1>0, <1>3, ActivePositionType
       DEF Closes, VaultOk, RecordOk, HasActivePosition, Recorded
  <2>2. ASSUME NEW w \in Vaults \ {v} PROVE VaultOk(w)'
    BY <1>3, <2>1, OtherVaultKeeps DEF Closes
  <2>3. VaultOk(v)'
    BY <1>3, <2>1 DEF Closes, VaultOk, PendingOk, RecordOk
  <2> QED
    BY <2>2, <2>3 DEF Ownership
<1>4. ASSUME NEW p \in PositionIds, NEW r \in Ranges, Opens(v, p, r)
      PROVE  Ownership'
  <2>1. p # Null
    BY StateAssumption
  <2>2. ASSUME NEW w \in Vaults \ {v} PROVE VaultOk(w)'
    BY <1>4, OtherVaultKeeps DEF Opens
  <2>3. VaultOk(v)'
    BY <1>4, <2>1 DEF Opens, VaultOk, PendingOk, RecordOk
  <2> QED
    BY <2>2, <2>3 DEF Ownership
<1>5. ASSUME NEW r \in Ranges, Moves(v, r)
      PROVE  Ownership'
  <2>1. /\ Recorded(v) \in PositionIds /\ Recorded(v) # Null
        /\ ActivePosition(v).owner = v
        /\ vaults[v].position_mint = Null
    BY <1>0, <1>5, ActivePositionType
       DEF Moves, VaultOk, RecordOk, HasActivePosition, Recorded, ActivePosition
  <2>2. ASSUME NEW w \in Vaults \ {v} PROVE VaultOk(w)'
    BY <1>5, <2>1, OtherVaultKeeps DEF Moves, ActivePosition
  <2>3. VaultOk(v)'
    BY <1>5, <2>1 DEF Moves, VaultOk, PendingOk, RecordOk
  <2> QED
    BY <2>2, <2>3 DEF Ownership
<1> QED
  BY <1>1, <1>2, <1>3, <1>4, <1>5 DEF VaultStep

LEMMA FrameKeepsOwnership ==
  ASSUME TypeOK, Ownership, Frame
  PROVE  Ownership'
<1>1. CASE Vaults = {}
  BY <1>1 DEF Ownership
<1>2. ASSUME NEW v \in Vaults PROVE Ownership'
  BY StepKeepsOwnership DEF VaultStep
<1> QED
  BY <1>1, <1>2

LEMMA OwnershipInvariant == Spec => [](TypeOK /\ Ownership)
<1>1. Init => TypeOK /\ Ownership
  BY InitType DEF Init, Ownership, VaultOk, Exists
<1>2. TypeOK /\ Ownership /\ [Next]_vars => (TypeOK /\ Ownership)'
  BY NextType, EveryStep, StepKeepsOwnership, FrameKeepsOwnership
<1> QED
  BY <1>1, <1>2, PTL DEF Spec

\* execute_action*.rs, start_rebalance_*.rs: whatever the vaults, users, mints
\* and inputs, and however the close leg, the open leg, a cancel and an exit
\* interleave, no vault has both a pending rebalance and a recorded position,
\* and no Meteora vault is ever pending.
THEOREM PendingExcludesPosition == Spec => []PendingMeansNoPosition
<1>1. Ownership => PendingMeansNoPosition
  BY DEF Ownership, VaultOk, PendingOk, PendingMeansNoPosition
<1> QED
  BY <1>1, OwnershipInvariant, PTL

\* The fields every handler trusts are true of the DEX in every reachable
\* state: the recorded position is live, this vault's and nobody else's, and
\* in the recorded range.
THEOREM RecordIsTrue == Spec => []RecordedPositionIsLive
<1>1. Ownership => RecordedPositionIsLive
  BY DEF Ownership, VaultOk, RecordOk, RecordedPositionIsLive
<1> QED
  BY <1>1, OwnershipInvariant, PTL

\* No instruction forgets or replaces a live position it does not close, except
\* the two exits, which close the vault account.
THEOREM OnlyExitsOrphan == Spec => OnlyExitsOrphanAPosition
<1> DEFINE Held(v) ==
             Exists(v) /\ HasActivePosition(v) =>
               \/ vaults'[v] = Null
               \/ positions'[Recorded(v)] = Null
               \/ vaults'[v].position_address = Recorded(v)
<1>1. ASSUME TypeOK, [Next]_vars, NEW v \in Vaults
      PROVE  Held(v)
  <2>1. CASE Frame
    BY <2>1 DEF Frame, Recorded
  <2>2. ASSUME NEW w \in Vaults, VaultStep(w)
        PROVE  Held(v)
    <3>1. CASE w = v
      <4>1. CASE Cancels(v)
        <5>1. vaults[v] \in VaultAccount
          BY <1>1, <4>1 DEF Cancels, Exists, TypeOK
        <5> QED
          BY <4>1, <5>1 DEF Cancels, Recorded, VaultAccount
      <4> QED
        BY <2>1, <2>2, <3>1, <4>1 DEF VaultStep, Creates, Leaves, Closes, Opens,
           Moves, HasActivePosition, Recorded
    <3>2. CASE w # v
      <4>1. CASE OnlyVault(w)
        BY <3>2, <4>1 DEF OnlyVault, Recorded
      <4> QED
        BY <2>1, <2>2, <4>1
           DEF VaultStep, Creates, Leaves, Cancels, Closes, Opens, Moves
    <3> QED
      BY <3>1, <3>2
  <2> QED
    BY <1>1, <2>1, <2>2, EveryStep
<1>2. TypeOK /\ [Next]_vars =>
        [\A v \in Vaults : Exists(v) /\ HasActivePosition(v) =>
            \/ vaults'[v] = Null
            \/ positions'[Recorded(v)] = Null
            \/ vaults'[v].position_address = Recorded(v)]_vars
  BY <1>1
<1> QED
  BY <1>2, TypeCorrect, PTL DEF Spec, OnlyExitsOrphanAPosition

----------------------------------------------------------------------------
(* The abstract lifecycle: Stage is the refinement mapping, and each kind  *)
(* of step is an abstract step of one vault, or a stutter.                 *)

\* An abstract step of v, from the stages before and after.
LEMMA GoesFrom ==
  ASSUME NEW v \in Vaults, NEW from, NEW to, OnlyVault(v),
         Stage(v) = from, Stage(v)' = to
  PROVE  Lifecycle!Goes(v, from, to)
<1>1. ASSUME NEW w \in Vaults \ {v} PROVE Stage(w)' = Stage(w)
  BY <1>1 DEF OnlyVault, Stage, Exists
<1> QED
  BY <1>1 DEF Lifecycle!Goes

LEMMA FrameStutters ==
  ASSUME Frame
  PROVE  UNCHANGED [v \in Vaults |-> Stage(v)]
<1>1. ASSUME NEW v \in Vaults PROVE Stage(v)' = Stage(v)
  BY DEF Frame, Stage, Exists
<1> QED
  BY <1>1

\* The stages of a vault whose records are right.
LEMMA StageWhenActive ==
  ASSUME TypeOK, Ownership, NEW v \in Vaults, Exists(v), HasActivePosition(v),
         vaults[v].pending_rebalance = Null
  PROVE  /\ vaults[v].position_range \in Ranges
         /\ Stage(v) = Lifecycle!ActiveIn(vaults[v].position_range)
<1>1. /\ ActivePosition(v) \in Position /\ Recorded(v) # Null
      /\ ActivePosition(v).range = vaults[v].position_range
  BY ActivePositionType
     DEF Ownership, VaultOk, RecordOk, HasActivePosition, ActivePosition, Recorded
<1>2. vaults[v].position_range \in Ranges
  BY <1>1 DEF Position
<1>3. vaults[v].position_range # Null
  BY <1>2, StateAssumption
<1> QED
  BY <1>2, <1>3 DEF Stage, Exists, Lifecycle!ActiveIn

LEMMA StageWithoutPosition ==
  ASSUME TypeOK, Ownership, NEW v \in Vaults, Exists(v), Recorded(v) = Null
  PROVE  /\ vaults[v].pending_rebalance = Null => Stage(v) = Lifecycle!Idle
         /\ vaults[v].pending_rebalance # Null =>
              /\ vaults[v].pending_rebalance.range \in Ranges
              /\ Stage(v) =
                   Lifecycle!PendingTo(vaults[v].pending_rebalance.range)
<1>1. vaults[v] \in VaultAccount /\ vaults[v].position_range = Null
  BY DEF TypeOK, Ownership, VaultOk, RecordOk, Exists, Recorded
<1>2. vaults[v].pending_rebalance # Null =>
        vaults[v].pending_rebalance.range \in Ranges
  BY <1>1 DEF VaultAccount, PendingRebalance
<1> QED
  BY <1>1, <1>2 DEF Stage, Exists, Lifecycle!Idle, Lifecycle!PendingTo

LEMMA StepImplements ==
  ASSUME TypeOK, TypeOK', Ownership, Ownership', NEW v \in Vaults, VaultStep(v)
  PROVE  \/ Lifecycle!Next
         \/ UNCHANGED [w \in Vaults |-> Stage(w)]
<1>1. CASE Frame
  BY <1>1, FrameStutters
<1>2. CASE Creates(v)
  <2>1. Stage(v) = Lifecycle!Absent /\ Stage(v)' = Lifecycle!Idle
    BY <1>2, NewVaultAccountType, NullAssumption
       DEF Creates, Stage, Exists, NewVaultAccount, Lifecycle!Absent, Lifecycle!Idle
  <2>2. Lifecycle!Create(v)
    BY <1>2, <2>1, GoesFrom DEF Creates, Lifecycle!Create
  <2> QED
    BY <2>2 DEF Lifecycle!Next
<1>3. CASE Leaves(v)
  <2>1. Stage(v) # Lifecycle!Absent
    BY <1>3 DEF Leaves, Stage, Exists, Lifecycle!Absent
  <2>2. Stage(v)' = Lifecycle!Absent
    BY <1>3 DEF Leaves, Stage, Exists, Lifecycle!Absent
  <2>3. Lifecycle!Goes(v, Stage(v), Lifecycle!Absent)
    BY <1>3, <2>2, GoesFrom DEF Leaves
  <2>4. Lifecycle!Exit(v)
    BY <2>1, <2>3 DEF Lifecycle!Exit, Lifecycle!Goes
  <2> QED
    BY <2>4 DEF Lifecycle!Next
<1>4. CASE Cancels(v)
  <2> DEFINE r == vaults[v].pending_rebalance.range
  <2>1. /\ Exists(v) /\ Recorded(v) = Null
        /\ vaults[v] \in VaultAccount /\ vaults[v].position_range = Null
    BY <1>4 DEF Cancels, TypeOK, Ownership, VaultOk, PendingOk, Exists, Recorded
  <2>2. r \in Ranges /\ Stage(v) = Lifecycle!PendingTo(r)
    BY <1>4, <2>1, StageWithoutPosition DEF Cancels
  <2>3. Stage(v)' = Lifecycle!Idle
    <3>1. vaults'[v] = [vaults[v] EXCEPT !.pending_rebalance = Null]
      BY <1>4 DEF Cancels
    <3>2. vaults'[v] # Null
      BY <2>1, <3>1, ClearPendingType, NullAssumption
    <3> QED
      BY <2>1, <3>1, <3>2 DEF Stage, Exists, VaultAccount, Lifecycle!Idle
  <2>4. Lifecycle!Cancel(v, r)
    BY <1>4, <2>2, <2>3, GoesFrom DEF Cancels, Lifecycle!Cancel
  <2> QED
    BY <2>2, <2>4 DEF Lifecycle!Next
<1>5. ASSUME NEW p \in PositionIds, NEW r \in Ranges, Opens(v, p, r)
      PROVE  Lifecycle!Next
  <2>1. Exists(v) /\ Recorded(v) = Null /\ OnlyVault(v)
    BY <1>5 DEF Opens, Recorded
  <2>2. Stage(v)' = Lifecycle!ActiveIn(r)
    <3>1. r # Null
      BY StateAssumption
    <3> QED
      BY <1>5, <3>1 DEF Opens, Stage, Exists, Lifecycle!ActiveIn
  <2>3. CASE vaults[v].pending_rebalance = Null
    <3>1. Lifecycle!Open(v, r)
      BY <2>1, <2>2, <2>3, StageWithoutPosition, GoesFrom DEF Lifecycle!Open
    <3> QED
      BY <3>1 DEF Lifecycle!Next
  <2>4. CASE vaults[v].pending_rebalance # Null
    <3>1. vaults[v].pending_rebalance.range = r
      BY <1>5, <2>4 DEF Opens
    <3>2. Lifecycle!Finish(v, r)
      BY <2>1, <2>2, <2>4, <3>1, StageWithoutPosition, GoesFrom
         DEF Lifecycle!Finish
    <3> QED
      BY <3>2 DEF Lifecycle!Next
  <2> QED
    BY <2>3, <2>4
<1>6. CASE Closes(v)
  <2> DEFINE r == vaults[v].position_range
  <2>1. r \in Ranges /\ Stage(v) = Lifecycle!ActiveIn(r)
    BY <1>6, StageWhenActive DEF Closes
  <2>2. /\ OnlyVault(v) /\ vaults'[v] # Null /\ vaults'[v] \in VaultAccount
        /\ vaults'[v].position_range = Null
    BY <1>6 DEF Closes, TypeOK
  <2>3. CASE vaults'[v].pending_rebalance = Null
    <3>1. Stage(v)' = Lifecycle!Idle
      BY <2>2, <2>3 DEF Stage, Exists, Lifecycle!Idle
    <3>2. Lifecycle!Close(v, r)
      BY <2>1, <2>2, <3>1, GoesFrom DEF Lifecycle!Close
    <3> QED
      BY <2>1, <3>2 DEF Lifecycle!Next
  <2>4. CASE vaults'[v].pending_rebalance # Null
    <3> DEFINE s == vaults'[v].pending_rebalance.range
    <3>1. s \in Ranges /\ Stage(v)' = Lifecycle!PendingTo(s)
      BY <2>2, <2>4 DEF Stage, Exists, VaultAccount, PendingRebalance,
         Lifecycle!PendingTo
    <3>2. v \notin {w \in Vaults : Protocol[w] = "Meteora"}
      BY <1>6, <2>4 DEF Closes
    <3> HIDE DEF s
    <3>3. Lifecycle!Goes(v, Lifecycle!ActiveIn(r), Lifecycle!PendingTo(s))
      BY <2>1, <2>2, <3>1, GoesFrom
    <3>4. Lifecycle!Start(v, r, s)
      BY <3>2, <3>3 DEF Lifecycle!Start
    <3> QED
      BY <2>1, <3>1, <3>4 DEF Lifecycle!Next
  <2> QED
    BY <2>3, <2>4
<1>7. ASSUME NEW s \in Ranges, Moves(v, s)
      PROVE  Lifecycle!Next
  <2> DEFINE r == vaults[v].position_range
  <2>1. r \in Ranges /\ Stage(v) = Lifecycle!ActiveIn(r)
    BY <1>7, StageWhenActive DEF Moves
  <2>2. Stage(v)' = Lifecycle!ActiveIn(s)
    <3>1. s # Null
      BY StateAssumption
    <3> QED
      BY <1>7, <3>1 DEF Moves, Stage, Exists, Lifecycle!ActiveIn
  <2>3. v \in {w \in Vaults : Protocol[w] = "Meteora"}
    BY <1>7 DEF Moves
  <2>4. Lifecycle!Goes(v, Lifecycle!ActiveIn(r), Lifecycle!ActiveIn(s))
    BY <1>7, <2>1, <2>2, GoesFrom DEF Moves
  <2>5. Lifecycle!Move(v, r, s)
    BY <2>3, <2>4 DEF Lifecycle!Move
  <2> QED
    BY <2>1, <2>5 DEF Lifecycle!Next
<1> QED
  BY <1>1, <1>2, <1>3, <1>4, <1>5, <1>6, <1>7 DEF VaultStep

\* The program implements the lifecycle: whatever the constants, a rebalance
\* in flight keeps its target until it is finished in exactly that range,
\* cancelled or left, only a Meteora vault moves its position in place, and a
\* vault account never appears, leaves or changes stage in any other way.
THEOREM Refines == Spec => ImplementsLifecycle
<1>1. Init => Lifecycle!Init
  BY DEF Init, Lifecycle!Init, Stage, Exists, Lifecycle!Absent
<1>2. TypeOK /\ TypeOK' /\ Ownership /\ Ownership' /\ [Next]_vars =>
        [Lifecycle!Next]_([v \in Vaults |-> Stage(v)])
  BY EveryStep, StepImplements, FrameStutters
<1> QED
  BY <1>1, <1>2, OwnershipInvariant, PTL
     DEF Spec, ImplementsLifecycle, Lifecycle!Spec
=============================================================================
