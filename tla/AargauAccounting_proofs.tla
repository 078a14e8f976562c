----------------------- MODULE AargauAccounting_proofs ------------------------
(***************************************************************************)
(* The treasury takes its share of LP fees, once, and nothing else: every  *)
(* step either leaves the treasury alone and takes no fees out of any      *)
(* position, or empties the fees of one position and pays the treasury     *)
(* from what arrived of exactly those fees.  And no instruction loses or   *)
(* creates a token: what an instruction on one vault moves is conserved    *)
(* handler by handler (Conserves), and as it spares every other vault and  *)
(* wallet, the sums over all users and all vaults move by that one entry.  *)
(***************************************************************************)
EXTENDS AargauAccounting, AargauSafety_proofs, Inductions

----------------------------------------------------------------------------
(* Fees owed to a position *)

\* A DEX keeps them as u64s, and only of the pool's pair.
GoodFees(c) == c \in [Mints -> U64] /\ \A m \in Mints \ Pair : c[m] = 0

FeesOk ==
    \A p \in PositionIds : positions[p] # Null => GoodFees(positions[p].fees)

\* Position p over a step that pays nothing out of its fees.
KeepsFees(p) ==
    \/ positions[p] = Null /\ positions'[p] = Null
    \/ positions[p] = Null /\ positions'[p] # Null /\ positions'[p].fees = NoCoins
    \/ /\ positions[p] # Null /\ positions'[p] # Null
       /\ GoodFees(positions'[p].fees)
       /\ Covers(positions'[p].fees, positions[p].fees)
    \/ /\ positions[p] # Null /\ positions'[p] = Null
       /\ positions[p].fees = NoCoins \/ Forfeits(p)

Untaxed == treasury' = treasury /\ \A p \in PositionIds : KeepsFees(p)

\* The fees of p are collected: none stay in it, and it is not one that
\* forfeits them.
Taxed(p) ==
    /\ config \in ProtocolConfig
    /\ positions[p] # Null /\ OnlyPosition(p) /\ ~Forfeits(p)
    /\ positions'[p] # Null => positions'[p].fees = NoCoins
    /\ treasury' = TreasuryAfter(FeeBase(positions[p]))

FeeStep == Untaxed \/ \E p \in PositionIds : Taxed(p)

LEMMA NoFeesAreGood == GoodFees(NoCoins)
BY MaxU64Assumption DEF GoodFees, NoCoins, U64

LEMMA GoodFeesAreCoins ==
  ASSUME NEW c, GoodFees(c)
  PROVE  c \in Coins
BY MaxU64Assumption DEF GoodFees, Coins, U64

\* Contents whose fees are what they were, of a position that is live.
LEMMA SameFees ==
  ASSUME TypeOK, FeesOk, NEW p \in PositionIds, positions[p] # Null,
         NEW pos \in Position, pos.fees = positions[p].fees,
         positions' = [positions EXCEPT ![p] = pos], treasury' = treasury
  PROVE  Untaxed
<1>1. positions \in [PositionIds -> Position \cup {Null}]
  BY DEF TypeOK
<1>2. ASSUME NEW q \in PositionIds PROVE KeepsFees(q)
  <2>1. CASE positions[q] = Null
    <3>1. q # p /\ positions'[q] = positions[q]
      BY <1>1, <2>1
    <3> QED
      BY <2>1, <3>1 DEF KeepsFees
  <2>2. CASE positions[q] # Null
    <3>1. positions'[q] \in Position /\ positions'[q].fees = positions[q].fees
      BY <1>1, <2>2
    <3>2. GoodFees(positions[q].fees) /\ positions[q].fees \in Coins
      BY <2>2, GoodFeesAreCoins DEF FeesOk
    <3>3. Covers(positions'[q].fees, positions[q].fees)
      BY <3>1, <3>2 DEF Covers, Coins
    <3> QED
      BY <2>2, <3>1, <3>2, <3>3, NullAssumption DEF KeepsFees
  <2> QED
    BY <2>1, <2>2
<1> QED
  BY <1>2 DEF Untaxed

LEMMA SamePositions ==
  ASSUME TypeOK, FeesOk, positions' = positions, treasury' = treasury
  PROVE  Untaxed
<1>1. ASSUME NEW q \in PositionIds, positions[q] # Null PROVE KeepsFees(q)
  <2>1. GoodFees(positions[q].fees) /\ positions[q].fees \in Coins
    BY <1>1, GoodFeesAreCoins DEF FeesOk
  <2>2. Covers(positions'[q].fees, positions[q].fees)
    BY <2>1 DEF Covers, Coins
  <2> QED
    BY <1>1, <2>1, <2>2 DEF KeepsFees
<1> QED
  BY <1>1 DEF Untaxed, KeepsFees

\* A step that touches one position leaves the fees of the others.
LEMMA OtherPositionsKeep ==
  ASSUME TypeOK, FeesOk, NEW p \in PositionIds, OnlyPosition(p), KeepsFees(p),
         treasury' = treasury
  PROVE  Untaxed
<1>1. ASSUME NEW q \in PositionIds \ {p}, positions[q] # Null PROVE KeepsFees(q)
  <2>1. GoodFees(positions[q].fees) /\ positions[q].fees \in Coins
    BY <1>1, GoodFeesAreCoins DEF FeesOk
  <2>2. positions'[q] = positions[q]
    BY DEF OnlyPosition
  <2>3. Covers(positions'[q].fees, positions[q].fees)
    BY <2>1, <2>2 DEF Covers, Coins
  <2> QED
    BY <1>1, <2>1, <2>2, <2>3 DEF KeepsFees
<1>2. ASSUME NEW q \in PositionIds \ {p}, positions[q] = Null PROVE KeepsFees(q)
  BY <1>2 DEF KeepsFees, OnlyPosition
<1> QED
  BY <1>1, <1>2 DEF Untaxed

\* An open leg.
LEMMA OpensUntaxed ==
  ASSUME TypeOK, FeesOk, NEW p \in PositionIds, FreshPosition(p),
         NEW pos \in Position, pos.fees = NoCoins,
         positions' = [positions EXCEPT ![p] = pos], treasury' = treasury
  PROVE  Untaxed
<1>1. OnlyPosition(p) /\ positions'[p] = pos /\ pos # Null
  BY NullAssumption DEF OnlyPosition, TypeOK
<1>2. KeepsFees(p)
  BY <1>1 DEF KeepsFees, FreshPosition
<1> QED
  BY <1>1, <1>2, OtherPositionsKeep

\* The position v records is v's.
LEMMA ActiveOwner ==
  ASSUME TypeOK, Ownership, NEW v \in Vaults, Exists(v), HasActivePosition(v)
  PROVE  /\ Recorded(v) \in PositionIds
         /\ positions[Recorded(v)] \in Position /\ positions[Recorded(v)] # Null
         /\ positions[Recorded(v)] = ActivePosition(v)
         /\ positions[Recorded(v)].owner = v
<1>1. Recorded(v) \in PositionIds /\ ActivePosition(v) \in Position
  BY ActivePositionType
<1>2. RecordOk(v)
  BY DEF Ownership, VaultOk
<1> QED
  BY <1>1, <1>2, NullAssumption DEF RecordOk, HasActivePosition, Recorded, ActivePosition

\* New contents of the active position, its fees kept.
LEMMA ActiveUntaxed ==
  ASSUME TypeOK, FeesOk, Ownership, NEW v \in Vaults, Exists(v), HasActivePosition(v),
         NEW pos \in Position, pos.fees = ActivePosition(v).fees,
         ActivePositionBecomes(v, pos), treasury' = treasury
  PROVE  Untaxed
BY ActiveOwner, SameFees DEF ActivePositionBecomes

\* A close that collects nothing.
LEMMA ClosesUntaxed ==
  ASSUME TypeOK, FeesOk, Ownership, NEW v \in Vaults, Exists(v), HasActivePosition(v),
         ActivePosition(v).fees = NoCoins \/ Protocol[v] = "Meteora",
         ActivePositionBecomes(v, Null), treasury' = treasury
  PROVE  Untaxed
<1> DEFINE p == Recorded(v)
<1>1. p \in PositionIds /\ positions[p] # Null /\ positions[p] = ActivePosition(v)
      /\ positions[p].owner = v
  BY ActiveOwner
<1>2. OnlyPosition(p) /\ positions'[p] = Null
  BY <1>1 DEF ActivePositionBecomes, OnlyPosition, TypeOK
<1>3. KeepsFees(p)
  BY <1>1, <1>2 DEF KeepsFees, Forfeits
<1> QED
  BY <1>1, <1>2, <1>3, OtherPositionsKeep

\* A collect, with or without a close after it.
LEMMA ActiveTaxed ==
  ASSUME TypeOK, FeesOk, Ownership, NEW v \in Vaults, Exists(v), HasActivePosition(v),
         config \in ProtocolConfig,
         NEW pos, \/ pos \in Position /\ pos.fees = NoCoins
                  \/ pos = Null /\ Protocol[v] # "Meteora",
         ActivePositionBecomes(v, pos),
         treasury' = TreasuryAfter(FeeBase(ActivePosition(v)))
  PROVE  \E p \in PositionIds : Taxed(p)
<1> DEFINE p == Recorded(v)
<1>1. p \in PositionIds /\ positions[p] # Null /\ positions[p] = ActivePosition(v)
      /\ positions[p].owner = v
  BY ActiveOwner
<1>2. OnlyPosition(p) /\ positions'[p] = pos
  BY <1>1 DEF ActivePositionBecomes, OnlyPosition, TypeOK
<1>3. ~Forfeits(p)
  BY <1>1, <1>2, NullAssumption DEF Forfeits
<1>4. Taxed(p)
  BY <1>1, <1>2, <1>3 DEF Taxed
<1> QED
  BY <1>1, <1>4

LEMMA CpisKeepFees ==
  ASSUME NEW pos \in Position, NEW c, NEW n
  PROVE  /\ AddLiquidity(pos, c).fees = pos.fees
         /\ RemoveLiquidity(pos, n).fees = pos.fees
         /\ PayReward(pos, n).fees = pos.fees
         /\ ClaimFees(pos).fees = NoCoins
BY DEF AddLiquidity, RemoveLiquidity, ClaimFees, PayReward, Position

\* Raydium measures on the pool vaults what the others measure on the vault's
\* own accounts.
LEMMA RaydiumBase ==
  ASSUME mintFee \in [Mints -> TransferFeeConfig], NEW v, NEW pos \in Position,
         GoodFees(pos.fees)
  PROVE  RaydiumFeeBase(v, pos) = FeeBase(pos)
<1>1. pos.fees \in Coins
  BY DEF Position
<1>2. ASSUME NEW m \in Pair
      PROVE  MeasureLpFeeReceived(FeeLeg(v, pos, m), mintFee[m].live)
               = CalcNetAfterTransferFee(pos.fees[m], mintFee[m].live)
  <2>1. pos.fees[m] \in Nat
    BY <1>1 DEF Coins, Mints
  <2>2. FeeLeg(v, pos, m).pool_before - FeeLeg(v, pos, m).pool_after = pos.fees[m]
    BY <2>1 DEF FeeLeg
  <2> QED
    BY <2>2 DEF MeasureLpFeeReceived, LpFeeReceived
<1>3. ASSUME NEW m \in Mints \ Pair
      PROVE  CalcNetAfterTransferFee(pos.fees[m], mintFee[m].live) = 0
  <2>1. pos.fees[m] = 0
    BY DEF GoodFees
  <2>2. CalcNetAfterTransferFee(0, mintFee[m].live) \in 0 .. 0
    BY NetAmountType DEF TransferFeeConfig
  <2> QED
    BY <2>1, <2>2
<1> QED
  BY <1>2, <1>3 DEF RaydiumFeeBase, FeeBase, Net

----------------------------------------------------------------------------
(* Each instruction is an untaxed step or a taxed one *)

LEMMA OwnFees ==
  ASSUME TypeOK, FeesOk, NEW v \in Vaults, Own(v)
  PROVE  FeeStep
<1>1. positions' = positions /\ treasury' = treasury
  BY DEF Own, Exit, CreateVault, Deposit, Withdraw, EmergencyWithdraw,
     CancelPendingRebalance
<1> QED
  BY <1>1, SamePositions DEF FeeStep

LEMMA MeteoraFees ==
  ASSUME TypeOK, FeesOk, Ownership, NEW v \in Vaults, ManageMeteora(v)
  PROVE  FeeStep
<1>0. ASSUME MeteoraPosition(v)
      PROVE  /\ Exists(v) /\ HasActivePosition(v) /\ config \in ProtocolConfig
             /\ mintFee \in [Mints -> TransferFeeConfig]
             /\ ActivePosition(v) \in Position /\ Protocol[v] = "Meteora"
  BY <1>0, ManagedVaultType, ActivePositionType
     DEF MeteoraPosition, MeteoraVault, ManagedVault
<1>1. ASSUME NEW p \in PositionIds, NEW r \in Ranges, MeteoraOpenPosition(v, p, r)
      PROVE  FeeStep
  <2>1. NewPosition(v, r) \in Position /\ NewPosition(v, r).fees = NoCoins
    BY NewPositionType DEF NewPosition
  <2> QED
    BY <1>1, <2>1, OpensUntaxed DEF MeteoraOpenPosition, FeeStep
<1>2. ASSUME NEW max \in Ceilings, NEW used \in Ceilings, NEW s \in Slippages,
             MeteoraIncreaseLiquidity(v, max, used, s)
      PROVE  FeeStep
  <2>1. MeteoraPosition(v) /\ used \in Coins
    BY <1>2, CeilingsType DEF MeteoraIncreaseLiquidity
  <2>2. /\ AddLiquidity(ActivePosition(v), used) \in Position
        /\ AddLiquidity(ActivePosition(v), used).fees = ActivePosition(v).fees
    BY <1>0, <2>1, AddLiquidityType, CpisKeepFees
  <2> QED
    BY <1>0, <1>2, <2>1, <2>2, ActiveUntaxed DEF MeteoraIncreaseLiquidity, FeeStep
<1>3. ASSUME NEW bps \in Shares, MeteoraDecreaseLiquidity(v, bps)
      PROVE  FeeStep
  <2>1. MeteoraPosition(v) /\ bps \in 0 .. BpsDivisor
    BY <1>3, ShareIsBps DEF MeteoraDecreaseLiquidity
  <2>2. /\ RemoveLiquidity(ActivePosition(v), bps) \in Position
        /\ RemoveLiquidity(ActivePosition(v), bps).fees = ActivePosition(v).fees
    BY <1>0, <2>1, RemoveLiquidityType, CpisKeepFees
  <2> QED
    BY <1>0, <1>3, <2>1, <2>2, ActiveUntaxed DEF MeteoraDecreaseLiquidity, FeeStep
<1>4. CASE MeteoraCollectFees(v)
  <2>1. MeteoraPosition(v)
    BY <1>4 DEF MeteoraCollectFees
  <2>2. ClaimFees(ActivePosition(v)) \in Position
        /\ ClaimFees(ActivePosition(v)).fees = NoCoins
    BY <1>0, <2>1, ClaimFeesType, CpisKeepFees
  <2> QED
    BY <1>0, <1>4, <2>1, <2>2, ActiveTaxed DEF MeteoraCollectFees, FeeStep
<1>5. CASE MeteoraClosePosition(v)
  BY <1>0, <1>5, ClosesUntaxed DEF MeteoraClosePosition, FeeStep
<1>6. ASSUME NEW r \in Ranges, NEW max \in Ceilings, NEW used \in Ceilings,
             NEW s \in Slippages, ManualRebalance(v, r, max, used, s)
      PROVE  FeeStep
  <2> DEFINE claimed == ClaimFees(ActivePosition(v))
             emptied == [claimed EXCEPT !.principal = NoCoins]
             added == AddLiquidity(emptied, used)
             moved == [added EXCEPT !.range = r]
  <2>1. MeteoraPosition(v) /\ used \in Coins
    BY <1>6, CeilingsType DEF ManualRebalance
  <2>2. claimed \in Position /\ claimed.fees = NoCoins
    BY <1>0, <2>1, ClaimFeesType, CpisKeepFees
  <2>3. emptied \in Position /\ emptied.fees = NoCoins
    <3> HIDE DEF claimed
    <3> QED
      BY <2>2, NoCoinsType DEF Position
  <2>4. added \in Position /\ added.fees = NoCoins
    <3> HIDE DEF emptied
    <3> QED
      BY <1>0, <2>1, <2>3, AddLiquidityType, CpisKeepFees
  <2>5. moved \in Position /\ moved.fees = NoCoins
    <3> HIDE DEF added
    <3> QED
      BY <2>4 DEF Position
  <2>6. /\ ActivePositionBecomes(v, moved)
        /\ treasury' = TreasuryAfter(FeeBase(ActivePosition(v)))
    BY <1>6 DEF ManualRebalance
  <2> HIDE DEF moved
  <2> QED
    BY <1>0, <2>1, <2>5, <2>6, ActiveTaxed DEF FeeStep
<1> QED
  BY <1>1, <1>2, <1>3, <1>4, <1>5, <1>6 DEF ManageMeteora

LEMMA OrcaFees ==
  ASSUME TypeOK, FeesOk, Ownership, NEW v \in Vaults, ManageOrca(v)
  PROVE  FeeStep
<1>0. ASSUME OrcaPosition(v) PROVE Protocol[v] # "Meteora"
  BY <1>0 DEF OrcaPosition, OrcaVault, ManagedVault
<1>1. ASSUME NEW p \in PositionIds, NEW r \in Ranges, OrcaOpenPosition(v, p, r)
      PROVE  FeeStep
  <2>1. NewPosition(v, r) \in Position /\ NewPosition(v, r).fees = NoCoins
    BY NewPositionType DEF NewPosition
  <2> QED
    BY <1>1, <2>1, OpensUntaxed DEF OrcaOpenPosition, FeeStep
<1>2. ASSUME NEW max \in Ceilings, NEW used \in Ceilings,
             OrcaIncreaseLiquidity(v, max, used)
      PROVE  FeeStep
  <2>1. OrcaPosition(v) /\ used \in Coins
    BY <1>2, CeilingsType DEF OrcaIncreaseLiquidity
  <2>2. /\ AddLiquidity(ActivePosition(v), used) \in Position
        /\ AddLiquidity(ActivePosition(v), used).fees = ActivePosition(v).fees
    BY <2>1, OrcaPositionType, AddLiquidityType, CpisKeepFees
  <2> QED
    BY <1>2, <2>1, <2>2, OrcaPositionType, ActiveUntaxed
       DEF OrcaIncreaseLiquidity, FeeStep
<1>3. ASSUME NEW bps \in Shares, NEW min \in FloorsOf(Pair),
             OrcaDecreaseLiquidity(v, bps, min)
      PROVE  FeeStep
  <2>1. OrcaPosition(v) /\ bps \in 0 .. BpsDivisor
    BY <1>3, ShareIsBps DEF OrcaDecreaseLiquidity
  <2>2. /\ RemoveLiquidity(ActivePosition(v), bps) \in Position
        /\ RemoveLiquidity(ActivePosition(v), bps).fees = ActivePosition(v).fees
    BY <2>1, OrcaPositionType, RemoveLiquidityType, CpisKeepFees
  <2> QED
    BY <1>3, <2>1, <2>2, OrcaPositionType, ActiveUntaxed
       DEF OrcaDecreaseLiquidity, FeeStep
<1>4. CASE OrcaCollectFees(v)
  <2>1. OrcaPosition(v) /\ OrcaCollectEffects(ActivePosition(v))
    BY <1>4 DEF OrcaCollectFees
  <2>2. ClaimFees(ActivePosition(v)) \in Position
        /\ OrcaAfterCollect(ActivePosition(v)) \in Position
    BY <2>1, OrcaPositionType, ClaimFeesType, OrcaCollectType
  <2>3. OrcaAfterCollect(ActivePosition(v)).fees = NoCoins
    BY <2>1, <2>2, OrcaPositionType, CpisKeepFees DEF OrcaAfterCollect
  <2>4. /\ treasury' = TreasuryAfter(FeeBase(ActivePosition(v)))
        /\ ActivePositionBecomes(v, OrcaAfterCollect(ActivePosition(v)))
    BY <1>4 DEF OrcaCollectFees, OrcaCollectEffects
  <2> QED
    BY <2>1, <2>2, <2>3, <2>4, OrcaPositionType, ActiveTaxed DEF FeeStep
<1>5. CASE OrcaClosePosition(v)
  <2>1. OrcaPosition(v) /\ ActivePosition(v).fees = NoCoins
    BY <1>5 DEF OrcaClosePosition, Drained
  <2> QED
    BY <1>5, <2>1, OrcaPositionType, ClosesUntaxed DEF OrcaClosePosition, FeeStep
<1>6. ASSUME NEW r \in Ranges, NEW bps \in Shares, NEW min \in FloorsOf(Pair),
             StartRebalanceOrca(v, r, bps, min)
      PROVE  FeeStep
  <2>1. /\ OrcaPosition(v) /\ ActivePositionBecomes(v, Null)
        /\ treasury' = TreasuryAfter(FeeBase(ActivePosition(v)))
    BY <1>6 DEF StartRebalanceOrca, OrcaCollectEffects
  <2> QED
    BY <1>0, <2>1, OrcaPositionType, ActiveTaxed DEF FeeStep
<1>7. ASSUME NEW p \in PositionIds, NEW max \in Ceilings, NEW used \in Ceilings,
             RetryPendingRebalance(v, p, max, used)
      PROVE  FeeStep
  <2> DEFINE r == vaults[v].pending_rebalance.range
             pos == AddLiquidity(NewPosition(v, r), used)
  <2>1. /\ mintFee \in [Mints -> TransferFeeConfig] /\ used \in Coins
        /\ r \in Ranges
    BY <1>7, ManagedVaultType, CeilingsType
       DEF RetryPendingRebalance, OrcaVault, VaultAccount, PendingRebalance
  <2>2. pos \in Position /\ pos.fees = NoCoins
    BY <2>1, FundedPosition, NewPositionType, CpisKeepFees DEF NewPosition
  <2>3. FreshPosition(p) /\ positions' = [positions EXCEPT ![p] = pos]
        /\ treasury' = treasury
    BY <1>7 DEF RetryPendingRebalance
  <2> HIDE DEF pos
  <2> QED
    BY <2>2, <2>3, OpensUntaxed DEF FeeStep
<1> QED
  BY <1>1, <1>2, <1>3, <1>4, <1>5, <1>6, <1>7 DEF ManageOrca

\* The collection every Raydium handler but the increase starts with.
LEMMA RaydiumTaxed ==
  ASSUME TypeOK, FeesOk, Ownership, NEW v \in Vaults, RaydiumPosition(v),
         RaydiumCollect(v, ActivePosition(v)),
         NEW pos, \/ pos \in Position /\ pos.fees = NoCoins
                  \/ pos = Null,
         ActivePositionBecomes(v, pos)
  PROVE  FeeStep
<1>1. /\ Exists(v) /\ HasActivePosition(v) /\ config \in ProtocolConfig
      /\ mintFee \in [Mints -> TransferFeeConfig]
      /\ ActivePosition(v) \in Position /\ Protocol[v] # "Meteora"
  BY RaydiumPositionType DEF RaydiumPosition, RaydiumVault, ManagedVault
<1>2. GoodFees(ActivePosition(v).fees)
  BY <1>1, ActiveOwner DEF FeesOk
<1>3. treasury' = TreasuryAfter(FeeBase(ActivePosition(v)))
  BY <1>1, <1>2, RaydiumBase DEF RaydiumCollect
<1> QED
  BY <1>1, <1>3, ActiveTaxed DEF FeeStep

LEMMA RaydiumFees ==
  ASSUME TypeOK, FeesOk, Ownership, NEW v \in Vaults, ManageRaydium(v)
  PROVE  FeeStep
<1>0. ASSUME RaydiumPosition(v), RaydiumCollect(v, ActivePosition(v))
      PROVE  /\ RaydiumAfterCollect(ActivePosition(v)) \in Position
             /\ RaydiumAfterCollect(ActivePosition(v)).fees = NoCoins
  <2>1. ClaimFees(ActivePosition(v)) \in Position
    BY <1>0, RaydiumPositionType, ClaimFeesType
  <2> QED
    BY <1>0, <2>1, RaydiumPositionType, RaydiumCollectedPosition, CpisKeepFees
       DEF RaydiumAfterCollect
<1>1. ASSUME NEW p \in PositionIds, NEW r \in Ranges, RaydiumOpenPosition(v, p, r)
      PROVE  FeeStep
  <2>1. NewPosition(v, r) \in Position /\ NewPosition(v, r).fees = NoCoins
    BY NewPositionType DEF NewPosition
  <2> QED
    BY <1>1, <2>1, OpensUntaxed DEF RaydiumOpenPosition, FeeStep
<1>2. ASSUME NEW max \in Ceilings, NEW used \in Ceilings,
             RaydiumIncreaseLiquidity(v, max, used)
      PROVE  FeeStep
  <2>1. RaydiumPosition(v) /\ used \in Coins
    BY <1>2, CeilingsType DEF RaydiumIncreaseLiquidity
  <2>2. /\ AddLiquidity(ActivePosition(v), used) \in Position
        /\ AddLiquidity(ActivePosition(v), used).fees = ActivePosition(v).fees
    BY <2>1, RaydiumPositionType, AddLiquidityType, CpisKeepFees
  <2> QED
    BY <1>2, <2>1, <2>2, RaydiumPositionType, ActiveUntaxed
       DEF RaydiumIncreaseLiquidity, FeeStep
<1>3. ASSUME NEW bps \in Shares, NEW min \in FloorsOf(Pair),
             RaydiumDecreaseLiquidity(v, bps, min)
      PROVE  FeeStep
  <2> DEFINE collected == RaydiumAfterCollect(ActivePosition(v))
             pos == RemoveLiquidity(collected, bps)
  <2>1. /\ RaydiumPosition(v) /\ RaydiumCollect(v, ActivePosition(v))
        /\ bps \in 0 .. BpsDivisor /\ ActivePositionBecomes(v, pos)
    BY <1>3, ShareIsBps DEF RaydiumDecreaseLiquidity
  <2>2. collected \in Position /\ collected.fees = NoCoins
    BY <1>0, <2>1
  <2>3. pos \in Position /\ pos.fees = NoCoins
    <3> HIDE DEF collected
    <3> QED
      BY <2>1, <2>2, RemoveLiquidityType, CpisKeepFees
  <2> HIDE DEF pos
  <2> QED
    BY <2>1, <2>3, RaydiumTaxed
<1>4. CASE RaydiumCollectFees(v)
  BY <1>0, <1>4, RaydiumTaxed DEF RaydiumCollectFees
<1>5. CASE RaydiumClosePosition(v)
  <2>1. RaydiumPosition(v) /\ ActivePosition(v).fees = NoCoins
    BY <1>5 DEF RaydiumClosePosition, Drained
  <2> QED
    BY <1>5, <2>1, RaydiumPositionType, ClosesUntaxed DEF RaydiumClosePosition, FeeStep
<1>6. ASSUME NEW r \in Ranges, NEW min \in FloorsOf(Pair),
             StartRebalanceRaydium(v, r, min)
      PROVE  FeeStep
  BY <1>6, RaydiumTaxed DEF StartRebalanceRaydium
<1>7. ASSUME NEW p \in PositionIds, NEW max \in Ceilings, NEW used \in Ceilings,
             RetryPendingRebalanceRaydium(v, p, max, used)
      PROVE  FeeStep
  <2> DEFINE r == vaults[v].pending_rebalance.range
             pos == AddLiquidity(NewPosition(v, r), used)
  <2>1. /\ mintFee \in [Mints -> TransferFeeConfig] /\ used \in Coins
        /\ r \in Ranges
    BY <1>7, ManagedVaultType, CeilingsType
       DEF RetryPendingRebalanceRaydium, RaydiumVault, VaultAccount, PendingRebalance
  <2>2. pos \in Position /\ pos.fees = NoCoins
    BY <2>1, FundedPosition, NewPositionType, CpisKeepFees DEF NewPosition
  <2>3. FreshPosition(p) /\ positions' = [positions EXCEPT ![p] = pos]
        /\ treasury' = treasury
    BY <1>7 DEF RetryPendingRebalanceRaydium
  <2> HIDE DEF pos
  <2> QED
    BY <2>2, <2>3, OpensUntaxed DEF FeeStep
<1> QED
  BY <1>1, <1>2, <1>3, <1>4, <1>5, <1>6, <1>7 DEF ManageRaydium

LEMMA AccruedFees ==
  ASSUME TypeOK, FeesOk, NEW p \in PositionIds, NEW m \in Pair, AccrueFees(p, m)
  PROVE  Untaxed
<1> DEFINE old == positions[p].fees
           new == [old EXCEPT ![m] = @ + Chunk]
           richer == [positions[p] EXCEPT !.fees = new]
<1>1. positions[p] \in Position /\ positions[p] # Null /\ old \in Coins
  BY EarningType DEF AccrueFees, Earning
<1>2. m \in Mints /\ Chunk \in Nat
  BY EnvironmentAssumption DEF Mints
<1>3. new \in Coins
  BY <1>1, <1>2, AddOneType
<1>4. GoodFees(old) /\ old[m] + Chunk \in U64
  BY <1>1 DEF FeesOk, AccrueFees
<1>5. GoodFees(new)
  <2> HIDE DEF old
  <2> QED
    BY <1>2, <1>4 DEF GoodFees
<1>6. Covers(new, old)
  <2> HIDE DEF old
  <2> QED
    BY <1>1, <1>2 DEF Covers, Coins
<1>7. richer \in Position /\ richer.fees = new
  <2> HIDE DEF new
  <2> QED
    BY <1>1, <1>3 DEF Position
<1>8. positions' = [positions EXCEPT ![p] = richer] /\ treasury' = treasury
  BY <1>1 DEF AccrueFees, TypeOK, Position
<1> HIDE DEF richer
<1>9. OnlyPosition(p) /\ positions'[p] = richer /\ richer # Null
  BY <1>7, <1>8, NullAssumption DEF OnlyPosition, TypeOK
<1>10. KeepsFees(p)
  BY <1>1, <1>5, <1>6, <1>7, <1>9 DEF KeepsFees
<1> QED
  BY <1>8, <1>9, <1>10, OtherPositionsKeep

LEMMA AccruedReward ==
  ASSUME TypeOK, FeesOk, NEW p \in PositionIds, AccrueReward(p)
  PROVE  Untaxed
<1> DEFINE owed == [positions[p] EXCEPT !.reward = positions[p].reward + Chunk]
<1>1. positions[p] \in Position /\ positions[p] # Null /\ positions[p].reward \in Nat
  BY EarningType DEF AccrueReward, Earning
<1>2. positions[p].reward + Chunk \in Nat
  BY <1>1, EnvironmentAssumption
<1>3. owed \in Position /\ owed.fees = positions[p].fees
  BY <1>1, <1>2 DEF Position
<1>4. positions' = [positions EXCEPT ![p] = owed] /\ treasury' = treasury
  BY <1>1 DEF AccrueReward, TypeOK, Position
<1> HIDE DEF owed
<1> QED
  BY <1>1, <1>3, <1>4, SameFees

LEMMA SwappedFees ==
  ASSUME TypeOK, FeesOk, NEW p \in PositionIds, NEW sold \in Pair, NEW bought \in Pair,
         TraderSwap(p, sold, bought)
  PROVE  Untaxed
<1>1. /\ positions[p] \in Position /\ positions[p] # Null
      /\ positions[p].principal \in Coins
  BY EarningType DEF TraderSwap, Earning
<1>2. /\ sold \in Mints /\ bought \in Mints /\ sold # bought
      /\ Chunk \in Nat
  BY StateAssumption, EnvironmentAssumption DEF TraderSwap, Mints, Pair
<1> DEFINE less == [positions[p].principal EXCEPT ![bought] = @ - Chunk]
           swapped == [less EXCEPT ![sold] = @ + Chunk]
           pos == [positions[p] EXCEPT !.principal = swapped]
<1>3. less \in Coins
  BY <1>1, <1>2, TakeOneType DEF TraderSwap
<1>4. swapped \in Coins
  <2> HIDE DEF less
  <2> QED
    BY <1>2, <1>3, AddOneType
<1>5. positions' = [positions EXCEPT ![p] = pos] /\ treasury' = treasury
  <2>1. Swapped(positions[p].principal, sold, bought) = swapped
    BY <1>1, <1>2 DEF Swapped, Coins
  <2> HIDE DEF swapped
  <2> QED
    BY <2>1 DEF TraderSwap
<1>6. pos \in Position /\ pos.fees = positions[p].fees
  <2> HIDE DEF swapped
  <2> QED
    BY <1>1, <1>4 DEF Position
<1> HIDE DEF pos
<1> QED
  BY <1>1, <1>5, <1>6, SameFees

LEMMA EnvironmentFees ==
  ASSUME TypeOK, FeesOk, Administer \/ Trade \/ TokenPrograms \/ Tick \/ UNCHANGED vars
  PROVE  FeeStep
<1>1. CASE Administer
  BY <1>1, SamePositions DEF FeeStep, Administer, InitializeProtocol, SetProtocolPause
<1>2. CASE Trade
  <2>1. MintA \in Pair /\ MintB \in Pair
    BY DEF Pair
  <2>2. CASE FundRewardVault
    BY <2>2, SamePositions DEF FundRewardVault, FeeStep
  <2> QED
    BY <1>2, <2>1, <2>2, AccruedFees, AccruedReward, SwappedFees DEF Trade, FeeStep
<1>3. CASE TokenPrograms
  BY <1>3, SamePositions DEF FeeStep, TokenPrograms, HarvestWithheld,
     OpenRewardAccount, SetTransferFee, NewEpoch
<1>4. CASE Tick
  BY <1>4, SamePositions DEF Tick, FeeStep
<1>5. CASE UNCHANGED vars
  BY <1>5, SamePositions DEF vars, FeeStep
<1> QED
  BY <1>1, <1>2, <1>3, <1>4, <1>5

LEMMA EveryFeeStep ==
  ASSUME TypeOK, FeesOk, Ownership, [Next]_vars
  PROVE  FeeStep
BY OwnFees, MeteoraFees, OrcaFees, RaydiumFees, EnvironmentFees DEF Next

----------------------------------------------------------------------------
(* What the two kinds of step mean *)

\* The fees a position owes stay u64s of the pair.
LEMMA FeeStepKeepsFees ==
  ASSUME FeesOk, FeeStep
  PROVE  FeesOk'
<1>1. ASSUME NEW p \in PositionIds, KeepsFees(p), positions'[p] # Null
      PROVE  GoodFees(positions'[p].fees)
  BY <1>1, NoFeesAreGood DEF KeepsFees
<1>2. CASE Untaxed
  BY <1>1, <1>2 DEF Untaxed, FeesOk, GoodFees
<1>3. ASSUME NEW p \in PositionIds, Taxed(p), NEW q \in PositionIds,
             positions'[q] # Null
      PROVE  GoodFees(positions'[q].fees)
  BY <1>3, NoFeesAreGood DEF Taxed, OnlyPosition, FeesOk
<1> QED
  BY <1>2, <1>3 DEF FeeStep, FeesOk, GoodFees

LEMMA NothingSubtracted ==
  ASSUME NEW x \in Nat, NEW y \in Nat
  PROVE  /\ SaturatingSub(x, 0) = x
         /\ y >= x => SaturatingSub(x, y) = 0
BY DEF SaturatingSub

\* What the treasury gets when fees leave a position.
Collected == {p \in PositionIds : SomeOf(FeesLeaving(p)) /\ ~Forfeits(p)}

FeesAreTaxed ==
    IF Collected = {} THEN treasury' = treasury
    ELSE \E p \in PositionIds :
            /\ Collected = {p}
            /\ treasury' = Plus(treasury, Net(Cut(FeesLeaving(p))))

LEMMA UntaxedCollectsNothing ==
  ASSUME FeesOk, Untaxed
  PROVE  FeesAreTaxed
<1>1. ASSUME NEW p \in PositionIds, KeepsFees(p), ~Forfeits(p)
      PROVE  ~SomeOf(FeesLeaving(p))
  <2>1. CASE positions[p] = Null
    BY <2>1 DEF FeesLeaving, SomeOf, NoCoins
  <2>2. CASE positions[p] # Null /\ positions'[p] = Null
    <3>1. positions[p].fees = NoCoins
      BY <1>1, <2>2 DEF KeepsFees
    <3>2. \A m \in Mints : FeesLeaving(p)[m] = 0
      BY <2>2, <3>1 DEF FeesLeaving, NoCoins, SaturatingSub
    <3> QED
      BY <3>2 DEF SomeOf
  <2>3. CASE positions[p] # Null /\ positions'[p] # Null
    <3>1. /\ positions[p].fees \in Coins /\ positions'[p].fees \in Coins
          /\ Covers(positions'[p].fees, positions[p].fees)
      BY <1>1, <2>3, GoodFeesAreCoins DEF KeepsFees, FeesOk
    <3>2. \A m \in Mints : FeesLeaving(p)[m] = 0
      BY <2>3, <3>1, NothingSubtracted DEF FeesLeaving, Covers, Coins
    <3> QED
      BY <3>2 DEF SomeOf
  <2> QED
    BY <2>1, <2>2, <2>3
<1>2. Collected = {}
  BY <1>1 DEF Untaxed, Collected
<1> QED
  BY <1>2 DEF FeesAreTaxed, Untaxed

\* The base of the performance fee is narrowed to u64 without loss.
LEMMA CutIsAargauFee ==
  ASSUME TypeOK, config \in ProtocolConfig, NEW c, GoodFees(c)
  PROVE  AargauFee(Net(c)) = Cut(c)
<1>1. config.fee_rate_bps \in 0 .. BpsDivisor
  BY DEF ProtocolConfig, MaxFeeRateBps, BpsDivisor
<1>2. ASSUME NEW m \in Mints
      PROVE  CalcAargauFee(Net(c)[m], config.fee_rate_bps)
               = (Net(c)[m] * config.fee_rate_bps) \div BpsDivisor
  <2>1. c[m] \in U64 /\ mintFee[m].live \in TransferFees
    BY DEF GoodFees, TypeOK, TransferFeeConfig
  <2>2. Net(c)[m] \in 0 .. c[m]
    BY <2>1, NetAmountType, MaxU64Assumption DEF Net, U64
  <2>3. Net(c)[m] \in U64
    BY <2>1, <2>2, MaxU64Assumption DEF U64
  <2> QED
    BY <1>1, <2>3, FeeNeverExceedsGross
<1> QED
  BY <1>2 DEF AargauFee, Cut

\* A cut of nothing is nothing.
LEMMA NoCut ==
  ASSUME TypeOK, config \in ProtocolConfig
  PROVE  Plus(treasury, Net(Cut(NoCoins))) = treasury
<1>1. /\ mintFee \in [Mints -> TransferFeeConfig]
      /\ treasury \in [Mints -> Nat] /\ config.fee_rate_bps \in Nat
  BY DEF TypeOK, ProtocolConfig, Coins, MaxFeeRateBps
<1>2. ASSUME NEW m \in Mints
      PROVE  CalcNetAfterTransferFee(0, mintFee[m].live) = 0
  <2>1. mintFee[m].live \in TransferFees
    BY <1>1 DEF TransferFeeConfig
  <2> QED
    BY <2>1, NetAmountType
<1>3. Net(NoCoins) = NoCoins
  BY <1>2 DEF Net, NoCoins
<1>4. Cut(NoCoins) = NoCoins
  BY <1>1, <1>3 DEF Cut, NoCoins, BpsDivisor
<1> QED
  BY <1>1, <1>3, <1>4 DEF Plus, NoCoins

LEMMA TaxedPaysTheCut ==
  ASSUME TypeOK, FeesOk, NEW p \in PositionIds, Taxed(p)
  PROVE  FeesAreTaxed
<1> DEFINE fees == positions[p].fees
<1>1. GoodFees(fees) /\ fees \in Coins /\ positions[p] # Null
  BY GoodFeesAreCoins DEF Taxed, FeesOk
<1>2. FeesLeaving(p) = fees
  <2>1. ASSUME NEW m \in Mints
        PROVE  LET left == IF positions'[p] = Null THEN 0 ELSE positions'[p].fees[m]
               IN  SaturatingSub(fees[m], left) = fees[m]
    <3>1. fees[m] \in Nat
      BY <1>1 DEF Coins
    <3>2. positions'[p] # Null => positions'[p].fees[m] = 0
      BY DEF Taxed, NoCoins
    <3> QED
      BY <3>1, <3>2, NothingSubtracted
  <2>2. fees = [m \in Mints |-> fees[m]]
    BY <1>1 DEF Coins
  <2> QED
    BY <1>1, <2>1, <2>2 DEF FeesLeaving
<1>3. ASSUME NEW q \in PositionIds \ {p}
      PROVE  ~SomeOf(FeesLeaving(q))
  <2>1. positions'[q] = positions[q]
    BY DEF Taxed, OnlyPosition
  <2>2. CASE positions[q] = Null
    BY <2>2 DEF FeesLeaving, SomeOf, NoCoins
  <2>3. CASE positions[q] # Null
    <3>1. positions[q].fees \in Coins
      BY <2>3, GoodFeesAreCoins DEF FeesOk
    <3>2. \A m \in Mints : FeesLeaving(q)[m] = 0
      BY <2>1, <2>3, <3>1, NothingSubtracted DEF FeesLeaving, Coins
    <3> QED
      BY <3>2 DEF SomeOf
  <2> QED
    BY <2>2, <2>3
<1>4. treasury' = Plus(treasury, Net(Cut(fees)))
  BY <1>1, CutIsAargauFee DEF Taxed, TreasuryAfter, FeeBase
<1>5. CASE SomeOf(fees)
  <2>1. Collected = {p}
    BY <1>2, <1>3, <1>5 DEF Collected, Taxed
  <2> HIDE DEF fees
  <2> QED
    BY <1>2, <1>4, <2>1 DEF FeesAreTaxed
<1>6. CASE ~SomeOf(fees)
  <2>1. fees = NoCoins
    <3> HIDE DEF fees
    <3> QED
      BY <1>1, <1>6 DEF SomeOf, NoCoins, Coins
  <2>2. Collected = {}
    BY <1>2, <1>3, <1>6 DEF Collected
  <2>3. treasury' = treasury
    BY <1>4, <2>1, NoCut DEF Taxed
  <2> QED
    BY <2>2, <2>3 DEF FeesAreTaxed
<1> QED
  BY <1>5, <1>6

----------------------------------------------------------------------------
LEMMA FeesInvariant == Spec => [](TypeOK /\ Ownership /\ FeesOk)
<1>1. Init => FeesOk
  BY DEF Init, FeesOk
<1>2. TypeOK /\ Ownership /\ FeesOk /\ [Next]_vars => FeesOk'
  BY EveryFeeStep, FeeStepKeepsFees
<1> QED
  BY <1>1, <1>2, OwnershipInvariant, PTL DEF Spec

\* fee.rs, lp_fee.rs and every handler that collects: for any vaults, rates,
\* amounts, rewards and transfer fees, the treasury grows by the floored
\* performance fee on the LP fees that leave a position in that step, and by
\* nothing else; no fees leave untaxed, and none are taxed twice.
THEOREM TreasuryIsExact == Spec => TreasuryTakesOnlyItsCut
<1>1. TypeOK /\ Ownership /\ FeesOk /\ [Next]_vars => FeesAreTaxed
  BY EveryFeeStep, UntaxedCollectsNothing, TaxedPaysTheCut DEF FeeStep
<1>2. TypeOK /\ Ownership /\ FeesOk /\ [Next]_vars =>
        [LET collected == {p \in PositionIds : SomeOf(FeesLeaving(p)) /\ ~Forfeits(p)}
         IN  IF collected = {} THEN treasury' = treasury
             ELSE \E p \in PositionIds :
                     /\ collected = {p}
                     /\ treasury' = Plus(treasury, Net(Cut(FeesLeaving(p))))]_vars
  BY <1>1 DEF FeesAreTaxed, Collected
<1> QED
  BY <1>2, FeesInvariant, PTL DEF Spec, TreasuryTakesOnlyItsCut

----------------------------------------------------------------------------
(* Mints without a transfer fee *)

\* The mints that carry no transfer fee never do.
FeelessMints ==
    \A m \in Mints \ TransferFeeMints :
        mintFee[m] = [live |-> NoTransferFee, newer |-> NoTransferFee]

\* Of such a mint all that is sent arrives.
LEMMA AllArrives ==
  ASSUME FeelessMints, NEW m \in Mints \ TransferFeeMints, NEW c
  PROVE  Net(c)[m] = c[m]
BY DEF FeelessMints, Net, CalcNetAfterTransferFee, NoTransferFee

\* A credit adds what is sent, a debit takes what is taken.
LEMMA CreditArrives ==
  ASSUME TypeOK, FeelessMints, NEW m \in Mints \ TransferFeeMints,
         NEW accts \in TokenAccounts, NEW c \in Coins
  PROVE  Credit(accts, c).amount[m] = accts.amount[m] + c[m]
<1>1. Credit(accts, c).amount = Plus(accts.amount, Net(c))
  BY CreditType DEF TypeOK
<1> QED
  BY <1>1, AllArrives DEF Plus

LEMMA DebitLeaves ==
  ASSUME NEW m \in Mints, NEW accts \in TokenAccounts, NEW c
  PROVE  Debit(accts, c).amount[m] = accts.amount[m] - c[m]
BY DEF Debit, TokenAccounts, Minus

\* The cut of a fee split goes from the vault to the treasury.
LEMMA CutMoves ==
  ASSUME TypeOK, FeelessMints, NEW m \in Mints \ TransferFeeMints,
         config \in ProtocolConfig, NEW accts \in TokenAccounts,
         NEW base \in Coins, treasury' = TreasuryAfter(base)
  PROVE  Debit(accts, AargauFee(base)).amount[m] + treasury'[m]
           = accts.amount[m] + treasury[m]
<1>3. Debit(accts, AargauFee(base)).amount[m] = accts.amount[m] - AargauFee(base)[m]
  BY DebitLeaves
<1>4. treasury'[m] = treasury[m] + AargauFee(base)[m]
  <2>1. Net(AargauFee(base))[m] = AargauFee(base)[m]
    BY AllArrives
  <2> QED
    BY <2>1 DEF TreasuryAfter, Plus
<1>5. AargauFee(base) \in Coins
  BY AargauFeeType
<1>6. /\ AargauFee(base)[m] \in Nat /\ accts.amount[m] \in Nat
      /\ treasury[m] \in Nat
  BY <1>5 DEF Coins, TokenAccounts, TypeOK
<1> QED
  BY <1>3, <1>4, <1>6

----------------------------------------------------------------------------
(* What a vault's owner reaches of one mint *)

Contents(pos, m) == pos.principal[m] + pos.fees[m]

\* What the treasury and the pool's reward vault hold.
Reserve(m) == treasury[m] + (IF m = RewardMint THEN rewardVault ELSE 0)

\* All of mint m that an instruction on v can move.
Held(v, m) == market[m] + Reserve(m) + wallet[Owner[v]][m] + Reachable(v, m)

\* Everything a ledger counts is a number.
LEMMA AmountsAreNumbers ==
  ASSUME TypeOK, NEW m \in Mints, NEW v \in Vaults
  PROVE  /\ market[m] \in Nat /\ treasury[m] \in Nat /\ rewardVault \in Nat
         /\ Reserve(m) \in Nat
         /\ wallet[Owner[v]][m] \in Nat /\ accounts[v].amount[m] \in Nat
         /\ Reachable(v, m) \in Nat
<1>1. market[m] \in Nat /\ treasury[m] \in Nat /\ rewardVault \in Nat
  BY DEF TypeOK, Coins
<1>2. wallet[Owner[v]][m] \in Nat /\ accounts[v].amount[m] \in Nat
  BY StateAssumption DEF TypeOK, Coins, TokenAccounts
<1>3. ASSUME Exists(v), HasActivePosition(v)
      PROVE  ActivePosition(v).principal[m] \in Nat /\ ActivePosition(v).fees[m] \in Nat
  <2>1. ActivePosition(v) \in Position
    BY <1>3, ActivePositionType
  <2> QED
    BY <2>1 DEF Position, Coins
<1>4. Reachable(v, m) \in Nat
  BY <1>2, <1>3 DEF Reachable
<1>5. Reserve(m) \in Nat
  BY <1>1 DEF Reserve
<1> QED
  BY <1>1, <1>2, <1>4, <1>5

LEMMA PositionHoldsNumbers ==
  ASSUME NEW pos \in Position, NEW m \in Mints
  PROVE  pos.principal[m] \in Nat /\ pos.fees[m] \in Nat
BY DEF Position, Coins

\* A vault that exists, with its position in its new contents.
LEMMA ReachesNewContents ==
  ASSUME TypeOK, NEW v \in Vaults, Exists(v), HasActivePosition(v),
         NEW m \in Mints,
         NEW accts, accounts' = [accounts EXCEPT ![v] = accts],
         NEW pos \in Position, ActivePositionBecomes(v, pos),
         vaults'[v] # Null, vaults'[v].position_address = Recorded(v)
  PROVE  /\ Reachable(v, m) = accounts[v].amount[m] + Contents(ActivePosition(v), m)
         /\ Reachable(v, m)' = accts.amount[m] + Contents(pos, m)
<1>1. Recorded(v) \in PositionIds /\ Recorded(v) # Null
  BY ActivePositionType DEF HasActivePosition
<1>2. accounts'[v] = accts
  BY DEF TypeOK
<1>3. positions'[Recorded(v)] = pos /\ pos # Null
  BY <1>1, NullAssumption DEF ActivePositionBecomes, TypeOK
<1>4. ActivePosition(v)' = pos /\ HasActivePosition(v)' /\ Exists(v)'
  BY <1>1, <1>3 DEF ActivePosition, HasActivePosition, Exists, Recorded
<1>5. ActivePosition(v) \in Position
  BY ActivePositionType
<1>6. /\ pos.principal[m] \in Nat /\ pos.fees[m] \in Nat
      /\ ActivePosition(v).principal[m] \in Nat /\ ActivePosition(v).fees[m] \in Nat
  BY <1>5, PositionHoldsNumbers
<1> QED
  BY <1>2, <1>4, <1>6 DEF Reachable, Reaches, Contents

\* A vault that exists, after its position is gone.
LEMMA ReachesAfterClose ==
  ASSUME TypeOK, NEW v \in Vaults, Exists(v), HasActivePosition(v),
         NEW m \in Mints,
         NEW accts \in TokenAccounts, accounts' = [accounts EXCEPT ![v] = accts],
         vaults'[v] # Null, vaults'[v].position_address = Null
  PROVE  /\ Reachable(v, m) = accounts[v].amount[m] + Contents(ActivePosition(v), m)
         /\ Reachable(v, m)' = accts.amount[m]
<1>1. accounts'[v] = accts /\ accts.amount[m] \in Nat
  BY DEF TypeOK, TokenAccounts, Coins
<1>2. ~HasActivePosition(v)' /\ Exists(v)'
  BY DEF HasActivePosition, Exists, Recorded
<1> QED
  BY <1>1, <1>2 DEF Reachable, Reaches, Contents

\* A vault that exists, after it opened a position.
LEMMA ReachesAfterOpen ==
  ASSUME TypeOK, NEW v \in Vaults, Exists(v), WithoutVaultPosition(v),
         NEW m \in Mints, Exists(v)', HasActivePosition(v)'
  PROVE  /\ Reachable(v, m) = accounts[v].amount[m]
         /\ Reachable(v, m)' = accounts'[v].amount[m] + Contents(ActivePosition(v)', m)
<1>1. accounts[v].amount[m] \in Nat
  BY DEF TypeOK, TokenAccounts, Coins
<1>2. ~HasActivePosition(v)
  BY DEF HasActivePosition, WithoutVaultPosition
<1>3. Reachable(v, m) = accounts[v].amount[m]
  BY <1>1, <1>2 DEF Reachable, Reaches
<1>4. Reachable(v, m)' = accounts'[v].amount[m] + Contents(ActivePosition(v)', m)
  BY DEF Reachable, Reaches, Contents
<1> QED
  BY <1>3, <1>4

----------------------------------------------------------------------------
(* What the CPIs move *)

\* Liquidity added arrives in full.
LEMMA AddedContents ==
  ASSUME FeelessMints, NEW m \in Mints \ TransferFeeMints,
         NEW pos \in Position, NEW c \in Coins
  PROVE  Contents(AddLiquidity(pos, c), m) = Contents(pos, m) + c[m]
<1>1. Net(c)[m] = c[m] /\ c[m] \in Nat
  BY AllArrives DEF Coins
<1>2. pos.principal[m] \in Nat /\ pos.fees[m] \in Nat
  BY PositionHoldsNumbers
<1>3. /\ AddLiquidity(pos, c).principal = Plus(pos.principal, Net(c))
      /\ AddLiquidity(pos, c).fees = pos.fees
  BY DEF AddLiquidity, Position
<1>4. AddLiquidity(pos, c).principal[m] = pos.principal[m] + c[m]
  BY <1>1, <1>3 DEF Plus
<1> QED
  BY <1>1, <1>2, <1>3, <1>4 DEF Contents

\* Liquidity removed leaves the position, fees stay.
LEMMA RemovedContents ==
  ASSUME NEW m \in Mints, NEW pos \in Position, NEW bps \in 0 .. BpsDivisor
  PROVE  /\ Contents(RemoveLiquidity(pos, bps), m)
              = Contents(pos, m) - Removed(pos, bps)[m]
         /\ Removed(pos, bps)[m] \in Nat
<1>1. pos.principal[m] \in Nat /\ pos.fees[m] \in Nat
  BY PositionHoldsNumbers
<1>2. Removed(pos, bps)[m] \in Nat
  BY RemoveLiquidityType DEF Coins
<1>3. /\ RemoveLiquidity(pos, bps).principal = Minus(pos.principal, Removed(pos, bps))
      /\ RemoveLiquidity(pos, bps).fees = pos.fees
  BY DEF RemoveLiquidity, Position
<1>4. RemoveLiquidity(pos, bps).principal[m] = pos.principal[m] - Removed(pos, bps)[m]
  BY <1>3 DEF Minus
<1> QED
  BY <1>1, <1>2, <1>3, <1>4 DEF Contents

\* A claim takes the fees and nothing else; a reward takes neither.
LEMMA ClaimedContents ==
  ASSUME NEW m \in Mints, NEW pos \in Position, NEW paid
  PROVE  /\ Contents(ClaimFees(pos), m) = Contents(pos, m) - pos.fees[m]
         /\ Contents(PayReward(pos, paid), m) = Contents(pos, m)
         /\ PayReward(ClaimFees(pos), paid).principal = pos.principal
<1>1. pos.principal[m] \in Nat /\ pos.fees[m] \in Nat
  BY PositionHoldsNumbers
<1>2. ClaimFees(pos).principal = pos.principal /\ ClaimFees(pos).fees = NoCoins
  BY DEF ClaimFees, Position
<1>3. /\ PayReward(pos, paid).principal = pos.principal
      /\ PayReward(pos, paid).fees = pos.fees
  BY DEF PayReward, Position
<1>4. ClaimFees(pos).fees[m] = 0
  BY <1>2 DEF NoCoins
<1>5. PayReward(ClaimFees(pos), paid).principal = ClaimFees(pos).principal
  BY DEF PayReward, ClaimFees, Position
<1> QED
  BY <1>1, <1>2, <1>3, <1>4, <1>5 DEF Contents

\* What a drained position that was emptied by a removal held.
LEMMA DrainedContents ==
  ASSUME NEW m \in Mints, NEW pos \in Position, Drained(pos)
  PROVE  Contents(pos, m) = 0
BY DEF Drained, NoCoins, Contents

\* Collecting: what the vault, the treasury and the reward vault hold together
\* grows by the fees that leave the position, whatever the base of the cut.
CollectMoves(v, accts, pos, m) ==
    accts.amount[m] + Reserve(m)'
      = accounts[v].amount[m] + Reserve(m) + pos.fees[m]

\* A reward moves from the reward vault to the vault.
LEMMA RewardMoves ==
  ASSUME TypeOK, FeelessMints, NEW m \in Mints \ TransferFeeMints,
         NEW accts \in TokenAccounts, NEW paid \in 0 .. rewardVault,
         rewardVault' = rewardVault - paid
  PROVE  LET vault == IF m = RewardMint THEN rewardVault ELSE 0
         IN  /\ Credit(accts, OfReward(paid)).amount[m] + vault'
                  = accts.amount[m] + vault
             /\ OfReward(paid) \in Coins
<1>1. paid \in Nat /\ rewardVault \in Nat /\ rewardVault' \in Nat
  BY DEF TypeOK
<1>2. OfReward(paid) \in Coins
  BY <1>1, OfRewardType
<1>3. Credit(accts, OfReward(paid)).amount[m] = accts.amount[m] + OfReward(paid)[m]
  BY <1>2, CreditArrives
<1>4. accts.amount[m] \in Nat
  BY DEF TokenAccounts, Coins
<1>5. OfReward(paid)[m] = IF m = RewardMint THEN paid ELSE 0
  BY DEF OfReward
<1> QED
  BY <1>1, <1>2, <1>3, <1>4, <1>5

\* A fee split shares what arrived between the vault and the treasury.
LEMMA SplitMoves ==
  ASSUME TypeOK, FeelessMints, NEW m \in Mints \ TransferFeeMints,
         config \in ProtocolConfig, NEW v \in Vaults, NEW pos \in Position,
         treasury' = TreasuryAfter(FeeBase(pos))
  PROVE  /\ SplitFees(accounts[v], pos, FeeBase(pos)) \in TokenAccounts
         /\ SplitFees(accounts[v], pos, FeeBase(pos)).amount[m] + treasury'[m]
              = accounts[v].amount[m] + pos.fees[m] + treasury[m]
<1> DEFINE claimed == Credit(accounts[v], pos.fees)
<1>1. /\ accounts[v] \in TokenAccounts /\ pos.fees \in Coins
      /\ mintFee \in [Mints -> TransferFeeConfig]
  BY DEF TypeOK, Position
<1>2. claimed \in TokenAccounts /\ FeeBase(pos) \in Coins
  BY <1>1, CreditType, NetType DEF FeeBase
<1>3. claimed.amount[m] = accounts[v].amount[m] + pos.fees[m]
  BY <1>1, CreditArrives
<1>4. SplitFees(accounts[v], pos, FeeBase(pos)) = Debit(claimed, AargauFee(FeeBase(pos)))
  BY DEF SplitFees
<1> HIDE DEF claimed
<1>5. Debit(claimed, AargauFee(FeeBase(pos))).amount[m] + treasury'[m]
        = claimed.amount[m] + treasury[m]
  BY <1>2, CutMoves
<1>6. SplitFees(accounts[v], pos, FeeBase(pos)) \in TokenAccounts
  BY <1>1, SplitFeesType
<1> QED
  BY <1>3, <1>4, <1>5, <1>6

\* The Orca collection, and the Raydium one, whose base is measured.
LEMMA OrcaCollectMoves ==
  ASSUME TypeOK, FeelessMints, NEW m \in Mints \ TransferFeeMints,
         config \in ProtocolConfig, NEW v \in Vaults, NEW pos \in Position,
         OrcaCollectEffects(pos)
  PROVE  CollectMoves(v, OrcaCollected(v, pos), pos, m)
<1> DEFINE split == SplitFees(accounts[v], pos, FeeBase(pos))
           paid == OrcaRewardPaid(pos)
<1>1. /\ split \in TokenAccounts
      /\ split.amount[m] + treasury'[m]
           = accounts[v].amount[m] + pos.fees[m] + treasury[m]
  BY SplitMoves DEF OrcaCollectEffects
<1>2. paid \in 0 .. rewardVault /\ rewardVault' = rewardVault - paid
  BY RewardPayableType DEF OrcaCollectEffects, OrcaRewardPaid, TypeOK
<1>3. OrcaCollected(v, pos) = Credit(split, OfReward(paid))
  BY DEF OrcaCollected
<1> HIDE DEF split, paid
<1>4. Credit(split, OfReward(paid)).amount[m]
          + (IF m = RewardMint THEN rewardVault' ELSE 0)
        = split.amount[m] + (IF m = RewardMint THEN rewardVault ELSE 0)
  BY <1>1, <1>2, RewardMoves
<1>5. Credit(split, OfReward(paid)) \in TokenAccounts
  BY <1>1, <1>2, RewardMoves, CreditType DEF TypeOK
<1>6. /\ treasury'[m] \in Int /\ treasury[m] \in Int
      /\ split.amount[m] \in Int /\ accounts[v].amount[m] \in Int
      /\ pos.fees[m] \in Int /\ rewardVault \in Int /\ rewardVault' \in Int
      /\ Credit(split, OfReward(paid)).amount[m] \in Int
  <2>1. treasury' \in Coins /\ rewardVault' \in Nat
    BY OrcaCollectType
  <2> QED
    BY <1>1, <1>5, <2>1 DEF TypeOK, Coins, TokenAccounts, Position
<1>7. Reserve(m)' = treasury'[m] + (IF m = RewardMint THEN rewardVault' ELSE 0)
  BY DEF Reserve
<1> QED
  BY <1>1, <1>3, <1>4, <1>6, <1>7 DEF Reserve, CollectMoves

LEMMA RaydiumCollectMoves ==
  ASSUME TypeOK, FeelessMints, NEW m \in Mints \ TransferFeeMints,
         config \in ProtocolConfig, NEW v \in Vaults, NEW pos \in Position,
         RaydiumCollect(v, pos)
  PROVE  CollectMoves(v, RaydiumCollected(v, pos), pos, m)
<1> DEFINE claimed == Credit(accounts[v], pos.fees)
           paid == RewardPayable(pos)
           payout == Credit(claimed, OfReward(paid))
           base == RaydiumFeeBase(v, pos)
<1>1. /\ accounts[v] \in TokenAccounts /\ pos.fees \in Coins
      /\ mintFee \in [Mints -> TransferFeeConfig]
  BY DEF TypeOK, Position
<1>2. claimed \in TokenAccounts
      /\ claimed.amount[m] = accounts[v].amount[m] + pos.fees[m]
  BY <1>1, CreditType, CreditArrives
<1>3. paid \in 0 .. rewardVault /\ rewardVault' = rewardVault - paid
  BY RewardPayableType DEF RaydiumCollect, TypeOK
<1>4. payout \in TokenAccounts /\ base \in Coins
  BY RaydiumFeeBaseType DEF RaydiumCollect, RaydiumPayout
<1>5. RaydiumCollected(v, pos) = Debit(payout, AargauFee(base))
      /\ treasury' = TreasuryAfter(base)
  BY DEF RaydiumCollected, RaydiumPayout, RaydiumCollect
<1>6. /\ RaydiumCollected(v, pos) \in TokenAccounts
      /\ treasury' \in Coins /\ rewardVault' \in Nat
  BY RaydiumCollectType
<1> HIDE DEF claimed, paid, base
<1>7. payout.amount[m] + (IF m = RewardMint THEN rewardVault' ELSE 0)
        = claimed.amount[m] + (IF m = RewardMint THEN rewardVault ELSE 0)
  BY <1>2, <1>3, RewardMoves
<1> HIDE DEF payout
<1>8. Debit(payout, AargauFee(base)).amount[m] + treasury'[m]
        = payout.amount[m] + treasury[m]
  BY <1>4, <1>5, CutMoves
<1>9. /\ treasury'[m] \in Int /\ treasury[m] \in Int
      /\ payout.amount[m] \in Int /\ accounts[v].amount[m] \in Int
      /\ claimed.amount[m] \in Int
      /\ pos.fees[m] \in Int /\ rewardVault \in Int /\ rewardVault' \in Int
      /\ RaydiumCollected(v, pos).amount[m] \in Int
  BY <1>1, <1>2, <1>4, <1>6 DEF TypeOK, Coins, TokenAccounts, Position
<1>10. Reserve(m)' = treasury'[m] + (IF m = RewardMint THEN rewardVault' ELSE 0)
  BY DEF Reserve
<1> QED
  BY <1>2, <1>5, <1>7, <1>8, <1>9, <1>10 DEF Reserve, CollectMoves

----------------------------------------------------------------------------
(* What an instruction on v conserves *)

\* The position moves to its new contents.
LEMMA ActiveConserves ==
  ASSUME TypeOK, NEW v \in Vaults, Exists(v), HasActivePosition(v),
         NEW m \in Mints,
         NEW accts \in TokenAccounts, accounts' = [accounts EXCEPT ![v] = accts],
         NEW pos \in Position, ActivePositionBecomes(v, pos),
         vaults'[v] # Null, vaults'[v].position_address = Recorded(v),
         wallet' = wallet, market' = market, Reserve(m)' \in Int,
         accts.amount[m] + Contents(pos, m) + Reserve(m)'
           = accounts[v].amount[m] + Contents(ActivePosition(v), m) + Reserve(m)
  PROVE  Held(v, m)' = Held(v, m)
<1>1. /\ Reachable(v, m) = accounts[v].amount[m] + Contents(ActivePosition(v), m)
      /\ Reachable(v, m)' = accts.amount[m] + Contents(pos, m)
  BY ReachesNewContents
<1>2. /\ Contents(pos, m) \in Int /\ Contents(ActivePosition(v), m) \in Int
      /\ accts.amount[m] \in Int
  BY ActivePositionType, PositionHoldsNumbers DEF Contents, TokenAccounts, Coins
<1>3. /\ market[m] \in Int /\ Reserve(m) \in Int /\ wallet[Owner[v]][m] \in Int
      /\ accounts[v].amount[m] \in Int
  BY AmountsAreNumbers
<1>4. Held(v, m)' = market[m] + Reserve(m)' + wallet[Owner[v]][m] + Reachable(v, m)'
  BY DEF Held
<1>5. /\ Reachable(v, m)' + Reserve(m)' = Reachable(v, m) + Reserve(m)
      /\ Reachable(v, m) \in Int /\ Reachable(v, m)' \in Int
  BY <1>1, <1>2, <1>3
<1> QED
  BY <1>3, <1>4, <1>5 DEF Held

\* The position closes, and what it still held of m is lost.
LEMMA CloseConserves ==
  ASSUME TypeOK, NEW v \in Vaults, Exists(v), HasActivePosition(v),
         NEW m \in Mints, NEW lost \in Int,
         NEW accts \in TokenAccounts, accounts' = [accounts EXCEPT ![v] = accts],
         vaults'[v] # Null, vaults'[v].position_address = Null,
         wallet' = wallet, market' = market, Reserve(m)' \in Int,
         accts.amount[m] + Reserve(m)' + lost
           = accounts[v].amount[m] + Contents(ActivePosition(v), m) + Reserve(m)
  PROVE  Held(v, m)' = Held(v, m) - lost
<1>1. /\ Reachable(v, m) = accounts[v].amount[m] + Contents(ActivePosition(v), m)
      /\ Reachable(v, m)' = accts.amount[m]
  BY ReachesAfterClose
<1>2. Contents(ActivePosition(v), m) \in Int /\ accts.amount[m] \in Int
  BY ActivePositionType, PositionHoldsNumbers DEF Contents, TokenAccounts, Coins
<1>3. /\ market[m] \in Int /\ Reserve(m) \in Int /\ wallet[Owner[v]][m] \in Int
      /\ accounts[v].amount[m] \in Int
  BY AmountsAreNumbers
<1>4. Held(v, m)' = market[m] + Reserve(m)' + wallet[Owner[v]][m] + Reachable(v, m)'
  BY DEF Held
<1> QED
  BY <1>1, <1>2, <1>3, <1>4 DEF Held

\* A position opens with what leaves the token accounts.
LEMMA OpenConserves ==
  ASSUME TypeOK, NEW v \in Vaults, Exists(v), WithoutVaultPosition(v),
         NEW m \in Mints, NEW p \in PositionIds,
         NEW accts \in TokenAccounts, accounts' = [accounts EXCEPT ![v] = accts],
         NEW pos \in Position, positions' = [positions EXCEPT ![p] = pos],
         vaults'[v] # Null, vaults'[v].position_address = p,
         wallet' = wallet, market' = market, Reserve(m)' = Reserve(m),
         accts.amount[m] + Contents(pos, m) = accounts[v].amount[m]
  PROVE  Held(v, m)' = Held(v, m)
<1>1. accounts'[v] = accts /\ positions'[p] = pos
  BY DEF TypeOK
<1>2. pos # Null /\ p # Null
  BY NullAssumption, StateAssumption
<1>3. ActivePosition(v)' = pos /\ HasActivePosition(v)' /\ Exists(v)'
  BY <1>1, <1>2 DEF ActivePosition, HasActivePosition, Exists, Recorded
<1>4. /\ Reachable(v, m) = accounts[v].amount[m]
      /\ Reachable(v, m)' = accounts'[v].amount[m] + Contents(ActivePosition(v)', m)
  BY <1>3, ReachesAfterOpen
<1>5. Contents(pos, m) \in Int /\ accts.amount[m] \in Int
  BY PositionHoldsNumbers DEF Contents, TokenAccounts, Coins
<1>6. Held(v, m)' = market[m] + Reserve(m)' + wallet[Owner[v]][m] + Reachable(v, m)'
  BY DEF Held
<1> QED
  BY <1>1, <1>3, <1>4, <1>5, <1>6 DEF Held

\* An exit that loses what it leaves behind of m.
Abandons(v, m) ==
    ExitsIn(v) /\ Held(v, m)' = Held(v, m) - LeftBehind(v, m)

\* Nothing of m is lost, or what an exit leaves behind, or what a Meteora close
\* forfeits.
Conserves(v, m) ==
    \/ Held(v, m)' = Held(v, m)
    \/ Abandons(v, m)
    \/ \E p \in PositionIds :
          Forfeits(p) /\ Held(v, m)' = Held(v, m) - positions[p].fees[m]

PursesStay ==
    market' = market /\ treasury' = treasury /\ rewardVault' = rewardVault

\* The owner's wallet and the vault's accounts exchange tokens.
Exchanges(v, m, purse, accts) ==
    /\ purse[m] \in Int /\ accts.amount[m] \in Int
    /\ purse[m] + accts.amount[m] = wallet[Owner[v]][m] + accounts[v].amount[m]

\* A deposit or a payment that leaves the vault open.
LEMMA ExchangeConserves ==
  ASSUME TypeOK, NEW v \in Vaults, Exists(v), NEW m \in Mints,
         NEW purse, wallet' = [wallet EXCEPT ![Owner[v]] = purse],
         NEW accts, accounts' = [accounts EXCEPT ![v] = accts],
         Exchanges(v, m, purse, accts),
         vaults' = vaults, positions' = positions, PursesStay
  PROVE  Held(v, m)' = Held(v, m)
<1>1. Owner[v] \in Users
  BY StateAssumption
<1>2. wallet'[Owner[v]] = purse /\ accounts'[v] = accts
  BY <1>1 DEF TypeOK
<1> DEFINE inPosition == IF HasActivePosition(v)
                           THEN ActivePosition(v).principal[m] + ActivePosition(v).fees[m]
                           ELSE 0
<1>3. Reachable(v, m) = accounts[v].amount[m] + inPosition
  BY DEF Reachable, Reaches
<1>4. inPosition' = inPosition /\ Exists(v)'
  BY DEF HasActivePosition, ActivePosition, Recorded, Exists
<1>5. Reachable(v, m)' = accts.amount[m] + inPosition
  BY <1>2, <1>4 DEF Reachable, Reaches
<1>6. inPosition \in Int
  <2>1. CASE HasActivePosition(v)
    BY <2>1, ActivePositionType, PositionHoldsNumbers
  <2> QED
    BY <2>1
<1> HIDE DEF inPosition
<1>7. Held(v, m)' = market[m] + Reserve(m) + purse[m] + Reachable(v, m)'
  BY <1>2 DEF Held, Reserve, PursesStay
<1>8. /\ market[m] \in Int /\ Reserve(m) \in Int /\ wallet[Owner[v]][m] \in Int
      /\ accounts[v].amount[m] \in Int
  BY AmountsAreNumbers
<1>9. /\ Reachable(v, m)' + purse[m] = Reachable(v, m) + wallet[Owner[v]][m]
      /\ Reachable(v, m) \in Int /\ Reachable(v, m)' \in Int /\ purse[m] \in Int
  BY <1>3, <1>5, <1>6, <1>8 DEF Exchanges
<1> QED
  BY <1>7, <1>8, <1>9 DEF Held

\* A payment that closes the vault.
LEMMA LeaveConserves ==
  ASSUME TypeOK, NEW v \in Vaults, Exists(v), NEW m \in Mints,
         NEW purse, wallet' = [wallet EXCEPT ![Owner[v]] = purse],
         NEW accts, accounts' = [accounts EXCEPT ![v] = accts],
         Exchanges(v, m, purse, accts),
         vaults' = [vaults EXCEPT ![v] = Null], PursesStay
  PROVE  Abandons(v, m)
<1>1. Owner[v] \in Users /\ vaults'[v] = Null
  BY StateAssumption DEF TypeOK
<1>2. wallet'[Owner[v]] = purse /\ accounts'[v] = accts
  BY <1>1 DEF TypeOK
<1> DEFINE forgotten == IF HasActivePosition(v)
                          THEN ActivePosition(v).principal[m] + ActivePosition(v).fees[m]
                          ELSE 0
           stranded == IF Reaches(v)' THEN 0 ELSE accts.amount[m]
<1>3. forgotten \in Int
  <2>1. CASE HasActivePosition(v)
    BY <2>1, ActivePositionType, PositionHoldsNumbers
  <2> QED
    BY <2>1
<1>4. Reachable(v, m) = accounts[v].amount[m] + forgotten
  BY DEF Reachable, Reaches
<1>5. accts.amount[m] \in Int /\ stranded \in Int
  BY DEF Exchanges
<1>6. Reachable(v, m)' = accts.amount[m] - stranded
  <2>1. ~Exists(v)'
    BY <1>1 DEF Exists
  <2>2. Reachable(v, m)' = (IF Reaches(v)' THEN accts.amount[m] ELSE 0) + 0
    BY <1>2, <2>1 DEF Reachable
  <2> QED
    BY <1>5, <2>2
<1>7. LeftBehind(v, m) = forgotten + stranded
  BY <1>2 DEF LeftBehind
<1> HIDE DEF forgotten, stranded
<1>8. Held(v, m)' = market[m] + Reserve(m) + purse[m] + Reachable(v, m)'
  BY <1>2 DEF Held, Reserve, PursesStay
<1>9. /\ market[m] \in Int /\ Reserve(m) \in Int /\ wallet[Owner[v]][m] \in Int
      /\ accounts[v].amount[m] \in Int
  BY AmountsAreNumbers
<1>10. purse[m] \in Int
  BY DEF Exchanges
<1>11. purse[m] + accts.amount[m] = wallet[Owner[v]][m] + accounts[v].amount[m]
  BY DEF Exchanges
<1>12. /\ Reachable(v, m) \in Int /\ Reachable(v, m)' \in Int
       /\ LeftBehind(v, m) \in Int
  BY <1>3, <1>4, <1>5, <1>6, <1>7, <1>9
<1>13. Reachable(v, m)' + purse[m]
         = (Reachable(v, m) + wallet[Owner[v]][m]) - LeftBehind(v, m)
  BY <1>3, <1>4, <1>5, <1>6, <1>7, <1>9, <1>10, <1>11
<1>14. market[m] + Reserve(m) + purse[m] + Reachable(v, m)'
         = (market[m] + Reserve(m) + wallet[Owner[v]][m] + Reachable(v, m))
             - LeftBehind(v, m)
  BY <1>9, <1>10, <1>12, <1>13
<1>15. Held(v, m) = market[m] + Reserve(m) + wallet[Owner[v]][m] + Reachable(v, m)
  BY DEF Held
<1>16. Held(v, m)' = Held(v, m) - LeftBehind(v, m)
  BY <1>8, <1>14, <1>15
<1> QED
  BY <1>1, <1>16 DEF Abandons, ExitsIn

\* What a payment to the owner exchanges; closing accounts moves no tokens.
LEMMA PaymentExchanges ==
  ASSUME TypeOK, FeelessMints, NEW m \in Mints \ TransferFeeMints,
         NEW v \in Vaults, NEW out \in Coins, NEW S
  PROVE  /\ Exchanges(v, m, Plus(wallet[Owner[v]], Net(out)), Debit(accounts[v], out))
         /\ Exchanges(v, m, Plus(wallet[Owner[v]], Net(out)),
                      Close(Debit(accounts[v], out), S))
<1>1. /\ wallet[Owner[v]][m] \in Int /\ accounts[v].amount[m] \in Int
      /\ out[m] \in Int
  BY AmountsAreNumbers DEF Coins
<1>2. Plus(wallet[Owner[v]], Net(out))[m] = wallet[Owner[v]][m] + out[m]
  BY AllArrives DEF Plus
<1>3. Debit(accounts[v], out).amount[m] = accounts[v].amount[m] - out[m]
  BY DebitLeaves DEF TypeOK
<1>4. Close(Debit(accounts[v], out), S).amount = Debit(accounts[v], out).amount
  BY DEF Close, Debit, TypeOK, TokenAccounts
<1> QED
  BY <1>1, <1>2, <1>3, <1>4 DEF Exchanges

\* The owner's own instructions.
LEMMA OwnConserves ==
  ASSUME TypeOK, FeelessMints, NEW m \in Mints \ TransferFeeMints,
         NEW v \in Vaults, Own(v)
  PROVE  Conserves(v, m)
<1>1. ASSUME NEW width, CreateVault(v, width)
      PROVE  Held(v, m)' = Held(v, m)
  <2>1. /\ ~Exists(v) /\ Reaches(v) /\ PursesStay /\ wallet' = wallet
        /\ vaults' = [vaults EXCEPT ![v] = NewVaultAccount]
        /\ accounts' = [accounts EXCEPT ![v].open = @ \cup Pair]
    BY <1>1 DEF CreateVault, Reaches, PursesStay
  <2>2. Exists(v)' /\ ~HasActivePosition(v)'
    <3>1. vaults'[v] = NewVaultAccount /\ NewVaultAccount # Null
      BY <2>1, NewVaultAccountType, NullAssumption DEF TypeOK
    <3> QED
      BY <3>1 DEF Exists, HasActivePosition, Recorded, NewVaultAccount
  <2>3. accounts'[v].amount = accounts[v].amount
    BY <2>1 DEF TypeOK, TokenAccounts
  <2>4. Reachable(v, m)' = accounts[v].amount[m] + 0
    BY <2>2, <2>3 DEF Reachable, Reaches
  <2>5. Reachable(v, m) = accounts[v].amount[m] + 0
    BY <2>1 DEF Reachable
  <2> QED
    BY <2>1, <2>4, <2>5 DEF Held, Reserve, PursesStay
<1>2. ASSUME NEW S, NEW c \in AmountsOf(S, Amounts), Deposit(v, S, c)
      PROVE  Held(v, m)' = Held(v, m)
  <2> DEFINE purse == Minus(wallet[Owner[v]], c)
             accts == Credit(accounts[v], c)
  <2>1. c \in Coins
    BY InputAmountsType
  <2>2. /\ Exists(v) /\ vaults' = vaults /\ positions' = positions /\ PursesStay
        /\ wallet' = [wallet EXCEPT ![Owner[v]] = purse]
        /\ accounts' = [accounts EXCEPT ![v] = accts]
    BY <1>2 DEF Deposit, PursesStay
  <2>3. Exchanges(v, m, purse, accts)
    <3>1. /\ wallet[Owner[v]][m] \in Int /\ accounts[v].amount[m] \in Int
          /\ c[m] \in Int
      BY <2>1, AmountsAreNumbers DEF Coins
    <3>2. purse[m] = wallet[Owner[v]][m] - c[m]
      BY DEF Minus
    <3>3. accts.amount[m] = accounts[v].amount[m] + c[m]
      BY <2>1, CreditArrives DEF TypeOK
    <3> HIDE DEF purse, accts
    <3> QED
      BY <3>1, <3>2, <3>3 DEF Exchanges
  <2> HIDE DEF purse, accts
  <2> QED
    BY <2>2, <2>3, ExchangeConserves
<1>3. ASSUME NEW S, NEW pct, NEW min, Withdraw(v, S, pct, min)
      PROVE  Conserves(v, m)
  <2> DEFINE out == ShareOf(Only(S, accounts[v].amount), pct)
             purse == Plus(wallet[Owner[v]], Net(out))
             left == Debit(accounts[v], out)
  <2>1. pct \in 0 .. BpsDivisor
    BY <1>3, ShareIsBps DEF Withdraw
  <2>2. out \in Coins
    BY <2>1, OnlyType, ShareOfType DEF TypeOK, TokenAccounts
  <2>3. /\ Exists(v) /\ positions' = positions /\ PursesStay
        /\ wallet' = [wallet EXCEPT ![Owner[v]] = purse]
        /\ \/ /\ vaults' = [vaults EXCEPT ![v] = Null]
              /\ accounts' = [accounts EXCEPT ![v] = Close(left, S)]
           \/ /\ vaults' = vaults
              /\ accounts' = [accounts EXCEPT ![v] = left]
    BY <1>3 DEF Withdraw, UngatedVault, PayOwner, CloseVault, PursesStay
  <2> HIDE DEF out
  <2>4. Exchanges(v, m, purse, left) /\ Exchanges(v, m, purse, Close(left, S))
    BY <2>2, PaymentExchanges
  <2> HIDE DEF purse, left
  <2> QED
    BY <2>3, <2>4, ExchangeConserves, LeaveConserves DEF Conserves
<1>4. ASSUME NEW S, EmergencyWithdraw(v, S)
      PROVE  Abandons(v, m)
  <2> DEFINE out == Only(S, accounts[v].amount)
             purse == Plus(wallet[Owner[v]], Net(out))
             left == Close(Debit(accounts[v], out), S)
  <2>1. out \in Coins
    BY OnlyType DEF TypeOK, TokenAccounts
  <2>2. /\ Exists(v) /\ PursesStay
        /\ wallet' = [wallet EXCEPT ![Owner[v]] = purse]
        /\ vaults' = [vaults EXCEPT ![v] = Null]
        /\ accounts' = [accounts EXCEPT ![v] = left]
    BY <1>4 DEF EmergencyWithdraw, UngatedVault, PayOwner, CloseVault, PursesStay
  <2> HIDE DEF out
  <2>3. Exchanges(v, m, purse, left)
    BY <2>1, PaymentExchanges
  <2> HIDE DEF purse, left
  <2> QED
    BY <2>2, <2>3, LeaveConserves
<1>5. CASE CancelPendingRebalance(v)
  <2>1. /\ Exists(v) /\ PursesStay /\ wallet' = wallet /\ accounts' = accounts
        /\ positions' = positions
        /\ vaults' = [vaults EXCEPT ![v].pending_rebalance = Null]
    BY <1>5 DEF CancelPendingRebalance, UngatedVault, PursesStay
  <2>2. Exists(v)' /\ Recorded(v)' = Recorded(v)
    <3>1. vaults[v] \in VaultAccount
      BY <2>1 DEF TypeOK, Exists
    <3>2. [vaults[v] EXCEPT !.pending_rebalance = Null] \in VaultAccount
      BY <3>1, ClearPendingType
    <3>3. vaults'[v] = [vaults[v] EXCEPT !.pending_rebalance = Null]
      BY <2>1 DEF TypeOK
    <3> QED
      BY <3>1, <3>2, <3>3, NullAssumption DEF Exists, Recorded, VaultAccount
  <2>3. Reachable(v, m)' = Reachable(v, m)
    BY <2>1, <2>2 DEF Reachable, Reaches, HasActivePosition, ActivePosition
  <2> QED
    BY <2>1, <2>3 DEF Held, Reserve, PursesStay, Conserves
<1> QED
  BY <1>1, <1>2, <1>3, <1>4, <1>5 DEF Own, Exit, Conserves

\* A step on the active position that moves tokens between it and the vault's
\* own accounts only.
LEMMA TransferConserves ==
  ASSUME TypeOK, NEW v \in Vaults, Exists(v), HasActivePosition(v),
         NEW m \in Mints,
         NEW accts \in TokenAccounts, accounts' = [accounts EXCEPT ![v] = accts],
         NEW pos \in Position, ActivePositionBecomes(v, pos),
         vaults'[v] # Null, vaults'[v].position_address = Recorded(v),
         wallet' = wallet, PursesStay,
         accts.amount[m] + Contents(pos, m)
           = accounts[v].amount[m] + Contents(ActivePosition(v), m)
  PROVE  Held(v, m)' = Held(v, m)
<1>1. Reserve(m)' = Reserve(m) /\ Reserve(m) \in Int
  BY AmountsAreNumbers DEF Reserve, PursesStay
<1>2. /\ Contents(pos, m) \in Int /\ Contents(ActivePosition(v), m) \in Int
      /\ accts.amount[m] \in Int
  BY ActivePositionType, PositionHoldsNumbers DEF Contents, TokenAccounts, Coins
<1>3. accts.amount[m] + Contents(pos, m) + Reserve(m)'
        = accounts[v].amount[m] + Contents(ActivePosition(v), m) + Reserve(m)
  BY <1>1
<1> QED
  BY <1>1, <1>3, ActiveConserves DEF PursesStay

\* An increase moves tokens into the position.
LEMMA IncreaseConserves ==
  ASSUME TypeOK, FeelessMints, NEW m \in Mints \ TransferFeeMints,
         NEW v \in Vaults, Exists(v), HasActivePosition(v),
         NEW used \in Coins, Debit(accounts[v], used) \in TokenAccounts,
         accounts' = [accounts EXCEPT ![v] = Debit(@, used)],
         ActivePositionBecomes(v, AddLiquidity(ActivePosition(v), used)),
         vaults' = vaults, wallet' = wallet, PursesStay
  PROVE  Held(v, m)' = Held(v, m)
<1> DEFINE pos == AddLiquidity(ActivePosition(v), used)
           accts == Debit(accounts[v], used)
<1>1. ActivePosition(v) \in Position /\ accounts[v] \in TokenAccounts
  BY ActivePositionType DEF TypeOK
<1>2. pos \in Position
  BY <1>1, AddLiquidityType DEF TypeOK
<1>3. Contents(pos, m) = Contents(ActivePosition(v), m) + used[m]
  BY <1>1, AddedContents
<1>4. accts.amount[m] = accounts[v].amount[m] - used[m]
  BY <1>1, DebitLeaves
<1>5. accounts' = [accounts EXCEPT ![v] = accts]
  OBVIOUS
<1>6. vaults'[v] # Null /\ vaults'[v].position_address = Recorded(v)
  BY DEF Exists, Recorded
<1>7. /\ used[m] \in Int /\ accounts[v].amount[m] \in Int
      /\ Contents(ActivePosition(v), m) \in Int
  BY <1>1, PositionHoldsNumbers DEF Contents, TokenAccounts, Coins
<1> HIDE DEF pos, accts
<1>8. accts.amount[m] + Contents(pos, m)
        = accounts[v].amount[m] + Contents(ActivePosition(v), m)
  BY <1>3, <1>4, <1>7
<1> QED
  BY <1>2, <1>5, <1>6, <1>8, TransferConserves DEF pos, accts

\* A decrease moves principal out of the position.
LEMMA DecreaseConserves ==
  ASSUME TypeOK, FeelessMints, NEW m \in Mints \ TransferFeeMints,
         NEW v \in Vaults, Exists(v), HasActivePosition(v),
         NEW bps \in 0 .. BpsDivisor,
         accounts' = [accounts EXCEPT ![v] = Credit(@, Removed(ActivePosition(v), bps))],
         ActivePositionBecomes(v, RemoveLiquidity(ActivePosition(v), bps)),
         vaults' = vaults, wallet' = wallet, PursesStay
  PROVE  Held(v, m)' = Held(v, m)
<1> DEFINE pos == RemoveLiquidity(ActivePosition(v), bps)
           out == Removed(ActivePosition(v), bps)
           accts == Credit(accounts[v], out)
<1>1. ActivePosition(v) \in Position /\ accounts[v] \in TokenAccounts
  BY ActivePositionType DEF TypeOK
<1>2. pos \in Position /\ out \in Coins
  BY <1>1, RemoveLiquidityType
<1>3. Contents(pos, m) = Contents(ActivePosition(v), m) - out[m] /\ out[m] \in Nat
  BY <1>1, RemovedContents
<1>4. accts.amount[m] = accounts[v].amount[m] + out[m] /\ accts \in TokenAccounts
  BY <1>1, <1>2, CreditArrives, CreditType DEF TypeOK
<1>5. accounts' = [accounts EXCEPT ![v] = accts]
  OBVIOUS
<1>6. vaults'[v] # Null /\ vaults'[v].position_address = Recorded(v)
  BY DEF Exists, Recorded
<1>7. accounts[v].amount[m] \in Int /\ Contents(ActivePosition(v), m) \in Int
  BY <1>1, PositionHoldsNumbers DEF Contents, TokenAccounts, Coins
<1> HIDE DEF pos, accts, out
<1>8. accts.amount[m] + Contents(pos, m)
        = accounts[v].amount[m] + Contents(ActivePosition(v), m)
  BY <1>3, <1>4, <1>7
<1> QED
  BY <1>2, <1>4, <1>5, <1>6, <1>8, TransferConserves DEF pos, accts, out

\* An open that deploys nothing.
LEMMA EmptyOpenConserves ==
  ASSUME TypeOK, NEW m \in Mints, NEW v \in Vaults, Exists(v),
         WithoutVaultPosition(v), NEW p \in PositionIds, NEW r \in Ranges,
         positions' = [positions EXCEPT ![p] = NewPosition(v, r)],
         vaults'[v] # Null, vaults'[v].position_address = p,
         accounts' = accounts, wallet' = wallet, PursesStay
  PROVE  Held(v, m)' = Held(v, m)
<1>1. NewPosition(v, r) \in Position /\ Contents(NewPosition(v, r), m) = 0
  BY NewPositionType DEF NewPosition, NoCoins, Contents
<1>2. accounts[v] \in TokenAccounts /\ accounts[v].amount[m] \in Int
  BY DEF TypeOK, TokenAccounts, Coins
<1>3. accounts' = [accounts EXCEPT ![v] = accounts[v]]
  BY DEF TypeOK
<1>4. accounts[v].amount[m] + Contents(NewPosition(v, r), m) = accounts[v].amount[m]
  BY <1>1, <1>2
<1> QED
  BY <1>1, <1>2, <1>3, <1>4, OpenConserves DEF PursesStay, Reserve

\* The open leg of a two-phase rebalance deploys what it takes.
LEMMA FundedOpenConserves ==
  ASSUME TypeOK, FeelessMints, NEW m \in Mints \ TransferFeeMints,
         NEW v \in Vaults, Exists(v), WithoutVaultPosition(v),
         NEW p \in PositionIds, NEW r \in Ranges,
         NEW used \in Coins, Debit(accounts[v], used) \in TokenAccounts,
         accounts' = [accounts EXCEPT ![v] = Debit(@, used)],
         positions' = [positions EXCEPT ![p] = AddLiquidity(NewPosition(v, r), used)],
         vaults'[v] # Null, vaults'[v].position_address = p,
         wallet' = wallet, PursesStay
  PROVE  Held(v, m)' = Held(v, m)
<1> DEFINE pos == AddLiquidity(NewPosition(v, r), used)
           accts == Debit(accounts[v], used)
<1>1. NewPosition(v, r) \in Position /\ Contents(NewPosition(v, r), m) = 0
  BY NewPositionType DEF NewPosition, NoCoins, Contents
<1>2. pos \in Position
  BY <1>1, AddLiquidityType DEF TypeOK
<1>3. Contents(pos, m) = 0 + used[m]
  BY <1>1, AddedContents
<1>4. accts.amount[m] = accounts[v].amount[m] - used[m]
  BY DebitLeaves DEF TypeOK
<1>5. accounts' = [accounts EXCEPT ![v] = accts]
  OBVIOUS
<1>6. used[m] \in Int /\ accounts[v].amount[m] \in Int
  BY DEF TypeOK, TokenAccounts, Coins
<1> HIDE DEF pos, accts
<1>7. accts.amount[m] + Contents(pos, m) = accounts[v].amount[m]
  BY <1>3, <1>4, <1>6
<1> QED
  BY <1>2, <1>5, <1>7, OpenConserves DEF pos, accts, PursesStay, Reserve

\* The DEX closes a position only when it holds nothing.
LEMMA DrainedCloseConserves ==
  ASSUME TypeOK, NEW m \in Mints, NEW v \in Vaults, Exists(v),
         HasActivePosition(v), Drained(ActivePosition(v)),
         vaults'[v] # Null, vaults'[v].position_address = Null,
         accounts' = accounts, wallet' = wallet, PursesStay
  PROVE  Held(v, m)' = Held(v, m)
<1>1. Contents(ActivePosition(v), m) = 0
  BY ActivePositionType, DrainedContents
<1>2. accounts[v] \in TokenAccounts /\ accounts[v].amount[m] \in Int
  BY DEF TypeOK, TokenAccounts, Coins
<1>3. accounts' = [accounts EXCEPT ![v] = accounts[v]]
  BY DEF TypeOK
<1>4. Reserve(m)' = Reserve(m) /\ Reserve(m) \in Int
  BY AmountsAreNumbers DEF Reserve, PursesStay
<1> DEFINE lost == 0
<1>5. accounts[v].amount[m] + Reserve(m)' + lost
        = accounts[v].amount[m] + Contents(ActivePosition(v), m) + Reserve(m)
  BY <1>1, <1>2, <1>4
<1>6. lost \in Int /\ Reserve(m)' \in Int /\ market' = market
  BY <1>4 DEF PursesStay
<1>7. Held(v, m) \in Int /\ Held(v, m) - lost = Held(v, m)
  BY AmountsAreNumbers DEF Held
<1> HIDE DEF lost
<1>8. Held(v, m)' = Held(v, m) - lost
  BY <1>2, <1>3, <1>5, <1>6, CloseConserves
<1> QED
  BY <1>7, <1>8

\* Collecting, and then moving out of the position to the token accounts.
LEMMA CollectConserves ==
  ASSUME TypeOK, NEW v \in Vaults, Exists(v), HasActivePosition(v),
         NEW m \in Mints, NEW collected \in TokenAccounts,
         CollectMoves(v, collected, ActivePosition(v), m),
         treasury' \in Coins, rewardVault' \in Nat, NEW out \in Int,
         NEW accts \in TokenAccounts, accounts' = [accounts EXCEPT ![v] = accts],
         accts.amount[m] = collected.amount[m] + out,
         NEW pos \in Position, ActivePositionBecomes(v, pos),
         Contents(pos, m)
           = Contents(ActivePosition(v), m) - ActivePosition(v).fees[m] - out,
         vaults'[v] # Null, vaults'[v].position_address = Recorded(v),
         wallet' = wallet, market' = market
  PROVE  Held(v, m)' = Held(v, m)
<1>1. Reserve(m)' \in Int
  BY DEF Reserve, Coins
<1>2. /\ Contents(ActivePosition(v), m) \in Int /\ ActivePosition(v).fees[m] \in Int
      /\ collected.amount[m] \in Int
  BY ActivePositionType, PositionHoldsNumbers DEF Contents, TokenAccounts, Coins
<1>3. Reserve(m) \in Int /\ accounts[v].amount[m] \in Int
  BY AmountsAreNumbers
<1>4. collected.amount[m] + Reserve(m)'
        = accounts[v].amount[m] + Reserve(m) + ActivePosition(v).fees[m]
  BY DEF CollectMoves
<1>5. accts.amount[m] + Contents(pos, m)
        = collected.amount[m] + Contents(ActivePosition(v), m)
            - ActivePosition(v).fees[m]
  BY <1>2
<1>6. accts.amount[m] \in Int /\ Contents(pos, m) \in Int
  BY PositionHoldsNumbers DEF Contents, TokenAccounts, Coins
<1>7. accts.amount[m] + Contents(pos, m) + Reserve(m)'
        = accounts[v].amount[m] + Contents(ActivePosition(v), m) + Reserve(m)
  BY <1>1, <1>2, <1>3, <1>4, <1>5, <1>6
<1> QED
  BY <1>1, <1>7, ActiveConserves

\* Collecting alone.
LEMMA CollectOnlyConserves ==
  ASSUME TypeOK, NEW v \in Vaults, Exists(v), HasActivePosition(v),
         NEW m \in Mints,
         NEW collected \in TokenAccounts, accounts' = [accounts EXCEPT ![v] = collected],
         CollectMoves(v, collected, ActivePosition(v), m),
         treasury' \in Coins, rewardVault' \in Nat,
         NEW pos \in Position, ActivePositionBecomes(v, pos),
         Contents(pos, m) = Contents(ActivePosition(v), m) - ActivePosition(v).fees[m],
         vaults' = vaults, wallet' = wallet, market' = market
  PROVE  Held(v, m)' = Held(v, m)
<1> DEFINE out == 0
<1>1. vaults'[v] # Null /\ vaults'[v].position_address = Recorded(v)
  BY DEF Exists, Recorded
<1>2. /\ Contents(ActivePosition(v), m) \in Int /\ ActivePosition(v).fees[m] \in Int
      /\ collected.amount[m] \in Int
  BY ActivePositionType, PositionHoldsNumbers DEF Contents, TokenAccounts, Coins
<1>3. /\ out \in Int /\ collected.amount[m] = collected.amount[m] + out
      /\ Contents(pos, m)
           = Contents(ActivePosition(v), m) - ActivePosition(v).fees[m] - out
  BY <1>2
<1> HIDE DEF out
<1> QED
  BY <1>1, <1>3, CollectConserves

\* Collecting, removing everything and closing.
LEMMA CollectAndCloseConserves ==
  ASSUME TypeOK, NEW v \in Vaults, Exists(v), HasActivePosition(v),
         NEW m \in Mints, NEW collected \in TokenAccounts,
         CollectMoves(v, collected, ActivePosition(v), m),
         treasury' \in Coins, rewardVault' \in Nat, NEW out \in Coins,
         NEW accts \in TokenAccounts, accounts' = [accounts EXCEPT ![v] = accts],
         accts.amount[m] = collected.amount[m] + out[m],
         out[m] = ActivePosition(v).principal[m],
         vaults'[v] # Null, vaults'[v].position_address = Null,
         wallet' = wallet, market' = market
  PROVE  Held(v, m)' = Held(v, m)
<1>1. Reserve(m)' \in Int
  BY DEF Reserve, Coins
<1>2. /\ ActivePosition(v).principal[m] \in Int /\ ActivePosition(v).fees[m] \in Int
      /\ collected.amount[m] \in Int
  BY ActivePositionType, PositionHoldsNumbers DEF TokenAccounts, Coins
<1>3. Reserve(m) \in Int /\ accounts[v].amount[m] \in Int
  BY AmountsAreNumbers
<1> DEFINE lost == 0
<1>4. accts.amount[m] + Reserve(m)' + lost
        = accounts[v].amount[m] + Contents(ActivePosition(v), m) + Reserve(m)
  BY <1>1, <1>2, <1>3 DEF CollectMoves, Contents
<1>5. lost \in Int
  OBVIOUS
<1>6. Held(v, m) \in Int /\ Held(v, m) - lost = Held(v, m)
  BY AmountsAreNumbers DEF Held
<1> HIDE DEF lost
<1>7. Held(v, m)' = Held(v, m) - lost
  BY <1>1, <1>4, <1>5, CloseConserves
<1> QED
  BY <1>6, <1>7

----------------------------------------------------------------------------
(* Every instruction conserves *)

\* A managed Meteora vault has a protocol configuration and a position.
LEMMA MeteoraVaultType ==
  ASSUME TypeOK, NEW v \in Vaults, MeteoraVault(v)
  PROVE  /\ Exists(v) /\ vaults[v] \in VaultAccount /\ config \in ProtocolConfig
         /\ Protocol[v] = "Meteora" /\ accounts[v] \in TokenAccounts
         /\ HasActivePosition(v) =>
              Recorded(v) \in PositionIds /\ ActivePosition(v) \in Position
BY ManagedVaultType, ActivePositionType DEF MeteoraVault, ManagedVault

\* Meteora's collection: no reward is paid.
LEMMA MeteoraCollectMoves ==
  ASSUME TypeOK, FeelessMints, NEW m \in Mints \ TransferFeeMints,
         config \in ProtocolConfig, NEW v \in Vaults, NEW pos \in Position,
         treasury' = TreasuryAfter(FeeBase(pos)), rewardVault' = rewardVault
  PROVE  /\ SplitFees(accounts[v], pos, FeeBase(pos)) \in TokenAccounts
         /\ CollectMoves(v, SplitFees(accounts[v], pos, FeeBase(pos)), pos, m)
         /\ treasury' \in Coins /\ rewardVault' \in Nat
<1> DEFINE split == SplitFees(accounts[v], pos, FeeBase(pos))
<1>1. /\ split \in TokenAccounts
      /\ split.amount[m] + treasury'[m]
           = accounts[v].amount[m] + pos.fees[m] + treasury[m]
  BY SplitMoves
<1>2. treasury' \in Coins /\ rewardVault' \in Nat
  BY SplitFeesType DEF TypeOK
<1>3. /\ treasury'[m] \in Int /\ treasury[m] \in Int /\ split.amount[m] \in Int
      /\ accounts[v].amount[m] \in Int /\ pos.fees[m] \in Int /\ rewardVault \in Int
  BY <1>1, <1>2 DEF TypeOK, Coins, TokenAccounts, Position
<1>4. Reserve(m)' = treasury'[m] + (IF m = RewardMint THEN rewardVault ELSE 0)
  BY DEF Reserve
<1> HIDE DEF split
<1>5. CollectMoves(v, split, pos, m)
  BY <1>1, <1>3, <1>4 DEF CollectMoves, Reserve
<1> QED
  BY <1>1, <1>2, <1>5 DEF split

LEMMA MeteoraConserves ==
  ASSUME TypeOK, FeelessMints, Ownership, NEW m \in Mints \ TransferFeeMints,
         NEW v \in Vaults, ManageMeteora(v)
  PROVE  Conserves(v, m)
<1>1. ASSUME NEW p \in PositionIds, NEW r \in Ranges, MeteoraOpenPosition(v, p, r)
      PROVE  Held(v, m)' = Held(v, m)
  <2> DEFINE vault == WithPosition(vaults[v], p, FALSE, r)
  <2>1. /\ Exists(v) /\ vaults[v] \in VaultAccount
    BY <1>1, MeteoraVaultType DEF MeteoraOpenPosition
  <2>2. vault # Null /\ vault.position_address = p
    <3>1. vault \in VaultAccount
      BY <2>1, WithPositionType
    <3> QED
      BY <2>1, <3>1, NullAssumption DEF WithPosition, VaultAccount
  <2>3. /\ WithoutVaultPosition(v) /\ PursesStay
        /\ positions' = [positions EXCEPT ![p] = NewPosition(v, r)]
        /\ vaults' = [vaults EXCEPT ![v] = vault]
        /\ accounts' = accounts /\ wallet' = wallet
    BY <1>1 DEF MeteoraOpenPosition, PursesStay
  <2> HIDE DEF vault
  <2>4. vaults'[v] # Null /\ vaults'[v].position_address = p
    BY <2>2, <2>3 DEF TypeOK
  <2> QED
    BY <2>1, <2>3, <2>4, EmptyOpenConserves
<1>2. ASSUME NEW max \in Ceilings, NEW used \in Ceilings, NEW s,
             MeteoraIncreaseLiquidity(v, max, used, s)
      PROVE  Held(v, m)' = Held(v, m)
  <2>1. Exists(v) /\ HasActivePosition(v) /\ used \in Coins
    BY <1>2, MeteoraVaultType, CeilingsType
       DEF MeteoraIncreaseLiquidity, MeteoraPosition
  <2>2. Debit(accounts[v], used) \in TokenAccounts
    BY <1>2, FundType, CeilingsType DEF MeteoraIncreaseLiquidity, TypeOK
  <2> QED
    BY <1>2, <2>1, <2>2, IncreaseConserves DEF MeteoraIncreaseLiquidity, PursesStay
<1>3. ASSUME NEW bps, MeteoraDecreaseLiquidity(v, bps)
      PROVE  Held(v, m)' = Held(v, m)
  <2>1. Exists(v) /\ HasActivePosition(v) /\ bps \in 0 .. BpsDivisor
    BY <1>3, MeteoraVaultType, ShareIsBps DEF MeteoraDecreaseLiquidity, MeteoraPosition
  <2> QED
    BY <1>3, <2>1, DecreaseConserves DEF MeteoraDecreaseLiquidity, PursesStay
<1>4. ASSUME MeteoraCollectFees(v) PROVE Held(v, m)' = Held(v, m)
  <2> DEFINE pos == ActivePosition(v)
             split == SplitFees(accounts[v], pos, FeeBase(pos))
             claimed == ClaimFees(pos)
  <2>1. /\ Exists(v) /\ HasActivePosition(v) /\ config \in ProtocolConfig
        /\ pos \in Position
    BY <1>4, MeteoraVaultType DEF MeteoraCollectFees, MeteoraPosition
  <2>2. /\ treasury' = TreasuryAfter(FeeBase(pos)) /\ rewardVault' = rewardVault
        /\ accounts' = [accounts EXCEPT ![v] = split]
        /\ ActivePositionBecomes(v, claimed)
        /\ vaults' = vaults /\ wallet' = wallet /\ market' = market
    BY <1>4 DEF MeteoraCollectFees
  <2>3. /\ split \in TokenAccounts /\ CollectMoves(v, split, pos, m)
        /\ treasury' \in Coins /\ rewardVault' \in Nat
    BY <2>1, <2>2, MeteoraCollectMoves
  <2>4. claimed \in Position /\ Contents(claimed, m) = Contents(pos, m) - pos.fees[m]
    BY <2>1, ClaimFeesType, ClaimedContents
  <2> HIDE DEF split, claimed
  <2> QED
    BY <2>1, <2>2, <2>3, <2>4, CollectOnlyConserves
<1>5. ASSUME MeteoraClosePosition(v)
      PROVE  \E p \in PositionIds :
                Forfeits(p) /\ Held(v, m)' = Held(v, m) - positions[p].fees[m]
  <2> DEFINE p == Recorded(v)
             lost == positions[p].fees[m]
  <2>1. /\ Exists(v) /\ HasActivePosition(v) /\ Protocol[v] = "Meteora"
        /\ vaults[v] \in VaultAccount
    BY <1>5, MeteoraVaultType DEF MeteoraClosePosition, MeteoraPosition
  <2>2. /\ p \in PositionIds /\ positions[p] \in Position /\ positions[p] # Null
        /\ positions[p] = ActivePosition(v) /\ positions[p].owner = v
    BY <2>1, ActiveOwner
  <2>3. /\ ~HasLiquidity(positions[p])
        /\ positions' = [positions EXCEPT ![p] = Null]
        /\ vaults' = [vaults EXCEPT ![v] = [@ EXCEPT !.position_address = Null,
                                                     !.position_range = Null]]
        /\ accounts' = accounts /\ wallet' = wallet /\ PursesStay
    BY <1>5, <2>2 DEF MeteoraClosePosition, ActivePositionBecomes, PursesStay
  <2>4. Forfeits(p)
    BY <2>1, <2>2, <2>3 DEF Forfeits, TypeOK
  <2>5. vaults'[v] # Null /\ vaults'[v].position_address = Null
    <3>1. [vaults[v] EXCEPT !.position_address = Null, !.position_range = Null]
            \in VaultAccount
      BY <2>1 DEF VaultAccount
    <3>2. vaults'[v] = [vaults[v] EXCEPT !.position_address = Null,
                                         !.position_range = Null]
      BY <2>3 DEF TypeOK
    <3> QED
      BY <2>1, <3>1, <3>2, NullAssumption DEF VaultAccount
  <2>6. positions[p].principal[m] = 0 /\ lost \in Int
    <3>1. positions[p].principal[m] \in Nat /\ lost \in Nat
      BY <2>2, PositionHoldsNumbers
    <3> QED
      BY <2>3, <3>1 DEF HasLiquidity, SomeOf
  <2>7. accounts[v] \in TokenAccounts /\ accounts[v].amount[m] \in Int
    BY DEF TypeOK, TokenAccounts, Coins
  <2>8. Reserve(m)' = Reserve(m) /\ Reserve(m) \in Int
    BY <2>3, AmountsAreNumbers DEF Reserve, PursesStay
  <2>9. accounts' = [accounts EXCEPT ![v] = accounts[v]]
    BY <2>3 DEF TypeOK
  <2>10. accounts[v].amount[m] + Reserve(m)' + lost
           = accounts[v].amount[m] + Contents(ActivePosition(v), m) + Reserve(m)
    <3>1. Contents(ActivePosition(v), m) = 0 + lost
      BY <2>2, <2>6 DEF Contents
    <3> HIDE DEF lost
    <3> QED
      BY <2>6, <2>7, <2>8, <3>1
  <2>11. Held(v, m)' = Held(v, m) - lost
    <3>1. wallet' = wallet /\ market' = market /\ Reserve(m)' \in Int
      BY <2>3, <2>8 DEF PursesStay
    <3>2. lost \in Int
      BY <2>6
    <3> HIDE DEF lost
    <3> QED
      BY <2>1, <2>5, <2>7, <2>9, <2>10, <3>1, <3>2, CloseConserves
  <2> HIDE DEF p
  <2> QED
    BY <2>2, <2>4, <2>11
<1>6. ASSUME NEW r \in Ranges, NEW max \in Ceilings, NEW used \in Ceilings, NEW s,
             ManualRebalance(v, r, max, used, s)
      PROVE  Held(v, m)' = Held(v, m)
  <2> DEFINE pos == ActivePosition(v)
             split == SplitFees(accounts[v], pos, FeeBase(pos))
             refunded == Credit(split, pos.principal)
             accts == Debit(refunded, used)
             emptied == [ClaimFees(pos) EXCEPT !.principal = NoCoins]
             added == AddLiquidity(emptied, used)
             moved == [added EXCEPT !.range = r]
             out == pos.principal[m] - used[m]
             vault == MeteoraRebalanced(vaults[v], r)
  <2>1. /\ Exists(v) /\ HasActivePosition(v) /\ config \in ProtocolConfig
        /\ vaults[v] \in VaultAccount /\ pos \in Position /\ used \in Coins
    BY <1>6, MeteoraVaultType, CeilingsType DEF ManualRebalance, MeteoraPosition
  <2>2. /\ treasury' = TreasuryAfter(FeeBase(pos)) /\ rewardVault' = rewardVault
        /\ accounts' = [accounts EXCEPT ![v] = accts]
        /\ ActivePositionBecomes(v, moved)
        /\ vaults' = [vaults EXCEPT ![v] = vault]
        /\ wallet' = wallet /\ market' = market
    BY <1>6 DEF ManualRebalance, TypeOK
  <2>3. /\ split \in TokenAccounts /\ CollectMoves(v, split, pos, m)
        /\ treasury' \in Coins /\ rewardVault' \in Nat
    BY <2>1, <2>2, MeteoraCollectMoves
  <2>4. accts \in TokenAccounts
    <3>1. accounts' \in [Vaults -> TokenAccounts]
      BY <1>6, CeilingsType, ManualRebalanceType DEF TypeOK
    <3>2. accounts'[v] = accts
      BY <2>2 DEF TypeOK
    <3> QED
      BY <3>1, <3>2
  <2>5. accts.amount[m] = split.amount[m] + out
    <3> HIDE DEF split
    <3>1. pos.principal \in Coins
      BY <2>1 DEF Position
    <3>2. /\ refunded \in TokenAccounts
          /\ refunded.amount[m] = split.amount[m] + pos.principal[m]
      BY <2>3, <3>1, CreditType, CreditArrives DEF TypeOK
    <3> HIDE DEF refunded
    <3>3. accts.amount[m] = refunded.amount[m] - used[m]
      BY <3>2, DebitLeaves
    <3>4. /\ split.amount[m] \in Int /\ pos.principal[m] \in Int /\ used[m] \in Int
      BY <2>1, <2>3, <3>1 DEF TokenAccounts, Coins
    <3> HIDE DEF accts, pos
    <3> QED
      BY <3>2, <3>3, <3>4
  <2>6. /\ moved \in Position /\ Contents(moved, m) = 0 + used[m]
    <3>1. emptied \in Position /\ Contents(emptied, m) = 0
      <4>1. ClaimFees(pos) \in Position /\ ClaimFees(pos).fees = NoCoins
        BY <2>1, ClaimFeesType, CpisKeepFees
      <4> QED
        BY <4>1, NoCoinsType DEF Position, Contents, NoCoins
    <3> HIDE DEF emptied
    <3>2. added \in Position /\ Contents(added, m) = 0 + used[m]
      BY <2>1, <3>1, AddLiquidityType, AddedContents DEF TypeOK
    <3> HIDE DEF added
    <3> QED
      BY <3>2 DEF Position, Contents
  <2>7. Contents(moved, m) = Contents(pos, m) - pos.fees[m] - out /\ out \in Int
    <3>1. used[m] \in Int /\ pos.principal[m] \in Int /\ pos.fees[m] \in Int
      BY <2>1, PositionHoldsNumbers DEF Coins
    <3>2. Contents(pos, m) = pos.principal[m] + pos.fees[m]
      BY DEF Contents
    <3> HIDE DEF moved, pos
    <3> QED
      BY <2>6, <3>1, <3>2
  <2>8. vaults'[v] # Null /\ vaults'[v].position_address = Recorded(v)
    <3>1. vault \in VaultAccount /\ vault.position_address = Recorded(v)
      BY <2>1 DEF MeteoraRebalanced, VaultAccount, TypeOK, Recorded
    <3>2. vaults'[v] = vault
      BY <2>2 DEF TypeOK
    <3> QED
      BY <3>1, <3>2, NullAssumption
  <2> HIDE DEF split, accts, moved, out
  <2> QED
    BY <2>1, <2>2, <2>3, <2>4, <2>5, <2>6, <2>7, <2>8, CollectConserves
<1> QED
  BY <1>1, <1>2, <1>3, <1>4, <1>5, <1>6 DEF ManageMeteora, Conserves

\* A vault account that is written is there afterwards.
LEMMA RecordsVault ==
  ASSUME TypeOK, NEW v \in Vaults, NEW vault \in VaultAccount,
         vaults' = [vaults EXCEPT ![v] = vault]
  PROVE  vaults'[v] # Null /\ vaults'[v].position_address = vault.position_address
BY NullAssumption DEF TypeOK

\* What a position holds once its fees are claimed.
LEMMA AfterCollectContents ==
  ASSUME NEW m \in Mints, NEW pos \in Position, NEW paid
  PROVE  Contents(PayReward(ClaimFees(pos), paid), m)
           = Contents(pos, m) - pos.fees[m]
<1>1. ClaimFees(pos) \in Position
  BY ClaimFeesType
<1> QED
  BY <1>1, ClaimedContents

\* A removal that drains a position takes all its principal.
LEMMA DrainingRemoval ==
  ASSUME NEW m \in Mints, NEW pos \in Position, NEW after \in Position,
         after.principal = pos.principal, NEW bps \in 0 .. BpsDivisor,
         Drained(RemoveLiquidity(after, bps))
  PROVE  Removed(pos, bps)[m] = pos.principal[m]
<1>1. RemoveLiquidity(after, bps).principal = Minus(pos.principal, Removed(pos, bps))
  BY DEF RemoveLiquidity, Position, Removed
<1>2. RemoveLiquidity(after, bps).principal[m] = 0
  BY DEF Drained, NoCoins
<1>3. pos.principal[m] \in Int /\ Removed(pos, bps)[m] \in Int
  BY RemovedContents, PositionHoldsNumbers
<1>4. pos.principal[m] - Removed(pos, bps)[m] = 0
  BY <1>1, <1>2 DEF Minus
<1> QED
  BY <1>3, <1>4

LEMMA OrcaConserves ==
  ASSUME TypeOK, FeelessMints, NEW m \in Mints \ TransferFeeMints,
         NEW v \in Vaults, ManageOrca(v)
  PROVE  Conserves(v, m)
<1>1. ASSUME NEW p \in PositionIds, NEW r \in Ranges, OrcaOpenPosition(v, p, r)
      PROVE  Held(v, m)' = Held(v, m)
  <2> DEFINE vault == NftRecorded(vaults[v], p, r)
  <2>1. /\ Exists(v) /\ vaults[v] \in VaultAccount
        /\ mintFee \in [Mints -> TransferFeeConfig]
    BY <1>1, ManagedVaultType DEF OrcaOpenPosition, OrcaVault
  <2>2. vault \in VaultAccount /\ vault.position_address = p
    BY <2>1, NftRecord
  <2>3. /\ WithoutVaultPosition(v) /\ PursesStay
        /\ positions' = [positions EXCEPT ![p] = NewPosition(v, r)]
        /\ vaults' = [vaults EXCEPT ![v] = vault]
        /\ accounts' = accounts /\ wallet' = wallet
    BY <1>1 DEF OrcaOpenPosition, NftRecorded, TypeOK, PursesStay
  <2> HIDE DEF vault
  <2>4. vaults'[v] # Null /\ vaults'[v].position_address = p
    BY <2>2, <2>3, RecordsVault
  <2> QED
    BY <2>1, <2>3, <2>4, EmptyOpenConserves
<1>2. ASSUME NEW max \in Ceilings, NEW used \in Ceilings,
             OrcaIncreaseLiquidity(v, max, used)
      PROVE  Held(v, m)' = Held(v, m)
  <2>1. Exists(v) /\ HasActivePosition(v) /\ used \in Coins
    BY <1>2, OrcaPositionType, CeilingsType DEF OrcaIncreaseLiquidity
  <2>2. Debit(accounts[v], used) \in TokenAccounts
    BY <1>2, FundType, CeilingsType DEF OrcaIncreaseLiquidity, TypeOK
  <2> QED
    BY <1>2, <2>1, <2>2, IncreaseConserves DEF OrcaIncreaseLiquidity, PursesStay
<1>3. ASSUME NEW bps, NEW min, OrcaDecreaseLiquidity(v, bps, min)
      PROVE  Held(v, m)' = Held(v, m)
  <2>1. Exists(v) /\ HasActivePosition(v) /\ bps \in 0 .. BpsDivisor
    BY <1>3, OrcaPositionType, ShareIsBps DEF OrcaDecreaseLiquidity
  <2> QED
    BY <1>3, <2>1, DecreaseConserves DEF OrcaDecreaseLiquidity, PursesStay
<1>4. ASSUME OrcaCollectFees(v) PROVE Held(v, m)' = Held(v, m)
  <2> DEFINE pos == ActivePosition(v)
             collected == OrcaCollected(v, pos)
             after == OrcaAfterCollect(pos)
  <2>1. /\ Exists(v) /\ HasActivePosition(v) /\ config \in ProtocolConfig
        /\ pos \in Position
    BY <1>4, OrcaPositionType DEF OrcaCollectFees
  <2>2. /\ OrcaCollectEffects(pos)
        /\ accounts' = [accounts EXCEPT ![v] = collected]
        /\ ActivePositionBecomes(v, after)
        /\ vaults' = vaults /\ wallet' = wallet /\ market' = market
    BY <1>4 DEF OrcaCollectFees
  <2>3. /\ collected \in TokenAccounts /\ after \in Position
        /\ treasury' \in Coins /\ rewardVault' \in Nat
    BY <2>1, <2>2, OrcaCollectType
  <2>4. CollectMoves(v, collected, pos, m)
    BY <2>1, <2>2, OrcaCollectMoves
  <2>5. Contents(after, m) = Contents(pos, m) - pos.fees[m]
    BY <2>1, AfterCollectContents DEF OrcaAfterCollect
  <2> HIDE DEF collected, after
  <2> QED
    BY <2>1, <2>2, <2>3, <2>4, <2>5, CollectOnlyConserves
<1>5. ASSUME OrcaClosePosition(v) PROVE Held(v, m)' = Held(v, m)
  <2> DEFINE vault == WithoutPosition(vaults[v])
  <2>1. /\ Exists(v) /\ HasActivePosition(v) /\ vaults[v] \in VaultAccount
    BY <1>5, OrcaPositionType DEF OrcaClosePosition
  <2>2. vault \in VaultAccount /\ vault.position_address = Null
    BY <2>1, NftForgotten
  <2>3. /\ Drained(ActivePosition(v)) /\ PursesStay
        /\ vaults' = [vaults EXCEPT ![v] = vault]
        /\ accounts' = accounts /\ wallet' = wallet
    BY <1>5 DEF OrcaClosePosition, TypeOK, PursesStay
  <2> HIDE DEF vault
  <2>4. vaults'[v] # Null /\ vaults'[v].position_address = Null
    BY <2>2, <2>3, RecordsVault
  <2> QED
    BY <2>1, <2>3, <2>4, DrainedCloseConserves
<1>6. ASSUME NEW r \in Ranges, NEW bps, NEW min, StartRebalanceOrca(v, r, bps, min)
      PROVE  Held(v, m)' = Held(v, m)
  <2> DEFINE pos == ActivePosition(v)
             collected == OrcaCollected(v, pos)
             after == OrcaAfterCollect(pos)
             out == Removed(pos, bps)
             accts == Credit(collected, out)
             vault == OrcaStarted(vaults[v], r)
  <2>1. /\ Exists(v) /\ HasActivePosition(v) /\ config \in ProtocolConfig
        /\ pos \in Position /\ vaults[v] \in VaultAccount /\ clock \in Nat
        /\ bps \in 0 .. BpsDivisor
    BY <1>6, OrcaPositionType, ShareIsBps DEF StartRebalanceOrca
  <2>2. /\ OrcaCollectEffects(pos) /\ Drained(RemoveLiquidity(after, bps))
        /\ accounts' = [accounts EXCEPT ![v] = accts]
        /\ vaults' = [vaults EXCEPT ![v] = vault]
        /\ wallet' = wallet /\ market' = market
    BY <1>6 DEF StartRebalanceOrca, TypeOK
  <2>3. /\ collected \in TokenAccounts /\ after \in Position
        /\ treasury' \in Coins /\ rewardVault' \in Nat
    BY <2>1, <2>2, OrcaCollectType
  <2>4. CollectMoves(v, collected, pos, m)
    BY <2>1, <2>2, OrcaCollectMoves
  <2>5. out \in Coins /\ out[m] = pos.principal[m]
    <3>1. after.principal = pos.principal
      BY <2>1, ClaimedContents DEF OrcaAfterCollect
    <3> HIDE DEF after
    <3> QED
      BY <2>1, <2>2, <2>3, <3>1, RemoveLiquidityType, DrainingRemoval
  <2>6. vault \in VaultAccount /\ vault.position_address = Null
    <3>1. vault \in VaultAccount
      BY <2>1, NftForgotten, SetPendingType DEF OrcaStarted, Pending
    <3> QED
      BY <2>1, <3>1, NftForgotten DEF OrcaStarted, VaultAccount
  <2> HIDE DEF collected, after, out, vault
  <2>7. accts \in TokenAccounts /\ accts.amount[m] = collected.amount[m] + out[m]
    BY <2>3, <2>5, CreditType, CreditArrives DEF TypeOK
  <2>8. vaults'[v] # Null /\ vaults'[v].position_address = Null
    BY <2>2, <2>6, RecordsVault
  <2> HIDE DEF accts
  <2> QED
    BY <2>1, <2>2, <2>3, <2>4, <2>5, <2>7, <2>8, CollectAndCloseConserves
<1>7. ASSUME NEW p \in PositionIds, NEW max \in Ceilings, NEW used \in Ceilings,
             RetryPendingRebalance(v, p, max, used)
      PROVE  Held(v, m)' = Held(v, m)
  <2> DEFINE r == vaults[v].pending_rebalance.range
             opened == NftRecorded(vaults[v], p, r)
             vault == OrcaRebalanced(vaults[v], p, r)
  <2>1. /\ Exists(v) /\ vaults[v] \in VaultAccount
        /\ mintFee \in [Mints -> TransferFeeConfig]
        /\ vaults[v].pending_rebalance # Null
        /\ used \in Coins
    BY <1>7, ManagedVaultType, CeilingsType DEF RetryPendingRebalance, OrcaVault
  <2>2. r \in Ranges
    BY <2>1 DEF VaultAccount, PendingRebalance
  <2>3. opened \in VaultAccount /\ opened.position_address = p
    BY <2>1, <2>2, NftRecord
  <2>4. vault \in VaultAccount /\ vault.position_address = p
    <3>1. vault = [opened EXCEPT !.pending_rebalance = Null]
      BY DEF OrcaRebalanced, NftRecorded
    <3> HIDE DEF opened, vault
    <3> QED
      BY <2>3, <3>1, ClearPendingType DEF VaultAccount
  <2>5. Debit(accounts[v], used) \in TokenAccounts
    BY <1>7, FundType, CeilingsType DEF RetryPendingRebalance, TypeOK
  <2>6. /\ WithoutVaultPosition(v) /\ PursesStay /\ wallet' = wallet
        /\ accounts' = [accounts EXCEPT ![v] = Debit(@, used)]
        /\ positions' = [positions EXCEPT ![p] = AddLiquidity(NewPosition(v, r), used)]
        /\ vaults' = [vaults EXCEPT ![v] = vault]
    BY <1>7 DEF RetryPendingRebalance, TypeOK, PursesStay
  <2> HIDE DEF vault, r
  <2>7. vaults'[v] # Null /\ vaults'[v].position_address = p
    BY <2>4, <2>6, RecordsVault
  <2> QED
    BY <2>1, <2>2, <2>5, <2>6, <2>7, FundedOpenConserves
<1> QED
  BY <1>1, <1>2, <1>3, <1>4, <1>5, <1>6, <1>7 DEF ManageOrca, Conserves

LEMMA RaydiumConserves ==
  ASSUME TypeOK, FeelessMints, NEW m \in Mints \ TransferFeeMints,
         NEW v \in Vaults, ManageRaydium(v)
  PROVE  Conserves(v, m)
<1>1. ASSUME NEW p \in PositionIds, NEW r \in Ranges, RaydiumOpenPosition(v, p, r)
      PROVE  Held(v, m)' = Held(v, m)
  <2> DEFINE vault == NftRecorded(vaults[v], p, r)
  <2>1. /\ Exists(v) /\ vaults[v] \in VaultAccount
        /\ mintFee \in [Mints -> TransferFeeConfig]
    BY <1>1, ManagedVaultType DEF RaydiumOpenPosition, RaydiumVault
  <2>2. vault \in VaultAccount /\ vault.position_address = p
    BY <2>1, NftRecord
  <2>3. /\ WithoutVaultPosition(v) /\ PursesStay
        /\ positions' = [positions EXCEPT ![p] = NewPosition(v, r)]
        /\ vaults' = [vaults EXCEPT ![v] = vault]
        /\ accounts' = accounts /\ wallet' = wallet
    BY <1>1 DEF RaydiumOpenPosition, NftRecorded, TypeOK, PursesStay
  <2> HIDE DEF vault
  <2>4. vaults'[v] # Null /\ vaults'[v].position_address = p
    BY <2>2, <2>3, RecordsVault
  <2> QED
    BY <2>1, <2>3, <2>4, EmptyOpenConserves
<1>2. ASSUME NEW max \in Ceilings, NEW used \in Ceilings,
             RaydiumIncreaseLiquidity(v, max, used)
      PROVE  Held(v, m)' = Held(v, m)
  <2>1. Exists(v) /\ HasActivePosition(v) /\ used \in Coins
    BY <1>2, RaydiumPositionType, CeilingsType DEF RaydiumIncreaseLiquidity
  <2>2. Debit(accounts[v], used) \in TokenAccounts
    BY <1>2, FundType, CeilingsType DEF RaydiumIncreaseLiquidity, TypeOK
  <2> QED
    BY <1>2, <2>1, <2>2, IncreaseConserves DEF RaydiumIncreaseLiquidity, PursesStay
<1>3. ASSUME NEW bps, NEW min, RaydiumDecreaseLiquidity(v, bps, min)
      PROVE  Held(v, m)' = Held(v, m)
  <2> DEFINE pos == ActivePosition(v)
             collected == RaydiumCollected(v, pos)
             after == RaydiumAfterCollect(pos)
             out == Removed(pos, bps)
             taken == out[m]
             accts == Credit(collected, out)
             left == RemoveLiquidity(after, bps)
  <2>1. /\ Exists(v) /\ HasActivePosition(v) /\ config \in ProtocolConfig
        /\ pos \in Position /\ bps \in 0 .. BpsDivisor
    BY <1>3, RaydiumPositionType, ShareIsBps DEF RaydiumDecreaseLiquidity
  <2>2. /\ RaydiumCollect(v, pos)
        /\ accounts' = [accounts EXCEPT ![v] = accts]
        /\ ActivePositionBecomes(v, left)
        /\ vaults' = vaults /\ wallet' = wallet /\ market' = market
    BY <1>3 DEF RaydiumDecreaseLiquidity
  <2>3. /\ collected \in TokenAccounts /\ after \in Position
        /\ treasury' \in Coins /\ rewardVault' \in Nat
    BY <2>1, <2>2, RaydiumCollectType
  <2>4. CollectMoves(v, collected, pos, m)
    BY <2>1, <2>2, RaydiumCollectMoves
  <2>5. out \in Coins /\ taken \in Int
    BY <2>1, RemoveLiquidityType, RemovedContents
  <2>6. /\ Contents(after, m) = Contents(pos, m) - pos.fees[m]
        /\ Removed(after, bps) = out
    BY <2>1, AfterCollectContents, ClaimedContents DEF RaydiumAfterCollect, Removed
  <2> HIDE DEF collected, after
  <2>7. left \in Position /\ Contents(left, m) = Contents(pos, m) - pos.fees[m] - taken
    BY <2>1, <2>3, <2>6, RemoveLiquidityType, RemovedContents
  <2> HIDE DEF out, left
  <2>8. accts \in TokenAccounts /\ accts.amount[m] = collected.amount[m] + taken
    BY <2>3, <2>5, CreditType, CreditArrives DEF TypeOK
  <2>9. vaults'[v] # Null /\ vaults'[v].position_address = Recorded(v)
    BY <2>1, <2>2 DEF Exists, Recorded
  <2> HIDE DEF accts, taken
  <2> QED
    BY <2>1, <2>2, <2>3, <2>4, <2>5, <2>7, <2>8, <2>9, CollectConserves
<1>4. ASSUME RaydiumCollectFees(v) PROVE Held(v, m)' = Held(v, m)
  <2> DEFINE pos == ActivePosition(v)
             collected == RaydiumCollected(v, pos)
             after == RaydiumAfterCollect(pos)
  <2>1. /\ Exists(v) /\ HasActivePosition(v) /\ config \in ProtocolConfig
        /\ pos \in Position
    BY <1>4, RaydiumPositionType DEF RaydiumCollectFees
  <2>2. /\ RaydiumCollect(v, pos)
        /\ accounts' = [accounts EXCEPT ![v] = collected]
        /\ ActivePositionBecomes(v, after)
        /\ vaults' = vaults /\ wallet' = wallet /\ market' = market
    BY <1>4 DEF RaydiumCollectFees
  <2>3. /\ collected \in TokenAccounts /\ after \in Position
        /\ treasury' \in Coins /\ rewardVault' \in Nat
    BY <2>1, <2>2, RaydiumCollectType
  <2>4. CollectMoves(v, collected, pos, m)
    BY <2>1, <2>2, RaydiumCollectMoves
  <2>5. Contents(after, m) = Contents(pos, m) - pos.fees[m]
    BY <2>1, AfterCollectContents DEF RaydiumAfterCollect
  <2> HIDE DEF collected, after
  <2> QED
    BY <2>1, <2>2, <2>3, <2>4, <2>5, CollectOnlyConserves
<1>5. ASSUME RaydiumClosePosition(v) PROVE Held(v, m)' = Held(v, m)
  <2> DEFINE vault == WithoutPosition(vaults[v])
  <2>1. /\ Exists(v) /\ HasActivePosition(v) /\ vaults[v] \in VaultAccount
    BY <1>5, RaydiumPositionType DEF RaydiumClosePosition
  <2>2. vault \in VaultAccount /\ vault.position_address = Null
    BY <2>1, NftForgotten
  <2>3. /\ Drained(ActivePosition(v)) /\ PursesStay
        /\ vaults' = [vaults EXCEPT ![v] = vault]
        /\ accounts' = accounts /\ wallet' = wallet
    BY <1>5 DEF RaydiumClosePosition, TypeOK, PursesStay
  <2> HIDE DEF vault
  <2>4. vaults'[v] # Null /\ vaults'[v].position_address = Null
    BY <2>2, <2>3, RecordsVault
  <2> QED
    BY <2>1, <2>3, <2>4, DrainedCloseConserves
<1>6. ASSUME NEW r \in Ranges, NEW min, StartRebalanceRaydium(v, r, min)
      PROVE  Held(v, m)' = Held(v, m)
  <2> DEFINE pos == ActivePosition(v)
             collected == RaydiumCollected(v, pos)
             after == RaydiumAfterCollect(pos)
             out == Removed(pos, BpsDivisor)
             accts == Credit(collected, out)
             vault == RecordPendingRebalance(vaults[v], r)
  <2>1. /\ Exists(v) /\ HasActivePosition(v) /\ config \in ProtocolConfig
        /\ pos \in Position /\ vaults[v] \in VaultAccount /\ clock \in Nat
    BY <1>6, RaydiumPositionType DEF StartRebalanceRaydium
  <2>2. /\ RaydiumCollect(v, pos) /\ Drained(RemoveLiquidity(after, BpsDivisor))
        /\ accounts' = [accounts EXCEPT ![v] = accts]
        /\ vaults' = [vaults EXCEPT ![v] = vault]
        /\ wallet' = wallet /\ market' = market
    BY <1>6 DEF StartRebalanceRaydium, TypeOK
  <2>3. /\ collected \in TokenAccounts /\ after \in Position
        /\ treasury' \in Coins /\ rewardVault' \in Nat
    BY <2>1, <2>2, RaydiumCollectType
  <2>4. CollectMoves(v, collected, pos, m)
    BY <2>1, <2>2, RaydiumCollectMoves
  <2>5. out \in Coins /\ out[m] = pos.principal[m]
    <3>1. after.principal = pos.principal
      BY <2>1, ClaimedContents DEF RaydiumAfterCollect
    <3>2. BpsDivisor \in 0 .. BpsDivisor
      BY DEF BpsDivisor
    <3> HIDE DEF after
    <3> QED
      BY <2>1, <2>2, <2>3, <3>1, <3>2, RemoveLiquidityType, DrainingRemoval
  <2>6. vault \in VaultAccount /\ vault.position_address = Null
    <3>1. vault \in VaultAccount
      BY <2>1, NftForgotten, SetPendingType DEF RecordPendingRebalance
    <3> QED
      BY <2>1, <3>1, NftForgotten DEF RecordPendingRebalance, VaultAccount
  <2> HIDE DEF collected, after, out, vault
  <2>7. accts \in TokenAccounts /\ accts.amount[m] = collected.amount[m] + out[m]
    BY <2>3, <2>5, CreditType, CreditArrives DEF TypeOK
  <2>8. vaults'[v] # Null /\ vaults'[v].position_address = Null
    BY <2>2, <2>6, RecordsVault
  <2> HIDE DEF accts
  <2> QED
    BY <2>1, <2>2, <2>3, <2>4, <2>5, <2>7, <2>8, CollectAndCloseConserves
<1>7. ASSUME NEW p \in PositionIds, NEW max \in Ceilings, NEW used \in Ceilings,
             RetryPendingRebalanceRaydium(v, p, max, used)
      PROVE  Held(v, m)' = Held(v, m)
  <2> DEFINE r == vaults[v].pending_rebalance.range
             opened == NftRecorded(vaults[v], p, r)
             vault == RecordRebalancedPosition(RecordPairTransferFees(vaults[v]), p, r)
  <2>1. /\ Exists(v) /\ vaults[v] \in VaultAccount
        /\ mintFee \in [Mints -> TransferFeeConfig]
        /\ vaults[v].pending_rebalance # Null
        /\ used \in Coins
    BY <1>7, ManagedVaultType, CeilingsType DEF RetryPendingRebalanceRaydium, RaydiumVault
  <2>2. r \in Ranges
    BY <2>1 DEF VaultAccount, PendingRebalance
  <2>3. opened \in VaultAccount /\ opened.position_address = p
    BY <2>1, <2>2, NftRecord
  <2>4. vault \in VaultAccount /\ vault.position_address = p
    <3>1. vault = [opened EXCEPT !.pending_rebalance = Null]
      BY DEF RecordRebalancedPosition, NftRecorded
    <3> HIDE DEF opened, vault
    <3> QED
      BY <2>3, <3>1, ClearPendingType DEF VaultAccount
  <2>5. Debit(accounts[v], used) \in TokenAccounts
    BY <1>7, FundType, CeilingsType DEF RetryPendingRebalanceRaydium, TypeOK
  <2>6. /\ WithoutVaultPosition(v) /\ PursesStay /\ wallet' = wallet
        /\ accounts' = [accounts EXCEPT ![v] = Debit(@, used)]
        /\ positions' = [positions EXCEPT ![p] = AddLiquidity(NewPosition(v, r), used)]
        /\ vaults' = [vaults EXCEPT ![v] = vault]
    BY <1>7 DEF RetryPendingRebalanceRaydium, TypeOK, PursesStay
  <2> HIDE DEF vault, r
  <2>7. vaults'[v] # Null /\ vaults'[v].position_address = p
    BY <2>4, <2>6, RecordsVault
  <2> QED
    BY <2>1, <2>2, <2>5, <2>6, <2>7, FundedOpenConserves
<1> QED
  BY <1>1, <1>2, <1>3, <1>4, <1>5, <1>6, <1>7 DEF ManageRaydium, Conserves

----------------------------------------------------------------------------
(* From one vault to the whole ledger *)

\* What the owners reach is counted in numbers.
ReachableNumbers == \A v \in Vaults, m \in Mints : Reachable(v, m) \in Nat
\* What an owner reaches is a number, before and after a step.
LEMMA ReachableIsNumber == TypeOK => ReachableNumbers
BY AmountsAreNumbers DEF ReachableNumbers

LEMMA ReachableStaysNumber ==
  ASSUME TypeOK', NEW v \in Vaults, NEW m \in Mints
  PROVE  Reachable(v, m)' \in Nat
<1>1. TypeOK' => ReachableNumbers'
  BY ReachableIsNumber, PTL
<1> QED
  BY <1>1 DEF ReachableNumbers

\* A step that spares a vault spares what its owner reaches.
LEMMA OthersReachTheSame ==
  ASSUME TypeOK, Ownership, NEW w \in Vaults, vaults'[w] = vaults[w],
         accounts'[w].amount = accounts[w].amount,
         Reaches(w)' = Reaches(w),
         \A p \in PositionIds : positions[p] # Null /\ positions[p].owner = w
                                  => positions'[p] = positions[p],
         NEW m \in Mints
  PROVE  Reachable(w, m)' = Reachable(w, m)
<1>1. Exists(w)' = Exists(w) /\ Recorded(w)' = Recorded(w)
  BY DEF Exists, Recorded
<1>2. CASE Exists(w) /\ HasActivePosition(w)
  <2>1. /\ Recorded(w) \in PositionIds /\ positions[Recorded(w)] # Null
        /\ positions[Recorded(w)].owner = w
    BY <1>2, ActiveOwner
  <2>2. positions'[Recorded(w)] = positions[Recorded(w)]
    BY <2>1
  <2>3. HasActivePosition(w)' /\ ActivePosition(w)' = ActivePosition(w)
    BY <1>1, <1>2, <2>2 DEF HasActivePosition, ActivePosition
  <2> QED
    BY <1>1, <1>2, <2>3 DEF Reachable
<1>3. CASE Exists(w) /\ ~HasActivePosition(w)
  <2>1. Recorded(w) = Null
    BY <1>3 DEF Ownership, VaultOk, RecordOk, HasActivePosition, Recorded
  <2>2. ~HasActivePosition(w)'
    BY <1>1, <2>1 DEF HasActivePosition
  <2> QED
    BY <1>1, <1>3, <2>2 DEF Reachable
<1>4. CASE ~Exists(w)
  BY <1>1, <1>4 DEF Reachable
<1> QED
  BY <1>2, <1>3, <1>4

\* What a step on v accounts for is what it holds.
LEMMA AccountedMoves ==
  ASSUME TypeOK, TypeOK', NEW v \in Vaults, NEW m \in Mints,
         \A u \in Users \ {Owner[v]} : wallet'[u] = wallet[u],
         \A w \in Vaults \ {v} : Reachable(w, m)' = Reachable(w, m)
  PROVE  /\ Accounted(m) \in Int /\ Held(v, m) \in Int /\ Held(v, m)' \in Int
         /\ Accounted(m)' = Accounted(m) + (Held(v, m)' - Held(v, m))
<1> DEFINE f == [u \in Users |-> wallet[u][m]]
           g == [u \in Users |-> wallet'[u][m]]
           F == [w \in Vaults |-> Reachable(w, m)]
           G == [w \in Vaults |-> Reachable(w, m)']
           o == Owner[v]
<1>1. IsFiniteSet(Users) /\ IsFiniteSet(Vaults) /\ o \in Users
  BY LedgerAssumption, StateAssumption
<1>2. f \in [Users -> Int] /\ g \in [Users -> Int]
  BY DEF TypeOK, Coins
<1>3. F \in [Vaults -> Int] /\ G \in [Vaults -> Int]
  BY AmountsAreNumbers, ReachableStaysNumber
<1>4. \A u \in Users \ {o} : f[u] = g[u]
  OBVIOUS
<1>5. \A w \in Vaults \ {v} : F[w] = G[w]
  OBVIOUS
<1>6. /\ f[o] = wallet[o][m] /\ g[o] = wallet'[o][m]
      /\ F[v] = Reachable(v, m) /\ G[v] = Reachable(v, m)'
  BY <1>1
<1>7. Accounted(m) = market[m] + Reserve(m) + SumFunction(f) + SumFunction(F)
  <2>1. Accounted(m) = market[m] + treasury[m]
            + (IF m = RewardMint THEN rewardVault ELSE 0)
            + SumFunction(f) + SumFunction(F)
    BY DEF Accounted
  <2>2. market[m] \in Int /\ treasury[m] \in Int /\ rewardVault \in Int
    BY AmountsAreNumbers
  <2> HIDE DEF f, F
  <2> QED
    BY <2>1, <2>2 DEF Reserve
<1>8. Accounted(m)' = market'[m] + Reserve(m)' + SumFunction(g) + SumFunction(G)
  <2>1. Accounted(m)' = market'[m] + treasury'[m]
            + (IF m = RewardMint THEN rewardVault' ELSE 0)
            + SumFunction(g) + SumFunction(G)
    BY DEF Accounted
  <2>2. market'[m] \in Int /\ treasury'[m] \in Int /\ rewardVault' \in Int
    BY DEF TypeOK, Coins
  <2> HIDE DEF g, G
  <2> QED
    BY <2>1, <2>2 DEF Reserve
<1>9. /\ market[m] \in Int /\ Reserve(m) \in Int
      /\ market'[m] \in Int /\ Reserve(m)' \in Int
  BY AmountsAreNumbers DEF TypeOK, Coins, Reserve
<1>10. /\ Held(v, m) = market[m] + Reserve(m) + f[o] + F[v]
       /\ Held(v, m)' = market'[m] + Reserve(m)' + g[o] + G[v]
  BY <1>6 DEF Held
<1>11. f[o] \in Int /\ g[o] \in Int /\ F[v] \in Int /\ G[v] \in Int
  BY <1>1, <1>2, <1>3
<1> HIDE DEF f, g, F, G, o
<1>12. /\ SumFunction(f) \in Int
       /\ SumFunction(g) = SumFunction(f) + (g[o] - f[o])
  BY <1>1, <1>2, <1>4, SumMovesWithOneEntry
<1>13. /\ SumFunction(F) \in Int
       /\ SumFunction(G) = SumFunction(F) + (G[v] - F[v])
  BY <1>1, <1>3, <1>5, SumMovesWithOneEntry
<1> QED
  BY <1>7, <1>8, <1>9, <1>10, <1>11, <1>12, <1>13

\* What one step may do to the tokens of m: the four alternatives of
\* NothingLeaks.
OrphanTrades ==
    \E p \in PositionIds :
        /\ positions[p] # Null /\ positions'[p] # positions[p]
        /\ \A v \in Vaults : Exists(v) => Recorded(v) # p

KeepsAccount(m) ==
    \/ Accounted(m)' = Accounted(m)
    \/ \E v \in Vaults :
          ExitsIn(v) /\ Accounted(m)' = Accounted(m) - LeftBehind(v, m)
    \/ \E p \in PositionIds :
          /\ Forfeits(p)
          /\ Accounted(m)' = Accounted(m) - positions[p].fees[m]
    \/ OrphanTrades

\* What an exit leaves behind is a number.
LEMMA LeftBehindIsNumber ==
  ASSUME TypeOK, TypeOK', NEW v \in Vaults, ExitsIn(v), NEW m \in Mints
  PROVE  LeftBehind(v, m) \in Int
<1>1. accounts'[v].amount[m] \in Int
  BY DEF TypeOK, TokenAccounts, Coins
<1>2. ASSUME HasActivePosition(v)
      PROVE  ActivePosition(v).principal[m] \in Int /\ ActivePosition(v).fees[m] \in Int
  BY <1>2, ActivePositionType, PositionHoldsNumbers DEF ExitsIn
<1> QED
  BY <1>1, <1>2 DEF LeftBehind

\* An instruction moves what its own vault accounts for.
LEMMA InstructionKeepsAccount ==
  ASSUME TypeOK, TypeOK', Ownership, FeelessMints, NEW v \in Vaults, Instruction(v),
         NEW m \in Mints \ TransferFeeMints
  PROVE  KeepsAccount(m)
<1>1. Conserves(v, m)
  BY OwnConserves, MeteoraConserves, OrcaConserves, RaydiumConserves DEF Instruction
<1>2. Local(v) /\ LocalPosition(v)
  BY InstructionIsLocal
<1>3. \A u \in Users \ {Owner[v]} : wallet'[u] = wallet[u]
  BY <1>2 DEF Local
<1>4. ASSUME NEW w \in Vaults \ {v} PROVE Reachable(w, m)' = Reachable(w, m)
  <2>1. ~Touches(w)
    BY <1>2, <1>4, LocalTouchesOne
  <2>2. /\ vaults'[w] = vaults[w] /\ accounts'[w] = accounts[w]
        /\ \A p \in PositionIds : positions[p] # Null /\ positions[p].owner = w
                                    => positions'[p] = positions[p]
    BY <2>1 DEF Touches
  <2>3. Reaches(w)' = Reaches(w)
    BY <2>2 DEF Reaches, Exists
  <2> QED
    BY <2>2, <2>3, OthersReachTheSame
<1>5. /\ Accounted(m) \in Int /\ Held(v, m) \in Int /\ Held(v, m)' \in Int
      /\ Accounted(m)' = Accounted(m) + (Held(v, m)' - Held(v, m))
  BY <1>3, <1>4, AccountedMoves
<1>6. CASE Held(v, m)' = Held(v, m)
  BY <1>5, <1>6 DEF KeepsAccount
<1>7. CASE Abandons(v, m)
  <2>1. LeftBehind(v, m) \in Int
    BY <1>7, LeftBehindIsNumber DEF Abandons
  <2>2. Accounted(m)' = Accounted(m) - LeftBehind(v, m)
    BY <1>5, <1>7, <2>1 DEF Abandons
  <2> QED
    BY <1>7, <2>2 DEF Abandons, KeepsAccount
<1>8. ASSUME NEW p \in PositionIds, Forfeits(p),
             Held(v, m)' = Held(v, m) - positions[p].fees[m]
      PROVE  KeepsAccount(m)
  <2>1. positions[p] \in Position
    BY <1>8 DEF Forfeits, TypeOK
  <2>2. positions[p].fees[m] \in Int
    BY <2>1, PositionHoldsNumbers
  <2>3. Accounted(m)' = Accounted(m) - positions[p].fees[m]
    BY <1>5, <1>8, <2>2
  <2> QED
    BY <1>8, <2>3 DEF KeepsAccount
<1> QED
  BY <1>1, <1>6, <1>7, <1>8 DEF Conserves

----------------------------------------------------------------------------
(* The environment *)

\* What the market, the treasury and the reward vault hold together.
LEMMA SameAccount ==
  ASSUME TypeOK, NEW m \in Mints, wallet' = wallet,
         \A w \in Vaults : Reachable(w, m)' = Reachable(w, m),
         market'[m] + Reserve(m)' = market[m] + Reserve(m),
         market'[m] \in Nat, treasury' = treasury, rewardVault' \in Nat
  PROVE  Accounted(m)' = Accounted(m)
<1> DEFINE paid == IF m = RewardMint THEN rewardVault ELSE 0
           purses == SumFunction([u \in Users |-> wallet[u][m]])
           books == SumFunction([v \in Vaults |-> Reachable(v, m)])
<1>1. purses' = purses
  OBVIOUS
<1>2. books' = books
  OBVIOUS
<1>3. market'[m] + treasury'[m] + paid' = market[m] + treasury[m] + paid
  <2>1. /\ market[m] \in Int /\ treasury[m] \in Int /\ paid \in Int /\ paid' \in Int
        /\ treasury'[m] = treasury[m] /\ market'[m] \in Int
    BY AmountsAreNumbers DEF TypeOK, Coins
  <2>2. Reserve(m) = treasury[m] + paid /\ Reserve(m)' = treasury'[m] + paid'
    BY DEF Reserve
  <2> HIDE DEF paid
  <2> QED
    BY <2>1, <2>2
<1>4. /\ Accounted(m) = market[m] + treasury[m] + paid + purses + books
      /\ Accounted(m)' = market'[m] + treasury'[m] + paid' + purses' + books'
  BY DEF Accounted
<1> HIDE DEF paid, purses, books
<1> QED
  BY <1>1, <1>2, <1>3, <1>4

\* Vault accounts and positions that stay keep what is reached through them.
LEMMA SameReach ==
  ASSUME TypeOK, NEW w \in Vaults, NEW m \in Mints, vaults' = vaults,
         positions' = positions, accounts'[w].amount = accounts[w].amount,
         Exists(w) \/ accounts'[w].open = accounts[w].open
  PROVE  Reachable(w, m)' = Reachable(w, m)
BY DEF Reachable, Reaches, Exists, HasActivePosition, ActivePosition, Recorded

\* A step that moves no tokens.
LEMMA QuietKeepsAccount ==
  ASSUME TypeOK, NEW m \in Mints, vaults' = vaults, wallet' = wallet,
         positions' = positions, PursesStay,
         \A w \in Vaults : /\ accounts'[w].amount = accounts[w].amount
                           /\ Exists(w) \/ accounts'[w].open = accounts[w].open
  PROVE  KeepsAccount(m)
<1>1. \A w \in Vaults : Reachable(w, m)' = Reachable(w, m)
  BY SameReach
<1>2. market'[m] \in Nat /\ rewardVault' \in Nat /\ Reserve(m)' = Reserve(m)
  BY DEF TypeOK, Coins, PursesStay, Reserve
<1>3. market'[m] + Reserve(m)' = market[m] + Reserve(m)
  BY <1>2 DEF PursesStay
<1> QED
  BY <1>1, <1>2, <1>3, SameAccount DEF PursesStay, KeepsAccount

\* The market trades with one position: with its vault's, or with an orphan.
LEMMA TradeKeepsAccount ==
  ASSUME TypeOK, TypeOK', Ownership, NEW m \in Mints,
         NEW p \in PositionIds, positions[p] # Null, NEW pos \in Position,
         positions' = [positions EXCEPT ![p] = pos],
         market'[m] + Contents(pos, m) = market[m] + Contents(positions[p], m),
         vaults' = vaults, accounts' = accounts, wallet' = wallet,
         treasury' = treasury, rewardVault' = rewardVault
  PROVE  KeepsAccount(m)
<1>1. positions[p] \in Position /\ positions'[p] = pos
  BY DEF TypeOK
<1>2. /\ Contents(pos, m) \in Int /\ Contents(positions[p], m) \in Int
      /\ market[m] \in Int /\ market'[m] \in Int
      /\ Reserve(m) \in Int /\ Reserve(m)' = Reserve(m)
  BY <1>1, PositionHoldsNumbers DEF Contents, TypeOK, Coins, Reserve
<1>3. ASSUME NEW v \in Vaults, Exists(v), Recorded(v) = p
      PROVE  KeepsAccount(m)
  <2>1. HasActivePosition(v) /\ ActivePositionBecomes(v, pos)
    BY <1>3, StateAssumption DEF HasActivePosition, ActivePositionBecomes
  <2>2. positions[p].owner = v /\ ActivePosition(v) = positions[p]
    BY <1>3, <2>1, ActiveOwner
  <2>3. ASSUME NEW w \in Vaults \ {v} PROVE Reachable(w, m)' = Reachable(w, m)
    <3>1. \A q \in PositionIds : positions[q] # Null /\ positions[q].owner = w
                                   => positions'[q] = positions[q]
      BY <2>2, <2>3 DEF TypeOK
    <3>2. Reaches(w)' = Reaches(w)
      BY DEF Reaches, Exists
    <3> QED
      BY <3>1, <3>2, OthersReachTheSame
  <2>4. /\ Accounted(m) \in Int /\ Held(v, m) \in Int /\ Held(v, m)' \in Int
        /\ Accounted(m)' = Accounted(m) + (Held(v, m)' - Held(v, m))
    BY <2>3, AccountedMoves
  <2>5. /\ Reachable(v, m) = accounts[v].amount[m] + Contents(positions[p], m)
        /\ Reachable(v, m)' = accounts[v].amount[m] + Contents(pos, m)
    <3>1. Exists(v)' /\ Recorded(v)' = p /\ pos # Null
      BY <1>3, NullAssumption DEF Exists, Recorded
    <3>2. HasActivePosition(v)' /\ ActivePosition(v)' = pos
      BY <1>1, <1>3, <2>1, <3>1 DEF HasActivePosition, ActivePosition
    <3>3. Reachable(v, m) = accounts[v].amount[m]
             + (positions[p].principal[m] + positions[p].fees[m])
      BY <1>3, <2>1, <2>2 DEF Reachable, Reaches
    <3>4. Reachable(v, m)' = accounts[v].amount[m] + (pos.principal[m] + pos.fees[m])
      BY <3>1, <3>2 DEF Reachable, Reaches
    <3> QED
      BY <3>3, <3>4 DEF Contents
  <2>6. accounts[v].amount[m] \in Int /\ wallet[Owner[v]][m] \in Int
    BY AmountsAreNumbers
  <2>7. /\ Held(v, m) = market[m] + Reserve(m) + wallet[Owner[v]][m] + Reachable(v, m)
        /\ Held(v, m)' = market'[m] + Reserve(m)' + wallet[Owner[v]][m] + Reachable(v, m)'
    BY DEF Held
  <2>8. Held(v, m)' = Held(v, m)
    BY <1>2, <2>5, <2>6, <2>7
  <2> QED
    BY <2>4, <2>8 DEF KeepsAccount
<1>4. ASSUME \A v \in Vaults : Exists(v) => Recorded(v) # p, pos # positions[p]
      PROVE  KeepsAccount(m)
  BY <1>1, <1>4 DEF KeepsAccount, OrphanTrades
<1>5. ASSUME pos = positions[p]
      PROVE  KeepsAccount(m)
  <2>1. positions' = positions
    BY <1>5 DEF TypeOK
  <2>2. \A w \in Vaults : Reachable(w, m)' = Reachable(w, m)
    BY <2>1, SameReach
  <2>3. market'[m] = market[m]
    <3>1. Contents(pos, m) = Contents(positions[p], m)
      BY <1>5
    <3> QED
      BY <1>2, <3>1
  <2>4. market'[m] \in Nat /\ rewardVault' \in Nat
    BY DEF TypeOK, Coins
  <2> QED
    BY <1>2, <2>2, <2>3, <2>4, SameAccount DEF KeepsAccount
<1> QED
  BY <1>3, <1>4, <1>5

\* Every trade moves as much as it pays.
LEMMA TradeAccount ==
  ASSUME TypeOK, TypeOK', Ownership, NEW m \in Mints, Trade
  PROVE  KeepsAccount(m)
<1>1. ASSUME NEW p \in PositionIds, NEW n \in Pair, AccrueFees(p, n)
      PROVE  KeepsAccount(m)
  <2> DEFINE old == positions[p].fees
             new == [old EXCEPT ![n] = @ + Chunk]
             richer == [positions[p] EXCEPT !.fees = new]
  <2>1. positions[p] \in Position /\ positions[p] # Null /\ old \in Coins
    BY <1>1, EarningType DEF AccrueFees, Earning
  <2>2. n \in Mints /\ Chunk \in Nat
    BY EnvironmentAssumption DEF Mints
  <2>3. new \in Coins
    BY <2>1, <2>2, AddOneType
  <2>4. market'[m] + new[m] = market[m] + old[m]
    <3>1. market' = [market EXCEPT ![n] = @ - Chunk]
      BY <1>1 DEF AccrueFees
    <3>2. market \in Coins
      BY DEF TypeOK
    <3> HIDE DEF old
    <3> QED
      BY <2>1, <2>2, <3>1, <3>2 DEF Coins
  <2>5. /\ richer \in Position
        /\ richer.principal = positions[p].principal /\ richer.fees = new
    <3> HIDE DEF new
    <3> QED
      BY <2>1, <2>3 DEF Position
  <2>6. positions' = [positions EXCEPT ![p] = richer]
    BY <1>1 DEF AccrueFees
  <2>7. /\ positions[p].principal[m] \in Int /\ old[m] \in Int /\ new[m] \in Int
        /\ market[m] \in Int /\ market'[m] \in Int
    BY <2>1, <2>3 DEF Position, TypeOK, Coins
  <2> HIDE DEF new, richer
  <2>8. market'[m] + Contents(richer, m) = market[m] + Contents(positions[p], m)
    BY <2>4, <2>5, <2>7 DEF Contents
  <2>9. /\ vaults' = vaults /\ accounts' = accounts /\ wallet' = wallet
        /\ treasury' = treasury /\ rewardVault' = rewardVault
    BY <1>1 DEF AccrueFees
  <2> QED
    BY <2>1, <2>5, <2>6, <2>8, <2>9, TradeKeepsAccount
<1>2. ASSUME NEW p \in PositionIds, AccrueReward(p)
      PROVE  KeepsAccount(m)
  <2> DEFINE owed == [positions[p] EXCEPT !.reward = positions[p].reward + Chunk]
  <2>1. positions[p] \in Position /\ positions[p] # Null
    BY <1>2, EarningType DEF AccrueReward, Earning
  <2>2. positions[p].reward + Chunk \in Nat
    BY <2>1, EnvironmentAssumption DEF Position
  <2>3. /\ owed \in Position
        /\ owed.principal = positions[p].principal
        /\ owed.fees = positions[p].fees
    BY <2>1, <2>2 DEF Position
  <2>4. positions' = [positions EXCEPT ![p] = owed]
    BY <1>2 DEF AccrueReward
  <2>5. market'[m] + Contents(owed, m) = market[m] + Contents(positions[p], m)
    BY <1>2, <2>3 DEF AccrueReward, Contents
  <2>6. /\ vaults' = vaults /\ accounts' = accounts /\ wallet' = wallet
        /\ treasury' = treasury /\ rewardVault' = rewardVault
    BY <1>2 DEF AccrueReward
  <2> HIDE DEF owed
  <2> QED
    BY <2>1, <2>3, <2>4, <2>5, <2>6, TradeKeepsAccount
<1>3. ASSUME NEW p \in PositionIds, NEW sold \in Pair, NEW bought \in Pair,
             TraderSwap(p, sold, bought)
      PROVE  KeepsAccount(m)
  <2>1. /\ positions[p] \in Position /\ positions[p] # Null
        /\ positions[p].principal \in Coins
    BY <1>3, EarningType DEF TraderSwap, Earning
  <2>2. /\ sold \in Mints /\ bought \in Mints /\ sold # bought
        /\ Chunk \in Nat
    BY <1>3, StateAssumption, EnvironmentAssumption DEF TraderSwap, Mints, Pair
  <2> DEFINE less == [positions[p].principal EXCEPT ![bought] = @ - Chunk]
             swapped == [less EXCEPT ![sold] = @ + Chunk]
             pos == [positions[p] EXCEPT !.principal = swapped]
  <2>3. less \in Coins
    BY <1>3, <2>1, <2>2, TakeOneType DEF TraderSwap
  <2>4. swapped \in Coins
    <3> HIDE DEF less
    <3> QED
      BY <2>2, <2>3, AddOneType
  <2>5. positions' = [positions EXCEPT ![p] = pos]
    <3>1. Swapped(positions[p].principal, sold, bought) = swapped
      BY <2>1, <2>2 DEF Swapped, Coins
    <3> HIDE DEF swapped
    <3> QED
      BY <1>3, <3>1 DEF TraderSwap
  <2>6. market'[m] + swapped[m] = market[m] + positions[p].principal[m]
    <3> DEFINE old == positions[p].principal
    <3>1. market' = [market EXCEPT ![sold] = @ - Chunk, ![bought] = @ + Chunk]
      BY <1>3 DEF TraderSwap
    <3>2. market \in Coins /\ old \in Coins
      BY <2>1 DEF TypeOK
    <3>3. CASE m = sold
      <4>1. market'[m] = market[m] - Chunk /\ swapped[m] = old[m] + Chunk
        BY <2>2, <3>1, <3>2, <3>3 DEF Coins
      <4>2. market[m] \in Int /\ old[m] \in Int
        BY <3>2 DEF Coins
      <4> HIDE DEF swapped
      <4> QED
        BY <2>2, <4>1, <4>2
    <3>4. CASE m = bought
      <4>1. market'[m] = market[m] + Chunk /\ swapped[m] = old[m] - Chunk
        BY <2>2, <3>1, <3>2, <3>4 DEF Coins
      <4>2. market[m] \in Int /\ old[m] \in Int
        BY <3>2 DEF Coins
      <4> HIDE DEF swapped
      <4> QED
        BY <2>2, <4>1, <4>2
    <3>5. CASE m # sold /\ m # bought
      BY <2>2, <3>1, <3>2, <3>5 DEF Coins
    <3> QED
      BY <3>3, <3>4, <3>5
  <2>7. /\ pos \in Position /\ pos.principal = swapped
        /\ pos.fees = positions[p].fees
    <3> HIDE DEF swapped
    <3> QED
      BY <2>1, <2>4 DEF Position
  <2>8. /\ positions[p].principal[m] \in Int /\ positions[p].fees[m] \in Int
        /\ swapped[m] \in Int /\ market[m] \in Int /\ market'[m] \in Int
    <3> HIDE DEF swapped
    <3> QED
      BY <2>1, <2>4 DEF Position, TypeOK, Coins
  <2> HIDE DEF swapped, pos
  <2>9. market'[m] + Contents(pos, m) = market[m] + Contents(positions[p], m)
    BY <2>6, <2>7, <2>8 DEF Contents
  <2>10. /\ vaults' = vaults /\ accounts' = accounts /\ wallet' = wallet
         /\ treasury' = treasury /\ rewardVault' = rewardVault
    BY <1>3 DEF TraderSwap
  <2> QED
    BY <2>1, <2>5, <2>7, <2>9, <2>10, TradeKeepsAccount
<1>4. ASSUME FundRewardVault
      PROVE  KeepsAccount(m)
  <2>1. /\ vaults' = vaults /\ accounts' = accounts /\ wallet' = wallet
        /\ treasury' = treasury /\ positions' = positions
        /\ RewardMint # Null
        /\ market' = [market EXCEPT ![RewardMint] = @ - Chunk]
        /\ rewardVault' = rewardVault + Chunk
    BY <1>4 DEF FundRewardVault
  <2>2. \A w \in Vaults : Reachable(w, m)' = Reachable(w, m)
    BY <2>1, SameReach
  <2>3. market'[m] \in Nat /\ rewardVault' \in Nat
    BY DEF TypeOK, Coins
  <2>4. market'[m] + Reserve(m)' = market[m] + Reserve(m)
    <3>1. market[m] \in Int /\ treasury[m] \in Int /\ rewardVault \in Int /\ Chunk \in Int
      BY EnvironmentAssumption DEF TypeOK, Coins
    <3>2. CASE m = RewardMint
      <4>1. market'[m] = market[m] - Chunk
        BY <2>1, <3>2 DEF TypeOK, Coins
      <4> QED
        BY <2>1, <3>1, <3>2, <4>1 DEF Reserve
    <3>3. CASE m # RewardMint
      <4>1. market'[m] = market[m]
        BY <2>1, <3>3 DEF TypeOK, Coins
      <4> QED
        BY <2>1, <3>3, <4>1 DEF Reserve
    <3> QED
      BY <3>2, <3>3
  <2>5. Accounted(m)' = Accounted(m)
    BY <2>1, <2>2, <2>3, <2>4, SameAccount
  <2> QED
    BY <2>5 DEF KeepsAccount
<1>5. MintA \in Pair /\ MintB \in Pair
  BY DEF Pair
<1> QED
  BY <1>1, <1>2, <1>3, <1>4, <1>5 DEF Trade

\* Nothing outside the program loses tokens of its users.
LEMMA EnvironmentKeepsAccount ==
  ASSUME TypeOK, TypeOK', Ownership, NEW m \in Mints,
         Administer \/ Trade \/ TokenPrograms \/ Tick \/ UNCHANGED vars
  PROVE  KeepsAccount(m)
<1>1. CASE Administer \/ Tick \/ UNCHANGED vars
  <2>1. /\ vaults' = vaults /\ accounts' = accounts /\ wallet' = wallet
        /\ positions' = positions /\ PursesStay
    BY <1>1 DEF Administer, InitializeProtocol, SetProtocolPause, Tick, vars, PursesStay
  <2> QED
    BY <2>1, QuietKeepsAccount
<1>2. CASE TokenPrograms
  <2>1. /\ vaults' = vaults /\ wallet' = wallet
        /\ positions' = positions /\ PursesStay
    BY <1>2 DEF TokenPrograms, HarvestWithheld, OpenRewardAccount, SetTransferFee,
       NewEpoch, PursesStay
  <2>2. ASSUME NEW w \in Vaults
        PROVE  /\ accounts'[w].amount = accounts[w].amount
               /\ Exists(w) \/ accounts'[w].open = accounts[w].open
    <3>1. ASSUME NEW v \in Vaults, NEW n \in Mints, HarvestWithheld(v, n)
          PROVE  /\ accounts'[w].amount = accounts[w].amount
                 /\ accounts'[w].open = accounts[w].open
      BY <3>1 DEF HarvestWithheld, TypeOK, TokenAccounts
    <3>2. ASSUME NEW v \in Vaults, OpenRewardAccount(v)
          PROVE  /\ accounts'[w].amount = accounts[w].amount
                 /\ Exists(w) \/ accounts'[w].open = accounts[w].open
      BY <3>2 DEF OpenRewardAccount, TypeOK, TokenAccounts
    <3>3. ASSUME NEW n, NEW fee, SetTransferFee(n, fee) \/ NewEpoch(n)
          PROVE  accounts' = accounts
      BY <3>3 DEF SetTransferFee, NewEpoch
    <3> QED
      BY <1>2, <3>1, <3>2, <3>3 DEF TokenPrograms
  <2> QED
    BY <2>1, <2>2, QuietKeepsAccount
<1> QED
  BY <1>1, <1>2, TradeAccount

----------------------------------------------------------------------------
(* The ledger *)

\* Only a mint with the extension changes its transfer fee.
LEMMA FeesOfOthersStay ==
  ASSUME TypeOK, [Next]_vars, NEW m \in Mints \ TransferFeeMints
  PROVE  mintFee'[m] = mintFee[m]
<1>1. ASSUME NEW v \in Vaults, Own(v) PROVE mintFee' = mintFee
  BY <1>1 DEF Own, Exit, CreateVault, Deposit, Withdraw, EmergencyWithdraw,
     PayOwner, CloseVault, CancelPendingRebalance
<1>2. ASSUME NEW v \in Vaults, ManageMeteora(v) PROVE mintFee' = mintFee
  BY <1>2 DEF ManageMeteora, MeteoraOpenPosition, MeteoraIncreaseLiquidity,
     MeteoraDecreaseLiquidity, MeteoraCollectFees, MeteoraClosePosition,
     ManualRebalance
<1>3. ASSUME NEW v \in Vaults, ManageOrca(v) PROVE mintFee' = mintFee
  BY <1>3 DEF ManageOrca, OrcaOpenPosition, OrcaIncreaseLiquidity,
     OrcaDecreaseLiquidity, OrcaCollectFees, OrcaClosePosition,
     StartRebalanceOrca, RetryPendingRebalance
<1>4. ASSUME NEW v \in Vaults, ManageRaydium(v) PROVE mintFee' = mintFee
  BY <1>4 DEF ManageRaydium, RaydiumOpenPosition, RaydiumIncreaseLiquidity,
     RaydiumDecreaseLiquidity, RaydiumCollectFees, RaydiumClosePosition,
     StartRebalanceRaydium, RetryPendingRebalanceRaydium
<1>5. CASE Administer \/ Trade \/ Tick \/ UNCHANGED vars
  BY <1>5 DEF Administer, InitializeProtocol, SetProtocolPause, Trade, AccrueFees,
     AccrueReward, TraderSwap, FundRewardVault, Tick, vars
<1>6. CASE TokenPrograms
  BY <1>6 DEF TokenPrograms, HarvestWithheld, OpenRewardAccount, SetTransferFee,
     NewEpoch, TypeOK
<1> QED
  BY <1>1, <1>2, <1>3, <1>4, <1>5, <1>6 DEF Next

\* InitialFee gives them none, and no step adds the extension to a mint.
LEMMA LedgerInvariant == Spec => [](TypeOK /\ Ownership /\ FeelessMints)
<1>1. Init => FeelessMints
  BY StateAssumption DEF Init, FeelessMints
<1>2. TypeOK /\ FeelessMints /\ [Next]_vars => FeelessMints'
  BY FeesOfOthersStay DEF FeelessMints
<1> QED
  BY <1>1, <1>2, OwnershipInvariant, PTL DEF Spec

\* Whatever the vaults, users, mints, inputs and order of instructions: of a mint
\* without transfer fees every token that leaves a wallet, a position, a vault or
\* the reward vault arrives where its owner or the treasury reaches it, except
\* over the exits and the Meteora close that NothingLeaks names.  The fee splits,
\* the measured Raydium fees, the two legs of a rebalance and every close move
\* what they take, to the last unit.
THEOREM NothingIsLost == Spec => NothingLeaks
<1>1. ASSUME TypeOK, Ownership, FeelessMints, [Next]_vars,
             NEW m \in Mints \ TransferFeeMints
      PROVE  KeepsAccount(m)
  <2>1. TypeOK'
    BY <1>1, NextType
  <2>2. ASSUME NEW v \in Vaults, Instruction(v) PROVE KeepsAccount(m)
    BY <1>1, <2>1, <2>2, InstructionKeepsAccount
  <2>3. CASE Administer \/ Trade \/ TokenPrograms \/ Tick \/ UNCHANGED vars
    BY <1>1, <2>1, <2>3, EnvironmentKeepsAccount
  <2> QED
    BY <1>1, <2>2, <2>3 DEF Next, Instruction
<1>2. TypeOK /\ Ownership /\ FeelessMints /\ [Next]_vars =>
        [\A m \in Mints \ TransferFeeMints :
          \/ Accounted(m)' = Accounted(m)
          \/ \E v \in Vaults :
                /\ ExitsIn(v)
                /\ Accounted(m)' = Accounted(m) - LeftBehind(v, m)
          \/ \E p \in PositionIds :
                /\ Forfeits(p)
                /\ Accounted(m)' = Accounted(m) - positions[p].fees[m]
          \/ \E p \in PositionIds :
                /\ positions[p] # Null /\ positions'[p] # positions[p]
                /\ \A v \in Vaults : Exists(v) => Recorded(v) # p]_vars
  BY <1>1 DEF KeepsAccount, OrphanTrades
<1> QED
  BY <1>2, LedgerInvariant, PTL DEF Spec, NothingLeaks
===============================================================================
