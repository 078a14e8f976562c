-------------------------- MODULE AargauTypes_proofs --------------------------
(***************************************************************************)
(* Type correctness of the whole program, and the fee arithmetic it rests  *)
(* on, for every amount, rate and width of the integers.  No instruction   *)
(* debits a token account, a wallet, a position or the reward vault of     *)
(* more than it holds, so no handler's checked subtraction fails.          *)
(***************************************************************************)
EXTENDS AargauManager, TLAPS

----------------------------------------------------------------------------
(* Fee arithmetic *)

\* Division by BpsDivisor of a number that n * BpsDivisor bounds.  Kept free
\* of products of variables, so the arithmetic below stays linear.
LEMMA FlooredQuotient ==
  ASSUME NEW x \in Nat, NEW n \in Nat, x <= n * BpsDivisor
  PROVE  /\ x \div BpsDivisor \in Nat
         /\ x \div BpsDivisor <= n
BY DEF BpsDivisor

\* A share of at most 100% of n, rounded down, is between 0 and n.
LEMMA FlooredShare ==
  ASSUME NEW n \in Nat, NEW rate \in 0 .. BpsDivisor
  PROVE  /\ n * rate \in Nat
         /\ n * rate <= n * BpsDivisor
         /\ (n * rate) \div BpsDivisor \in 0 .. n
<1>1. n * rate \in Nat
  BY DEF BpsDivisor
<1>2. n * rate <= n * BpsDivisor
  <2>1. BpsDivisor - rate \in Nat
    BY DEF BpsDivisor
  <2>2. n * (BpsDivisor - rate) >= 0
    BY <2>1
  <2>. QED BY <2>2 DEF BpsDivisor
<1>3. /\ (n * rate) \div BpsDivisor \in Nat
      /\ (n * rate) \div BpsDivisor <= n
  BY <1>1, <1>2, FlooredQuotient
<1>. QED BY <1>1, <1>2, <1>3

\* Narrowing changes nothing that already fits.
LEMMA NarrowFits ==
  ASSUME NEW x \in U64
  PROVE  Narrow(x) = x
BY MaxU64Assumption DEF Narrow, U64

\* fee.rs calc_aargau_fee, as used by every fee split: for a rate up to 100%
\* the cast to u64 loses nothing and the fee never exceeds what was collected,
\* so FeeExceedsGross is unreachable and the split is solvent.
THEOREM FeeNeverExceedsGross ==
  ASSUME NEW gross \in U64, NEW rate \in 0 .. BpsDivisor
  PROVE  /\ CalcAargauFee(gross, rate) = (gross * rate) \div BpsDivisor
         /\ CalcAargauFee(gross, rate) \in 0 .. gross
<1>1. gross \in Nat /\ gross <= MaxU64
  BY MaxU64Assumption DEF U64
<1>2. (gross * rate) \div BpsDivisor \in 0 .. gross
  BY <1>1, FlooredShare
<1>3. (gross * rate) \div BpsDivisor \in U64
  BY <1>1, <1>2, MaxU64Assumption DEF U64
<1>. QED BY <1>2, <1>3, NarrowFits DEF CalcAargauFee

\* lp_fee.rs split_lp_fee: the two legs add up to what was collected, and at
\* any rate the protocol can be configured with (initialize_protocol rejects
\* more than MaxFeeRateBps) the treasury's leg is at most a fifth of it.
THEOREM SplitIsExactAndCapped ==
  ASSUME NEW gross \in U64, NEW rate \in 0 .. MaxFeeRateBps
  PROVE  LET s == SplitLpFee(gross, rate)
         IN  /\ s.aargau_fee + s.user_net = gross
             /\ s.user_net \in 0 .. gross
             /\ 5 * s.aargau_fee <= gross
<1>1. gross \in Nat
  BY MaxU64Assumption DEF U64
<1>2. rate \in 0 .. BpsDivisor
  BY DEF MaxFeeRateBps, BpsDivisor
<1> DEFINE fee == CalcAargauFee(gross, rate)
<1>3. fee = (gross * rate) \div BpsDivisor /\ fee \in 0 .. gross
  BY <1>2, FeeNeverExceedsGross
<1>4. gross * rate \in Nat /\ gross * rate <= gross * BpsDivisor
  BY <1>1, <1>2, FlooredShare
<1>5. gross * rate <= gross * MaxFeeRateBps
  <2>1. gross * (MaxFeeRateBps - rate) >= 0
    BY <1>1 DEF MaxFeeRateBps
  <2>. QED BY <1>1, <2>1 DEF MaxFeeRateBps
<1>6. 5 * fee <= gross
  <2> DEFINE product == gross * rate
  <2>1. product \in Nat /\ product <= gross * BpsDivisor
    BY <1>4
  <2>2. product <= gross * 2000
    BY <1>5 DEF MaxFeeRateBps
  <2>3. fee = product \div BpsDivisor /\ fee \in Int
    BY <1>1, <1>3
  <2> HIDE DEF product, fee
  <2>4. fee * BpsDivisor <= product
    BY <2>1, <2>3 DEF BpsDivisor
  <2>. QED BY <1>1, <2>1, <2>2, <2>3, <2>4 DEF BpsDivisor
<1> HIDE DEF fee
<1>7. fee + (gross - fee) = gross /\ gross - fee \in 0 .. gross
  BY <1>1, <1>3
<1>. QED BY <1>6, <1>7 DEF fee, SplitLpFee

\* fee.rs calc_net_after_transfer_fee, for any transfer fee a Token-2022 mint
\* can carry, even one above 100%: the recipient gets between nothing and the
\* whole amount, and the fee withheld never exceeds the mint's maximum.
THEOREM NetAfterTransferFeeIsBounded ==
  ASSUME NEW amount \in U64, NEW bps \in Nat, NEW max \in U64
  PROVE  LET net == CalcNetAfterTransferFee(amount, [bps |-> bps, max |-> max])
         IN  net \in 0 .. amount /\ amount - net <= max
<1>1. amount \in Nat /\ max \in Nat
  BY MaxU64Assumption DEF U64
<1> DEFINE raw == (amount * bps + BpsDivisor - 1) \div BpsDivisor
<1>2. raw \in Nat
  <2>1. amount * bps \in Nat
    BY <1>1
  <2> DEFINE product == amount * bps
  <2>2. product \in Nat
    BY <2>1
  <2> HIDE DEF product
  <2>3. (product + BpsDivisor - 1) \div BpsDivisor \in Nat
    BY <2>2 DEF BpsDivisor
  <2>. QED BY <2>3 DEF product
<1> DEFINE fee == AtMost(AtMost(raw, MaxU64), max)
<1> HIDE DEF raw
<1>3. fee \in Nat /\ fee <= max
  BY <1>1, <1>2, MaxU64Assumption DEF AtMost
<1> HIDE DEF fee
<1>4. SaturatingSub(amount, fee) \in 0 .. amount
  BY <1>1, <1>3 DEF SaturatingSub
<1>5. amount - SaturatingSub(amount, fee) <= max
  BY <1>1, <1>3 DEF SaturatingSub
<1>6. amount - amount <= max /\ amount \in 0 .. amount
  BY <1>1
<1>. QED BY <1>4, <1>5, <1>6 DEF CalcNetAfterTransferFee, fee, raw

\* withdraw.rs proportional_amount: a withdrawal never asks the token program
\* for more than the account holds, and 100% empties it, which is what lets
\* the full withdrawal close the account in the same instruction.
THEOREM ProportionalAmountIsCovered ==
  ASSUME NEW balance \in U64, NEW pct \in 1 .. BpsDivisor
  PROVE  /\ ProportionalAmount(balance, pct) \in 0 .. balance
         /\ ProportionalAmount(balance, BpsDivisor) = balance
<1>1. /\ balance \in Nat
      /\ pct \in 0 .. BpsDivisor
      /\ BpsDivisor \in 0 .. BpsDivisor
  BY MaxU64Assumption DEF U64, BpsDivisor
<1>2. \A p \in 0 .. BpsDivisor :
         /\ CalcAargauFee(balance, p) \in 0 .. balance
         /\ CalcAargauFee(balance, p) = (balance * p) \div BpsDivisor
  BY FeeNeverExceedsGross
<1>3. (balance * BpsDivisor) \div BpsDivisor = balance
  BY <1>1 DEF BpsDivisor
<1>. QED BY <1>1, <1>2, <1>3 DEF ProportionalAmount, CalcAargauFee

\* vault_position.rs collect_lp_fees_to_treasury: when the measurement is
\* accepted, the performance fee taken on it is covered by what the vault's
\* account gained in the same CPI, so no earlier deposit ever pays the fee.
THEOREM MeasuredFeeIsCoveredByGain ==
  ASSUME NEW leg \in [pool_before : U64, pool_after : U64,
                      ata_before : U64, ata_after : U64],
         NEW fee \in [bps : Nat, max : U64],
         NEW rate \in 0 .. BpsDivisor,
         LpFeeIsMeasurable(leg, fee)
  PROVE  CalcAargauFee(MeasureLpFeeReceived(leg, fee), rate)
           \in 0 .. (leg.ata_after - leg.ata_before)
<1> DEFINE outflow == leg.pool_before - leg.pool_after
           received == MeasureLpFeeReceived(leg, fee)
<1>1. outflow \in U64
  BY MaxU64Assumption DEF LpFeeIsMeasurable, U64
<1>2. fee = [bps |-> fee.bps, max |-> fee.max] /\ fee.bps \in Nat /\ fee.max \in U64
  OBVIOUS
<1>3. received \in 0 .. outflow
  BY <1>1, <1>2, NetAfterTransferFeeIsBounded
     DEF MeasureLpFeeReceived, LpFeeReceived
<1>4. received \in U64
  BY <1>1, <1>3, MaxU64Assumption DEF U64
<1>5. received <= leg.ata_after - leg.ata_before
  BY DEF LpFeeIsMeasurable, MeasureLpFeeReceived
<1> HIDE DEF received
<1>6. CalcAargauFee(received, rate) \in 0 .. received
  BY <1>4, FeeNeverExceedsGross
<1>7. CalcAargauFee(received, rate) \in 0 .. (leg.ata_after - leg.ata_before)
  BY <1>4, <1>5, <1>6, MaxU64Assumption DEF U64
<1>. QED BY <1>7 DEF received

----------------------------------------------------------------------------
(* Amounts of several mints *)

LEMMA PlusType ==
  ASSUME NEW c \in Coins, NEW d \in Coins
  PROVE  Plus(c, d) \in Coins
BY DEF Plus, Coins

LEMMA MinusType ==
  ASSUME NEW c \in Coins, NEW d \in Coins, Covers(c, d)
  PROVE  Minus(c, d) \in Coins
BY DEF Minus, Coins, Covers

LEMMA NoCoinsType == NoCoins \in Coins
BY DEF NoCoins, Coins

\* A selection of the mints of c takes no more than c.
LEMMA OnlyType ==
  ASSUME NEW c \in Coins, NEW S
  PROVE  Only(S, c) \in Coins /\ Covers(c, Only(S, c))
BY DEF Only, Coins, Covers

LEMMA OfRewardType ==
  ASSUME NEW n \in Nat
  PROVE  OfReward(n) \in Coins
BY DEF OfReward, Coins

LEMMA CoversTransitive ==
  ASSUME NEW c \in Coins, NEW d \in Coins, NEW e \in Coins,
         Covers(c, d), Covers(d, e)
  PROVE  Covers(c, e)
BY DEF Coins, Covers

\* Narrowing never increases, so a narrowed floored share is still a share.
LEMMA NarrowType ==
  ASSUME NEW x \in Nat
  PROVE  Narrow(x) \in 0 .. x
<1>1. MaxU64 + 1 \in Nat \ {0}
  BY MaxU64Assumption
<1>2. x % (MaxU64 + 1) \in 0 .. x
  BY <1>1
<1> QED
  BY <1>2 DEF Narrow

\* The handlers want at least one bps; a share of none is as good below.
LEMMA ShareIsBps ==
  ASSUME NEW bps \in 1 .. BpsDivisor
  PROVE  bps \in 0 .. BpsDivisor
BY DEF BpsDivisor

LEMMA NarrowedShare ==
  ASSUME NEW n \in Nat, NEW rate \in 0 .. BpsDivisor
  PROVE  Narrow((n * rate) \div BpsDivisor) \in 0 .. n
<1>1. (n * rate) \div BpsDivisor \in 0 .. n
  BY FlooredShare
<1>2. Narrow((n * rate) \div BpsDivisor) \in 0 .. ((n * rate) \div BpsDivisor)
  BY <1>1, NarrowType
<1> QED
  BY <1>1, <1>2

LEMMA ShareOfType ==
  ASSUME NEW c \in Coins, NEW bps \in 0 .. BpsDivisor
  PROVE  ShareOf(c, bps) \in Coins /\ Covers(c, ShareOf(c, bps))
<1>1. \A m \in Mints : c[m] \in Nat
  BY DEF Coins
<1>2. \A m \in Mints : ProportionalAmount(c[m], bps) \in 0 .. c[m]
  BY <1>1, NarrowedShare DEF ProportionalAmount
<1> QED
  BY <1>1, <1>2 DEF ShareOf, Coins, Covers

LEMMA AargauFeeType ==
  ASSUME config \in ProtocolConfig, NEW c \in Coins
  PROVE  AargauFee(c) \in Coins /\ Covers(c, AargauFee(c))
<1>1. config.fee_rate_bps \in 0 .. BpsDivisor
  BY DEF ProtocolConfig, MaxFeeRateBps, BpsDivisor
<1>2. \A m \in Mints : c[m] \in Nat
  BY DEF Coins
<1>3. \A m \in Mints : CalcAargauFee(c[m], config.fee_rate_bps) \in 0 .. c[m]
  BY <1>1, <1>2, NarrowedShare DEF CalcAargauFee
<1> QED
  BY <1>2, <1>3 DEF AargauFee, Coins, Covers

----------------------------------------------------------------------------
(* The token programs *)

\* A transfer fee, whatever its configuration, takes at most what moves.
LEMMA NetAmountType ==
  ASSUME NEW amount \in Nat, NEW fee \in TransferFees
  PROVE  CalcNetAfterTransferFee(amount, fee) \in 0 .. amount
<1> DEFINE raw == (amount * fee.bps + BpsDivisor - 1) \div BpsDivisor
<1>1. fee.bps \in Nat /\ fee.max \in Nat /\ MaxU64 \in Nat
  BY MaxU64Assumption DEF TransferFees, U64
<1>2. amount * fee.bps \in Nat
  BY <1>1
<1>3. raw \in Nat
  BY <1>2 DEF BpsDivisor
<1>4. AtMost(AtMost(raw, MaxU64), fee.max) \in Nat
  BY <1>1, <1>3 DEF AtMost
<1>5. SaturatingSub(amount, AtMost(AtMost(raw, MaxU64), fee.max)) \in 0 .. amount
  BY <1>4 DEF SaturatingSub
<1> QED
  BY <1>5 DEF CalcNetAfterTransferFee

LEMMA NetType ==
  ASSUME mintFee \in [Mints -> TransferFeeConfig], NEW c \in Coins
  PROVE  Net(c) \in Coins /\ Covers(c, Net(c))
<1>1. \A m \in Mints : c[m] \in Nat /\ mintFee[m].live \in TransferFees
  BY DEF Coins, TransferFeeConfig
<1>2. \A m \in Mints : CalcNetAfterTransferFee(c[m], mintFee[m].live) \in 0 .. c[m]
  BY <1>1, NetAmountType
<1> QED
  BY <1>1, <1>2 DEF Net, Coins, Covers

LEMMA CreditType ==
  ASSUME mintFee \in [Mints -> TransferFeeConfig],
         NEW accts \in TokenAccounts, NEW c \in Coins
  PROVE  /\ Credit(accts, c) \in TokenAccounts
         /\ Credit(accts, c).amount = Plus(accts.amount, Net(c))
         /\ Credit(accts, c).open = accts.open
<1>1. Net(c) \in Coins /\ Minus(c, Net(c)) \in Coins
  BY NetType, MinusType
<1>2. accts.amount \in Coins /\ accts.withheld \in Coins
  BY DEF TokenAccounts
<1>3. /\ Plus(accts.amount, Net(c)) \in Coins
      /\ Plus(accts.withheld, Minus(c, Net(c))) \in Coins
  BY <1>1, <1>2, PlusType
<1> QED
  BY <1>3 DEF Credit, TokenAccounts

LEMMA DebitType ==
  ASSUME NEW accts \in TokenAccounts, NEW c \in Coins, Covers(accts.amount, c)
  PROVE  /\ Debit(accts, c) \in TokenAccounts
         /\ Debit(accts, c).amount = Minus(accts.amount, c)
         /\ Debit(accts, c).open = accts.open
<1>1. accts.amount \in Coins
  BY DEF TokenAccounts
<1>2. Minus(accts.amount, c) \in Coins
  BY <1>1, MinusType
<1> QED
  BY <1>2 DEF Debit, TokenAccounts

LEMMA CloseType ==
  ASSUME NEW accts \in TokenAccounts, NEW S
  PROVE  Close(accts, S) \in TokenAccounts
BY DEF Close, TokenAccounts

\* A sum covers its parts.
LEMMA PlusCovers ==
  ASSUME NEW c \in Coins, NEW d \in Coins
  PROVE  Covers(Plus(c, d), c) /\ Covers(Plus(c, d), d)
BY DEF Plus, Coins, Covers

----------------------------------------------------------------------------
(* Positions *)

LEMMA AddLiquidityType ==
  ASSUME mintFee \in [Mints -> TransferFeeConfig],
         NEW pos \in Position, NEW used \in Coins
  PROVE  AddLiquidity(pos, used) \in Position
<1>1. pos.principal \in Coins /\ Net(used) \in Coins
  BY NetType DEF Position
<1>2. Plus(pos.principal, Net(used)) \in Coins
  BY <1>1, PlusType
<1> QED
  BY <1>2 DEF AddLiquidity, Position

LEMMA RemoveLiquidityType ==
  ASSUME NEW pos \in Position, NEW bps \in 0 .. BpsDivisor
  PROVE  RemoveLiquidity(pos, bps) \in Position /\ Removed(pos, bps) \in Coins
<1>1. pos.principal \in Coins
  BY DEF Position
<1>2. Removed(pos, bps) \in Coins /\ Covers(pos.principal, Removed(pos, bps))
  BY <1>1, ShareOfType DEF Removed
<1>3. Minus(pos.principal, Removed(pos, bps)) \in Coins
  BY <1>1, <1>2, MinusType
<1> QED
  BY <1>2, <1>3 DEF RemoveLiquidity, Position

LEMMA ClaimFeesType ==
  ASSUME NEW pos \in Position
  PROVE  /\ ClaimFees(pos) \in Position
         /\ ClaimFees(pos).reward = pos.reward
BY NoCoinsType DEF ClaimFees, Position

LEMMA RewardPayableType ==
  ASSUME rewardVault \in Nat, NEW pos \in Position
  PROVE  /\ RewardPayable(pos) \in 0 .. pos.reward
         /\ RewardPayable(pos) \in 0 .. rewardVault
BY DEF RewardPayable, AtMost, Position

LEMMA PayRewardType ==
  ASSUME NEW pos \in Position, NEW paid \in 0 .. pos.reward
  PROVE  PayReward(pos, paid) \in Position
<1>1. pos.reward \in Nat
  BY DEF Position
<1>2. pos.reward - paid \in Nat
  BY <1>1
<1> QED
  BY <1>2 DEF PayReward, Position

LEMMA NewPositionType ==
  ASSUME NEW v \in Vaults, NEW r \in Ranges
  PROVE  NewPosition(v, r) \in Position
BY NoCoinsType DEF NewPosition, Position

LEMMA ActivePositionType ==
  ASSUME TypeOK, NEW v \in Vaults, Exists(v), HasActivePosition(v)
  PROVE  /\ vaults[v] \in VaultAccount
         /\ Recorded(v) \in PositionIds
         /\ ActivePosition(v) \in Position
<1>1. vaults[v] \in VaultAccount
  BY DEF TypeOK, Exists
<1>2. Recorded(v) \in PositionIds
  BY <1>1 DEF Recorded, VaultAccount, HasActivePosition
<1> QED
  BY <1>1, <1>2 DEF TypeOK, HasActivePosition, ActivePosition

----------------------------------------------------------------------------
(* Vault accounts *)

LEMMA WithPositionType ==
  ASSUME NEW vault \in VaultAccount, NEW p \in PositionIds,
         NEW nft \in BOOLEAN, NEW r \in Ranges
  PROVE  WithPosition(vault, p, nft, r) \in VaultAccount
<1>1. CASE nft
  BY <1>1 DEF WithPosition, VaultAccount
<1>2. CASE ~nft
  BY <1>2 DEF WithPosition, VaultAccount
<1> QED
  BY <1>1, <1>2

LEMMA WithoutPositionType ==
  ASSUME NEW vault \in VaultAccount
  PROVE  WithoutPosition(vault) \in VaultAccount
BY DEF WithoutPosition, VaultAccount

LEMMA PairTransferFeesType ==
  ASSUME mintFee \in [Mints -> TransferFeeConfig]
  PROVE  PairTransferFees \in [Pair -> TransferFees]
BY DEF PairTransferFees, TransferFeeConfig, Mints

LEMMA RecordPairTransferFeesType ==
  ASSUME mintFee \in [Mints -> TransferFeeConfig],
         NEW vault \in VaultAccount
  PROVE  RecordPairTransferFees(vault) \in VaultAccount
BY PairTransferFeesType DEF RecordPairTransferFees, VaultAccount

LEMMA NewVaultAccountType ==
  NewVaultAccount \in VaultAccount
<1>1. NoTransferFee \in TransferFees
  BY MaxU64Assumption DEF NoTransferFee, TransferFees, U64
<1> QED
  BY <1>1 DEF NewVaultAccount, VaultAccount

LEMMA SetPendingType ==
  ASSUME clock \in Nat, NEW vault \in VaultAccount, NEW r \in Ranges
  PROVE  [vault EXCEPT !.pending_rebalance = [range |-> r, initiated_at |-> clock]]
           \in VaultAccount
BY DEF VaultAccount, PendingRebalance

LEMMA ClearPendingType ==
  ASSUME NEW vault \in VaultAccount
  PROVE  [vault EXCEPT !.pending_rebalance = Null] \in VaultAccount
BY DEF VaultAccount

----------------------------------------------------------------------------
(* The performance-fee split *)

\* What a split debits is a share of what the claim credited.
LEMMA SplitFeesType ==
  ASSUME TypeOK, config \in ProtocolConfig,
         NEW accts \in TokenAccounts, NEW pos \in Position
  PROVE  /\ SplitFees(accts, pos, FeeBase(pos)) \in TokenAccounts
         /\ TreasuryAfter(FeeBase(pos)) \in Coins
<1>1. mintFee \in [Mints -> TransferFeeConfig] /\ treasury \in Coins
  BY DEF TypeOK
<1>2. pos.fees \in Coins /\ accts.amount \in Coins
  BY DEF Position, TokenAccounts
<1> DEFINE base == FeeBase(pos)
           credited == Credit(accts, pos.fees)
<1>3. base \in Coins
  BY <1>1, <1>2, NetType DEF FeeBase
<1>4. AargauFee(base) \in Coins /\ Covers(base, AargauFee(base))
  BY <1>3, AargauFeeType
<1>5. credited \in TokenAccounts /\ credited.amount = Plus(accts.amount, base)
  BY <1>1, <1>2, CreditType DEF FeeBase
<1>6. Plus(accts.amount, base) \in Coins /\ Covers(Plus(accts.amount, base), base)
  BY <1>2, <1>3, PlusType, PlusCovers
<1>7. Covers(credited.amount, AargauFee(base))
  BY <1>3, <1>4, <1>5, <1>6, CoversTransitive
<1>8. SplitFees(accts, pos, base) \in TokenAccounts
  BY <1>4, <1>5, <1>7, DebitType DEF SplitFees
<1>9. TreasuryAfter(base) \in Coins
  BY <1>1, <1>4, NetType, PlusType DEF TreasuryAfter
<1> QED
  BY <1>8, <1>9

LEMMA RaydiumFeeBaseType ==
  ASSUME TypeOK, NEW v \in Vaults, NEW pos \in Position, LpFeeMeasured(v, pos)
  PROVE  /\ RaydiumPayout(v, pos) \in TokenAccounts
         /\ RaydiumFeeBase(v, pos) \in Coins
         /\ Covers(RaydiumPayout(v, pos).amount, RaydiumFeeBase(v, pos))
<1>1. /\ mintFee \in [Mints -> TransferFeeConfig]
      /\ accounts[v] \in TokenAccounts
      /\ rewardVault \in Nat
  BY DEF TypeOK
<1>2. pos.fees \in Coins
  BY DEF Position
<1>3. RewardPayable(pos) \in Nat
  BY <1>1, RewardPayableType
<1>4. RaydiumPayout(v, pos) \in TokenAccounts
  BY <1>1, <1>2, <1>3, CreditType, OfRewardType DEF RaydiumPayout
<1>5. \A m \in Mints : /\ RaydiumPayout(v, pos).amount[m] \in Nat
                       /\ accounts[v].amount[m] \in Nat
                       /\ pos.fees[m] \in Nat
                       /\ mintFee[m].live \in TransferFees
  BY <1>1, <1>2, <1>4 DEF TokenAccounts, Coins, TransferFeeConfig
<1>6. \A m \in Pair : m \in Mints
  BY DEF Mints
<1>7. \A m \in Pair :
        RaydiumFeeBase(v, pos)[m] \in 0 .. RaydiumPayout(v, pos).amount[m]
  <2> TAKE m \in Pair
  <2> DEFINE fee == CalcNetAfterTransferFee(pos.fees[m], mintFee[m].live)
  <2>1. fee \in 0 .. pos.fees[m]
    BY <1>5, <1>6, NetAmountType
  <2>2. pos.fees[m] - 0 = pos.fees[m]
    BY <1>5, <1>6
  <2>3. RaydiumFeeBase(v, pos)[m] = fee
    BY <1>6, <2>2 DEF RaydiumFeeBase, MeasureLpFeeReceived, LpFeeReceived, FeeLeg
  <2>4. fee <= RaydiumPayout(v, pos).amount[m] - accounts[v].amount[m]
    BY <2>2 DEF LpFeeMeasured, LpFeeIsMeasurable, LpFeeReceived, FeeLeg
  <2> HIDE DEF fee
  <2> QED
    BY <1>5, <1>6, <2>1, <2>3, <2>4
<1>8. \A m \in Mints \ Pair : RaydiumFeeBase(v, pos)[m] = 0
  BY DEF RaydiumFeeBase
<1>9. RaydiumFeeBase(v, pos) = [m \in Mints |-> RaydiumFeeBase(v, pos)[m]]
  BY DEF RaydiumFeeBase
<1>10. \A m \in Mints :
         RaydiumFeeBase(v, pos)[m] \in 0 .. RaydiumPayout(v, pos).amount[m]
  BY <1>5, <1>7, <1>8
<1> QED
  BY <1>4, <1>5, <1>9, <1>10 DEF Coins, Covers

\* What a Raydium collect leaves in every place it writes.
LEMMA RaydiumCollectType ==
  ASSUME TypeOK, config \in ProtocolConfig,
         NEW v \in Vaults, NEW pos \in Position, RaydiumCollect(v, pos)
  PROVE  /\ RaydiumCollected(v, pos) \in TokenAccounts
         /\ RaydiumAfterCollect(pos) \in Position
         /\ treasury' \in Coins
         /\ rewardVault' \in Nat
<1>1. /\ mintFee \in [Mints -> TransferFeeConfig]
      /\ treasury \in Coins
      /\ rewardVault \in Nat
  BY DEF TypeOK
<1> DEFINE base == RaydiumFeeBase(v, pos)
           payout == RaydiumPayout(v, pos)
<1>2. payout \in TokenAccounts /\ base \in Coins /\ Covers(payout.amount, base)
  BY RaydiumFeeBaseType DEF RaydiumCollect
<1>3. AargauFee(base) \in Coins /\ Covers(base, AargauFee(base))
  BY <1>2, AargauFeeType
<1>4. payout.amount \in Coins
  BY <1>2 DEF TokenAccounts
<1>5. Covers(payout.amount, AargauFee(base))
  BY <1>2, <1>3, <1>4, CoversTransitive
<1>6. RaydiumCollected(v, pos) \in TokenAccounts
  BY <1>2, <1>3, <1>5, DebitType DEF RaydiumCollected
<1>7. TreasuryAfter(base) \in Coins
  BY <1>1, <1>3, NetType, PlusType DEF TreasuryAfter
<1>8. /\ RewardPayable(pos) \in 0 .. pos.reward
      /\ RewardPayable(pos) \in 0 .. rewardVault
  BY <1>1, RewardPayableType
<1>9. RaydiumAfterCollect(pos) \in Position
  BY <1>8, ClaimFeesType, PayRewardType DEF RaydiumAfterCollect
<1>10. rewardVault - RewardPayable(pos) \in Nat
  BY <1>1, <1>8
<1> QED
  BY <1>6, <1>7, <1>9, <1>10 DEF RaydiumCollect

LEMMA OrcaCollectType ==
  ASSUME TypeOK, config \in ProtocolConfig,
         NEW v \in Vaults, NEW pos \in Position, OrcaCollectEffects(pos)
  PROVE  /\ OrcaCollected(v, pos) \in TokenAccounts
         /\ OrcaAfterCollect(pos) \in Position
         /\ treasury' \in Coins
         /\ rewardVault' \in Nat
<1>1. /\ mintFee \in [Mints -> TransferFeeConfig]
      /\ accounts[v] \in TokenAccounts
      /\ rewardVault \in Nat
  BY DEF TypeOK
<1>2. pos.reward \in Nat
  BY DEF Position
<1>3. /\ RewardPayable(pos) \in 0 .. pos.reward
      /\ RewardPayable(pos) \in 0 .. rewardVault
  BY <1>1, RewardPayableType
<1>4. /\ OrcaRewardPaid(pos) \in 0 .. pos.reward
      /\ OrcaRewardPaid(pos) \in 0 .. rewardVault
  BY <1>1, <1>2, <1>3 DEF OrcaRewardPaid
<1>5. OfReward(OrcaRewardPaid(pos)) \in Coins
  BY <1>1, <1>4, OfRewardType
<1>6. /\ SplitFees(accounts[v], pos, FeeBase(pos)) \in TokenAccounts
      /\ TreasuryAfter(FeeBase(pos)) \in Coins
  BY <1>1, SplitFeesType
<1>7. OrcaCollected(v, pos) \in TokenAccounts
  BY <1>1, <1>5, <1>6, CreditType DEF OrcaCollected
<1>8. OrcaAfterCollect(pos) \in Position
  BY <1>4, ClaimFeesType, PayRewardType DEF OrcaAfterCollect
<1>9. rewardVault - OrcaRewardPaid(pos) \in Nat
  BY <1>1, <1>4
<1> QED
  BY <1>6, <1>7, <1>8, <1>9 DEF OrcaCollectEffects

----------------------------------------------------------------------------
(* The instructions that do not depend on the DEX *)

LEMMA InitType == Init => TypeOK
<1> SUFFICES ASSUME Init PROVE TypeOK
  OBVIOUS
<1>1. NoCoins \in Coins
  BY NoCoinsType
<1>2. \A v \in Vaults : accounts[v] \in TokenAccounts
  BY <1>1 DEF Init, TokenAccounts
<1>3. accounts = [v \in Vaults |-> accounts[v]]
  BY DEF Init
<1>4. mintFee \in [Mints -> TransferFeeConfig]
  BY StateAssumption DEF Init, TransferFeeConfig
<1> QED
  BY <1>1, <1>2, <1>3, <1>4, StateAssumption DEF Init, TypeOK

LEMMA AdministerType ==
  ASSUME TypeOK, Administer
  PROVE  TypeOK'
<1>1. CASE \E rate \in Rates : InitializeProtocol(rate)
  <2> PICK rate \in Rates : InitializeProtocol(rate)
    BY <1>1
  <2>1. config' \in ProtocolConfig
    BY InputAssumption DEF InitializeProtocol, ProtocolConfig, MaxFeeRateBps
  <2> QED
    BY <2>1 DEF InitializeProtocol, TypeOK
<1>2. CASE \E paused \in BOOLEAN : SetProtocolPause(paused)
  <2> PICK paused \in BOOLEAN : SetProtocolPause(paused)
    BY <1>2
  <2>1. config' \in ProtocolConfig
    BY DEF TypeOK, SetProtocolPause, ProtocolConfig
  <2> QED
    BY <2>1 DEF SetProtocolPause, TypeOK
<1> QED
  BY <1>1, <1>2 DEF Administer

LEMMA CreateVaultType ==
  ASSUME TypeOK, NEW v \in Vaults, NEW width, CreateVault(v, width)
  PROVE  TypeOK'
<1>1. accounts[v] \in TokenAccounts
  BY DEF TypeOK
<1>2. [accounts[v] EXCEPT !.open = @ \cup Pair] \in TokenAccounts
  BY <1>1 DEF TokenAccounts, Mints
<1>3. accounts' = [accounts EXCEPT ![v] = [accounts[v] EXCEPT !.open = @ \cup Pair]]
  BY <1>1 DEF CreateVault, TypeOK, TokenAccounts
<1>4. accounts' \in [Vaults -> TokenAccounts]
  BY <1>2, <1>3 DEF TypeOK
<1>5. vaults' \in [Vaults -> VaultAccount \cup {Null}]
  BY NewVaultAccountType DEF CreateVault, TypeOK
<1> QED
  BY <1>4, <1>5 DEF CreateVault, TypeOK

LEMMA DepositType ==
  ASSUME TypeOK, NEW v \in Vaults, NEW S, NEW c \in Coins, Deposit(v, S, c)
  PROVE  TypeOK'
<1>1. /\ mintFee \in [Mints -> TransferFeeConfig]
      /\ accounts[v] \in TokenAccounts
      /\ Owner[v] \in Users
      /\ wallet[Owner[v]] \in Coins
  BY StateAssumption DEF TypeOK
<1>2. Minus(wallet[Owner[v]], c) \in Coins
  BY <1>1, MinusType DEF Deposit
<1>3. Credit(accounts[v], c) \in TokenAccounts
  BY <1>1, CreditType
<1> QED
  BY <1>2, <1>3 DEF Deposit, TypeOK

\* What the two exits share: out is a part of the vault's balances.
LEMMA ExitType ==
  ASSUME TypeOK, NEW v \in Vaults, NEW out \in Coins,
         Covers(accounts[v].amount, out)
  PROVE  /\ Debit(accounts[v], out) \in TokenAccounts
         /\ PayOwner(v, out) => wallet' \in [Users -> Coins]
         /\ \A S : CloseVault(v, S, Debit(accounts[v], out)) =>
              /\ accounts' \in [Vaults -> TokenAccounts]
              /\ vaults' \in [Vaults -> VaultAccount \cup {Null}]
<1>1. /\ mintFee \in [Mints -> TransferFeeConfig]
      /\ accounts[v] \in TokenAccounts
      /\ Owner[v] \in Users
      /\ wallet \in [Users -> Coins]
  BY StateAssumption DEF TypeOK
<1>2. Debit(accounts[v], out) \in TokenAccounts
  BY <1>1, DebitType
<1>3. Plus(wallet[Owner[v]], Net(out)) \in Coins
  BY <1>1, NetType, PlusType
<1>4. PayOwner(v, out) => wallet' \in [Users -> Coins]
  BY <1>1, <1>3 DEF PayOwner
<1>5. ASSUME NEW S, CloseVault(v, S, Debit(accounts[v], out))
      PROVE  /\ accounts' \in [Vaults -> TokenAccounts]
             /\ vaults' \in [Vaults -> VaultAccount \cup {Null}]
  <2>1. Close(Debit(accounts[v], out), S) \in TokenAccounts
    BY <1>2, CloseType
  <2> QED
    BY <1>5, <2>1 DEF CloseVault, TypeOK
<1> QED
  BY <1>2, <1>4, <1>5

LEMMA WithdrawType ==
  ASSUME TypeOK, NEW v \in Vaults, NEW S, NEW pct, NEW min,
         Withdraw(v, S, pct, min)
  PROVE  TypeOK'
<1> DEFINE out == ShareOf(Only(S, accounts[v].amount), pct)
<1>1. accounts[v] \in TokenAccounts /\ accounts[v].amount \in Coins
  BY DEF TypeOK, TokenAccounts
<1>2. pct \in 0 .. BpsDivisor
  BY ShareIsBps DEF Withdraw
<1>3. /\ Only(S, accounts[v].amount) \in Coins
      /\ Covers(accounts[v].amount, Only(S, accounts[v].amount))
  BY <1>1, OnlyType
<1>4. out \in Coins /\ Covers(Only(S, accounts[v].amount), out)
  BY <1>2, <1>3, ShareOfType
<1>5. Covers(accounts[v].amount, out)
  BY <1>1, <1>3, <1>4, CoversTransitive
<1> DEFINE left == Debit(accounts[v], out)
<1>6. /\ PayOwner(v, out)
      /\ \/ CloseVault(v, S, left)
         \/ /\ accounts' = [accounts EXCEPT ![v] = left]
            /\ UNCHANGED vaults
      /\ UNCHANGED <<config, treasury, positions, market, rewardVault,
                     mintFee, clock>>
  BY DEF Withdraw
<1>7. left \in TokenAccounts /\ wallet' \in [Users -> Coins]
  BY <1>4, <1>5, <1>6, ExitType
<1>8. /\ accounts' \in [Vaults -> TokenAccounts]
      /\ vaults' \in [Vaults -> VaultAccount \cup {Null}]
  <2>1. CASE CloseVault(v, S, left)
    BY <1>4, <1>5, <2>1, ExitType
  <2>2. CASE accounts' = [accounts EXCEPT ![v] = left] /\ UNCHANGED vaults
    BY <1>7, <2>2 DEF TypeOK
  <2> QED
    BY <1>6, <2>1, <2>2
<1> HIDE DEF out, left
<1> QED
  BY <1>6, <1>7, <1>8 DEF TypeOK

LEMMA EmergencyWithdrawType ==
  ASSUME TypeOK, NEW v \in Vaults, NEW S, EmergencyWithdraw(v, S)
  PROVE  TypeOK'
<1> DEFINE out == Only(S, accounts[v].amount)
<1>1. accounts[v].amount \in Coins
  BY DEF TypeOK, TokenAccounts
<1>2. out \in Coins /\ Covers(accounts[v].amount, out)
  BY <1>1, OnlyType
<1>3. /\ PayOwner(v, out)
      /\ CloseVault(v, S, Debit(accounts[v], out))
      /\ UNCHANGED <<config, treasury, positions, market, rewardVault,
                     mintFee, clock>>
  BY DEF EmergencyWithdraw
<1>4. /\ wallet' \in [Users -> Coins]
      /\ accounts' \in [Vaults -> TokenAccounts]
      /\ vaults' \in [Vaults -> VaultAccount \cup {Null}]
  BY <1>2, <1>3, ExitType
<1> QED
  BY <1>3, <1>4 DEF TypeOK

LEMMA CancelType ==
  ASSUME TypeOK, NEW v \in Vaults, CancelPendingRebalance(v)
  PROVE  TypeOK'
<1>1. vaults[v] \in VaultAccount
  BY DEF TypeOK, CancelPendingRebalance, UngatedVault, Exists
<1>2. [vaults[v] EXCEPT !.pending_rebalance = Null] \in VaultAccount
  BY <1>1, ClearPendingType
<1>3. vaults' = [vaults EXCEPT ![v] = [vaults[v] EXCEPT !.pending_rebalance = Null]]
  BY <1>1 DEF CancelPendingRebalance
<1> QED
  BY <1>2, <1>3 DEF CancelPendingRebalance, TypeOK
----------------------------------------------------------------------------
(* What the position-managing handlers share *)

LEMMA ManagedVaultType ==
  ASSUME TypeOK, NEW v \in Vaults, NEW protocol, ManagedVault(v, protocol)
  PROVE  /\ config \in ProtocolConfig
         /\ Exists(v)
         /\ vaults[v] \in VaultAccount
         /\ accounts[v] \in TokenAccounts
         /\ accounts[v].amount \in Coins
         /\ mintFee \in [Mints -> TransferFeeConfig]
         /\ clock \in Nat
BY DEF TypeOK, ManagedVault, NotPaused, Exists, TokenAccounts

\* An increase takes at most its ceilings, which the balances cover.
LEMMA FundType ==
  ASSUME NEW accts \in TokenAccounts, NEW max \in Coins, NEW used \in Coins,
         FundedCeilings(accts, max), TakenWithin(used, max)
  PROVE  Debit(accts, used) \in TokenAccounts
<1>1. accts.amount \in Coins
  BY DEF TokenAccounts
<1>2. Covers(accts.amount, max) /\ Covers(max, used)
  BY DEF FundedCeilings, TakenWithin
<1> QED
  BY <1>1, <1>2, CoversTransitive, DebitType

LEMMA InputAmountsType ==
  ASSUME NEW S, NEW c \in AmountsOf(S, Amounts)
  PROVE  c \in Coins
<1>1. Amounts \cup {0} \subseteq Nat
  BY InputAssumption
<1>2. c \in [Mints -> Amounts \cup {0}]
  BY DEF AmountsOf
<1> QED
  BY <1>1, <1>2 DEF Coins

LEMMA CeilingsType ==
  ASSUME NEW max \in Ceilings
  PROVE  max \in Coins
BY InputAmountsType DEF Ceilings

\* A step that rewrites the token accounts of v and its active position.
LEMMA ActiveStepType ==
  ASSUME TypeOK, NEW v \in Vaults, Exists(v), HasActivePosition(v),
         NEW accts \in TokenAccounts, NEW pos \in Position \cup {Null},
         accounts' = [accounts EXCEPT ![v] = accts],
         ActivePositionBecomes(v, pos)
  PROVE  /\ accounts' \in [Vaults -> TokenAccounts]
         /\ positions' \in [PositionIds -> Position \cup {Null}]
<1>1. Recorded(v) \in PositionIds
  BY ActivePositionType
<1> QED
  BY <1>1 DEF TypeOK, ActivePositionBecomes

\* A step that opens position p for v.
LEMMA OpenStepType ==
  ASSUME TypeOK, NEW v \in Vaults, NEW p \in PositionIds,
         NEW pos \in Position, NEW vault \in VaultAccount,
         positions' = [positions EXCEPT ![p] = pos],
         vaults' = [vaults EXCEPT ![v] = vault]
  PROVE  /\ positions' \in [PositionIds -> Position \cup {Null}]
         /\ vaults' \in [Vaults -> VaultAccount \cup {Null}]
BY DEF TypeOK

----------------------------------------------------------------------------
(* Meteora *)

LEMMA MeteoraOpenType ==
  ASSUME TypeOK, NEW v \in Vaults, NEW p \in PositionIds, NEW r \in Ranges,
         MeteoraOpenPosition(v, p, r)
  PROVE  TypeOK'
<1>1. vaults[v] \in VaultAccount
  BY ManagedVaultType DEF MeteoraOpenPosition, MeteoraVault
<1>2. WithPosition(vaults[v], p, FALSE, r) \in VaultAccount
  BY <1>1, WithPositionType
<1>3. NewPosition(v, r) \in Position
  BY NewPositionType
<1>4. /\ positions' \in [PositionIds -> Position \cup {Null}]
      /\ vaults' \in [Vaults -> VaultAccount \cup {Null}]
  BY <1>2, <1>3, OpenStepType DEF MeteoraOpenPosition
<1> QED
  BY <1>4 DEF MeteoraOpenPosition, TypeOK

LEMMA MeteoraIncreaseType ==
  ASSUME TypeOK, NEW v \in Vaults, NEW max \in Coins, NEW used \in Coins,
         NEW s, MeteoraIncreaseLiquidity(v, max, used, s)
  PROVE  TypeOK'
<1>1. /\ Exists(v) /\ HasActivePosition(v)
      /\ accounts[v] \in TokenAccounts
      /\ mintFee \in [Mints -> TransferFeeConfig]
  BY ManagedVaultType DEF MeteoraIncreaseLiquidity, MeteoraPosition, MeteoraVault
<1>2. ActivePosition(v) \in Position
  BY <1>1, ActivePositionType
<1>3. Debit(accounts[v], used) \in TokenAccounts
  BY <1>1, FundType DEF MeteoraIncreaseLiquidity
<1>4. AddLiquidity(ActivePosition(v), used) \in Position
  BY <1>1, <1>2, AddLiquidityType
<1>5. /\ accounts' \in [Vaults -> TokenAccounts]
      /\ positions' \in [PositionIds -> Position \cup {Null}]
  BY <1>1, <1>3, <1>4, ActiveStepType DEF MeteoraIncreaseLiquidity
<1> QED
  BY <1>5 DEF MeteoraIncreaseLiquidity, TypeOK

LEMMA MeteoraDecreaseType ==
  ASSUME TypeOK, NEW v \in Vaults, NEW bps, MeteoraDecreaseLiquidity(v, bps)
  PROVE  TypeOK'
<1> DEFINE pos == ActivePosition(v)
<1>1. /\ Exists(v) /\ HasActivePosition(v)
      /\ accounts[v] \in TokenAccounts
      /\ mintFee \in [Mints -> TransferFeeConfig]
      /\ bps \in 0 .. BpsDivisor
  BY ManagedVaultType, ShareIsBps
     DEF MeteoraDecreaseLiquidity, MeteoraPosition, MeteoraVault
<1>2. pos \in Position
  BY <1>1, ActivePositionType
<1>3. RemoveLiquidity(pos, bps) \in Position /\ Removed(pos, bps) \in Coins
  BY <1>1, <1>2, RemoveLiquidityType
<1>4. Credit(accounts[v], Removed(pos, bps)) \in TokenAccounts
  BY <1>1, <1>3, CreditType
<1>5. /\ accounts' \in [Vaults -> TokenAccounts]
      /\ positions' \in [PositionIds -> Position \cup {Null}]
  BY <1>1, <1>3, <1>4, ActiveStepType DEF MeteoraDecreaseLiquidity
<1> QED
  BY <1>5 DEF MeteoraDecreaseLiquidity, TypeOK

LEMMA MeteoraCollectType ==
  ASSUME TypeOK, NEW v \in Vaults, MeteoraCollectFees(v)
  PROVE  TypeOK'
<1> DEFINE pos == ActivePosition(v)
<1>1. /\ Exists(v) /\ HasActivePosition(v)
      /\ accounts[v] \in TokenAccounts
      /\ config \in ProtocolConfig
  BY ManagedVaultType DEF MeteoraCollectFees, MeteoraPosition, MeteoraVault
<1>2. pos \in Position
  BY <1>1, ActivePositionType
<1>3. /\ SplitFees(accounts[v], pos, FeeBase(pos)) \in TokenAccounts
      /\ TreasuryAfter(FeeBase(pos)) \in Coins
  BY <1>1, <1>2, SplitFeesType
<1>4. ClaimFees(pos) \in Position
  BY <1>2, ClaimFeesType
<1>5. /\ accounts' \in [Vaults -> TokenAccounts]
      /\ positions' \in [PositionIds -> Position \cup {Null}]
  BY <1>1, <1>3, <1>4, ActiveStepType DEF MeteoraCollectFees
<1> QED
  BY <1>3, <1>5 DEF MeteoraCollectFees, TypeOK

LEMMA MeteoraCloseType ==
  ASSUME TypeOK, NEW v \in Vaults, MeteoraClosePosition(v)
  PROVE  TypeOK'
<1>1. Exists(v) /\ HasActivePosition(v) /\ vaults[v] \in VaultAccount
  BY ManagedVaultType DEF MeteoraClosePosition, MeteoraPosition, MeteoraVault
<1>2. Recorded(v) \in PositionIds
  BY <1>1, ActivePositionType
<1>3. positions' \in [PositionIds -> Position \cup {Null}]
  BY <1>2 DEF MeteoraClosePosition, ActivePositionBecomes, TypeOK
<1>4. [vaults[v] EXCEPT !.position_address = Null, !.position_range = Null]
        \in VaultAccount
  BY <1>1 DEF VaultAccount
<1>5. vaults' \in [Vaults -> VaultAccount \cup {Null}]
  BY <1>4 DEF MeteoraClosePosition, TypeOK
<1> QED
  BY <1>3, <1>5 DEF MeteoraClosePosition, TypeOK

LEMMA ManualRebalanceType ==
  ASSUME TypeOK, NEW v \in Vaults, NEW r \in Ranges, NEW max \in Coins,
         NEW used \in Coins, NEW s, ManualRebalance(v, r, max, used, s)
  PROVE  TypeOK'
<1> DEFINE pos == ActivePosition(v)
           claimed == SplitFees(accounts[v], pos, FeeBase(pos))
           refunded == Credit(claimed, pos.principal)
           emptied == [ClaimFees(pos) EXCEPT !.principal = NoCoins]
           moved == [AddLiquidity(emptied, used) EXCEPT !.range = r]
<1>1. /\ Exists(v) /\ HasActivePosition(v)
      /\ vaults[v] \in VaultAccount
      /\ accounts[v] \in TokenAccounts
      /\ mintFee \in [Mints -> TransferFeeConfig]
      /\ config \in ProtocolConfig
      /\ clock \in Nat
  BY ManagedVaultType DEF ManualRebalance, MeteoraPosition, MeteoraVault
<1>2. pos \in Position /\ pos.principal \in Coins
  BY <1>1, ActivePositionType DEF Position
<1>3. claimed \in TokenAccounts /\ TreasuryAfter(FeeBase(pos)) \in Coins
  BY <1>1, <1>2, SplitFeesType
<1>4. /\ FundedCeilings(claimed, max)
      /\ TakenWithin(used, max)
      /\ treasury' = TreasuryAfter(FeeBase(pos))
      /\ accounts' = [accounts EXCEPT ![v] = Debit(refunded, used)]
      /\ ActivePositionBecomes(v, moved)
      /\ vaults' = [vaults EXCEPT ![v] = MeteoraRebalanced(vaults[v], r)]
      /\ UNCHANGED <<config, wallet, market, rewardVault, mintFee, clock>>
  BY <1>1 DEF ManualRebalance, TypeOK
<1>5. /\ claimed.amount \in Coins
      /\ refunded \in TokenAccounts
      /\ refunded.amount = Plus(claimed.amount, Net(pos.principal))
      /\ Net(pos.principal) \in Coins
  BY <1>1, <1>2, <1>3, CreditType, NetType DEF TokenAccounts
<1>6. /\ refunded.amount \in Coins
      /\ Covers(refunded.amount, claimed.amount)
  BY <1>5, PlusType, PlusCovers
<1>7. Covers(claimed.amount, used)
  BY <1>4, <1>5, CoversTransitive DEF FundedCeilings, TakenWithin
<1>8. Covers(refunded.amount, used)
  BY <1>5, <1>6, <1>7, CoversTransitive
<1>9. Debit(refunded, used) \in TokenAccounts
  BY <1>5, <1>8, DebitType
<1>10. emptied \in Position
  BY <1>2, ClaimFeesType, NoCoinsType DEF Position
<1>11. AddLiquidity(emptied, used) \in Position
  BY <1>1, <1>10, AddLiquidityType
<1>12. moved \in Position
  BY <1>11 DEF Position
<1>13. MeteoraRebalanced(vaults[v], r) \in VaultAccount
  BY <1>1 DEF MeteoraRebalanced, VaultAccount
<1> HIDE DEF claimed, refunded, emptied, moved
<1>14. /\ accounts' \in [Vaults -> TokenAccounts]
       /\ positions' \in [PositionIds -> Position \cup {Null}]
  BY <1>1, <1>4, <1>9, <1>12, ActiveStepType
<1> QED
  BY <1>3, <1>4, <1>13, <1>14 DEF TypeOK
----------------------------------------------------------------------------
(* Orca *)

LEMMA OrcaOpenType ==
  ASSUME TypeOK, NEW v \in Vaults, NEW p \in PositionIds, NEW r \in Ranges,
         OrcaOpenPosition(v, p, r)
  PROVE  TypeOK'
<1>1. vaults[v] \in VaultAccount /\ mintFee \in [Mints -> TransferFeeConfig]
  BY ManagedVaultType DEF OrcaOpenPosition, OrcaVault
<1>2. WithPosition(RecordPairTransferFees(vaults[v]), p, TRUE, r) \in VaultAccount
  BY <1>1, RecordPairTransferFeesType, WithPositionType
<1>3. NewPosition(v, r) \in Position
  BY NewPositionType
<1>4. /\ positions' \in [PositionIds -> Position \cup {Null}]
      /\ vaults' \in [Vaults -> VaultAccount \cup {Null}]
  BY <1>2, <1>3, OpenStepType DEF OrcaOpenPosition
<1> QED
  BY <1>4 DEF OrcaOpenPosition, TypeOK

LEMMA OrcaPositionType ==
  ASSUME TypeOK, NEW v \in Vaults, OrcaPosition(v)
  PROVE  /\ Exists(v) /\ HasActivePosition(v)
         /\ config \in ProtocolConfig
         /\ vaults[v] \in VaultAccount
         /\ accounts[v] \in TokenAccounts
         /\ mintFee \in [Mints -> TransferFeeConfig]
         /\ clock \in Nat
         /\ Recorded(v) \in PositionIds
         /\ ActivePosition(v) \in Position
BY ManagedVaultType, ActivePositionType DEF OrcaPosition, OrcaVault

LEMMA OrcaIncreaseType ==
  ASSUME TypeOK, NEW v \in Vaults, NEW max \in Coins, NEW used \in Coins,
         OrcaIncreaseLiquidity(v, max, used)
  PROVE  TypeOK'
<1>1. OrcaPosition(v)
  BY DEF OrcaIncreaseLiquidity
<1>2. Debit(accounts[v], used) \in TokenAccounts
  BY <1>1, OrcaPositionType, FundType DEF OrcaIncreaseLiquidity
<1>3. AddLiquidity(ActivePosition(v), used) \in Position
  BY <1>1, OrcaPositionType, AddLiquidityType
<1>4. /\ accounts' \in [Vaults -> TokenAccounts]
      /\ positions' \in [PositionIds -> Position \cup {Null}]
  BY <1>1, <1>2, <1>3, OrcaPositionType, ActiveStepType DEF OrcaIncreaseLiquidity
<1> QED
  BY <1>4 DEF OrcaIncreaseLiquidity, TypeOK

LEMMA OrcaDecreaseType ==
  ASSUME TypeOK, NEW v \in Vaults, NEW bps, NEW min,
         OrcaDecreaseLiquidity(v, bps, min)
  PROVE  TypeOK'
<1> DEFINE pos == ActivePosition(v)
<1>1. OrcaPosition(v) /\ bps \in 0 .. BpsDivisor
  BY ShareIsBps DEF OrcaDecreaseLiquidity
<1>2. RemoveLiquidity(pos, bps) \in Position /\ Removed(pos, bps) \in Coins
  BY <1>1, OrcaPositionType, RemoveLiquidityType
<1>3. Credit(accounts[v], Removed(pos, bps)) \in TokenAccounts
  BY <1>1, <1>2, OrcaPositionType, CreditType
<1>4. /\ accounts' \in [Vaults -> TokenAccounts]
      /\ positions' \in [PositionIds -> Position \cup {Null}]
  BY <1>1, <1>2, <1>3, OrcaPositionType, ActiveStepType DEF OrcaDecreaseLiquidity
<1> QED
  BY <1>4 DEF OrcaDecreaseLiquidity, TypeOK

LEMMA OrcaCollectFeesType ==
  ASSUME TypeOK, NEW v \in Vaults, OrcaCollectFees(v)
  PROVE  TypeOK'
<1> DEFINE pos == ActivePosition(v)
<1>1. OrcaPosition(v) /\ OrcaCollectEffects(pos)
  BY DEF OrcaCollectFees
<1>2. /\ OrcaCollected(v, pos) \in TokenAccounts
      /\ OrcaAfterCollect(pos) \in Position
      /\ treasury' \in Coins
      /\ rewardVault' \in Nat
  BY <1>1, OrcaPositionType, OrcaCollectType
<1>3. /\ accounts' \in [Vaults -> TokenAccounts]
      /\ positions' \in [PositionIds -> Position \cup {Null}]
  BY <1>1, <1>2, OrcaPositionType, ActiveStepType DEF OrcaCollectFees
<1> QED
  BY <1>2, <1>3 DEF OrcaCollectFees, TypeOK

LEMMA OrcaCloseType ==
  ASSUME TypeOK, NEW v \in Vaults, OrcaClosePosition(v)
  PROVE  TypeOK'
<1>1. vaults[v] \in VaultAccount /\ Recorded(v) \in PositionIds
  BY OrcaPositionType DEF OrcaClosePosition
<1>2. positions' \in [PositionIds -> Position \cup {Null}]
  BY <1>1 DEF OrcaClosePosition, ActivePositionBecomes, TypeOK
<1>3. vaults' \in [Vaults -> VaultAccount \cup {Null}]
  BY <1>1, WithoutPositionType DEF OrcaClosePosition, TypeOK
<1> QED
  BY <1>2, <1>3 DEF OrcaClosePosition, TypeOK

LEMMA StartRebalanceOrcaType ==
  ASSUME TypeOK, NEW v \in Vaults, NEW r \in Ranges, NEW bps, NEW min,
         StartRebalanceOrca(v, r, bps, min)
  PROVE  TypeOK'
<1> DEFINE pos == ActivePosition(v)
           out == Removed(pos, bps)
<1>1. /\ OrcaPosition(v)
      /\ bps \in 0 .. BpsDivisor
      /\ OrcaCollectEffects(pos)
  BY ShareIsBps DEF StartRebalanceOrca
<1>2. /\ OrcaCollected(v, pos) \in TokenAccounts
      /\ treasury' \in Coins
      /\ rewardVault' \in Nat
  BY <1>1, OrcaPositionType, OrcaCollectType
<1>3. out \in Coins
  BY <1>1, OrcaPositionType, RemoveLiquidityType
<1>4. Credit(OrcaCollected(v, pos), out) \in TokenAccounts
  BY <1>1, <1>2, <1>3, OrcaPositionType, CreditType
<1>5. OrcaStarted(vaults[v], r) \in VaultAccount
  BY <1>1, OrcaPositionType, WithoutPositionType, SetPendingType
     DEF OrcaStarted, Pending
<1>6. /\ accounts' \in [Vaults -> TokenAccounts]
      /\ positions' \in [PositionIds -> Position \cup {Null}]
  BY <1>1, <1>4, OrcaPositionType, ActiveStepType DEF StartRebalanceOrca
<1>7. vaults' \in [Vaults -> VaultAccount \cup {Null}]
  BY <1>5 DEF StartRebalanceOrca, TypeOK
<1> QED
  BY <1>2, <1>6, <1>7 DEF StartRebalanceOrca, TypeOK

LEMMA RetryPendingRebalanceType ==
  ASSUME TypeOK, NEW v \in Vaults, NEW p \in PositionIds, NEW max \in Coins,
         NEW used \in Coins, RetryPendingRebalance(v, p, max, used)
  PROVE  TypeOK'
<1> DEFINE r == vaults[v].pending_rebalance.range
<1>1. /\ vaults[v] \in VaultAccount
      /\ accounts[v] \in TokenAccounts
      /\ mintFee \in [Mints -> TransferFeeConfig]
  BY ManagedVaultType DEF RetryPendingRebalance, OrcaVault
<1>2. r \in Ranges
  BY <1>1 DEF RetryPendingRebalance, VaultAccount, PendingRebalance
<1>3. AddLiquidity(NewPosition(v, r), used) \in Position
  BY <1>1, <1>2, NewPositionType, AddLiquidityType
<1>4. OrcaRebalanced(vaults[v], p, r) \in VaultAccount
  BY <1>1, <1>2, RecordPairTransferFeesType, WithPositionType, ClearPendingType
     DEF OrcaRebalanced
<1>5. Debit(accounts[v], used) \in TokenAccounts
  BY <1>1, FundType DEF RetryPendingRebalance
<1>6. /\ positions' \in [PositionIds -> Position \cup {Null}]
      /\ vaults' \in [Vaults -> VaultAccount \cup {Null}]
  BY <1>3, <1>4, OpenStepType DEF RetryPendingRebalance
<1>7. accounts' \in [Vaults -> TokenAccounts]
  BY <1>5 DEF RetryPendingRebalance, TypeOK
<1> QED
  BY <1>6, <1>7 DEF RetryPendingRebalance, TypeOK

----------------------------------------------------------------------------
(* Raydium *)

LEMMA RaydiumOpenType ==
  ASSUME TypeOK, NEW v \in Vaults, NEW p \in PositionIds, NEW r \in Ranges,
         RaydiumOpenPosition(v, p, r)
  PROVE  TypeOK'
<1>1. vaults[v] \in VaultAccount /\ mintFee \in [Mints -> TransferFeeConfig]
  BY ManagedVaultType DEF RaydiumOpenPosition, RaydiumVault
<1>2. WithPosition(RecordPairTransferFees(vaults[v]), p, TRUE, r) \in VaultAccount
  BY <1>1, RecordPairTransferFeesType, WithPositionType
<1>3. NewPosition(v, r) \in Position
  BY NewPositionType
<1>4. /\ positions' \in [PositionIds -> Position \cup {Null}]
      /\ vaults' \in [Vaults -> VaultAccount \cup {Null}]
  BY <1>2, <1>3, OpenStepType DEF RaydiumOpenPosition
<1> QED
  BY <1>4 DEF RaydiumOpenPosition, TypeOK

LEMMA RaydiumPositionType ==
  ASSUME TypeOK, NEW v \in Vaults, RaydiumPosition(v)
  PROVE  /\ Exists(v) /\ HasActivePosition(v)
         /\ config \in ProtocolConfig
         /\ vaults[v] \in VaultAccount
         /\ accounts[v] \in TokenAccounts
         /\ mintFee \in [Mints -> TransferFeeConfig]
         /\ clock \in Nat
         /\ Recorded(v) \in PositionIds
         /\ ActivePosition(v) \in Position
BY ManagedVaultType, ActivePositionType DEF RaydiumPosition, RaydiumVault

LEMMA RaydiumIncreaseType ==
  ASSUME TypeOK, NEW v \in Vaults, NEW max \in Coins, NEW used \in Coins,
         RaydiumIncreaseLiquidity(v, max, used)
  PROVE  TypeOK'
<1>1. RaydiumPosition(v)
  BY DEF RaydiumIncreaseLiquidity
<1>2. Debit(accounts[v], used) \in TokenAccounts
  BY <1>1, RaydiumPositionType, FundType DEF RaydiumIncreaseLiquidity
<1>3. AddLiquidity(ActivePosition(v), used) \in Position
  BY <1>1, RaydiumPositionType, AddLiquidityType
<1>4. /\ accounts' \in [Vaults -> TokenAccounts]
      /\ positions' \in [PositionIds -> Position \cup {Null}]
  BY <1>1, <1>2, <1>3, RaydiumPositionType, ActiveStepType
     DEF RaydiumIncreaseLiquidity
<1> QED
  BY <1>4 DEF RaydiumIncreaseLiquidity, TypeOK

LEMMA RaydiumCollectFeesType ==
  ASSUME TypeOK, NEW v \in Vaults, RaydiumCollectFees(v)
  PROVE  TypeOK'
<1> DEFINE pos == ActivePosition(v)
<1>1. RaydiumPosition(v) /\ RaydiumCollect(v, pos)
  BY DEF RaydiumCollectFees
<1>2. /\ RaydiumCollected(v, pos) \in TokenAccounts
      /\ RaydiumAfterCollect(pos) \in Position
      /\ treasury' \in Coins
      /\ rewardVault' \in Nat
  BY <1>1, RaydiumPositionType, RaydiumCollectType
<1>3. /\ accounts' \in [Vaults -> TokenAccounts]
      /\ positions' \in [PositionIds -> Position \cup {Null}]
  BY <1>1, <1>2, RaydiumPositionType, ActiveStepType DEF RaydiumCollectFees
<1> QED
  BY <1>2, <1>3 DEF RaydiumCollectFees, TypeOK

LEMMA RaydiumDecreaseType ==
  ASSUME TypeOK, NEW v \in Vaults, NEW bps, NEW min,
         RaydiumDecreaseLiquidity(v, bps, min)
  PROVE  TypeOK'
<1> DEFINE pos == ActivePosition(v)
           out == Removed(pos, bps)
<1>1. RaydiumPosition(v) /\ bps \in 0 .. BpsDivisor /\ RaydiumCollect(v, pos)
  BY ShareIsBps DEF RaydiumDecreaseLiquidity
<1>2. /\ RaydiumCollected(v, pos) \in TokenAccounts
      /\ RaydiumAfterCollect(pos) \in Position
      /\ treasury' \in Coins
      /\ rewardVault' \in Nat
  BY <1>1, RaydiumPositionType, RaydiumCollectType
<1>3. out \in Coins
  BY <1>1, RaydiumPositionType, RemoveLiquidityType
<1>4. Credit(RaydiumCollected(v, pos), out) \in TokenAccounts
  BY <1>1, <1>2, <1>3, RaydiumPositionType, CreditType
<1>5. RemoveLiquidity(RaydiumAfterCollect(pos), bps) \in Position
  BY <1>1, <1>2, RemoveLiquidityType
<1>6. /\ accounts' \in [Vaults -> TokenAccounts]
      /\ positions' \in [PositionIds -> Position \cup {Null}]
  BY <1>1, <1>4, <1>5, RaydiumPositionType, ActiveStepType
     DEF RaydiumDecreaseLiquidity
<1> QED
  BY <1>2, <1>6 DEF RaydiumDecreaseLiquidity, TypeOK

LEMMA RaydiumCloseType ==
  ASSUME TypeOK, NEW v \in Vaults, RaydiumClosePosition(v)
  PROVE  TypeOK'
<1>1. vaults[v] \in VaultAccount /\ Recorded(v) \in PositionIds
  BY RaydiumPositionType DEF RaydiumClosePosition
<1>2. positions' \in [PositionIds -> Position \cup {Null}]
  BY <1>1 DEF RaydiumClosePosition, ActivePositionBecomes, TypeOK
<1>3. vaults' \in [Vaults -> VaultAccount \cup {Null}]
  BY <1>1, WithoutPositionType DEF RaydiumClosePosition, TypeOK
<1> QED
  BY <1>2, <1>3 DEF RaydiumClosePosition, TypeOK

LEMMA StartRebalanceRaydiumType ==
  ASSUME TypeOK, NEW v \in Vaults, NEW r \in Ranges, NEW min,
         StartRebalanceRaydium(v, r, min)
  PROVE  TypeOK'
<1> DEFINE pos == ActivePosition(v)
           out == Removed(pos, BpsDivisor)
<1>1. RaydiumPosition(v) /\ RaydiumCollect(v, pos)
  BY DEF StartRebalanceRaydium
<1>2. /\ RaydiumCollected(v, pos) \in TokenAccounts
      /\ treasury' \in Coins
      /\ rewardVault' \in Nat
  BY <1>1, RaydiumPositionType, RaydiumCollectType
<1>3. BpsDivisor \in 0 .. BpsDivisor
  BY DEF BpsDivisor
<1>4. out \in Coins
  BY <1>1, <1>3, RaydiumPositionType, RemoveLiquidityType
<1>5. Credit(RaydiumCollected(v, pos), out) \in TokenAccounts
  BY <1>1, <1>2, <1>4, RaydiumPositionType, CreditType
<1>6. RecordPendingRebalance(vaults[v], r) \in VaultAccount
  BY <1>1, RaydiumPositionType, WithoutPositionType, SetPendingType
     DEF RecordPendingRebalance
<1>7. /\ accounts' \in [Vaults -> TokenAccounts]
      /\ positions' \in [PositionIds -> Position \cup {Null}]
  BY <1>1, <1>5, RaydiumPositionType, ActiveStepType DEF StartRebalanceRaydium
<1>8. vaults' \in [Vaults -> VaultAccount \cup {Null}]
  BY <1>6 DEF StartRebalanceRaydium, TypeOK
<1> QED
  BY <1>2, <1>7, <1>8 DEF StartRebalanceRaydium, TypeOK

LEMMA RetryPendingRebalanceRaydiumType ==
  ASSUME TypeOK, NEW v \in Vaults, NEW p \in PositionIds, NEW max \in Coins,
         NEW used \in Coins, RetryPendingRebalanceRaydium(v, p, max, used)
  PROVE  TypeOK'
<1> DEFINE r == vaults[v].pending_rebalance.range
<1>1. /\ vaults[v] \in VaultAccount
      /\ accounts[v] \in TokenAccounts
      /\ mintFee \in [Mints -> TransferFeeConfig]
  BY ManagedVaultType DEF RetryPendingRebalanceRaydium, RaydiumVault
<1>2. r \in Ranges
  BY <1>1 DEF RetryPendingRebalanceRaydium, VaultAccount, PendingRebalance
<1>3. AddLiquidity(NewPosition(v, r), used) \in Position
  BY <1>1, <1>2, NewPositionType, AddLiquidityType
<1>4. RecordRebalancedPosition(RecordPairTransferFees(vaults[v]), p, r)
        \in VaultAccount
  BY <1>1, <1>2, RecordPairTransferFeesType, WithPositionType, ClearPendingType
     DEF RecordRebalancedPosition
<1>5. Debit(accounts[v], used) \in TokenAccounts
  BY <1>1, FundType DEF RetryPendingRebalanceRaydium
<1>6. /\ positions' \in [PositionIds -> Position \cup {Null}]
      /\ vaults' \in [Vaults -> VaultAccount \cup {Null}]
  BY <1>3, <1>4, OpenStepType DEF RetryPendingRebalanceRaydium
<1>7. accounts' \in [Vaults -> TokenAccounts]
  BY <1>5 DEF RetryPendingRebalanceRaydium, TypeOK
<1> QED
  BY <1>6, <1>7 DEF RetryPendingRebalanceRaydium, TypeOK
----------------------------------------------------------------------------
(* The environment *)

LEMMA EarningType ==
  ASSUME TypeOK, NEW p \in PositionIds, Earning(p)
  PROVE  /\ positions[p] \in Position
         /\ positions[p].principal \in Coins
         /\ positions[p].fees \in Coins
         /\ positions[p].reward \in Nat
BY DEF TypeOK, Earning, Position

\* One more or one fewer unit of one mint.
LEMMA AddOneType ==
  ASSUME NEW c \in Coins, NEW m \in Mints, NEW n \in Nat
  PROVE  [c EXCEPT ![m] = @ + n] \in Coins
BY DEF Coins

LEMMA TakeOneType ==
  ASSUME NEW c \in Coins, NEW m \in Mints, NEW n \in Nat, c[m] >= n
  PROVE  [c EXCEPT ![m] = @ - n] \in Coins
BY DEF Coins

LEMMA AccrueFeesType ==
  ASSUME TypeOK, NEW p \in PositionIds, NEW m \in Pair, AccrueFees(p, m)
  PROVE  TypeOK'
<1>1. positions[p] \in Position /\ positions[p].fees \in Coins
  BY EarningType DEF AccrueFees
<1>2. m \in Mints /\ Chunk \in Nat /\ market \in Coins
  BY EnvironmentAssumption DEF Mints, TypeOK
<1>3. [positions[p].fees EXCEPT ![m] = @ + Chunk] \in Coins
  BY <1>1, <1>2, AddOneType
<1> DEFINE richer == [positions[p] EXCEPT
                        !.fees = [positions[p].fees EXCEPT ![m] = @ + Chunk]]
<1>4. richer \in Position
  BY <1>1, <1>3 DEF Position
<1>5. positions' = [positions EXCEPT ![p] = richer]
  BY <1>1 DEF AccrueFees, TypeOK, Position
<1>6. market' \in Coins
  BY <1>2, TakeOneType DEF AccrueFees
<1> HIDE DEF richer
<1> QED
  BY <1>4, <1>5, <1>6 DEF AccrueFees, TypeOK

LEMMA AccrueRewardType ==
  ASSUME TypeOK, NEW p \in PositionIds, AccrueReward(p)
  PROVE  TypeOK'
<1>1. positions[p] \in Position /\ positions[p].reward \in Nat
  BY EarningType DEF AccrueReward
<1>2. positions[p].reward + Chunk \in Nat
  BY <1>1, EnvironmentAssumption
<1>3. [positions[p] EXCEPT !.reward = positions[p].reward + Chunk] \in Position
  BY <1>1, <1>2 DEF Position
<1>4. positions' = [positions EXCEPT
        ![p] = [positions[p] EXCEPT !.reward = positions[p].reward + Chunk]]
  BY <1>1 DEF AccrueReward, TypeOK, Position
<1> QED
  BY <1>3, <1>4 DEF AccrueReward, TypeOK

LEMMA FundRewardVaultType ==
  ASSUME TypeOK, FundRewardVault
  PROVE  TypeOK'
<1>1. RewardMint \in Mints /\ Chunk \in Nat /\ market \in Coins /\ rewardVault \in Nat
  BY EnvironmentAssumption DEF FundRewardVault, Mints, TypeOK
<1>2. market' \in Coins
  BY <1>1, TakeOneType DEF FundRewardVault
<1>3. rewardVault' \in Nat
  BY <1>1 DEF FundRewardVault
<1> QED
  BY <1>2, <1>3 DEF FundRewardVault, TypeOK

LEMMA TraderSwapType ==
  ASSUME TypeOK, NEW p \in PositionIds, NEW sold \in Pair, NEW bought \in Pair,
         TraderSwap(p, sold, bought)
  PROVE  TypeOK'
<1>1. /\ positions[p] \in Position
      /\ positions[p].principal \in Coins
  BY EarningType DEF TraderSwap
<1>2. /\ sold \in Mints /\ bought \in Mints /\ sold # bought
      /\ Chunk \in Nat /\ market \in Coins
  BY StateAssumption, EnvironmentAssumption DEF TraderSwap, Mints, Pair, TypeOK
<1> DEFINE less == [positions[p].principal EXCEPT ![bought] = @ - Chunk]
           swapped == [less EXCEPT ![sold] = @ + Chunk]
           paid == [market EXCEPT ![sold] = @ - Chunk]
<1>3. less \in Coins
  BY <1>1, <1>2, TakeOneType DEF TraderSwap
<1>4. swapped \in Coins
  <2> HIDE DEF less
  <2> QED
    BY <1>2, <1>3, AddOneType
<1>5. paid \in Coins
  BY <1>2, TakeOneType DEF TraderSwap
<1>6. [paid EXCEPT ![bought] = @ + Chunk] \in Coins
  <2> HIDE DEF paid
  <2> QED
    BY <1>2, <1>5, AddOneType
<1>7. market' = [paid EXCEPT ![bought] = @ + Chunk]
  BY <1>2 DEF TraderSwap
<1>8. [positions[p] EXCEPT !.principal = swapped] \in Position
  <2> HIDE DEF swapped
  <2> QED
    BY <1>1, <1>4 DEF Position
<1>9. positions' = [positions EXCEPT ![p] = [positions[p] EXCEPT !.principal = swapped]]
  <2>1. Swapped(positions[p].principal, sold, bought) = swapped
    BY <1>1, <1>2 DEF Swapped, Coins
  <2> HIDE DEF swapped
  <2> QED
    BY <2>1 DEF TraderSwap
<1> HIDE DEF swapped, paid
<1> QED
  BY <1>6, <1>7, <1>8, <1>9 DEF TraderSwap, TypeOK

LEMMA TradeType ==
  ASSUME TypeOK, Trade
  PROVE  TypeOK'
<1>1. MintA \in Pair /\ MintB \in Pair
  BY DEF Pair
<1> QED
  BY <1>1, AccrueFeesType, AccrueRewardType, TraderSwapType, FundRewardVaultType
     DEF Trade

LEMMA HarvestType ==
  ASSUME TypeOK, NEW v \in Vaults, NEW m \in Mints, HarvestWithheld(v, m)
  PROVE  TypeOK'
<1>1. accounts[v] \in TokenAccounts /\ accounts[v].withheld \in Coins
  BY DEF TypeOK, TokenAccounts
<1> DEFINE none == [accounts[v].withheld EXCEPT ![m] = 0]
<1>2. none \in Coins
  BY <1>1 DEF Coins
<1>3. [accounts[v] EXCEPT !.withheld = none] \in TokenAccounts
  BY <1>1, <1>2 DEF TokenAccounts
<1>4. accounts' = [accounts EXCEPT ![v] = [accounts[v] EXCEPT !.withheld = none]]
  BY <1>1 DEF HarvestWithheld, TypeOK, TokenAccounts
<1> HIDE DEF none
<1> QED
  BY <1>3, <1>4 DEF HarvestWithheld, TypeOK

LEMMA OpenRewardAccountType ==
  ASSUME TypeOK, NEW v \in Vaults, OpenRewardAccount(v)
  PROVE  TypeOK'
<1>1. accounts[v] \in TokenAccounts
  BY DEF TypeOK
<1> DEFINE opened == accounts[v].open \cup {RewardMint}
<1>2. opened \subseteq Mints
  BY <1>1 DEF OpenRewardAccount, TokenAccounts
<1>3. [accounts[v] EXCEPT !.open = opened] \in TokenAccounts
  BY <1>1, <1>2 DEF TokenAccounts
<1>4. accounts' = [accounts EXCEPT ![v] = [accounts[v] EXCEPT !.open = opened]]
  BY <1>1 DEF OpenRewardAccount, TypeOK, TokenAccounts
<1> HIDE DEF opened
<1> QED
  BY <1>3, <1>4 DEF OpenRewardAccount, TypeOK

LEMMA SetTransferFeeType ==
  ASSUME TypeOK, NEW m \in Mints, NEW fee \in FeeConfigs, SetTransferFee(m, fee)
  PROVE  TypeOK'
<1>1. fee \in TransferFees /\ mintFee[m] \in TransferFeeConfig
  BY StateAssumption DEF TypeOK
<1>2. [mintFee[m] EXCEPT !.newer = fee] \in TransferFeeConfig
  BY <1>1 DEF TransferFeeConfig
<1>3. mintFee' = [mintFee EXCEPT ![m] = [mintFee[m] EXCEPT !.newer = fee]]
  BY <1>1 DEF SetTransferFee, TypeOK, TransferFeeConfig
<1> QED
  BY <1>2, <1>3 DEF SetTransferFee, TypeOK

LEMMA NewEpochType ==
  ASSUME TypeOK, NEW m \in Mints, NewEpoch(m)
  PROVE  TypeOK'
<1>1. mintFee[m] \in TransferFeeConfig
  BY DEF TypeOK
<1>2. [mintFee[m] EXCEPT !.live = mintFee[m].newer] \in TransferFeeConfig
  BY <1>1 DEF TransferFeeConfig
<1>3. mintFee' = [mintFee EXCEPT ![m] = [mintFee[m] EXCEPT !.live = mintFee[m].newer]]
  BY DEF NewEpoch, TypeOK
<1> QED
  BY <1>2, <1>3 DEF NewEpoch, TypeOK

----------------------------------------------------------------------------
(* The whole program *)

LEMMA OwnType ==
  ASSUME TypeOK, NEW v \in Vaults, Own(v)
  PROVE  TypeOK'
<1>1. CASE \E width \in BinWidths : CreateVault(v, width)
  BY <1>1, CreateVaultType
<1>2. CASE \E S \in VaultTokenPairs(v) :
             \E c \in AmountsOf(S, Amounts) : Deposit(v, S, c)
  BY <1>2, InputAmountsType, DepositType
<1>3. CASE Exit(v)
  BY <1>3, WithdrawType, EmergencyWithdrawType DEF Exit
<1>4. CASE CancelPendingRebalance(v)
  BY <1>4, CancelType
<1> QED
  BY <1>1, <1>2, <1>3, <1>4 DEF Own

LEMMA ManageMeteoraType ==
  ASSUME TypeOK, NEW v \in Vaults, ManageMeteora(v)
  PROVE  TypeOK'
<1>1. ASSUME NEW p \in PositionIds, NEW r \in Ranges, MeteoraOpenPosition(v, p, r)
      PROVE  TypeOK'
  BY <1>1, MeteoraOpenType
<1>2. ASSUME NEW max \in Ceilings, NEW used \in Ceilings, NEW s \in Slippages,
             MeteoraIncreaseLiquidity(v, max, used, s)
      PROVE  TypeOK'
  <2>1. max \in Coins /\ used \in Coins
    BY CeilingsType
  <2> QED
    BY <1>2, <2>1, MeteoraIncreaseType
<1>3. ASSUME NEW bps \in Shares, MeteoraDecreaseLiquidity(v, bps)
      PROVE  TypeOK'
  BY <1>3, MeteoraDecreaseType
<1>4. CASE MeteoraCollectFees(v)
  BY <1>4, MeteoraCollectType
<1>5. CASE MeteoraClosePosition(v)
  BY <1>5, MeteoraCloseType
<1>6. ASSUME NEW r \in Ranges, NEW max \in Ceilings, NEW used \in Ceilings,
             NEW s \in Slippages, ManualRebalance(v, r, max, used, s)
      PROVE  TypeOK'
  <2>1. max \in Coins /\ used \in Coins
    BY CeilingsType
  <2> QED
    BY <1>6, <2>1, ManualRebalanceType
<1> QED
  BY <1>1, <1>2, <1>3, <1>4, <1>5, <1>6 DEF ManageMeteora

LEMMA ManageOrcaType ==
  ASSUME TypeOK, NEW v \in Vaults, ManageOrca(v)
  PROVE  TypeOK'
<1>1. ASSUME NEW p \in PositionIds, NEW r \in Ranges, OrcaOpenPosition(v, p, r)
      PROVE  TypeOK'
  BY <1>1, OrcaOpenType
<1>2. ASSUME NEW max \in Ceilings, NEW used \in Ceilings,
             OrcaIncreaseLiquidity(v, max, used)
      PROVE  TypeOK'
  <2>1. max \in Coins /\ used \in Coins
    BY CeilingsType
  <2> QED
    BY <1>2, <2>1, OrcaIncreaseType
<1>3. ASSUME NEW bps \in Shares, NEW min \in FloorsOf(Pair),
             OrcaDecreaseLiquidity(v, bps, min)
      PROVE  TypeOK'
  BY <1>3, OrcaDecreaseType
<1>4. CASE OrcaCollectFees(v)
  BY <1>4, OrcaCollectFeesType
<1>5. CASE OrcaClosePosition(v)
  BY <1>5, OrcaCloseType
<1>6. ASSUME NEW r \in Ranges, NEW bps \in Shares, NEW min \in FloorsOf(Pair),
             StartRebalanceOrca(v, r, bps, min)
      PROVE  TypeOK'
  BY <1>6, StartRebalanceOrcaType
<1>7. ASSUME NEW p \in PositionIds, NEW max \in Ceilings, NEW used \in Ceilings,
             RetryPendingRebalance(v, p, max, used)
      PROVE  TypeOK'
  <2>1. max \in Coins /\ used \in Coins
    BY CeilingsType
  <2> QED
    BY <1>7, <2>1, RetryPendingRebalanceType
<1> QED
  BY <1>1, <1>2, <1>3, <1>4, <1>5, <1>6, <1>7 DEF ManageOrca

LEMMA ManageRaydiumType ==
  ASSUME TypeOK, NEW v \in Vaults, ManageRaydium(v)
  PROVE  TypeOK'
<1>1. ASSUME NEW p \in PositionIds, NEW r \in Ranges, RaydiumOpenPosition(v, p, r)
      PROVE  TypeOK'
  BY <1>1, RaydiumOpenType
<1>2. ASSUME NEW max \in Ceilings, NEW used \in Ceilings,
             RaydiumIncreaseLiquidity(v, max, used)
      PROVE  TypeOK'
  <2>1. max \in Coins /\ used \in Coins
    BY CeilingsType
  <2> QED
    BY <1>2, <2>1, RaydiumIncreaseType
<1>3. ASSUME NEW bps \in Shares, NEW min \in FloorsOf(Pair),
             RaydiumDecreaseLiquidity(v, bps, min)
      PROVE  TypeOK'
  BY <1>3, RaydiumDecreaseType
<1>4. CASE RaydiumCollectFees(v)
  BY <1>4, RaydiumCollectFeesType
<1>5. CASE RaydiumClosePosition(v)
  BY <1>5, RaydiumCloseType
<1>6. ASSUME NEW r \in Ranges, NEW min \in FloorsOf(Pair),
             StartRebalanceRaydium(v, r, min)
      PROVE  TypeOK'
  BY <1>6, StartRebalanceRaydiumType
<1>7. ASSUME NEW p \in PositionIds, NEW max \in Ceilings, NEW used \in Ceilings,
             RetryPendingRebalanceRaydium(v, p, max, used)
      PROVE  TypeOK'
  <2>1. max \in Coins /\ used \in Coins
    BY CeilingsType
  <2> QED
    BY <1>7, <2>1, RetryPendingRebalanceRaydiumType
<1> QED
  BY <1>1, <1>2, <1>3, <1>4, <1>5, <1>6, <1>7 DEF ManageRaydium

LEMMA TokenProgramsType ==
  ASSUME TypeOK, TokenPrograms
  PROVE  TypeOK'
<1>1. ASSUME NEW v \in Vaults, NEW m \in Mints, HarvestWithheld(v, m)
      PROVE  TypeOK'
  BY <1>1, HarvestType
<1>2. ASSUME NEW v \in Vaults, OpenRewardAccount(v)
      PROVE  TypeOK'
  BY <1>2, OpenRewardAccountType
<1>3. ASSUME NEW m \in Mints, NEW fee \in FeeConfigs, SetTransferFee(m, fee)
      PROVE  TypeOK'
  BY <1>3, SetTransferFeeType
<1>4. ASSUME NEW m \in Mints, NewEpoch(m)
      PROVE  TypeOK'
  BY <1>4, NewEpochType
<1> QED
  BY <1>1, <1>2, <1>3, <1>4 DEF TokenPrograms

LEMMA NextType ==
  ASSUME TypeOK, [Next]_vars
  PROVE  TypeOK'
<1>1. CASE Administer
  BY <1>1, AdministerType
<1>2. ASSUME NEW v \in Vaults, Own(v)
      PROVE  TypeOK'
  BY <1>2, OwnType
<1>3. ASSUME NEW v \in Vaults, ManageMeteora(v)
      PROVE  TypeOK'
  BY <1>3, ManageMeteoraType
<1>4. ASSUME NEW v \in Vaults, ManageOrca(v)
      PROVE  TypeOK'
  BY <1>4, ManageOrcaType
<1>5. ASSUME NEW v \in Vaults, ManageRaydium(v)
      PROVE  TypeOK'
  BY <1>5, ManageRaydiumType
<1>6. CASE Trade
  BY <1>6, TradeType
<1>7. CASE TokenPrograms
  BY <1>7, TokenProgramsType
<1>8. CASE Tick
  BY <1>8 DEF Tick, TypeOK
<1>9. CASE UNCHANGED vars
  BY <1>9 DEF vars, TypeOK
<1> QED
  BY <1>1, <1>2, <1>3, <1>4, <1>5, <1>6, <1>7, <1>8, <1>9 DEF Next

\* Type correctness: whatever the constants, every balance, every position and
\* the reward vault stay natural numbers, so no instruction ever debits more
\* than is there.
THEOREM TypeCorrect == Spec => []TypeOK
<1>1. Init => TypeOK
  BY InitType
<1>2. TypeOK /\ [Next]_vars => TypeOK'
  BY NextType
<1> QED
  BY <1>1, <1>2, PTL DEF Spec
=============================================================================
