------------------------------ MODULE FeeMath ------------------------------
(***************************************************************************)
(* The integer arithmetic every handler shares: the performance fee, the   *)
(* Token-2022 transfer fee, the proportional withdrawal, and the Raydium   *)
(* measurement of an LP fee from the balances around a CPI.  Amounts are   *)
(* u64; intermediate products are u128 and cannot overflow, so only the    *)
(* narrowing casts and the saturating operations depend on the width.      *)
(* MaxU64 is 2^64 - 1 in the program and a small number for TLC.           *)
(***************************************************************************)
EXTENDS Integers

CONSTANT MaxU64
ASSUME MaxU64Assumption == MaxU64 \in Nat

U64 == 0 .. MaxU64

BpsDivisor == 10000
MaxFeeRateBps == 2000

\* `x as u64` of a u128.
Narrow(x) == x % (MaxU64 + 1)

SaturatingSub(a, b) == IF a >= b THEN a - b ELSE 0

AtMost(a, b) == IF a <= b THEN a ELSE b

\* fee = gross * rate / 10000, rounded down, narrowed to u64.
CalcAargauFee(gross, rate_bps) == Narrow((gross * rate_bps) \div BpsDivisor)

\* net = amount - min(ceil(amount * bps / 10000), max_fee)
CalcNetAfterTransferFee(amount, fee) ==
    IF fee.bps = 0 THEN amount
    ELSE LET raw == (amount * fee.bps + BpsDivisor - 1) \div BpsDivisor
         IN  SaturatingSub(amount, AtMost(AtMost(raw, MaxU64), fee.max))

\* The part of an idle balance a withdrawal of pct_bps takes.
ProportionalAmount(balance, pct_bps) ==
    Narrow((balance * pct_bps) \div BpsDivisor)

(***************************************************************************)
(* Raydium: the LP fee is what left the pool vault, less the transfer fee  *)
(* live at this epoch.  The measurement is rejected when the pool vault    *)
(* grew, when the vault's account shrank, or when the fee so computed      *)
(* exceeds what the vault's account gained.                                *)
(***************************************************************************)
LpFeeReceived(outflow, fee) == CalcNetAfterTransferFee(outflow, fee)

LpFeeIsMeasurable(leg, fee) ==
    /\ leg.pool_before >= leg.pool_after
    /\ leg.ata_after >= leg.ata_before
    /\ LpFeeReceived(leg.pool_before - leg.pool_after, fee)
         <= leg.ata_after - leg.ata_before

MeasureLpFeeReceived(leg, fee) ==
    LpFeeReceived(leg.pool_before - leg.pool_after, fee)

\* split_lp_fee: the fee rounds down, the remainder is the user's.
SplitLpFee(gross, rate_bps) ==
    [gross      |-> gross,
     aargau_fee |-> CalcAargauFee(gross, rate_bps),
     user_net   |-> gross - CalcAargauFee(gross, rate_bps)]
=============================================================================
