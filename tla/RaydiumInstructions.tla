------------------------- MODULE RaydiumInstructions -------------------------
(***************************************************************************)
(* execute_action_raydium and the two transactions of a Raydium rebalance: *)
(* start_rebalance_raydium and retry_pending_rebalance_raydium.  Raydium   *)
(* pays LP fees and rewards in one CPI, so the performance-fee base is     *)
(* measured on the pool vaults.  The rent a close refunds to the vault PDA *)
(* is swept to the owner in the same instruction (lamports are left out).  *)
(***************************************************************************)
EXTENDS PositionCpi

RaydiumVault(v) == ManagedVault(v, "Raydium")

RaydiumPosition(v) ==
    /\ RaydiumVault(v)
    /\ NoPendingRebalance(v)
    /\ HasActivePosition(v)
    /\ vaults[v].position_mint # Null

RaydiumOpenPosition(v, p, r) ==
    /\ RaydiumVault(v) /\ NoPendingRebalance(v)
    /\ WithoutVaultPosition(v)
    /\ OpenableTickRange(r)
    /\ V2Transferable(Pair)
    /\ FreshPosition(p)
    /\ positions' = [positions EXCEPT ![p] = NewPosition(v, r)]
    /\ vaults' = [vaults EXCEPT
                    ![v] = WithPosition(RecordPairTransferFees(@), p, TRUE, r)]
    /\ UNCHANGED <<config, accounts, wallet, treasury, market, rewardVault,
                   mintFee, clock>>

RaydiumIncreaseLiquidity(v, max, used) ==
    /\ RaydiumPosition(v)
    /\ FundedCeilings(accounts[v], max)
    /\ TakenWithin(used, max) /\ SomeOf(used)
    /\ accounts' = [accounts EXCEPT ![v] = Debit(@, used)]
    /\ ActivePositionBecomes(v, AddLiquidity(ActivePosition(v), used))
    /\ UNCHANGED <<config, vaults, wallet, treasury, market, rewardVault,
                   mintFee, clock>>

----------------------------------------------------------------------------
(* collect_lp_fees_to_treasury: a zero-liquidity decrease *)

\* Every initialized reward slot is paid to the vault's own token account; the
\* CPI fails when that account is missing or the reward cannot be moved.
RaydiumRewardPayable(v, pos) ==
    RewardMint # Null =>
        /\ RewardMint \in accounts[v].open
        /\ RewardPayable(pos) > 0 => V2Transferable({RewardMint})

\* The vault's token accounts after the CPI, before the treasury's cut.
\* Mutant: the reward goes to an account that is not the vault's own.
RaydiumPayoutRewardElsewhere(v, pos) == Credit(accounts[v], pos.fees)
RaydiumPayout(v, pos) ==
    Credit(Credit(accounts[v], pos.fees), OfReward(RewardPayable(pos)))

\* The balances measure_lp_fee_received is given.  Only what leaves the pool
\* vault matters, so its balance is the position's fees before and 0 after.
FeeLeg(v, pos, m) ==
    [pool_before |-> pos.fees[m],
     pool_after  |-> 0,
     ata_before  |-> accounts[v].amount[m],
     ata_after   |-> RaydiumPayout(v, pos).amount[m]]

\* Mutant: the fee of the newer configuration is used before its epoch.
LpFeeMeasuredWithNewerFee(v, pos) ==
    \A m \in Pair : LpFeeIsMeasurable(FeeLeg(v, pos, m), mintFee[m].newer)
LpFeeMeasured(v, pos) ==
    \A m \in Pair : LpFeeIsMeasurable(FeeLeg(v, pos, m), mintFee[m].live)

\* Mutants: the base is all the token account gained, or the gross outflow.
RaydiumFeeBaseOfAccountGain(v, pos) ==
    Only(Pair, Minus(RaydiumPayout(v, pos).amount, accounts[v].amount))
RaydiumFeeBaseOfOutflow(v, pos) == Only(Pair, pos.fees)
RaydiumFeeBase(v, pos) ==
    [m \in Mints |->
       IF m \in Pair
         THEN MeasureLpFeeReceived(FeeLeg(v, pos, m), mintFee[m].live)
         ELSE 0]

RaydiumCollected(v, pos) ==
    Debit(RaydiumPayout(v, pos), AargauFee(RaydiumFeeBase(v, pos)))

RaydiumAfterCollect(pos) == PayReward(ClaimFees(pos), RewardPayable(pos))

RaydiumCollect(v, pos) ==
    /\ RaydiumRewardPayable(v, pos)
    /\ LpFeeMeasured(v, pos)
    /\ treasury' = TreasuryAfter(RaydiumFeeBase(v, pos))
    /\ rewardVault' = rewardVault - RewardPayable(pos)

----------------------------------------------------------------------------
RaydiumCollectFees(v) ==
    LET pos == ActivePosition(v)
    IN  /\ RaydiumPosition(v)
        /\ RaydiumCollect(v, pos)
        /\ accounts' = [accounts EXCEPT ![v] = RaydiumCollected(v, pos)]
        /\ ActivePositionBecomes(v, RaydiumAfterCollect(pos))
        /\ UNCHANGED <<config, vaults, wallet, market, mintFee, clock>>

\* Collects first, so the decrease that follows carries principal only; the
\* floors are on what arrives of the principal, and 0/0 is refused.
RaydiumDecreaseLiquidity(v, bps, min) ==
    LET pos == ActivePosition(v)
        out == Removed(pos, bps)
    IN  /\ RaydiumPosition(v)
        /\ bps \in 1 .. BpsDivisor /\ HasLiquidity(pos)
        /\ SomeOf(Only(Pair, min))
        /\ RaydiumCollect(v, pos)
        /\ Covers(Net(out), min)
        /\ accounts' = [accounts EXCEPT
                          ![v] = Credit(RaydiumCollected(v, pos), out)]
        /\ ActivePositionBecomes(v, RemoveLiquidity(RaydiumAfterCollect(pos), bps))
        /\ UNCHANGED <<config, vaults, wallet, market, mintFee, clock>>

RaydiumClosePosition(v) ==
    /\ RaydiumPosition(v)
    /\ Drained(ActivePosition(v))
    /\ ActivePositionBecomes(v, Null)
    /\ vaults' = [vaults EXCEPT ![v] = WithoutPosition(@)]
    /\ UNCHANGED <<config, accounts, wallet, treasury, market, rewardVault,
                   mintFee, clock>>

----------------------------------------------------------------------------
RecordPendingRebalance(vault, r) ==
    [WithoutPosition(vault) EXCEPT
       !.pending_rebalance = [range |-> r, initiated_at |-> clock]]

\* The target must be one the open leg can open.
\* Mutant: only the order of the bounds is checked, as start_rebalance_orca does.
OrderedTarget(r) == Ordered(r)
OpenableTarget(r) == OpenableTickRange(r)

\* start_rebalance_raydium (Tx1): the liquidity to drain is read from the
\* position, and a floor is demanded only when there is some.  A reward the
\* pool cannot pay in full leaves the position non-empty and fails the whole
\* instruction.
StartRebalanceRaydium(v, r, min) ==
    LET pos == ActivePosition(v)
        collected == RaydiumAfterCollect(pos)
        out == Removed(pos, BpsDivisor)
    IN  /\ RaydiumPosition(v)
        /\ OpenableTarget(r)
        /\ HasLiquidity(pos) => SomeOf(Only(Pair, min)) /\ Covers(Net(out), min)
        /\ RaydiumCollect(v, pos)
        /\ Drained(RemoveLiquidity(collected, BpsDivisor))
        /\ accounts' = [accounts EXCEPT
                          ![v] = Credit(RaydiumCollected(v, pos), out)]
        /\ ActivePositionBecomes(v, Null)
        /\ vaults' = [vaults EXCEPT ![v] = RecordPendingRebalance(@, r)]
        /\ UNCHANGED <<config, wallet, market, mintFee, clock>>

RecordRebalancedPosition(vault, p, r) ==
    [WithPosition(vault, p, TRUE, r) EXCEPT !.pending_rebalance = Null]

\* retry_pending_rebalance_raydium (Tx2): the range comes from the pending
\* state only.  last_rebalance_at is not written.
RetryPendingRebalanceRaydium(v, p, max, used) ==
    LET r == vaults[v].pending_rebalance.range
    IN  /\ RaydiumVault(v)
        /\ vaults[v].pending_rebalance # Null
        /\ WithoutVaultPosition(v)
        /\ OpenableTickRange(r)
        /\ FreshPosition(p)
        /\ V2Transferable(Pair)
        /\ FundedCeilings(accounts[v], max)
        /\ TakenWithin(used, max) /\ SomeOf(used)
        /\ accounts' = [accounts EXCEPT ![v] = Debit(@, used)]
        /\ positions' = [positions EXCEPT
                           ![p] = AddLiquidity(NewPosition(v, r), used)]
        /\ vaults' = [vaults EXCEPT ![v] = RecordRebalancedPosition(RecordPairTransferFees(@), p, r)]
        /\ UNCHANGED <<config, wallet, treasury, market, rewardVault, mintFee,
                       clock>>
=============================================================================
