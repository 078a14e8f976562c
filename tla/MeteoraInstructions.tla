------------------------- MODULE MeteoraInstructions -------------------------
(***************************************************************************)
(* execute_action and manual_rebalance: the Meteora DLMM lifecycle.  A     *)
(* Meteora position is not NFT-backed and is rebalanced in place, in one   *)
(* transaction.                                                            *)
(***************************************************************************)
EXTENDS PositionCpi

MaxActiveBinSlippage == 50

\* Guards of both handlers; require_spl_classic_mints refuses Token-2022.
MeteoraVault(v) ==
    /\ ManagedVault(v, "Meteora")
    /\ NoPendingRebalance(v)
    /\ Pair \cap Token2022Mints = {}

MeteoraPosition(v) == MeteoraVault(v) /\ HasActivePosition(v)

MeteoraRange(r) == BinCountWithinCap(r) /\ WithinInlineBitmap(r)

\* A width of at least one bin implies upper >= lower, which the handler
\* checks first.
MeteoraOpenPosition(v, p, r) ==
    /\ MeteoraVault(v)
    /\ WithoutVaultPosition(v)
    /\ MeteoraRange(r)
    /\ FreshPosition(p)
    /\ positions' = [positions EXCEPT ![p] = NewPosition(v, r)]
    /\ vaults' = [vaults EXCEPT ![v] = WithPosition(@, p, FALSE, r)]
    /\ UNCHANGED <<config, accounts, wallet, treasury, market, rewardVault,
                   mintFee, clock>>

\* The recorded range is checked again, and DLMM may take nothing at all.
MeteoraIncreaseLiquidity(v, max, used, slippage) ==
    /\ MeteoraPosition(v)
    /\ MeteoraRange(vaults[v].position_range)
    /\ FundedCeilings(accounts[v], max)
    /\ slippage <= MaxActiveBinSlippage
    /\ TakenWithin(used, max)
    /\ accounts' = [accounts EXCEPT ![v] = Debit(@, used)]
    /\ ActivePositionBecomes(v, AddLiquidity(ActivePosition(v), used))
    /\ UNCHANGED <<config, vaults, wallet, treasury, market, rewardVault,
                   mintFee, clock>>

\* No floor and no fee on what is removed.
MeteoraDecreaseLiquidity(v, bps) ==
    LET pos == ActivePosition(v)
    IN  /\ MeteoraPosition(v)
        /\ bps \in 1 .. BpsDivisor
        /\ accounts' = [accounts EXCEPT ![v] = Credit(@, Removed(pos, bps))]
        /\ ActivePositionBecomes(v, RemoveLiquidity(pos, bps))
        /\ UNCHANGED <<config, vaults, wallet, treasury, market, rewardVault,
                       mintFee, clock>>

MeteoraCollectFees(v) ==
    LET pos == ActivePosition(v)
        base == FeeBase(pos)
    IN  /\ MeteoraPosition(v)
        /\ accounts' = [accounts EXCEPT ![v] = SplitFees(@, pos, base)]
        /\ treasury' = TreasuryAfter(base)
        /\ ActivePositionBecomes(v, ClaimFees(pos))
        /\ UNCHANGED <<config, vaults, wallet, market, rewardVault, mintFee,
                       clock>>

\* close_position_if_empty looks at liquidity shares only: unclaimed fees go
\* with the account.  position_mint is left alone (it is None).
MeteoraClosePosition(v) ==
    /\ MeteoraPosition(v)
    /\ ~HasLiquidity(ActivePosition(v))
    /\ ActivePositionBecomes(v, Null)
    /\ vaults' = [vaults EXCEPT ![v] = [@ EXCEPT !.position_address = Null,
                                                 !.position_range = Null]]
    /\ UNCHANGED <<config, accounts, wallet, treasury, market, rewardVault,
                   mintFee, clock>>

----------------------------------------------------------------------------
\* Mutants: the new range is not recorded; the position is forgotten, as the
\* close leg of a two-transaction rebalance does.
MeteoraRebalancedElsewhere(vault, r) == [vault EXCEPT !.last_rebalance_at = clock]
MeteoraRebalancedForgetting(vault, r) ==
    [vault EXCEPT !.position_address = Null, !.position_range = r,
                  !.last_rebalance_at = clock]
MeteoraRebalanced(vault, r) ==
    [vault EXCEPT !.position_range = r, !.last_rebalance_at = clock]

\* manual_rebalance: claim and split, then check the ceilings against the
\* balances that leaves, then rebalance_liquidity: the old principal comes
\* back and at most the ceilings go into the new range.
ManualRebalance(v, r, max, used, slippage) ==
    LET pos == ActivePosition(v)
        base == FeeBase(pos)
        claimed == SplitFees(accounts[v], pos, base)
        emptied == [ClaimFees(pos) EXCEPT !.principal = NoCoins]
    IN  /\ MeteoraPosition(v)
        /\ FundedCeilings(claimed, max)
        /\ slippage <= MaxActiveBinSlippage
        /\ MeteoraRange(r)
        /\ TakenWithin(used, max)
        /\ treasury' = TreasuryAfter(base)
        /\ accounts' = [accounts EXCEPT
                          ![v] = Debit(Credit(claimed, pos.principal), used)]
        /\ ActivePositionBecomes(v,
               [AddLiquidity(emptied, used) EXCEPT !.range = r])
        /\ vaults' = [vaults EXCEPT ![v] = MeteoraRebalanced(@, r)]
        /\ UNCHANGED <<config, wallet, market, rewardVault, mintFee, clock>>
=============================================================================
