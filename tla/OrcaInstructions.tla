-------------------------- MODULE OrcaInstructions --------------------------
(***************************************************************************)
(* execute_action_orca and the two transactions of an Orca rebalance:      *)
(* start_rebalance_orca closes the old position and records the target     *)
(* range, retry_pending_rebalance opens the new position.                  *)
(***************************************************************************)
EXTENDS PositionCpi

OrcaVault(v) == ManagedVault(v, "Orca")

OrcaPosition(v) ==
    OrcaVault(v) /\ NoPendingRebalance(v) /\ HasActivePosition(v)

\* Only lower < upper is checked here; Whirlpools refuses ticks the pool
\* cannot initialize.
OrcaOpenable(r) == Ordered(r) /\ OpenableTickRange(r)

OrcaOpenPosition(v, p, r) ==
    /\ OrcaVault(v) /\ NoPendingRebalance(v)
    /\ WithoutVaultPosition(v)
    /\ OrcaOpenable(r)
    /\ V2Transferable(Pair)
    /\ FreshPosition(p)
    /\ positions' = [positions EXCEPT ![p] = NewPosition(v, r)]
    /\ vaults' = [vaults EXCEPT
                    ![v] = WithPosition(RecordPairTransferFees(@), p, TRUE, r)]
    /\ UNCHANGED <<config, accounts, wallet, treasury, market, rewardVault,
                   mintFee, clock>>

OrcaIncreaseLiquidity(v, max, used) ==
    /\ OrcaPosition(v)
    /\ FundedCeilings(accounts[v], max)
    /\ TakenWithin(used, max) /\ SomeOf(used)
    /\ accounts' = [accounts EXCEPT ![v] = Debit(@, used)]
    /\ ActivePositionBecomes(v, AddLiquidity(ActivePosition(v), used))
    /\ UNCHANGED <<config, vaults, wallet, treasury, market, rewardVault,
                   mintFee, clock>>

\* The floors are compared with what arrived; 0/0 is allowed.
OrcaDecreaseLiquidity(v, bps, min) ==
    LET pos == ActivePosition(v)
        out == Removed(pos, bps)
    IN  /\ OrcaPosition(v)
        /\ bps \in 1 .. BpsDivisor /\ HasLiquidity(pos)
        /\ Covers(Net(out), min)
        /\ accounts' = [accounts EXCEPT ![v] = Credit(@, out)]
        /\ ActivePositionBecomes(v, RemoveLiquidity(pos, bps))
        /\ UNCHANGED <<config, vaults, wallet, treasury, market, rewardVault,
                       mintFee, clock>>

----------------------------------------------------------------------------
\* An active reward slot whose mint a v2 CPI can transfer is collected into
\* the vault's own token account; another is skipped and stays owed.
OrcaRewardCollectable == RewardMint # Null /\ V2Transferable({RewardMint})

OrcaRewardAccountReady(v) ==
    OrcaRewardCollectable => RewardMint \in accounts[v].open

OrcaRewardPaid(pos) == IF OrcaRewardCollectable THEN RewardPayable(pos) ELSE 0

\* The three effects of collecting: the fee base is fixed before the rewards
\* arrive, so a reward in a pair mint is not taxed.
\* Mutant: the reward goes to an account that is not the vault's own.
OrcaCollectedRewardElsewhere(v, pos) == SplitFees(accounts[v], pos, FeeBase(pos))
OrcaCollected(v, pos) ==
    Credit(SplitFees(accounts[v], pos, FeeBase(pos)),
           OfReward(OrcaRewardPaid(pos)))

OrcaAfterCollect(pos) == PayReward(ClaimFees(pos), OrcaRewardPaid(pos))

OrcaCollectEffects(pos) ==
    /\ treasury' = TreasuryAfter(FeeBase(pos))
    /\ rewardVault' = rewardVault - OrcaRewardPaid(pos)

OrcaCollectFees(v) ==
    LET pos == ActivePosition(v)
    IN  /\ OrcaPosition(v)
        /\ OrcaRewardAccountReady(v)
        /\ OrcaCollectEffects(pos)
        /\ accounts' = [accounts EXCEPT ![v] = OrcaCollected(v, pos)]
        /\ ActivePositionBecomes(v, OrcaAfterCollect(pos))
        /\ UNCHANGED <<config, vaults, wallet, market, mintFee, clock>>

\* Whirlpools closes a position only when nothing is left in it.
OrcaClosePosition(v) ==
    /\ OrcaPosition(v)
    /\ vaults[v].position_mint # Null
    /\ Drained(ActivePosition(v))
    /\ ActivePositionBecomes(v, Null)
    /\ vaults' = [vaults EXCEPT ![v] = WithoutPosition(@)]
    /\ UNCHANGED <<config, accounts, wallet, treasury, market, rewardVault,
                   mintFee, clock>>

----------------------------------------------------------------------------
Pending(r) == [range |-> r, initiated_at |-> clock]

\* Mutant: the closed position stays recorded.
OrcaStartedKeepingPosition(vault, r) ==
    [vault EXCEPT !.pending_rebalance = Pending(r)]
OrcaStarted(vault, r) ==
    [WithoutPosition(vault) EXCEPT !.pending_rebalance = Pending(r)]

\* start_rebalance_orca (Tx1): collect and split, remove what the caller says
\* is the whole liquidity (bps of it), close, record the target.  Whether the
\* target can be opened is not checked.
StartRebalanceOrca(v, r, bps, min) ==
    LET pos == ActivePosition(v)
        collected == OrcaAfterCollect(pos)
        out == Removed(pos, bps)
    IN  /\ OrcaPosition(v)
        /\ Ordered(r)
        /\ bps \in 1 .. BpsDivisor /\ HasLiquidity(pos)
        /\ SomeOf(Only(Pair, min))
        /\ OrcaRewardAccountReady(v)
        /\ Covers(Net(out), min)
        /\ vaults[v].position_mint # Null
        /\ Drained(RemoveLiquidity(collected, bps))
        /\ OrcaCollectEffects(pos)
        /\ accounts' = [accounts EXCEPT ![v] = Credit(OrcaCollected(v, pos), out)]
        /\ ActivePositionBecomes(v, Null)
        /\ vaults' = [vaults EXCEPT ![v] = OrcaStarted(@, r)]
        /\ UNCHANGED <<config, wallet, market, mintFee, clock>>

\* Mutant: the pending state is not cleared.
OrcaRebalancedStillPending(vault, p, r) ==
    WithPosition(RecordPairTransferFees(vault), p, TRUE, r)
OrcaRebalanced(vault, p, r) ==
    [WithPosition(RecordPairTransferFees(vault), p, TRUE, r)
       EXCEPT !.pending_rebalance = Null]

\* retry_pending_rebalance (Tx2): opens exactly the recorded range, takes the
\* transfer-fee snapshot again, funds the position and clears the pending
\* state.  last_rebalance_at is not written.
RetryPendingRebalance(v, p, max, used) ==
    LET r == vaults[v].pending_rebalance.range
    IN  /\ OrcaVault(v)
        /\ vaults[v].pending_rebalance # Null
        /\ OrcaOpenable(r)
        /\ WithoutVaultPosition(v)
        /\ FundedCeilings(accounts[v], max)
        /\ V2Transferable(Pair)
        /\ FreshPosition(p)
        /\ TakenWithin(used, max) /\ SomeOf(used)
        /\ accounts' = [accounts EXCEPT ![v] = Debit(@, used)]
        /\ positions' = [positions EXCEPT
                           ![p] = AddLiquidity(NewPosition(v, r), used)]
        /\ vaults' = [vaults EXCEPT ![v] = OrcaRebalanced(@, p, r)]
        /\ UNCHANGED <<config, wallet, treasury, market, rewardVault, mintFee,
                       clock>>
=============================================================================
