---------------------------- MODULE AargauManager ----------------------------
(***************************************************************************)
(* The whole program: every implemented instruction, on every vault, in    *)
(* every order, interleaved with its environment.                          *)
(***************************************************************************)
EXTENDS VaultInstructions, MeteoraInstructions, OrcaInstructions,
        RaydiumInstructions, Environment

CONSTANTS
    Rates,       \* fee rates initialize_protocol is called with
    BinWidths,   \* strategy widths create_vault is called with
    Amounts,     \* amounts deposited and ceilings of an increase
    Floors,      \* slippage floors
    Shares,      \* pct_bps, and the bps of its liquidity a caller removes
    Slippages    \* active-bin slippage tolerances

ASSUME InputAssumption ==
    /\ Rates \subseteq Nat /\ BinWidths \subseteq Int /\ Amounts \subseteq Nat
    /\ Floors \subseteq Nat /\ Shares \subseteq Nat /\ Slippages \subseteq Nat

Ceilings == AmountsOf(Pair, Amounts)
FloorsOf(S) == AmountsOf(S, Floors)

Administer ==
    \/ \E rate \in Rates : InitializeProtocol(rate)
    \/ \E paused \in BOOLEAN : SetProtocolPause(paused)

\* The two ways out of a vault.
Exit(v) ==
    \E S \in VaultTokenPairs(v) :
        \/ \E pct \in Shares, min \in FloorsOf(S) : Withdraw(v, S, pct, min)
        \/ EmergencyWithdraw(v, S)

Own(v) ==
    \/ \E width \in BinWidths : CreateVault(v, width)
    \/ \E S \in VaultTokenPairs(v) :
           \E c \in AmountsOf(S, Amounts) : Deposit(v, S, c)
    \/ Exit(v)
    \/ CancelPendingRebalance(v)

ManageMeteora(v) ==
    \/ \E p \in PositionIds, r \in Ranges : MeteoraOpenPosition(v, p, r)
    \/ \E max, used \in Ceilings, s \in Slippages :
           MeteoraIncreaseLiquidity(v, max, used, s)
    \/ \E bps \in Shares : MeteoraDecreaseLiquidity(v, bps)
    \/ MeteoraCollectFees(v)
    \/ MeteoraClosePosition(v)
    \/ \E r \in Ranges, max, used \in Ceilings, s \in Slippages :
           ManualRebalance(v, r, max, used, s)

ManageOrca(v) ==
    \/ \E p \in PositionIds, r \in Ranges : OrcaOpenPosition(v, p, r)
    \/ \E max, used \in Ceilings : OrcaIncreaseLiquidity(v, max, used)
    \/ \E bps \in Shares, min \in FloorsOf(Pair) :
           OrcaDecreaseLiquidity(v, bps, min)
    \/ OrcaCollectFees(v)
    \/ OrcaClosePosition(v)
    \/ \E r \in Ranges, bps \in Shares, min \in FloorsOf(Pair) :
           StartRebalanceOrca(v, r, bps, min)
    \/ \E p \in PositionIds, max, used \in Ceilings :
           RetryPendingRebalance(v, p, max, used)

ManageRaydium(v) ==
    \/ \E p \in PositionIds, r \in Ranges : RaydiumOpenPosition(v, p, r)
    \/ \E max, used \in Ceilings : RaydiumIncreaseLiquidity(v, max, used)
    \/ \E bps \in Shares, min \in FloorsOf(Pair) :
           RaydiumDecreaseLiquidity(v, bps, min)
    \/ RaydiumCollectFees(v)
    \/ RaydiumClosePosition(v)
    \/ \E r \in Ranges, min \in FloorsOf(Pair) : StartRebalanceRaydium(v, r, min)
    \/ \E p \in PositionIds, max, used \in Ceilings :
           RetryPendingRebalanceRaydium(v, p, max, used)

Trade ==
    \/ \E p \in PositionIds : \/ \E m \in Pair : AccrueFees(p, m)
                              \/ AccrueReward(p)
                              \/ TraderSwap(p, MintA, MintB)
                              \/ TraderSwap(p, MintB, MintA)
    \/ FundRewardVault

TokenPrograms ==
    \/ \E v \in Vaults : \/ \E m \in Mints : HarvestWithheld(v, m)
                         \/ OpenRewardAccount(v)
    \/ \E m \in Mints : \/ \E fee \in FeeConfigs : SetTransferFee(m, fee)
                       \/ NewEpoch(m)

Next ==
    \/ Administer
    \/ \E v \in Vaults : \/ Own(v)
                         \/ ManageMeteora(v)
                         \/ ManageOrca(v)
                         \/ ManageRaydium(v)
    \/ Trade
    \/ TokenPrograms
    \/ Tick

Spec == Init /\ [][Next]_vars

----------------------------------------------------------------------------
(* Invariants *)

\* A pending rebalance and a position exclude each other: the close leg and
\* the open leg are separate transactions, and every other instruction can
\* run between them.  Meteora rebalances in place and never has one.
PendingMeansNoPosition ==
    \A v \in Vaults : Exists(v) /\ vaults[v].pending_rebalance # Null =>
        /\ vaults[v].position_address = Null
        /\ vaults[v].position_mint = Null
        /\ vaults[v].position_range = Null
        /\ Protocol[v] # "Meteora"

\* What a vault records of its position is true of the DEX: the account is
\* live, the vault owns it, its range is the recorded one, and it has an NFT
\* mint exactly when the DEX uses one.  Every handler trusts these fields.
RecordedPositionIsLive ==
    \A v \in Vaults : Exists(v) =>
        LET vault == vaults[v]
            p == vault.position_address
        IN  IF p = Null
              THEN vault.position_range = Null /\ vault.position_mint = Null
              ELSE /\ positions[p] # Null
                   /\ positions[p].owner = v
                   /\ positions[p].range = vault.position_range
                   /\ vault.position_mint =
                        IF Protocol[v] = "Meteora" THEN Null ELSE p

\* A vault always has the token accounts of its pair, so no close leg can find
\* its destination missing.
VaultHasItsTokenAccounts ==
    \A v \in Vaults : Exists(v) => Pair \subseteq accounts[v].open

\* A pending Orca vault holds tokens for its open leg to deploy: the close leg
\* leaves some, and nothing that could take them out runs before the open leg
\* short of closing the vault.
OrcaPendingIsFunded ==
    \A v \in Vaults :
        Exists(v) /\ Protocol[v] = "Orca" /\ vaults[v].pending_rebalance # Null
          => SomeOf(Only(Pair, accounts[v].amount))

\* start_rebalance_raydium.rs: a pending range is one the open leg can open.
RaydiumPendingIsOpenable ==
    \A v \in Vaults :
        Exists(v) /\ Protocol[v] = "Raydium" /\ vaults[v].pending_rebalance # Null
          => OpenableTickRange(vaults[v].pending_rebalance.range)

\* lp_fee.rs: the fee measured on the pool vault never exceeds what arrived, so
\* LpFeeMeasurementMismatch never blocks a collect, a decrease or a close,
\* whatever transfer fee is live and whatever reward arrives in a pair mint.
FeesAreAlwaysMeasurable ==
    \A v \in Vaults :
        RaydiumPosition(v) => LpFeeMeasured(v, ActivePosition(v))

----------------------------------------------------------------------------
(* Action properties *)

\* A step touches a vault when it changes its account, its token accounts or a
\* position it owns.
Touches(v) ==
    \/ vaults'[v] # vaults[v]
    \/ accounts'[v] # accounts[v]
    \/ \E p \in PositionIds :
          positions[p] # Null /\ positions[p].owner = v /\ positions'[p] # positions[p]

\* Vaults share the DEX's positions, the pool and the treasury, and nothing
\* else: no instruction touches two vaults, or moves tokens of a user who does
\* not own the vault it touches.
OneVaultAtATime ==
    [][\A v \in Vaults : Touches(v) =>
          /\ \A w \in Vaults \ {v} : ~Touches(w)
          /\ \A u \in Users \ {Owner[v]} : wallet'[u] = wallet[u]]_vars

ExitsIn(v) == Exists(v) /\ vaults'[v] = Null

\* A live position the vault records stays recorded while it lives, whatever
\* instruction runs; only closing the vault forgets it.
OnlyExitsOrphanAPosition ==
    [][\A v \in Vaults : Exists(v) /\ HasActivePosition(v) =>
          \/ vaults'[v] = Null
          \/ positions'[Recorded(v)] = Null
          \/ vaults'[v].position_address = Recorded(v)]_vars

\* While the protocol is paused nothing is opened, closed or collected, and no
\* tokens enter a vault: the treasury and every vault's balances can only stay
\* or, for a balance, go out to its owner.
PausedMovesNothingIn ==
    [][config # Null /\ config.is_paused =>
          /\ treasury' = treasury
          /\ \A p \in PositionIds : (positions[p] = Null) = (positions'[p] = Null)
          /\ \A v \in Vaults : Covers(accounts[v].amount, accounts'[v].amount)]_vars

\* deposit.rs and withdraw.rs refuse to run during a two-phase rebalance so
\* that the open leg finds the tokens the close leg left: as long as a vault
\* stays pending, its target and its balances do not move.  Other docs promise
\* the opposite of withdraw: see PendingFundsAreWithdrawable.
FundsAreFrozenWhilePending ==
    [][\A v \in Vaults :
          LET pending == vaults[v].pending_rebalance
          IN  /\ Exists(v) /\ pending # Null
              /\ vaults'[v] # Null /\ vaults'[v].pending_rebalance # Null
              => /\ vaults'[v].pending_rebalance = pending
                 /\ accounts'[v].amount = accounts[v].amount]_vars

\* Every open of an NFT-backed position, the second leg of a rebalance
\* included, takes the transfer-fee snapshot anew, and nothing else writes it:
\* an active vault's snapshot is the one its mints carried at its open.
SnapshotIsTakenAtOpen ==
    [][\A v \in Vaults : Exists(v) /\ vaults'[v] # Null =>
          LET opens == vaults'[v].position_mint \notin {Null, vaults[v].position_mint}
          IN  vaults'[v].transfer_fees =
                IF opens THEN PairTransferFees ELSE vaults[v].transfer_fees]_vars

----------------------------------------------------------------------------
(* The lifecycle a vault is promised *)

Stage(v) ==
    IF ~Exists(v) THEN [stage |-> "absent"]
    ELSE IF vaults[v].pending_rebalance # Null
      THEN [stage |-> "pending", range |-> vaults[v].pending_rebalance.range]
    ELSE IF vaults[v].position_range # Null
      THEN [stage |-> "active", range |-> vaults[v].position_range]
    ELSE [stage |-> "idle"]

Lifecycle ==
    INSTANCE VaultLifecycle
      WITH InPlace <- {v \in Vaults : Protocol[v] = "Meteora"},
           lifecycle <- [v \in Vaults |-> Stage(v)]

\* Every instruction is a step of the abstract lifecycle or leaves it alone: in
\* particular a rebalance finishes in exactly the range it was started for.
ImplementsLifecycle == Lifecycle!Spec

----------------------------------------------------------------------------
(* Liveness *)

\* The owner keeps submitting the instructions that resolve a vault; anybody
\* may harvest withheld fees.  Nobody has to unpause the protocol, trade, or
\* complete a rebalance.
OwnerResolves(v) == WF_vars(CancelPendingRebalance(v))
OwnerLeaves(v) == SF_vars(EmergencyWithdraw(v, Pair))
Harvests(v) == \A m \in Pair : WF_vars(HarvestWithheld(v, m))

ResolvingSpec == Spec /\ \A v \in Vaults : OwnerResolves(v)
LeavingSpec == Spec /\ \A v \in Vaults : OwnerLeaves(v) /\ Harvests(v)

\* cancel_pending_rebalance.rs: a user can always clear a pending state.
PendingIsResolved ==
    \A v \in Vaults :
        (Exists(v) /\ vaults[v].pending_rebalance # Null)
          ~> (~Exists(v) \/ vaults[v].pending_rebalance = Null)

\* emergency_withdraw.rs: an owner who insists gets out, whatever the pause
\* state, the rebalance in flight, the position, and the mints' transfer fees.
OwnerGetsOut == \A v \in Vaults : Exists(v) ~> ~Exists(v)
=============================================================================
