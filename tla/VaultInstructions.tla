-------------------------- MODULE VaultInstructions --------------------------
(***************************************************************************)
(* The instructions that do not depend on the DEX: protocol administration *)
(* and the owner's create, deposit, withdraw, emergency exit and cancel.   *)
(***************************************************************************)
EXTENDS AargauState

\* initialize_protocol: the singleton PDA is created once; the fee rate is
\* capped and the treasury token accounts are opened.
InitializeProtocol(rate_bps) ==
    /\ config = Null
    /\ rate_bps <= MaxFeeRateBps
    /\ config' = [is_paused |-> FALSE, fee_rate_bps |-> rate_bps]
    /\ UNCHANGED <<vaults, accounts, wallet, treasury, positions, market,
                   rewardVault, mintFee, clock>>

\* set_protocol_pause: signed by the admin; idempotent.
SetProtocolPause(paused) ==
    /\ config # Null
    /\ config' = [config EXCEPT !.is_paused = paused]
    /\ UNCHANGED <<vaults, accounts, wallet, treasury, positions, market,
                   rewardVault, mintFee, clock>>

----------------------------------------------------------------------------
NewVaultAccount ==
    [position_address  |-> Null,
     position_mint     |-> Null,
     position_range    |-> Null,
     pending_rebalance |-> Null,
     transfer_fees     |-> [m \in Pair |-> NoTransferFee],
     last_rebalance_at |-> 0]

\* create_vault: reads no protocol_config.  `init` fails when the PDA or one
\* of its token accounts exists.  One token program serves both token
\* accounts.  The pool is bound to the pair, whose mints are taken to be without
\* NonTransferable: MintExtensions has that check.  strategy_bins is the sum of
\* the strategy's range widths, capped for Meteora only.
CreateVault(v, strategy_bins) ==
    /\ ~Exists(v)
    /\ accounts[v].open \cap Pair = {}
    /\ OneTokenProgram(Pair)
    /\ Protocol[v] = "Meteora" => strategy_bins <= MaxMeteoraBins
    /\ vaults' = [vaults EXCEPT ![v] = NewVaultAccount]
    /\ accounts' = [accounts EXCEPT ![v].open = @ \cup Pair]
    /\ UNCHANGED <<config, wallet, treasury, positions, market, rewardVault,
                   mintFee, clock>>

----------------------------------------------------------------------------
\* The account constraints of withdraw, emergency_withdraw and
\* cancel_pending_rebalance: the owner's vault and no protocol_config, so the
\* pause can never be looked at.
\* Mutant: the pause gate of every other instruction.
PauseGatedVault(v) == Exists(v) /\ NotPaused
UngatedVault(v) == Exists(v)

\* The two distinct vault token accounts a caller passes as A and B: only
\* their owner is checked, never that their mints are the pool's pair.
VaultTokenPairs(v) ==
    {S \in SUBSET accounts[v].open : Cardinality(S) = 2}

\* deposit: idle tokens only, never into an active position.
Deposit(v, S, c) ==
    /\ NotPaused
    /\ Exists(v)
    /\ S \in VaultTokenPairs(v)
    /\ Only(S, c) = c /\ SomeOf(c)
    /\ NoPendingRebalance(v)
    /\ Covers(wallet[Owner[v]], c)
    /\ Transferable(c)
    /\ wallet' = [wallet EXCEPT ![Owner[v]] = Minus(@, c)]
    /\ accounts' = [accounts EXCEPT ![v] = Credit(@, c)]
    /\ UNCHANGED <<config, vaults, treasury, positions, market, rewardVault,
                   mintFee, clock>>

----------------------------------------------------------------------------
\* Moves c to the owner and, on a full exit, closes both token accounts and
\* the vault PDA.  The recorded position, if any, is not looked at.
\* Mutants: the owner of the destination accounts is not checked, or the two
\* accounts are taken to be the pair's.
PayAnybody(v, c) ==
    /\ Transferable(c)
    /\ \E u \in Users : wallet' = [wallet EXCEPT ![u] = Plus(@, Net(c))]

PayOwnerOfPair(v, c) ==
    /\ Transferable(c)
    /\ wallet' = [wallet EXCEPT ![Owner[v]] = Plus(@, Only(Pair, Net(c)))]

PayOwner(v, c) ==
    /\ Transferable(c)
    /\ wallet' = [wallet EXCEPT ![Owner[v]] = Plus(@, Net(c))]

\* Mutant: the PDA outlives its token accounts.
CloseTokenAccountsOnly(v, S, emptied) ==
    /\ \A m \in S : Closable(emptied, m)
    /\ accounts' = [accounts EXCEPT ![v] = Close(emptied, S)]
    /\ vaults' = vaults

CloseVault(v, S, emptied) ==
    /\ OneTokenProgram(S)
    /\ \A m \in S : Closable(emptied, m)
    /\ accounts' = [accounts EXCEPT ![v] = Close(emptied, S)]
    /\ vaults' = [vaults EXCEPT ![v] = Null]

\* withdraw: no pause gate; the floors are compared with the gross amounts.
Withdraw(v, S, pct_bps, min) ==
    LET out == ShareOf(Only(S, accounts[v].amount), pct_bps)
        left == Debit(accounts[v], out)
    IN  /\ UngatedVault(v)
        /\ S \in VaultTokenPairs(v)
        /\ pct_bps \in 1 .. BpsDivisor
        /\ NoPendingRebalance(v)
        /\ Covers(out, Only(S, min))
        /\ PayOwner(v, out)
        /\ \/ /\ pct_bps = BpsDivisor
              /\ CloseVault(v, S, left)
           \/ /\ pct_bps # BpsDivisor
              /\ accounts' = [accounts EXCEPT ![v] = left]
              /\ UNCHANGED vaults
        /\ UNCHANGED <<config, treasury, positions, market, rewardVault,
                       mintFee, clock>>

\* emergency_withdraw: neither the pause, nor a pending rebalance, nor an
\* active position is looked at.
EmergencyWithdraw(v, S) ==
    LET out == Only(S, accounts[v].amount)
    IN  /\ UngatedVault(v)
        /\ S \in VaultTokenPairs(v)
        /\ PayOwner(v, out)
        /\ CloseVault(v, S, Debit(accounts[v], out))
        /\ UNCHANGED <<config, treasury, positions, market, rewardVault,
                       mintFee, clock>>

\* cancel_pending_rebalance: no pause gate, no token moves.
CancelPendingRebalance(v) ==
    /\ UngatedVault(v)
    /\ vaults[v].pending_rebalance # Null
    /\ vaults' = [vaults EXCEPT ![v].pending_rebalance = Null]
    /\ UNCHANGED <<config, accounts, wallet, treasury, positions, market,
                   rewardVault, mintFee, clock>>
=============================================================================
