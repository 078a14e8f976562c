----------------------------- MODULE AargauState -----------------------------
(***************************************************************************)
(* The state the Aargau manager program reads and writes, and the effects  *)
(* on it that several instructions share.                                  *)
(*                                                                         *)
(* A Solana instruction is atomic: an error in the handler, or in a CPI it *)
(* makes, rolls the whole transaction back.  Every handler is therefore    *)
(* one action whose guard is the conjunction of all its checks.            *)
(*                                                                         *)
(* A vault stands for its PDA, derived from (user, pool): Owner and        *)
(* Protocol are functions of the vault.  All vaults trade one pair of      *)
(* mints.  Amounts of several mints are functions from Mints to Nat.       *)
(***************************************************************************)
EXTENDS FeeMath, Ranges, FiniteSets

CONSTANTS
    Vaults,            \* vault PDAs, whether or not the account exists
    Users,
    Owner,             \* [Vaults -> Users], vault.user_authority
    Protocol,          \* [Vaults -> {"Orca", "Raydium", "Meteora"}]
    PositionIds,       \* addresses of DEX positions (fresh keypairs)
    MintA, MintB,      \* the pool's pair
    RewardMint,        \* mint of the pool's reward slot, or Null for none
    Token2022Mints,    \* mints owned by the Token-2022 program
    TransferFeeMints,  \* Token-2022 mints with a transfer-fee extension
    HookMints,         \* Token-2022 mints with a transfer hook: no v2 CPI moves them
    FeeConfigs,        \* transfer-fee configs a Token-2022 mint can take
    InitialFee,        \* [Mints -> TransferFees], the fee of each mint at first
    InitialWallet,     \* [Users -> Coins], what each user starts with
    InitialMarket,     \* Coins, what traders and reward funders start with
    Null

Pair == {MintA, MintB}
Mints == Pair \cup ({RewardMint} \ {Null})
Coins == [Mints -> Nat]
TransferFees == [bps : Nat, max : U64]
NoTransferFee == [bps |-> 0, max |-> 0]

ASSUME StateAssumption ==
    /\ Owner \in [Vaults -> Users]
    /\ Protocol \in [Vaults -> {"Orca", "Raydium", "Meteora"}]
    /\ MintA # MintB /\ Null \notin Pair
    /\ Null \notin PositionIds /\ Null \notin Ranges
    /\ Token2022Mints \subseteq Mints
    /\ TransferFeeMints \subseteq Token2022Mints
    /\ HookMints \subseteq Token2022Mints
    /\ FeeConfigs \subseteq TransferFees
    /\ InitialFee \in [Mints -> TransferFees]
    /\ \A m \in Mints \ TransferFeeMints : InitialFee[m] = NoTransferFee
    /\ InitialWallet \in [Users -> Coins]
    /\ InitialMarket \in Coins

VARIABLES
    config,      \* ProtocolConfig singleton, or Null before it is initialized
    vaults,      \* VaultAccount of each PDA, or Null when it does not exist
    accounts,    \* token accounts of each vault PDA
    wallet,      \* token balances of each user
    treasury,    \* token balances of the treasury PDA
    positions,   \* DEX position accounts, Null when the address is unused
    market,      \* tokens held by everybody else: traders and reward funders
    rewardVault, \* reward tokens the pool can still pay out
    mintFee,     \* TransferFeeConfig of each mint
    clock        \* Clock::unix_timestamp

vars == <<config, vaults, accounts, wallet, treasury, positions, market,
          rewardVault, mintFee, clock>>

----------------------------------------------------------------------------
ProtocolConfig == [is_paused : BOOLEAN, fee_rate_bps : 0 .. MaxFeeRateBps]

PendingRebalance == [range : Ranges, initiated_at : Nat]

\* position_mint is Some for an NFT-backed position; the two range fields and
\* position_address are always written together.
VaultAccount ==
    [position_address  : PositionIds \cup {Null},
     position_mint     : PositionIds \cup {Null},
     position_range    : Ranges \cup {Null},
     pending_rebalance : PendingRebalance \cup {Null},
     transfer_fees     : [Pair -> TransferFees],
     last_rebalance_at : Nat]

\* The fee Token-2022 charges in this epoch, and the one it will charge once
\* the newer configuration is in force.
TransferFeeConfig == [live : TransferFees, newer : TransferFees]

\* open: the mints the PDA has an initialized token account for.
\* withheld: transfer fees Token-2022 keeps inside those accounts.
TokenAccounts == [open : SUBSET Mints, amount : Coins, withheld : Coins]

Position ==
    [owner : Vaults, range : Ranges, principal : Coins, fees : Coins,
     reward : Nat]

\* None is no Some, and an unused address no account.
ASSUME NullAssumption ==
    /\ Null \notin ProtocolConfig /\ Null \notin PendingRebalance
    /\ Null \notin VaultAccount /\ Null \notin Position

TypeOK ==
    /\ config \in ProtocolConfig \cup {Null}
    /\ vaults \in [Vaults -> VaultAccount \cup {Null}]
    /\ accounts \in [Vaults -> TokenAccounts]
    /\ wallet \in [Users -> Coins]
    /\ treasury \in Coins
    /\ positions \in [PositionIds -> Position \cup {Null}]
    /\ market \in Coins
    /\ rewardVault \in Nat
    /\ mintFee \in [Mints -> TransferFeeConfig]
    /\ clock \in Nat

----------------------------------------------------------------------------
(* Amounts of several mints *)

NoCoins == [m \in Mints |-> 0]
Plus(c, d) == [m \in Mints |-> c[m] + d[m]]
Minus(c, d) == [m \in Mints |-> c[m] - d[m]]
Covers(c, d) == \A m \in Mints : c[m] >= d[m]
SomeOf(c) == \E m \in Mints : c[m] > 0
Only(S, c) == [m \in Mints |-> IF m \in S THEN c[m] ELSE 0]
OfReward(n) == [m \in Mints |-> IF m = RewardMint THEN n ELSE 0]

\* What n bps of every balance of c comes to.
ShareOf(c, bps) == [m \in Mints |-> ProportionalAmount(c[m], bps)]

\* The amounts a caller may name for the mints of S.
AmountsOf(S, Amounts) ==
    {c \in [Mints -> Amounts \cup {0}] : \A m \in Mints \ S : c[m] = 0}

----------------------------------------------------------------------------
(* The token programs *)

\* What arrives of a transfer of c, under the transfer fees live now.
Net(c) == [m \in Mints |-> CalcNetAfterTransferFee(c[m], mintFee[m].live)]

Credit(accts, c) ==
    [accts EXCEPT !.amount = Plus(@, Net(c)),
                  !.withheld = Plus(@, Minus(c, Net(c)))]

Debit(accts, c) == [accts EXCEPT !.amount = Minus(@, c)]

\* close_account: only an empty account holding no withheld fee closes.
Closable(accts, m) ==
    m \in accts.open /\ accts.amount[m] = 0 /\ accts.withheld[m] = 0

Close(accts, S) == [accts EXCEPT !.open = @ \ S]

V2Transferable(S) == S \cap HookMints = {}

\* One CPI context names one token program.
OneTokenProgram(S) == S \subseteq Token2022Mints \/ S \cap Token2022Mints = {}

\* transfer_checked moves c: zero amounts are skipped by every caller, and no
\* caller passes the accounts a transfer hook needs.
Transferable(c) ==
    LET moved == {m \in Mints : c[m] > 0}
    IN  OneTokenProgram(moved) /\ V2Transferable(moved)

----------------------------------------------------------------------------
(* What every position-managing handler shares *)

\* The `protocol_config` account constraint.
NotPaused == config # Null /\ ~config.is_paused

Exists(v) == vaults[v] # Null

Recorded(v) == vaults[v].position_address

\* Mutant: the two-phase state is not looked at.
NoPendingRebalanceUnchecked(v) == Exists(v)
NoPendingRebalance(v) == vaults[v].pending_rebalance = Null

\* The recorded position is a live account of the DEX program.
HasActivePosition(v) == Recorded(v) # Null /\ positions[Recorded(v)] # Null

ActivePosition(v) == positions[Recorded(v)]

\* The performance fee on gross amounts collected for the vault.
AargauFee(gross) ==
    [m \in Mints |-> CalcAargauFee(gross[m], config.fee_rate_bps)]

\* vault fields an open leg writes; NFT-backed except on Meteora.
WithPosition(vault, p, nft, r) ==
    [vault EXCEPT !.position_address = p,
                  !.position_mint = IF nft THEN p ELSE Null,
                  !.position_range = r]

\* Mutant: the range fields are not reset.
WithoutPositionKeepingRange(vault) ==
    [vault EXCEPT !.position_address = Null, !.position_mint = Null]

WithoutPosition(vault) ==
    [vault EXCEPT !.position_address = Null,
                  !.position_mint = Null,
                  !.position_range = Null]

\* The snapshot an open leg records: always the newer configuration.
PairTransferFees == [m \in Pair |-> mintFee[m].newer]

\* Mutant: the configuration in force is recorded instead.
RecordLiveTransferFees(vault) ==
    [vault EXCEPT !.transfer_fees = [m \in Pair |-> mintFee[m].live]]
RecordPairTransferFees(vault) ==
    [vault EXCEPT !.transfer_fees = PairTransferFees]

NewPosition(v, r) ==
    [owner |-> v, range |-> r, principal |-> NoCoins, fees |-> NoCoins,
     reward |-> 0]

\* A DEX closes a position only when nothing is left in it.
Drained(pos) == pos.principal = NoCoins /\ pos.fees = NoCoins /\ pos.reward = 0

----------------------------------------------------------------------------
Init ==
    /\ config = Null
    /\ vaults = [v \in Vaults |-> Null]
    /\ accounts = [v \in Vaults |-> [open |-> {}, amount |-> NoCoins,
                                     withheld |-> NoCoins]]
    /\ wallet = InitialWallet
    /\ treasury = NoCoins
    /\ positions = [p \in PositionIds |-> Null]
    /\ market = InitialMarket
    /\ rewardVault = 0
    /\ mintFee = [m \in Mints |-> [live |-> InitialFee[m],
                                  newer |-> InitialFee[m]]]
    /\ clock = 0
=============================================================================
