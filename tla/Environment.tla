----------------------------- MODULE Environment -----------------------------
(***************************************************************************)
(* What happens around the program: traders and reward funders, the token  *)
(* programs' permissionless operations, mint authorities, epochs and time. *)
(* None of it is code of this repository; it is modelled from how the      *)
(* handlers use it.                                                        *)
(***************************************************************************)
EXTENDS AargauState

CONSTANTS
    Chunk,        \* unit in which fees, rewards and swaps happen
    MaxReward,    \* bound: reward owed to one position
    MaxClock      \* bound: unix_timestamp

ASSUME EnvironmentAssumption ==
    /\ Chunk \in Nat \ {0}
    /\ MaxReward \in Nat
    /\ MaxClock \in Nat

Earning(p) == positions[p] # Null /\ SomeOf(positions[p].principal)

\* A trade pays an LP fee to a position in range; a DEX keeps it as a u64.
AccrueFees(p, m) ==
    /\ Earning(p)
    /\ m \in Pair
    /\ market[m] >= Chunk
    /\ positions[p].fees[m] + Chunk \in U64
    /\ positions' = [positions EXCEPT ![p].fees[m] = @ + Chunk]
    /\ market' = [market EXCEPT ![m] = @ - Chunk]
    /\ UNCHANGED <<config, vaults, accounts, wallet, treasury, rewardVault,
                   mintFee, clock>>

\* The pool owes a reward whether or not its reward vault can pay it.
AccrueReward(p) ==
    /\ RewardMint # Null
    /\ Earning(p)
    /\ positions[p].reward + Chunk <= MaxReward
    /\ positions' = [positions EXCEPT ![p].reward = @ + Chunk]
    /\ UNCHANGED <<config, vaults, accounts, wallet, treasury, market,
                   rewardVault, mintFee, clock>>

FundRewardVault ==
    /\ RewardMint # Null
    /\ market[RewardMint] >= Chunk
    /\ market' = [market EXCEPT ![RewardMint] = @ - Chunk]
    /\ rewardVault' = rewardVault + Chunk
    /\ UNCHANGED <<config, vaults, accounts, wallet, treasury, positions,
                   mintFee, clock>>

\* A swap turns a chunk of one side of a position into the other.
Swapped(coins, sold, bought) ==
    [coins EXCEPT ![bought] = @ - Chunk, ![sold] = @ + Chunk]

TraderSwap(p, sold, bought) ==
    /\ Earning(p)
    /\ {sold, bought} = Pair
    /\ positions[p].principal[bought] >= Chunk
    /\ market[sold] >= Chunk
    /\ positions' = [positions EXCEPT
                       ![p].principal = Swapped(@, sold, bought)]
    /\ market' = [market EXCEPT ![sold] = @ - Chunk, ![bought] = @ + Chunk]
    /\ UNCHANGED <<config, vaults, accounts, wallet, treasury, rewardVault,
                   mintFee, clock>>

\* harvest_withheld_tokens_to_mint: anybody may move the fees withheld in an
\* account to its mint.
HarvestWithheld(v, m) ==
    /\ m \in accounts[v].open
    /\ accounts[v].withheld[m] > 0
    /\ accounts' = [accounts EXCEPT ![v].withheld[m] = 0]
    /\ UNCHANGED <<config, vaults, wallet, treasury, positions, market,
                   rewardVault, mintFee, clock>>

\* The client opens the vault's token account for the reward mint before it
\* collects a reward.
OpenRewardAccount(v) ==
    /\ Exists(v)
    /\ RewardMint \in Mints \ accounts[v].open
    /\ accounts' = [accounts EXCEPT ![v].open = @ \cup {RewardMint}]
    /\ UNCHANGED <<config, vaults, wallet, treasury, positions, market,
                   rewardVault, mintFee, clock>>

\* A mint authority schedules a new transfer fee...
SetTransferFee(m, fee) ==
    /\ m \in TransferFeeMints
    /\ fee \in FeeConfigs
    /\ mintFee' = [mintFee EXCEPT ![m].newer = fee]
    /\ UNCHANGED <<config, vaults, accounts, wallet, treasury, positions,
                   market, rewardVault, clock>>

\* ... which is charged once its epoch has come; each mint has its own.
NewEpoch(m) ==
    /\ m \in TransferFeeMints
    /\ mintFee' = [mintFee EXCEPT ![m].live = mintFee[m].newer]
    /\ UNCHANGED <<config, vaults, accounts, wallet, treasury, positions,
                   market, rewardVault, clock>>

Tick ==
    /\ clock < MaxClock
    /\ clock' = clock + 1
    /\ UNCHANGED <<config, vaults, accounts, wallet, treasury, positions,
                   market, rewardVault, mintFee>>
=============================================================================
