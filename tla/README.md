# The Aargau manager program in TLA+

`src/programs/aargau-manager` is a Solana program (Anchor, Rust) that keeps, for
every user and pool, a *vault*: a PDA that owns two token accounts and at most one
liquidity position on Orca Whirlpools, Raydium CLMM or Meteora DLMM.  The owner
deposits, opens a position, collects, rebalances and leaves; the program takes a
performance fee on LP fees for a treasury PDA.  These modules model every implemented
instruction, check it with TLC on small instances, and prove with TLAPS, for all
values of the constants, what matters most about it.

Check a run with `tlc -config Orca.cfg MCAargau.tla`, a proof with
`tlapm AargauManager_proofs.tla`; section 3 names the module of each run.

## 1. Inventory

| Part | Code (below `src/programs/aargau-manager/src`) | State | Operations |
|---|---|---|---|
| Protocol administration | `instructions/admin/{initialize_protocol,set_protocol_pause}.rs`, `state/protocol_config.rs` | `ProtocolConfig`: pause flag, fee rate | initialize once, pause, resume |
| Vault custody | `instructions/vault/{create_vault,deposit,withdraw,emergency_withdraw,cancel_pending_rebalance}.rs`, `state/vault_account.rs` | `VaultAccount`, the PDA's token accounts | create, deposit, withdraw a share, exit, cancel |
| Meteora lifecycle | `instructions/keeper/execute_action.rs`, `instructions/vault/manual_rebalance.rs` | recorded position and range, the DLMM position | open, increase, decrease, collect, close, rebalance in place |
| Orca lifecycle | `instructions/keeper/execute_action_orca.rs`, `instructions/vault/{start_rebalance_orca,retry_pending_rebalance}.rs` | the same, the NFT mint, `pending_rebalance`, reward accounts | the five actions, close leg (Tx1), open leg (Tx2) |
| Raydium lifecycle | `instructions/keeper/execute_action_raydium.rs`, `instructions/vault/{start_rebalance_raydium,retry_pending_rebalance_raydium}.rs`, `utils/raydium/{vault_position,position_guards,lp_fee,reward_accounts}.rs` | the same | the same; fees and rewards leave in one CPI |
| Arithmetic | `utils/fee.rs`, `utils/raydium/lp_fee.rs`, `withdraw.rs` | none | performance fee, transfer fee, share, LP-fee measurement |
| Ranges | `utils/vault_ops.rs`, `utils/raydium/position_guards.rs` | none | bin and tick guards |
| Tick and bin arrays | `utils/orca/accounts.rs`, `utils/raydium/accounts.rs`, `utils/meteora/{accounts,rebalance_liquidity}.rs` | none; they are bound to the recorded range, the pending target or the new range | start index of a tick, array pair of a bin, binding of the client's accounts, deduplicated account lists |
| Token-2022 extensions | `utils/token_2022.rs`, `utils/pool_validation.rs` | none; they read a mint's extensions and transfer-fee configuration | three walks over the extensions: live fee, newer fee, transferability |
| Reward accounts | `collect_rewards` in `execute_action_orca.rs`, `utils/raydium/reward_accounts.rs` | the slots of a pool, what the position is owed, the list a client assembled | bind a list by position, collect slot by slot (Orca) or in one CPI (Raydium) |
| External | DEX programs, token programs, traders, clock | pools, mints, wallets | swaps, fees, rewards, harvests, epochs |

**How they interact.**  Every instruction is one transaction signed by the owner (or
the admin); handlers call the DEX and token programs by CPI and trust what the vault
account records of its position.  `ProtocolConfig` gates every instruction that
manages a position and `deposit`.  Vaults share the treasury, the pools and the mints, nothing else.
A Meteora position is rebalanced in one transaction.  An Orca or Raydium rebalance is two: the
first closes the old position and writes `pending_rebalance`, the second opens the
recorded range; any other instruction may run between them.

**What is hard.**  A transaction is atomic, so the concurrency is between transactions:
the two legs of a rebalance against deposits, exits, cancels and pauses; a vault
closed and created again at the same address; positions that outlive their vault;
transfer-fee changes between an open and a collect; a reward that cannot be paid; the fee base, which is
a difference of balances around a CPI and so depends on what else the CPI moved.
`PROJECT.json` lists each hazard at its line with the properties that would catch it.

**What makes each part correct.**  Custody: the owner gets out, nothing goes to
anybody else, nothing is lost.  Lifecycles: what the vault records is true of the DEX;
pending and active exclude each other; a rebalance ends in the range it was started for.  Fees: the
treasury gets the floored share of LP fees, once, and of nothing else.  Administration:
a pause stops what must stop and never the way out.

## 2. Modules

| Module | Models | Builds on |
|---|---|---|
| `FeeMath` | the integer arithmetic, with the width of `u64` as a constant | |
| `Ranges` | range guards | |
| `AargauState` | the variables, their types, token transfers, effects shared by handlers, `Init` | `FeeMath`, `Ranges` |
| `VaultInstructions` | administration and custody | `AargauState` |
| `PositionCpi` | what a CPI into a DEX does to a position; the fee split | `AargauState` |
| `MeteoraInstructions`, `OrcaInstructions`, `RaydiumInstructions` | one action per operation of each protocol | `PositionCpi` |
| `Environment` | traders, rewards, token programs, mint authorities, time (external) | `AargauState` |
| `AargauManager` | the whole program: `Next`, invariants, action properties, fairness, the refinement mapping | all of the above |
| `VaultLifecycle` | the abstract specification: the stages of a vault | |
| `AargauAccounting` | who ends up with the tokens | `AargauManager` |
| `DocumentedPromises` | what docs and comments say and the code does not do | `AargauAccounting` |
| `ArrayIndex` | which array holds a tick or a bin, with the machine's rounding division | `Ranges` |
| `ArrayAccounts` | the array accounts each instruction forwards, bound to the range it touches | `ArrayIndex` |
| `MintExtensions` | the account data of a Token-2022 mint, its three readers, and the token program that changes fees by epoch | |
| `RewardAccounts` | the reward list a client assembles, the pool owner who adds slots meanwhile, the collection that binds it | |
| `MCAargau`, `MCArrays`, `MCMints`, `MCRewards` | values of the constants for TLC | `DocumentedPromises`, `ArrayAccounts`, `MintExtensions`, `RewardAccounts` |
| `AargauTypes_proofs`, `AargauManager_proofs`, `AargauSafety_proofs` | theorems about the whole program and its arithmetic | `AargauManager`, each on the one before |
| `AargauAccounting_proofs` | theorems about the treasury and the ledger | `AargauAccounting`, `AargauSafety_proofs`, `Inductions` |
| `ArrayAccounts_proofs`, `MintExtensions_proofs`, `RewardAccounts_proofs` | theorems | the modules they are named for, the last two on `Inductions` |
| `Inductions` | lemmas: sums of functions, flattened sequences, walks over cells | |

**State.**  `config` is the `ProtocolConfig` account, `vaults[v]` the `VaultAccount` of
a PDA (`Null` when it does not exist), `accounts[v]` its token accounts (which are
open, their balances, the fees withheld in them), `positions[p]` the DEX's position
account, `wallet`, `treasury`, `market` and `rewardVault` the balances elsewhere,
`mintFee` each mint's live and scheduled transfer fee, `clock` the time.

`ArrayAccounts`, `MintExtensions` and `RewardAccounts` look closer at what the
instruction modules take for granted: that the arrays handed to a DEX are those of the
range (the handlers' `TickArraysBound` has no counterpart in `OrcaInstructions`), that the
fee read from a mint is the one charged (`mintFee` there), that a reward list pays the vault
(one reward there, three slots here).  Each has its own variables: a
range and a pending target; a mint's layout, fee and epoch; a pool's slots, debts and list.

**Actions.**  A handler is one action: its guard is the conjunction of its account
constraints, its `require!`s and the conditions under which its CPIs succeed, because
an error anywhere rolls the transaction back; its primed variables are the fields it
writes and the effects of its CPIs.  The order of steps inside a handler is kept where
it matters: a fee base is computed before rewards arrive, a ceiling is compared after
fees were claimed.  An operator preceded by a comment "Mutant" is a plausible wrong
version of the one below it; `PROJECT.json` names the property that tells them apart,
and the specification never uses it.

**Abstractions.**  Account keys, PDA derivations and instruction bytes are represented by the
identity of vault, user and position.  A position "has liquidity" exactly when
it holds principal.  In the instruction modules each DEX's three reward slots are one, paid in a
third mint or in a mint of the pair; `RewardAccounts` has all three.  `MintExtensions` counts
cells, one for a type, a length or a field, where the code counts bytes.  Rent and lamports are left out, with `sweep_excess_vault_lamports`, as are
events, third-party transfers into vault accounts, and vault-owned accounts other than
the associated ones.  `retry_count`, `last_failure_reason` and the automation fields of
`VaultAccount` are written once or never and left out.  Fees accrued by a DEX position are treated
as checkpointed: growth a DEX has not yet booked is booked by the action that accrues it.
On Raydium the outflow of the pool vault is exactly the position's fees.
What a DEX takes of the ceilings of an increase is any amount within them.

## 3. Runs

A run has its `.cfg`'s name.  The first five are of `MCAargau`, then one each of
`MCArrays`, `MCMints`, `MCRewards`.

| Run | Question | Instance | Distinct states |
|---|---|---|---|
| `Orca` | Does the two-transaction lifecycle keep its record true, implement `VaultLifecycle`, tax correctly, lose nothing, and resolve a pending target that cannot be opened? | 1 vault, 2 position addresses, 4 ranges (two legal, one off the spacing, one not ordered), reward in mint A, fairness of `cancel_pending_rebalance` | 20,142 |
| `Raydium` | Is a pending target openable, are funds frozen while pending, does a pause freeze positions, is the outflow taxed once, is every pending rebalance resolved? | the same on Raydium, 1 position address, partial shares, the same fairness | 12,712 |
| `Meteora` | The in-place rebalance, with ranges around the 69-bin and the bitmap limit | 1 vault, 5 ranges, the clock moving | 28,440 |
| `TransferFees` | Is the fee always measurable and the snapshot right when a mint authority changes the transfer fee of one of the pair, and does an owner who insists get out of its withheld fees? | Raydium, Token-2022 pair, two configurations beside none, fairness of `emergency_withdraw` and of harvests | 141,852 |
| `TwoVaults` | Does any instruction, an exit through any two token accounts included, reach across vaults or users, or lose more than it leaves behind? | an Orca and a Raydium vault, two owners, a third mint as reward, funded or not | 228,986 |
| `Arrays` | Do the arrays forwarded to a DEX hold the range it touches? | tick spacing 2, 15 ranges at and around array edges, below zero and at the ends of the tick domain, arrays of two pools | 650 |
| `Mints` | Do the three walks over a mint's extensions agree with the token program? | 180 layouts: bodies that look like headers, every place for the fee config, trailing zeros; two fees, four epochs | 5,040 |
| `RewardLists` | Do rewards reach the vault, whatever list a client assembled before the pool changed? | both DEXes, up to 3 slots of a plain mint and one no transfer can move, every list of some slots in some order | 136,676 |

What the properties say:

- `RecordedPositionIsLive`: a recorded position exists, is the vault's, has the
  recorded range, and has an NFT mint exactly when its DEX uses one.
- `PendingMeansNoPosition`, `FundsAreFrozenWhilePending`, `OrcaPendingIsFunded`,
  `RaydiumPendingIsOpenable`: between the legs of a rebalance there is no position, the
  tokens and the target stay, an Orca vault holds some, a Raydium target can be opened.
- `ImplementsLifecycle`: every step is a step of `VaultLifecycle` under `Stage`, or
  leaves every vault's stage alone; so a rebalance finishes in the range it was started for.
- `OnlyExitsOrphanAPosition`, `OneVaultAtATime`, `VaultHasItsTokenAccounts`.
- `TreasuryTakesOnlyItsCut`: the treasury grows by the floored share of the LP fees
  that left a position in that step, and at no other time.  It is stated from the fees that
  left, not from the base the handler computes.
- `NothingLeaks`: of a mint without transfer fees, no step changes what somebody still reaches, but for
  losses whose exact amount it states: an exit loses what it leaves behind (`LeftBehind`: the live position
  it closes over, the balance of a token account of the pair it did not close), a Meteora close the
  unclaimed fees.  `TwoVaults` has the exits through a reward account, on Orca and on Raydium, and
  rewards whose vault is not funded or whose account is missing.
- `FeesAreAlwaysMeasurable`, `SnapshotIsTakenAtOpen`: transfer fees.
- `ArraysHoldTheRange`, `AccountListsAgree`: whatever arrays a client passes, and from
  however old a range, a CPI gets arrays of the vault's own pool that hold every bin, or
  both end ticks, of each range it touches; the rebalance CPI of Meteora names no array twice and
  gets an account info for each meta; a Raydium open announces the starts of the arrays it passes.
- `WalkersAgreeWithTheTokenProgram`, `FeeChangesAsAnnounced`: no body or padding is taken
  for an extension and none is missed, and the fee read is that of the current epoch; it changes
  only to the one that was announced.
- `RewardsReachTheVault`, `CollectionServesEverySlot`, `OrcaCollectionNeverBlocked`: a
  collection pays every slot to the vault's own account, leaves nothing owed that could be
  moved, and on Orca an immovable reward never blocks the others.
- `PausedMovesNothingIn`: while paused no position is opened or closed, the treasury
  does not grow and no vault's balance does.
- `PendingIsResolved`, `OwnerGetsOut`: liveness, below.

Four more runs expect a violation.  Each checks what a comment or a test contract of the
repository says and finds the behaviour of the code that refutes it; `PROJECT.json`
quotes the lines.

| Run | The repository says | The code does |
|---|---|---|
| `ExitOverPosition` | exits are from an idle vault | both exits close the vault over a live position |
| `EmergencyBlocked` | always available | withheld transfer fees make the closing of the token accounts fail |
| `PendingWithdrawal` | what the close leg drained stays withdrawable: `start_rebalance_raydium.rs:8-9`, `start_rebalance_orca.rs:8-10`, and the contract in `tests/instructions/vault/start_rebalance_orca.rs:161-175`, by which a `withdraw` can move it out without the open leg | `withdraw.rs:84-87` refuses a pending vault, whatever the share; its own comment and `FundsAreFrozenWhilePending` agree with it.  The owner has to cancel first, or leave with `emergency_withdraw` |
| `SkippedReward` | incompatible reward mints are skipped, never fatal | the skipped reward stays owed and the close of the same transaction fails |

**Bounds, and why they are enough.**  Handlers do not count or iterate over vaults, so one vault
shows every interleaving of its own instructions, and two of different owners show what can go
wrong between vaults.  Two position addresses are the least with which a
position can be orphaned and another opened.  Amounts are one or two chunks of `Chunk` = 5, on
which a 20% fee is 1, so that rounding and a fee taken twice are visible
(15 in `TransferFees`, so that a fee on the gross and on the net differ).  `Shares` holds 100%
and, in some runs, a partial share.  `MaxReward` bounds the reward owed, the initial
balances of wallets and market bound everything else, `MaxClock` the clock (1 in `Meteora`, where a rebalance
writes it to `last_rebalance_at`, else 0: no handler reads a time), `MaxU64` = 1000 is above every amount.
The arithmetic of `ArrayIndex` depends on a range only through the array it falls in and its
distance from an edge: the ranges of `Arrays` end on, one spacing before and one after an edge, on either side of zero.
`MaxEpoch` = 3 in `Mints` lets a fee be announced, replaced before it starts, and start.  Two reward mints
and three slots put an immovable reward before, between and after others.  Deadlock is checked in every run
but `Mints`: there a mint without a fee configuration really has nothing left to do at `MaxEpoch`.

**Fairness.**  Safety properties need none.  `ResolvingSpec` assumes that the owner of a
pending vault keeps submitting `cancel_pending_rebalance`: weak fairness is enough because
no other step disables it without resolving the vault.  `LeavingSpec` assumes that the
owner keeps submitting `emergency_withdraw`, strongly, because withheld fees disable it
again and again, and that somebody harvests withheld fees (`harvest_withheld_tokens_to_mint`
is permissionless, so the owner can).  These are transactions the owner may
submit at any time; Solana includes a valid one eventually.  Nobody is assumed to unpause,
trade, retry or complete anything, so both properties hold under a permanent pause.

## 4. Proofs

They hold for any sets of vaults, users and positions, any amounts and any ranges.  They
assume only what the modules name: `MaxU64Assumption`, `RangesAssumption`,
`StateAssumption`, `NullAssumption`, `EnvironmentAssumption`, `InputAssumption`; `LedgerAssumption`, that users
and vaults are finitely many, for sums over them alone; `AddressesAssumption` for
the arrays; `MintExtensionsAssumption`, that a mint has at most one transfer-fee config; `RewardAccountsAssumption` and
`NullAssumption` for the rewards.  TLC evaluates each on the runs of the module that states it.

- `AargauTypes_proofs!TypeCorrect`: `TypeOK`.  Its content is arithmetic: every balance stays a
  natural number, that is, no instruction debits more than is there.  The lemmas bound
  shares, fees and nets by what they are taken from; one lemma per action uses them.  Those of the
  arithmetic are theorems of their own: `FeeNeverExceedsGross`, `SplitIsExactAndCapped` (the treasury takes at most
  a fifth), `NetAfterTransferFeeIsBounded`, `ProportionalAmountIsCovered`,
  `MeasuredFeeIsCoveredByGain`, for every width of integer and every amount.
- `AargauManager_proofs`: `PendingExcludesPosition`, `RecordIsTrue`, `OnlyExitsOrphan`.
  Neither invariant is inductive alone: that opening a position keeps the record true
  needs that the vault was in no position (guard) *and* that a pending vault records none;
  a step on one vault must not disturb what another records, which needs that no two
  vaults record one position, and that follows from each being its position's owner.
  The inductive invariant `Ownership` is `VaultOk(v)` for every vault: `PendingOk` and `RecordOk`.
  The disjuncts of `Next` are first shown to be one of seven *kinds* of step
  (`Frame`, `Creates`, `Leaves`, `Cancels`, `Opens`, `Closes`, `Moves`; lemma `EveryStep`), so that
  the invariant and the action property are proved on seven cases.
- `AargauManager_proofs!Refines`: `Spec => ImplementsLifecycle`.  The mapping is `Stage`.  Each kind of step
  maps to its step of `VaultLifecycle` or to a stutter; `Ownership` supplies what the mapping reads, for instance that a
  vault with a position has a recorded range, and that a vault that becomes pending was active.
- `AargauSafety_proofs` proves the rest of what `AargauManager` states: `VaultsAreIsolated` (no
  step touches two vaults, or another vault's position or user's wallet);
  `PendingOrcaIsFunded`, `PendingRaydiumIsOpenable`, `PendingFreezesFunds` and
  `TokenAccountsOutlast`, from one lemma: what any step does to a vault's pending state and
  balances is to leave both, to end the pending state, or to start one with tokens left
  behind (`Undisturbed`, `Settles`, `Starts`; lemma `EveryVaultFunds`).  No transfer fee,
  even of 100%, empties a pending Orca vault, because the floors of the close leg are on what arrives.
  `MeasurementNeverBlocks`, from `MeasuredFeeIsCoveredByGain`: no
  transfer fee, accrued fee or reward makes the measurement of `lp_fee.rs` fail;
  `OpensTakeTheSnapshot`; `PauseHolds`.
- `AargauAccounting_proofs!TreasuryIsExact`: `TreasuryTakesOnlyItsCut`.  Every step either keeps the treasury and
  takes fees out of no position (`Untaxed`), or empties the fees of one (`Taxed`) and pays from
  a base that is what arrived of them.  That the cast to `u64` loses nothing needs that fees owed
  are a u64, and that Raydium's base equals the others' that they are of the pair only: the
  invariant `FeesOk`.  That only a Meteora close forfeits fees needs `Ownership`.
- `AargauAccounting_proofs!NothingIsLost`: `NothingLeaks`.  The inductive invariant is `Ownership`, `TypeOK` and
  `FeelessMints` (a mint outside `TransferFeeMints` never gets a fee, so what is sent of it arrives).
  Each handler is shown to conserve, of such a mint, the sum of its vault's account and position, the
  wallet of the vault's owner, the treasury, the market and the reward vault (`Conserves`), but for an exit, which loses exactly what it
  leaves behind (`Abandons`), and a Meteora close, which loses exactly the fees it forfeits.  Every other vault and wallet is left as it is, so the sums
  over all users and all vaults move by one entry (`SumMovesWithOneEntry`).
- `ArrayAccounts_proofs`: `FloorDivIsFloor` (the floor built from a rounding division is the
  floor for every tick and span), `TickDomainIsAddressable` (no start of a tick of the
  domain overflows an i32), and the invariants `ForwardedArraysHoldTheRange`, `ForwardedListsAgree` and
  `ArrayTypes` for every tick spacing, every set of ranges and every list of accounts.  The inductive
  invariant adds that a Meteora range spans at most 69 bins, so that two consecutive arrays of
  70 hold it, and that no Meteora vault is pending.
- `RewardAccounts_proofs`: `RewardsGoToTheVault`, `CollectionIsComplete`, and `OrcaIsNeverBlocked`, that a list
  of every slot as it is passes every guard of the collection.  The property is
  stated with the guard, `OrcaRewardsCollectable`, not with `ENABLED`; the lemma `OrcaListCells` says where in the
  flattened list the four accounts of each slot are.
- `MintExtensions_proofs`: `EntriesAreReadBack` (the walk of `token_2022.rs` inverts the layout the token
  program writes, for every list of extensions and every padding), `WalkersReadEveryMint` and `FeesChangeAsAnnounced`.
  `Describes` gives the cell at which each entry starts; both walks are shown, from the last
  entry back, to be at such a cell and nowhere else.  The proof needs that no entry has type 0, which would end one walk.
- `Inductions`.  The walks, the flattened lists and the sums are recursive functions, each the `CHOOSE` of a
  function that satisfies its equation.  A lemma first shows that one exists (`ForwardRecursion` for a
  walk whose cursor only moves forward, `FlattensUpToEach`, `SumsUpToEach`); facts about it
  follow by taking the least number, or smallest set, at which they fail (`LeastNumber`, `LeastSubset`, from
  well-foundedness), because the library's induction rules take an operator as a parameter.

Only model-checked: liveness under fairness (`PendingIsResolved`, `OwnerGetsOut`), out of the
prover's reach, and the four runs that expect a violation.

## 5. Not modelled, and why

- The bytes of CPI instructions and of DEX accounts (`utils/*/…`, `utils/account_bytes.rs`): an
  encoding has no state.  The effects of the CPIs, the guards the parsed fields feed, the
  extensions of a mint and the account lists of arrays and rewards are modelled.
- `VaultRent` and `sweep_excess_vault_lamports`: lamports a close refunds to the
  vault PDA, and their return, are no part of any property here.
- `close_vault`, `claim_rewards`, `report_rebalance_attempt`, `update_protocol_config`,
  `withdraw_treasury`, `transfer_admin`, `admin_emergency_transfer`: stubs that change no state.
- `AutoRebalanceStrategy`, counters, `entry_value_usd`, `user_config.rs`: stored, read by
  no implemented instruction.
- The `NonTransferable` layer of `create_vault` (`create_vault.rs:140-142`): the pair of `AargauState` is taken to
  pass it; the check itself is `CheckNoNonTransferableExtension` of `MintExtensions`.
- `PENDING_REBALANCE_TIMEOUT_SECS` (`constants.rs:362`): declared, read nowhere, so there is no timeout to model.
- Events and error codes: reporting.

Met while modelling and not given a run of its own:

- `create_vault` reads no `protocol_config` and so runs while paused, where the message of
  `ProgramPaused` (`errors.rs:116`) allows only exits.
- `withdraw` and its "never gated" at `start_rebalance_raydium.rs:34-35` and
  `retry_pending_rebalance_raydium.rs:24-26`: true of the pause, not of the pending state, which is
  `PendingWithdrawal` again.
- `execute_action.rs:526-528` says that Meteora claims fees implicitly on a remove and that the next
  `CollectFees` takes them.  The model pays no fee on a remove, as DLMM's `remove_liquidity_by_range2` does; a fee
  paid there would stay in the vault untaxed, because the base of `CollectFees` is what its own CPI brings in.
- `last_rebalance_at`, "Unix timestamp of last successful rebalance"
  (`vault_account.rs:216`), is written by `manual_rebalance.rs:278` alone; a two-phase rebalance leaves it.
- `manual_rebalance` compares its ceilings after the fees were claimed, where its
  parameter's comment (`manual_rebalance.rs:89`) says at handler entry.
- `rebalance_liquidity.rs:60-62`, `:106-107` and `manual_rebalance.rs:211-213` say
  that only the lower bin arrays are checked, or that the caller or Meteora removes duplicates; the
  code checks all four addresses and removes duplicates itself (`AccountListsAgree`).  The metas and the infos are
  deduplicated by two loops with the same text (`:228-239`, `:325-337`), hence one operator for both; what is
  checked is that nothing is named twice and that the lists stay in step if either loop changes.
- `token_2022.rs:23-25` calls the newer fee a bound on the older one; an announced
  lower fee is below the one still charged.  `FeeChangesAsAnnounced` holds regardless.
- A full exit through the pair's accounts leaves rewards of a third mint in theirs,
  reachable again by creating the vault again.

Worth knowing, though no comment says otherwise: an Orca target off the
tick spacing is accepted by the close leg and can then only be cancelled, and so can one so far
outside the tick domain that its array's start overflows; a Raydium
rebalance of an empty position of an empty vault leaves a pending vault that can only be
cancelled; the floors of `withdraw` are compared with gross amounts, before transfer fees.

## 6. Plan

Done: sections 2 to 4; every safety and action property of the runs that pass is proved.  Left, in the order of
what it would add:

1. Specify an abstract custody (what a user put in, took out and paid), implemented by
   `AargauAccounting` as `VaultLifecycle` is by `AargauManager`.
2. Model the lamports a Raydium close refunds to the vault PDA and the sweep that returns
   them, with what an owner gets back of rent when leaving.
3. Compose `RewardAccounts` with the instructions, so that a slot added between the two legs
   of a rebalance meets the accounting properties.
