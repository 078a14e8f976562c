--------------------------- MODULE RewardAccounts ---------------------------
(***************************************************************************)
(* The reward accounts a fee collection is handed in remaining_accounts,   *)
(* for one vault of one pool.  The pool owner adds reward slots at any     *)
(* time, the client assembles the list from the slots it saw, and the      *)
(* handler binds each account of the list by its position.  Orca is paid   *)
(* slot by slot and skips a mint it cannot move; Raydium pays every slot   *)
(* inside one CPI.  LP fees, and what a pool can pay, are in the modules   *)
(* of the instructions.                                                    *)
(***************************************************************************)
EXTENDS Integers, SequencesExt

CONSTANTS
    RewardMints,
    BlockedMints, \* mints require_v2_transferable_mint refuses (MintExtensions)
    RewardSlots,  \* slots a pool has, 3 for both DEXes
    Vault, Other, \* the vault PDA, and another owner of token accounts
    Null

ASSUME RewardAccountsAssumption ==
    /\ BlockedMints \subseteq RewardMints
    /\ RewardSlots \in Nat \ {0}

Accounts ==
    [kind : {"token_account"}, owner : {Vault, Other}, mint : RewardMints]
        \cup [kind : {"reward_vault"}, slot : Nat]
        \cup [kind : {"mint"}, mint : RewardMints]
        \cup [kind : {"token_program"}, of : RewardMints]

ASSUME NullAssumption == Null \notin Seq(Accounts)

VARIABLES
    protocol,     \* "Orca" or "Raydium"
    slots,        \* reward mints of the pool's initialized slots, in order
    owed,         \* slots of which the position is owed a reward
    open,         \* mints for which the vault's token account exists
    list,         \* remaining_accounts the client has assembled, or Null
    paid          \* <<slot, recipient>> of the collection just made

vars == <<protocol, slots, owed, open, list, paid>>

Initialized == DOMAIN slots

V2Transferable(m) == m \notin BlockedMints

----------------------------------------------------------------------------
(* Accounts *)

Ata(owner, mint) == [kind |-> "token_account", owner |-> owner, mint |-> mint]
RewardVault(i) == [kind |-> "reward_vault", slot |-> i]
MintAccount(mint) == [kind |-> "mint", mint |-> mint]
ProgramOf(mint) == [kind |-> "token_program", of |-> mint]

\* What a client assembles for one slot, in the order of each DEX.
SlotAccounts(i, recipient) ==
    IF protocol = "Orca"
      THEN <<recipient, MintAccount(slots[i]), RewardVault(i), ProgramOf(slots[i])>>
      ELSE <<RewardVault(i), recipient, MintAccount(slots[i])>>

\* ORCA_REWARD_ACCOUNTS_PER_SLOT and RAYDIUM_REWARD_ACCOUNTS_PER_SLOT.
AccountsPerSlot == IF protocol = "Orca" THEN 4 ELSE 3

\* The lists a client may hand over: those for some slots in some order, each
\* paid to the vault or to somebody else.
ClientLists ==
    UNION {
      {FlattenSeq([k \in 1 .. n |-> SlotAccounts(order[k], Ata(to[k], slots[order[k]]))]) :
         order \in [1 .. n -> Initialized], to \in [1 .. n -> {Vault, Other}]} :
      n \in 0 .. Len(slots)}

FreshList ==
    FlattenSeq([i \in Initialized |-> SlotAccounts(i, Ata(Vault, slots[i]))])

----------------------------------------------------------------------------
(* Binding *)

\* active, initialized_rewards: slots are initialized in order.
ActiveSlots == [i \in Initialized |-> i]

ExpectedCount == Len(list) = Len(ActiveSlots) * AccountsPerSlot

\* Where the accounts of the k-th active slot start.
\* Mutant: a slot whose mint cannot be moved takes no accounts.
BaseAmongTransferable(k) ==
    AccountsPerSlot * Cardinality({j \in 1 .. k - 1 : V2Transferable(slots[j])})
Base(k) == AccountsPerSlot * (k - 1)

\* require_reward_owner_is_vault_ata.
\* Mutant: like the DEX, it only compares the mint.
IsTokenAccountOf(account, mint) ==
    account.kind = "token_account" /\ account.mint = mint
IsVaultAta(account, mint) == account = Ata(Vault, mint)

OrcaSlotBound(k) ==
    /\ list[Base(k) + 3] = RewardVault(ActiveSlots[k])
    /\ list[Base(k) + 2] = MintAccount(slots[ActiveSlots[k]])
    /\ list[Base(k) + 4] = ProgramOf(slots[ActiveSlots[k]])
    /\ IsVaultAta(list[Base(k) + 1], slots[ActiveSlots[k]])

\* require_reward_transfer_bound
RaydiumSlotBound(k) ==
    /\ list[Base(k) + 1] = RewardVault(ActiveSlots[k])
    /\ list[Base(k) + 3] = MintAccount(slots[ActiveSlots[k]])
    /\ IsVaultAta(list[Base(k) + 2], slots[ActiveSlots[k]])

RewardsBound ==
    /\ ExpectedCount
    /\ \A k \in DOMAIN ActiveSlots :
          IF protocol = "Orca" THEN OrcaSlotBound(k) ELSE RaydiumSlotBound(k)

----------------------------------------------------------------------------
(* Collecting *)

\* Slots Orca collects: those whose mint its transfers can move.
\* Mutant: a slot with nothing owed ends the loop.
CollectedUntilNothingOwed ==
    {k \in Initialized : \A j \in 1 .. k : j \in owed /\ V2Transferable(slots[j])}
CollectedSlots ==
    {k \in Initialized : V2Transferable(slots[k])}

\* The recipient must exist, whoever it belongs to.
RecipientExists(account) == account.owner = Vault => account.mint \in open

\* The account in the recipient's place of the k-th active slot.
RecipientPlace == IF protocol = "Orca" THEN 1 ELSE 2
Recipient(k) == list[Base(k) + RecipientPlace]

PaidTo(k) == <<k, Recipient(k)>>

\* collect_rewards, in CollectFees and start_rebalance_orca, runs or fails.
OrcaRewardsCollectable ==
    /\ protocol = "Orca" /\ list # Null
    /\ RewardsBound
    /\ \A k \in CollectedSlots : RecipientExists(Recipient(k))

OrcaCollectRewards ==
    /\ OrcaRewardsCollectable
    /\ owed' = owed \ CollectedSlots
    /\ paid' = {PaidTo(k) : k \in CollectedSlots}
    /\ list' = Null
    /\ UNCHANGED <<protocol, slots, open>>

\* bind_reward_transfer_accounts, then the CPI: it needs a recipient for every
\* initialized slot and fails when it cannot move what one of them is owed.
RaydiumCollectRewards ==
    /\ protocol = "Raydium" /\ list # Null
    /\ RewardsBound
    /\ \A k \in Initialized :
          /\ RecipientExists(Recipient(k))
          /\ k \in owed => V2Transferable(slots[k])
    /\ owed' = {}
    /\ paid' = {PaidTo(k) : k \in Initialized}
    /\ list' = Null
    /\ UNCHANGED <<protocol, slots, open>>

----------------------------------------------------------------------------
(* The pool, the position and the client *)

InitializeReward(m) ==
    /\ Len(slots) < RewardSlots
    /\ slots' = Append(slots, m)
    /\ UNCHANGED <<protocol, owed, open, list, paid>>

EarnReward(i) ==
    /\ i \notin owed
    /\ owed' = owed \cup {i}
    /\ UNCHANGED <<protocol, slots, open, list, paid>>

OpenVaultAta(m) ==
    /\ m \notin open
    /\ open' = open \cup {m}
    /\ UNCHANGED <<protocol, slots, owed, list, paid>>

AssembleList ==
    /\ list = Null
    /\ list' \in ClientLists
    /\ paid' = {}
    /\ UNCHANGED <<protocol, slots, owed, open>>

\* The transaction was refused, or never sent.
DropList ==
    /\ list # Null
    /\ list' = Null
    /\ UNCHANGED <<protocol, slots, owed, open, paid>>

Init ==
    /\ protocol \in {"Orca", "Raydium"}
    /\ slots = <<>>
    /\ owed = {}
    /\ open = {}
    /\ list = Null
    /\ paid = {}

Next ==
    \/ OrcaCollectRewards
    \/ RaydiumCollectRewards
    \/ \E m \in RewardMints : InitializeReward(m) \/ OpenVaultAta(m)
    \/ \E i \in Initialized : EarnReward(i)
    \/ AssembleList
    \/ DropList

Spec == Init /\ [][Next]_vars

----------------------------------------------------------------------------
(* Correctness *)

\* Debts and payments are of slots the pool has.
TypeOK ==
    /\ slots \in Seq(RewardMints)
    /\ owed \subseteq Initialized
    /\ open \subseteq RewardMints
    /\ \A p \in paid : p[1] \in Initialized

\* A collection pays every slot into the vault's own account for the mint the
\* slot has on chain, whichever list the client assembled and however many
\* slots were added since (positional binding of remaining_accounts).
RewardsReachTheVault ==
    \A p \in paid : p[2] = Ata(Vault, slots[p[1]])

\* A collection leaves nothing owed that could be moved: a slot added after the
\* list was assembled makes the collection fail, it is never passed over.
CollectionServesEverySlot ==
    [][paid' \notin {paid, {}} => \A i \in owed' : ~V2Transferable(slots[i])]_vars

\* On Orca a reward that cannot be moved never stands in the way of the rest:
\* the client that assembles the list of all slots as they are now, with the
\* vault's accounts open for the mints that can be moved, is never refused
\* ("the remaining-accounts cursor never desyncs", collect_rewards).
OrcaCollectionNeverBlocked ==
    /\ protocol = "Orca" /\ list = FreshList
    /\ ToSet(slots) \ BlockedMints \subseteq open
    => OrcaRewardsCollectable
=============================================================================
