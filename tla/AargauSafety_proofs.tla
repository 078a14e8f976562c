-------------------------- MODULE AargauSafety_proofs --------------------------
(***************************************************************************)
(* Whose state an instruction may change, what it does to a pending        *)
(* rebalance and to its funds, and what the pause holds still: the other   *)
(* safety invariants and the action properties of the whole program.       *)
(***************************************************************************)
EXTENDS AargauManager_proofs

Instruction(v) == Own(v) \/ ManageMeteora(v) \/ ManageOrca(v) \/ ManageRaydium(v)

----------------------------------------------------------------------------
(* An instruction on one vault spares every other *)

\* Every other vault, its token accounts and every other user's wallet stay.
Local(v) ==
    /\ OnlyVault(v)
    /\ \A w \in Vaults \ {v} : accounts'[w] = accounts[w]
    /\ \A u \in Users \ {Owner[v]} : wallet'[u] = wallet[u]

\* Of the positions, only a fresh one or the recorded one changes.
LocalPosition(v) ==
    \/ positions' = positions
    \/ \E p \in PositionIds : FreshPosition(p) /\ OnlyPosition(p)
    \/ Exists(v) /\ HasActivePosition(v) /\ OnlyPosition(Recorded(v))

\* The shapes a handler gives the primed variables.
LEMMA LocalFrom ==
  ASSUME TypeOK, NEW v \in Vaults,
         \/ vaults' = vaults
         \/ \E vault : vaults' = [vaults EXCEPT ![v] = vault],
         \/ accounts' = accounts
         \/ \E accts : accounts' = [accounts EXCEPT ![v] = accts],
         \/ wallet' = wallet
         \/ \E c : wallet' = [wallet EXCEPT ![Owner[v]] = c]
  PROVE  Local(v)
<1>1. OnlyVault(v)
  BY DEF TypeOK, OnlyVault
<1>2. \A w \in Vaults \ {v} : accounts'[w] = accounts[w]
  BY DEF TypeOK
<1>3. \A u \in Users \ {Owner[v]} : wallet'[u] = wallet[u]
  BY DEF TypeOK
<1> QED
  BY <1>1, <1>2, <1>3 DEF Local

LEMMA FreshIsLocal ==
  ASSUME TypeOK, NEW v \in Vaults, NEW p \in PositionIds, FreshPosition(p),
         NEW pos, positions' = [positions EXCEPT ![p] = pos]
  PROVE  LocalPosition(v)
BY DEF TypeOK, LocalPosition, OnlyPosition

LEMMA ActiveIsLocal ==
  ASSUME TypeOK, NEW v \in Vaults, Exists(v), HasActivePosition(v),
         NEW pos, ActivePositionBecomes(v, pos)
  PROVE  LocalPosition(v)
BY ActivePositionType DEF TypeOK, LocalPosition, OnlyPosition, ActivePositionBecomes

LEMMA OwnIsLocal ==
  ASSUME TypeOK, NEW v \in Vaults, Own(v)
  PROVE  Local(v) /\ LocalPosition(v)
<1>1. ASSUME NEW width, CreateVault(v, width) PROVE Local(v) /\ positions' = positions
  BY <1>1, LocalFrom DEF CreateVault
<1>2. ASSUME NEW S, NEW c, Deposit(v, S, c) PROVE Local(v) /\ positions' = positions
  BY <1>2, LocalFrom DEF Deposit
<1>3. ASSUME NEW S, NEW pct, NEW min, Withdraw(v, S, pct, min)
      PROVE  Local(v) /\ positions' = positions
  BY <1>3, LocalFrom DEF Withdraw, PayOwner, CloseVault
<1>4. ASSUME NEW S, EmergencyWithdraw(v, S) PROVE Local(v) /\ positions' = positions
  BY <1>4, LocalFrom DEF EmergencyWithdraw, PayOwner, CloseVault
<1>5. CASE CancelPendingRebalance(v)
  <2>1. Local(v) /\ positions' = positions
    BY <1>5, LocalFrom DEF CancelPendingRebalance
  <2> QED
    BY <2>1 DEF LocalPosition
<1> QED
  BY <1>1, <1>2, <1>3, <1>4, <1>5 DEF Own, Exit, LocalPosition

LEMMA MeteoraIsLocal ==
  ASSUME TypeOK, NEW v \in Vaults, ManageMeteora(v)
  PROVE  Local(v) /\ LocalPosition(v)
<1>1. ASSUME NEW p \in PositionIds, NEW r, MeteoraOpenPosition(v, p, r)
      PROVE  Local(v) /\ LocalPosition(v)
  BY <1>1, LocalFrom, FreshIsLocal DEF MeteoraOpenPosition
<1>2. ASSUME MeteoraPosition(v), NEW pos, ActivePositionBecomes(v, pos)
      PROVE  LocalPosition(v)
  BY <1>2, ActiveIsLocal DEF MeteoraPosition, MeteoraVault, ManagedVault
<1>3. ASSUME NEW max, NEW used, NEW s, MeteoraIncreaseLiquidity(v, max, used, s)
      PROVE  Local(v) /\ LocalPosition(v)
  BY <1>2, <1>3, LocalFrom DEF MeteoraIncreaseLiquidity
<1>4. ASSUME NEW bps, MeteoraDecreaseLiquidity(v, bps)
      PROVE  Local(v) /\ LocalPosition(v)
  BY <1>2, <1>4, LocalFrom DEF MeteoraDecreaseLiquidity
<1>5. CASE MeteoraCollectFees(v)
  BY <1>2, <1>5, LocalFrom DEF MeteoraCollectFees
<1>6. CASE MeteoraClosePosition(v)
  BY <1>2, <1>6, LocalFrom DEF MeteoraClosePosition
<1>7. ASSUME NEW r, NEW max, NEW used, NEW s, ManualRebalance(v, r, max, used, s)
      PROVE  Local(v) /\ LocalPosition(v)
  BY <1>2, <1>7, LocalFrom DEF ManualRebalance
<1> QED
  BY <1>1, <1>3, <1>4, <1>5, <1>6, <1>7 DEF ManageMeteora

LEMMA OrcaIsLocal ==
  ASSUME TypeOK, NEW v \in Vaults, ManageOrca(v)
  PROVE  Local(v) /\ LocalPosition(v)
<1>1. ASSUME NEW p \in PositionIds, NEW r, OrcaOpenPosition(v, p, r)
      PROVE  Local(v) /\ LocalPosition(v)
  BY <1>1, LocalFrom, FreshIsLocal DEF OrcaOpenPosition
<1>2. ASSUME OrcaPosition(v), NEW pos, ActivePositionBecomes(v, pos)
      PROVE  LocalPosition(v)
  BY <1>2, ActiveIsLocal DEF OrcaPosition, OrcaVault, ManagedVault
<1>3. ASSUME NEW max, NEW used, OrcaIncreaseLiquidity(v, max, used)
      PROVE  Local(v) /\ LocalPosition(v)
  BY <1>2, <1>3, LocalFrom DEF OrcaIncreaseLiquidity
<1>4. ASSUME NEW bps, NEW min, OrcaDecreaseLiquidity(v, bps, min)
      PROVE  Local(v) /\ LocalPosition(v)
  BY <1>2, <1>4, LocalFrom DEF OrcaDecreaseLiquidity
<1>5. CASE OrcaCollectFees(v)
  BY <1>2, <1>5, LocalFrom DEF OrcaCollectFees
<1>6. CASE OrcaClosePosition(v)
  BY <1>2, <1>6, LocalFrom DEF OrcaClosePosition
<1>7. ASSUME NEW r, NEW bps, NEW min, StartRebalanceOrca(v, r, bps, min)
      PROVE  Local(v) /\ LocalPosition(v)
  BY <1>2, <1>7, LocalFrom DEF StartRebalanceOrca
<1>8. ASSUME NEW p \in PositionIds, NEW max, NEW used,
             RetryPendingRebalance(v, p, max, used)
      PROVE  Local(v) /\ LocalPosition(v)
  BY <1>8, LocalFrom, FreshIsLocal DEF RetryPendingRebalance
<1> QED
  BY <1>1, <1>3, <1>4, <1>5, <1>6, <1>7, <1>8 DEF ManageOrca

LEMMA RaydiumIsLocal ==
  ASSUME TypeOK, NEW v \in Vaults, ManageRaydium(v)
  PROVE  Local(v) /\ LocalPosition(v)
<1>1. ASSUME NEW p \in PositionIds, NEW r, RaydiumOpenPosition(v, p, r)
      PROVE  Local(v) /\ LocalPosition(v)
  BY <1>1, LocalFrom, FreshIsLocal DEF RaydiumOpenPosition
<1>2. ASSUME RaydiumPosition(v), NEW pos, ActivePositionBecomes(v, pos)
      PROVE  LocalPosition(v)
  BY <1>2, ActiveIsLocal DEF RaydiumPosition, RaydiumVault, ManagedVault
<1>3. ASSUME NEW max, NEW used, RaydiumIncreaseLiquidity(v, max, used)
      PROVE  Local(v) /\ LocalPosition(v)
  BY <1>2, <1>3, LocalFrom DEF RaydiumIncreaseLiquidity
<1>4. ASSUME NEW bps, NEW min, RaydiumDecreaseLiquidity(v, bps, min)
      PROVE  Local(v) /\ LocalPosition(v)
  BY <1>2, <1>4, LocalFrom DEF RaydiumDecreaseLiquidity
<1>5. CASE RaydiumCollectFees(v)
  BY <1>2, <1>5, LocalFrom DEF RaydiumCollectFees
<1>6. CASE RaydiumClosePosition(v)
  BY <1>2, <1>6, LocalFrom DEF RaydiumClosePosition
<1>7. ASSUME NEW r, NEW min, StartRebalanceRaydium(v, r, min)
      PROVE  Local(v) /\ LocalPosition(v)
  BY <1>2, <1>7, LocalFrom DEF StartRebalanceRaydium
<1>8. ASSUME NEW p \in PositionIds, NEW max, NEW used,
             RetryPendingRebalanceRaydium(v, p, max, used)
      PROVE  Local(v) /\ LocalPosition(v)
  BY <1>8, LocalFrom, FreshIsLocal DEF RetryPendingRebalanceRaydium
<1> QED
  BY <1>1, <1>3, <1>4, <1>5, <1>6, <1>7, <1>8 DEF ManageRaydium

LEMMA InstructionIsLocal ==
  ASSUME TypeOK, NEW v \in Vaults, Instruction(v)
  PROVE  Local(v) /\ LocalPosition(v)
BY OwnIsLocal, MeteoraIsLocal, OrcaIsLocal, RaydiumIsLocal DEF Instruction

\* The environment moves no wallet and no vault account: it changes one
\* position, or one vault's token accounts, or neither.
LEMMA EnvironmentIsLocal ==
  ASSUME TypeOK, Administer \/ Trade \/ TokenPrograms \/ Tick \/ UNCHANGED vars
  PROVE  /\ vaults' = vaults /\ wallet' = wallet
         /\ \/ /\ accounts' = accounts
               /\ \/ positions' = positions
                  \/ \E p \in PositionIds : OnlyPosition(p)
            \/ /\ positions' = positions
               /\ \E v \in Vaults : Local(v)
<1>1. CASE Administer \/ Tick \/ UNCHANGED vars
  BY <1>1 DEF Administer, InitializeProtocol, SetProtocolPause, Tick, vars
<1>2. CASE Trade
  <2>1. ASSUME NEW p \in PositionIds, NEW pos,
               positions' = [positions EXCEPT ![p] = pos]
        PROVE  OnlyPosition(p)
    BY <2>1 DEF TypeOK, OnlyPosition
  <2>2. ASSUME NEW p \in PositionIds, NEW m, AccrueFees(p, m)
        PROVE  OnlyPosition(p)
    BY <2>1, <2>2 DEF AccrueFees, TypeOK, OnlyPosition
  <2>3. ASSUME NEW p \in PositionIds, AccrueReward(p)
        PROVE  OnlyPosition(p)
    BY <2>1, <2>3 DEF AccrueReward, TypeOK, OnlyPosition
  <2>4. ASSUME NEW p \in PositionIds, NEW sold, NEW bought, TraderSwap(p, sold, bought)
        PROVE  OnlyPosition(p)
    BY <2>1, <2>4 DEF TraderSwap, TypeOK, OnlyPosition
  <2>5. /\ vaults' = vaults /\ wallet' = wallet /\ accounts' = accounts
    BY <1>2 DEF Trade, AccrueFees, AccrueReward, TraderSwap, FundRewardVault
  <2> QED
    BY <1>2, <2>2, <2>3, <2>4, <2>5 DEF Trade, FundRewardVault
<1>3. CASE TokenPrograms
  <2>1. ASSUME NEW v \in Vaults, NEW m, HarvestWithheld(v, m)
        PROVE  Local(v)
    BY <2>1, LocalFrom DEF HarvestWithheld, TypeOK
  <2>2. ASSUME NEW v \in Vaults, OpenRewardAccount(v)
        PROVE  Local(v)
    BY <2>2, LocalFrom DEF OpenRewardAccount, TypeOK
  <2>3. vaults' = vaults /\ wallet' = wallet /\ positions' = positions
    BY <1>3 DEF TokenPrograms, HarvestWithheld, OpenRewardAccount, SetTransferFee,
       NewEpoch
  <2> QED
    BY <1>3, <2>1, <2>2, <2>3 DEF TokenPrograms, SetTransferFee, NewEpoch
<1> QED
  BY <1>1, <1>2, <1>3

\* A position belongs to one vault, so a local step touches no other.
LEMMA LocalTouchesOne ==
  ASSUME TypeOK, Ownership, NEW v \in Vaults, NEW w \in Vaults \ {v},
         Local(v), LocalPosition(v)
  PROVE  ~Touches(w)
<1>1. vaults'[w] = vaults[w] /\ accounts'[w] = accounts[w]
  BY DEF Local, OnlyVault
<1>2. ASSUME NEW p \in PositionIds, positions[p] # Null, positions[p].owner = w
      PROVE  positions'[p] = positions[p]
  <2>1. CASE positions' = positions
    BY <2>1
  <2>2. ASSUME NEW q \in PositionIds, FreshPosition(q), OnlyPosition(q)
        PROVE  positions'[p] = positions[p]
    BY <1>2, <2>2 DEF FreshPosition, OnlyPosition
  <2>3. CASE Exists(v) /\ HasActivePosition(v) /\ OnlyPosition(Recorded(v))
    <3>1. positions[Recorded(v)].owner = v
      BY <2>3 DEF Ownership, VaultOk, RecordOk, HasActivePosition, Recorded
    <3> QED
      BY <1>2, <2>3, <3>1 DEF OnlyPosition
  <2> QED
    BY <2>1, <2>2, <2>3 DEF LocalPosition
<1> QED
  BY <1>1, <1>2 DEF Touches

\* Every handler names one vault PDA, whose token accounts, position and owner
\* its constraints bind: whatever the instruction, no other vault, no position
\* of another vault and no other user's wallet is touched by it.
THEOREM VaultsAreIsolated == Spec => OneVaultAtATime
<1> DEFINE Alone(v) ==
             Touches(v) =>
               /\ \A w \in Vaults \ {v} : ~Touches(w)
               /\ \A u \in Users \ {Owner[v]} : wallet'[u] = wallet[u]
<1>1. ASSUME TypeOK, Ownership, [Next]_vars, NEW v \in Vaults
      PROVE  Alone(v)
  <2>1. ASSUME NEW x \in Vaults, Instruction(x)
        PROVE  Alone(v)
    <3>1. Local(x) /\ LocalPosition(x)
      BY <1>1, <2>1, InstructionIsLocal
    <3>2. \A w \in Vaults \ {x} : ~Touches(w)
      BY <1>1, <3>1, LocalTouchesOne
    <3> QED
      BY <3>1, <3>2 DEF Local
  <2>2. CASE Administer \/ Trade \/ TokenPrograms \/ Tick \/ UNCHANGED vars
    <3>1. /\ vaults' = vaults /\ wallet' = wallet
          /\ \/ /\ accounts' = accounts
                /\ \/ positions' = positions
                   \/ \E p \in PositionIds : OnlyPosition(p)
             \/ /\ positions' = positions
                /\ \E x \in Vaults : Local(x)
      BY <1>1, <2>2, EnvironmentIsLocal
    <3>2. CASE positions' = positions /\ accounts' = accounts
      BY <3>1, <3>2 DEF Touches
    <3>3. ASSUME NEW p \in PositionIds, OnlyPosition(p), accounts' = accounts
          PROVE  Alone(v)
      BY <3>1, <3>3 DEF Touches, OnlyPosition
    <3>4. ASSUME NEW x \in Vaults, Local(x), positions' = positions
          PROVE  Alone(v)
      <4>1. \A w \in Vaults \ {x} : ~Touches(w)
        BY <3>1, <3>4 DEF Local, Touches
      <4> QED
        BY <3>1, <4>1
    <3> QED
      BY <3>1, <3>2, <3>3, <3>4
  <2> QED
    BY <1>1, <2>1, <2>2 DEF Next, Instruction
<1>2. TypeOK /\ Ownership /\ [Next]_vars =>
        [\A v \in Vaults : Touches(v) =>
            /\ \A w \in Vaults \ {v} : ~Touches(w)
            /\ \A u \in Users \ {Owner[v]} : wallet'[u] = wallet[u]]_vars
  BY <1>1
<1> QED
  BY <1>2, OwnershipInvariant, PTL DEF Spec, OneVaultAtATime

----------------------------------------------------------------------------
(* What an instruction does to a pending rebalance and its funds *)

Undisturbed(v) ==
    vaults'[v] = vaults[v] /\ accounts'[v].amount = accounts[v].amount

Settles(v) == vaults'[v] = Null \/ vaults'[v].pending_rebalance = Null

Starts(v) ==
    /\ Exists(v) /\ vaults[v].pending_rebalance = Null
    /\ vaults'[v] # Null
    /\ Protocol[v] = "Orca" => SomeOf(Only(Pair, accounts[v].amount))'
    /\ Protocol[v] = "Raydium" =>
         OpenableTickRange(vaults'[v].pending_rebalance.range)

PendingStep(v) == Undisturbed(v) \/ Settles(v) \/ Starts(v)

\* The vault goes, or has its pair's token accounts afterwards when it had them.
AccountStep(v) ==
    \/ vaults'[v] = Null
    \/ Pair \subseteq accounts'[v].open
    \/ Exists(v) /\ accounts[v].open \subseteq accounts'[v].open

\* A record of token accounts, whatever it holds.
IsBook(accts) ==
    accts \in [open : {accts.open}, amount : {accts.amount},
               withheld : {accts.withheld}]

LEMMA VaultBook ==
  ASSUME TypeOK, NEW v \in Vaults
  PROVE  IsBook(accounts[v])
<1>1. accounts[v] \in TokenAccounts
  BY DEF TypeOK
<1> QED
  BY <1>1 DEF TokenAccounts, IsBook

LEMMA CreditKeepsOpen ==
  ASSUME NEW accts, NEW c, IsBook(accts)
  PROVE  IsBook(Credit(accts, c)) /\ Credit(accts, c).open = accts.open
BY DEF IsBook, Credit

LEMMA DebitKeepsOpen ==
  ASSUME NEW accts, NEW c, IsBook(accts)
  PROVE  IsBook(Debit(accts, c)) /\ Debit(accts, c).open = accts.open
BY DEF IsBook, Debit

LEMMA SplitKeepsOpen ==
  ASSUME NEW accts, NEW pos, NEW base, IsBook(accts)
  PROVE  /\ IsBook(SplitFees(accts, pos, base))
         /\ SplitFees(accts, pos, base).open = accts.open
BY CreditKeepsOpen, DebitKeepsOpen DEF SplitFees

LEMMA OrcaCollectKeepsOpen ==
  ASSUME TypeOK, NEW v \in Vaults, NEW pos
  PROVE  /\ IsBook(OrcaCollected(v, pos))
         /\ OrcaCollected(v, pos).open = accounts[v].open
BY VaultBook, SplitKeepsOpen, CreditKeepsOpen DEF OrcaCollected

LEMMA RaydiumCollectKeepsOpen ==
  ASSUME TypeOK, NEW v \in Vaults, NEW pos
  PROVE  /\ IsBook(RaydiumCollected(v, pos))
         /\ RaydiumCollected(v, pos).open = accounts[v].open
<1>1. IsBook(accounts[v])
  BY VaultBook
<1>2. /\ IsBook(RaydiumPayout(v, pos))
      /\ RaydiumPayout(v, pos).open = accounts[v].open
  BY <1>1, CreditKeepsOpen DEF RaydiumPayout
<1> QED
  BY <1>2, DebitKeepsOpen DEF RaydiumCollected

\* A handler that rewrites the token accounts of its vault keeps them open.
LEMMA BookKept ==
  ASSUME TypeOK, NEW v \in Vaults, Pair \subseteq accounts[v].open,
         NEW accts, accts.open = accounts[v].open,
         accounts' = [accounts EXCEPT ![v] = accts]
  PROVE  AccountStep(v)
<1>1. accounts'[v] = accts
  BY DEF TypeOK
<1> QED
  BY <1>1 DEF AccountStep

LEMMA BookUntouched ==
  ASSUME NEW v \in Vaults, Pair \subseteq accounts[v].open, accounts' = accounts
  PROVE  AccountStep(v)
BY DEF AccountStep

\* A handler that keeps the vault account without a pending state.
LEMMA SettledKept ==
  ASSUME NEW v \in Vaults, vaults[v].pending_rebalance = Null, vaults' = vaults
  PROVE  PendingStep(v)
BY DEF PendingStep, Settles

LEMMA SettledBy ==
  ASSUME TypeOK, NEW v \in Vaults,
         NEW vault, vault.pending_rebalance = Null,
         vaults' = [vaults EXCEPT ![v] = vault]
  PROVE  PendingStep(v)
BY DEF TypeOK, PendingStep, Settles

LEMMA OwnFunds ==
  ASSUME TypeOK, NEW v \in Vaults, Own(v)
  PROVE  PendingStep(v) /\ AccountStep(v)
<1>1. ASSUME NEW width, CreateVault(v, width)
      PROVE  PendingStep(v) /\ AccountStep(v)
  <2>1. accounts'[v].open = accounts[v].open \cup Pair
    BY <1>1, VaultBook DEF CreateVault, TypeOK, IsBook
  <2>2. NewVaultAccount.pending_rebalance = Null
    BY DEF NewVaultAccount
  <2> QED
    BY <1>1, <2>1, <2>2, SettledBy DEF CreateVault, AccountStep
<1>2. ASSUME NEW S, NEW c, Deposit(v, S, c)
      PROVE  PendingStep(v) /\ AccountStep(v)
  <2>1. /\ Exists(v) /\ vaults[v].pending_rebalance = Null /\ vaults' = vaults
        /\ accounts'[v] = Credit(accounts[v], c)
    BY <1>2 DEF Deposit, NoPendingRebalance, TypeOK
  <2> QED
    BY <2>1, VaultBook, CreditKeepsOpen, SettledKept DEF AccountStep
<1>3. ASSUME NEW S, NEW pct, NEW min, Withdraw(v, S, pct, min)
      PROVE  PendingStep(v) /\ AccountStep(v)
  <2> DEFINE out == ShareOf(Only(S, accounts[v].amount), pct)
  <2>1. /\ Exists(v) /\ vaults[v].pending_rebalance = Null
        /\ \/ vaults' = [vaults EXCEPT ![v] = Null]
           \/ /\ vaults' = vaults
              /\ accounts' = [accounts EXCEPT ![v] = Debit(accounts[v], out)]
    BY <1>3 DEF Withdraw, UngatedVault, NoPendingRebalance, CloseVault
  <2>2. CASE vaults' = [vaults EXCEPT ![v] = Null]
    BY <2>2 DEF TypeOK, PendingStep, Settles, AccountStep
  <2>3. CASE vaults' = vaults
             /\ accounts' = [accounts EXCEPT ![v] = Debit(accounts[v], out)]
    <3>1. accounts'[v] = Debit(accounts[v], out)
      BY <2>3 DEF TypeOK
    <3> QED
      BY <2>1, <2>3, <3>1, VaultBook, DebitKeepsOpen, SettledKept DEF AccountStep
  <2> QED
    BY <2>1, <2>2, <2>3
<1>4. ASSUME NEW S, EmergencyWithdraw(v, S)
      PROVE  PendingStep(v) /\ AccountStep(v)
  BY <1>4 DEF EmergencyWithdraw, CloseVault, TypeOK, PendingStep, Settles, AccountStep
<1>5. CASE CancelPendingRebalance(v)
  <2>1. /\ vaults[v] \in VaultAccount /\ Exists(v) /\ accounts' = accounts
        /\ vaults' = [vaults EXCEPT ![v] = [vaults[v] EXCEPT !.pending_rebalance = Null]]
    BY <1>5 DEF CancelPendingRebalance, UngatedVault, Exists, TypeOK
  <2>2. [vaults[v] EXCEPT !.pending_rebalance = Null].pending_rebalance = Null
    BY <2>1 DEF VaultAccount
  <2> QED
    BY <2>1, <2>2, SettledBy DEF AccountStep
<1> QED
  BY <1>1, <1>2, <1>3, <1>4, <1>5 DEF Own, Exit

LEMMA MeteoraFunds ==
  ASSUME TypeOK, NEW v \in Vaults, ManageMeteora(v)
  PROVE  PendingStep(v) /\ AccountStep(v)
<1>0. ASSUME MeteoraVault(v)
      PROVE  /\ Pair \subseteq accounts[v].open
             /\ vaults[v] \in VaultAccount /\ vaults[v].pending_rebalance = Null
  BY <1>0, ManagedVaultType DEF MeteoraVault, ManagedVault, NoPendingRebalance
<1>1. ASSUME NEW p \in PositionIds, NEW r, MeteoraOpenPosition(v, p, r)
      PROVE  PendingStep(v) /\ AccountStep(v)
  <2>1. WithPosition(vaults[v], p, FALSE, r).pending_rebalance = Null
    BY <1>0, <1>1 DEF MeteoraOpenPosition, WithPosition, VaultAccount
  <2>2. /\ vaults' = [vaults EXCEPT ![v] = WithPosition(vaults[v], p, FALSE, r)]
        /\ accounts' = accounts
    BY <1>1 DEF MeteoraOpenPosition, TypeOK
  <2> QED
    BY <1>0, <1>1, <2>1, <2>2, SettledBy, BookUntouched DEF MeteoraOpenPosition
<1>2. ASSUME NEW max, NEW used, NEW s, MeteoraIncreaseLiquidity(v, max, used, s)
      PROVE  PendingStep(v) /\ AccountStep(v)
  <2>1. /\ MeteoraVault(v) /\ vaults' = vaults
        /\ accounts' = [accounts EXCEPT ![v] = Debit(accounts[v], used)]
    BY <1>2 DEF MeteoraIncreaseLiquidity, MeteoraPosition
  <2> QED
    BY <1>0, <2>1, VaultBook, DebitKeepsOpen, BookKept, SettledKept
<1>3. ASSUME NEW bps, MeteoraDecreaseLiquidity(v, bps)
      PROVE  PendingStep(v) /\ AccountStep(v)
  <2> DEFINE out == Removed(ActivePosition(v), bps)
  <2>1. /\ MeteoraVault(v) /\ vaults' = vaults
        /\ accounts' = [accounts EXCEPT ![v] = Credit(accounts[v], out)]
    BY <1>3 DEF MeteoraDecreaseLiquidity, MeteoraPosition
  <2> QED
    BY <1>0, <2>1, VaultBook, CreditKeepsOpen, BookKept, SettledKept
<1>4. CASE MeteoraCollectFees(v)
  <2> DEFINE pos == ActivePosition(v)
  <2>1. /\ MeteoraVault(v) /\ vaults' = vaults
        /\ accounts' = [accounts EXCEPT ![v] = SplitFees(accounts[v], pos, FeeBase(pos))]
    BY <1>4 DEF MeteoraCollectFees, MeteoraPosition
  <2> QED
    BY <1>0, <2>1, VaultBook, SplitKeepsOpen, BookKept, SettledKept
<1>5. CASE MeteoraClosePosition(v)
  <2> DEFINE vault == [vaults[v] EXCEPT !.position_address = Null,
                                        !.position_range = Null]
  <2>1. /\ MeteoraVault(v) /\ accounts' = accounts
        /\ vaults' = [vaults EXCEPT ![v] = vault]
    BY <1>5 DEF MeteoraClosePosition, MeteoraPosition, TypeOK
  <2>2. vault.pending_rebalance = Null
    BY <1>0, <2>1 DEF VaultAccount
  <2> HIDE DEF vault
  <2> QED
    BY <1>0, <2>1, <2>2, SettledBy, BookUntouched
<1>6. ASSUME NEW r, NEW max, NEW used, NEW s, ManualRebalance(v, r, max, used, s)
      PROVE  PendingStep(v) /\ AccountStep(v)
  <2> DEFINE pos == ActivePosition(v)
             claimed == SplitFees(accounts[v], pos, FeeBase(pos))
             refunded == Credit(claimed, pos.principal)
             vault == MeteoraRebalanced(vaults[v], r)
  <2>1. /\ MeteoraVault(v)
        /\ accounts' = [accounts EXCEPT ![v] = Debit(refunded, used)]
        /\ vaults' = [vaults EXCEPT ![v] = vault]
    BY <1>6 DEF ManualRebalance, MeteoraPosition, TypeOK
  <2>2. vault.pending_rebalance = Null
    BY <1>0, <2>1 DEF MeteoraRebalanced, VaultAccount
  <2>3. IsBook(refunded) /\ refunded.open = accounts[v].open
    BY VaultBook, SplitKeepsOpen, CreditKeepsOpen
  <2> HIDE DEF vault, refunded
  <2>4. Debit(refunded, used).open = accounts[v].open
    BY <2>3, DebitKeepsOpen
  <2> QED
    BY <1>0, <2>1, <2>2, <2>4, SettledBy, BookKept
<1> QED
  BY <1>1, <1>2, <1>3, <1>4, <1>5, <1>6 DEF ManageMeteora

LEMMA FloorsType ==
  ASSUME NEW S, NEW min \in FloorsOf(S)
  PROVE  min \in Coins
<1>1. Floors \cup {0} \subseteq Nat
  BY InputAssumption
<1> QED
  BY <1>1 DEF FloorsOf, AmountsOf, Coins

LEMMA OrcaFunds ==
  ASSUME TypeOK, NEW v \in Vaults, ManageOrca(v)
  PROVE  PendingStep(v) /\ AccountStep(v)
<1>0. ASSUME OrcaVault(v)
      PROVE  /\ Pair \subseteq accounts[v].open /\ Exists(v)
             /\ vaults[v] \in VaultAccount
             /\ mintFee \in [Mints -> TransferFeeConfig]
  BY <1>0, ManagedVaultType DEF OrcaVault, ManagedVault
<1>1. ASSUME NEW p \in PositionIds, NEW r \in Ranges, OrcaOpenPosition(v, p, r)
      PROVE  PendingStep(v) /\ AccountStep(v)
  <2>1. /\ OrcaVault(v) /\ vaults[v].pending_rebalance = Null
        /\ vaults' = [vaults EXCEPT ![v] = NftRecorded(vaults[v], p, r)]
        /\ accounts' = accounts
    BY <1>1 DEF OrcaOpenPosition, NoPendingRebalance, NftRecorded, TypeOK
  <2>2. NftRecorded(vaults[v], p, r).pending_rebalance = Null
    BY <1>0, <2>1, NftRecord
  <2> QED
    BY <1>0, <2>1, <2>2, SettledBy, BookUntouched
<1>2. ASSUME NEW max, NEW used, OrcaIncreaseLiquidity(v, max, used)
      PROVE  PendingStep(v) /\ AccountStep(v)
  <2>1. /\ OrcaVault(v) /\ vaults[v].pending_rebalance = Null /\ vaults' = vaults
        /\ accounts' = [accounts EXCEPT ![v] = Debit(accounts[v], used)]
    BY <1>2 DEF OrcaIncreaseLiquidity, OrcaPosition, NoPendingRebalance
  <2> QED
    BY <1>0, <2>1, VaultBook, DebitKeepsOpen, BookKept, SettledKept
<1>3. ASSUME NEW bps, NEW min, OrcaDecreaseLiquidity(v, bps, min)
      PROVE  PendingStep(v) /\ AccountStep(v)
  <2> DEFINE out == Removed(ActivePosition(v), bps)
  <2>1. /\ OrcaVault(v) /\ vaults[v].pending_rebalance = Null /\ vaults' = vaults
        /\ accounts' = [accounts EXCEPT ![v] = Credit(accounts[v], out)]
    BY <1>3 DEF OrcaDecreaseLiquidity, OrcaPosition, NoPendingRebalance
  <2> QED
    BY <1>0, <2>1, VaultBook, CreditKeepsOpen, BookKept, SettledKept
<1>4. CASE OrcaCollectFees(v)
  <2>1. /\ OrcaVault(v) /\ vaults[v].pending_rebalance = Null /\ vaults' = vaults
        /\ accounts' = [accounts EXCEPT ![v] = OrcaCollected(v, ActivePosition(v))]
    BY <1>4 DEF OrcaCollectFees, OrcaPosition, NoPendingRebalance
  <2> QED
    BY <1>0, <2>1, OrcaCollectKeepsOpen, BookKept, SettledKept
<1>5. CASE OrcaClosePosition(v)
  <2>1. /\ OrcaVault(v) /\ vaults[v].pending_rebalance = Null /\ accounts' = accounts
        /\ vaults' = [vaults EXCEPT ![v] = WithoutPosition(vaults[v])]
    BY <1>5 DEF OrcaClosePosition, OrcaPosition, NoPendingRebalance, TypeOK
  <2>2. WithoutPosition(vaults[v]).pending_rebalance = Null
    BY <1>0, <2>1 DEF WithoutPosition, VaultAccount
  <2> QED
    BY <1>0, <2>1, <2>2, SettledBy, BookUntouched
<1>6. ASSUME NEW r \in Ranges, NEW bps \in Shares, NEW min \in FloorsOf(Pair),
             StartRebalanceOrca(v, r, bps, min)
      PROVE  PendingStep(v) /\ AccountStep(v)
  <2> DEFINE pos == ActivePosition(v)
             out == Removed(pos, bps)
             collected == OrcaCollected(v, pos)
  <2>1. /\ OrcaVault(v) /\ OrcaPosition(v) /\ vaults[v].pending_rebalance = Null
        /\ accounts' = [accounts EXCEPT ![v] = Credit(collected, out)]
        /\ vaults' = [vaults EXCEPT ![v] = OrcaStarted(vaults[v], r)]
        /\ OrcaCollectEffects(pos) /\ bps \in 0 .. BpsDivisor
        /\ SomeOf(Only(Pair, min)) /\ Covers(Net(out), min)
    BY <1>6, ShareIsBps
       DEF StartRebalanceOrca, OrcaPosition, NoPendingRebalance, TypeOK
  <2>2. pos \in Position /\ config \in ProtocolConfig /\ Protocol[v] = "Orca"
    BY <2>1, OrcaPositionType DEF OrcaVault, ManagedVault
  <2>3. collected \in TokenAccounts /\ collected.amount \in Coins
    BY <2>1, <2>2, OrcaCollectType DEF TokenAccounts
  <2>4. out \in Coins
    BY <2>1, <2>2, RemoveLiquidityType
  <2>5. /\ Credit(collected, out).amount = Plus(collected.amount, Net(out))
        /\ Net(out) \in Coins
    BY <1>0, <2>1, <2>3, <2>4, CreditType, NetType
  \* What the floor demands of one side arrives on that side.
  <2>6. PICK m \in Pair : min[m] > 0
    BY <2>1 DEF SomeOf, Only
  <2>7. min \in Coins /\ m \in Mints
    BY FloorsType, <2>6 DEF Mints
  <2> HIDE DEF out, collected
  <2>8. Net(out)[m] > 0
    BY <2>1, <2>5, <2>6, <2>7 DEF Covers, Coins
  <2>9. Plus(collected.amount, Net(out))[m] > 0
    BY <2>3, <2>5, <2>7, <2>8 DEF Plus, Coins
  <2>10. accounts'[v].amount[m] > 0
    BY <2>1, <2>5, <2>9 DEF TypeOK
  <2>11. SomeOf(Only(Pair, accounts[v].amount))'
    BY <2>6, <2>7, <2>10 DEF SomeOf, Only
  <2>12. vaults'[v] = OrcaStarted(vaults[v], r) /\ vaults'[v] # Null
    <3>1. OrcaStarted(vaults[v], r) \in VaultAccount
      BY <1>0, <2>1, NftForgotten, SetPendingType, OrcaPositionType
         DEF OrcaStarted, Pending
    <3> QED
      BY <2>1, <3>1, NullAssumption DEF TypeOK
  <2>13. Starts(v)
    BY <1>0, <2>1, <2>2, <2>11, <2>12 DEF Starts
  <2>14. Credit(collected, out).open = accounts[v].open
    BY OrcaCollectKeepsOpen, CreditKeepsOpen DEF collected
  <2> QED
    BY <1>0, <2>1, <2>13, <2>14, BookKept DEF PendingStep
<1>7. ASSUME NEW p \in PositionIds, NEW max, NEW used,
             RetryPendingRebalance(v, p, max, used)
      PROVE  PendingStep(v) /\ AccountStep(v)
  <2> DEFINE r == vaults[v].pending_rebalance.range
             vault == OrcaRebalanced(vaults[v], p, r)
  <2>1. /\ OrcaVault(v) /\ vaults[v].pending_rebalance # Null
        /\ accounts' = [accounts EXCEPT ![v] = Debit(accounts[v], used)]
        /\ vaults' = [vaults EXCEPT ![v] = vault]
    BY <1>7 DEF RetryPendingRebalance, TypeOK
  <2>2. r \in Ranges
    BY <1>0, <2>1 DEF VaultAccount, PendingRebalance
  <2>3. vault.pending_rebalance = Null
    <3>1. NftRecorded(vaults[v], p, r) \in VaultAccount
      BY <1>0, <2>1, <2>2, NftRecord
    <3>2. vault = [NftRecorded(vaults[v], p, r) EXCEPT !.pending_rebalance = Null]
      BY DEF OrcaRebalanced, NftRecorded
    <3> HIDE DEF vault
    <3> QED
      BY <3>1, <3>2 DEF VaultAccount
  <2> HIDE DEF vault
  <2> QED
    BY <1>0, <2>1, <2>3, VaultBook, DebitKeepsOpen, BookKept, SettledBy
<1> QED
  BY <1>1, <1>2, <1>3, <1>4, <1>5, <1>6, <1>7 DEF ManageOrca

LEMMA RaydiumFunds ==
  ASSUME TypeOK, NEW v \in Vaults, ManageRaydium(v)
  PROVE  PendingStep(v) /\ AccountStep(v)
<1>0. ASSUME RaydiumVault(v)
      PROVE  /\ Pair \subseteq accounts[v].open /\ Exists(v)
             /\ vaults[v] \in VaultAccount /\ Protocol[v] = "Raydium"
             /\ mintFee \in [Mints -> TransferFeeConfig]
  BY <1>0, ManagedVaultType DEF RaydiumVault, ManagedVault
<1>1. ASSUME NEW p \in PositionIds, NEW r \in Ranges, RaydiumOpenPosition(v, p, r)
      PROVE  PendingStep(v) /\ AccountStep(v)
  <2>1. /\ RaydiumVault(v) /\ vaults[v].pending_rebalance = Null
        /\ vaults' = [vaults EXCEPT ![v] = NftRecorded(vaults[v], p, r)]
        /\ accounts' = accounts
    BY <1>1 DEF RaydiumOpenPosition, NoPendingRebalance, NftRecorded, TypeOK
  <2>2. NftRecorded(vaults[v], p, r).pending_rebalance = Null
    BY <1>0, <2>1, NftRecord
  <2> QED
    BY <1>0, <2>1, <2>2, SettledBy, BookUntouched
<1>2. ASSUME NEW max, NEW used, RaydiumIncreaseLiquidity(v, max, used)
      PROVE  PendingStep(v) /\ AccountStep(v)
  <2>1. /\ RaydiumVault(v) /\ vaults[v].pending_rebalance = Null /\ vaults' = vaults
        /\ accounts' = [accounts EXCEPT ![v] = Debit(accounts[v], used)]
    BY <1>2 DEF RaydiumIncreaseLiquidity, RaydiumPosition, NoPendingRebalance
  <2> QED
    BY <1>0, <2>1, VaultBook, DebitKeepsOpen, BookKept, SettledKept
<1>3. ASSUME NEW bps, NEW min, RaydiumDecreaseLiquidity(v, bps, min)
      PROVE  PendingStep(v) /\ AccountStep(v)
  <2> DEFINE pos == ActivePosition(v)
             out == Removed(pos, bps)
  <2>1. /\ RaydiumVault(v) /\ vaults[v].pending_rebalance = Null /\ vaults' = vaults
        /\ accounts' = [accounts EXCEPT ![v] = Credit(RaydiumCollected(v, pos), out)]
    BY <1>3 DEF RaydiumDecreaseLiquidity, RaydiumPosition, NoPendingRebalance
  <2>2. Credit(RaydiumCollected(v, pos), out).open = accounts[v].open
    BY RaydiumCollectKeepsOpen, CreditKeepsOpen
  <2> HIDE DEF pos, out
  <2> QED
    BY <1>0, <2>1, <2>2, BookKept, SettledKept
<1>4. CASE RaydiumCollectFees(v)
  <2>1. /\ RaydiumVault(v) /\ vaults[v].pending_rebalance = Null /\ vaults' = vaults
        /\ accounts' = [accounts EXCEPT ![v] = RaydiumCollected(v, ActivePosition(v))]
    BY <1>4 DEF RaydiumCollectFees, RaydiumPosition, NoPendingRebalance
  <2> QED
    BY <1>0, <2>1, RaydiumCollectKeepsOpen, BookKept, SettledKept
<1>5. CASE RaydiumClosePosition(v)
  <2>1. /\ RaydiumVault(v) /\ vaults[v].pending_rebalance = Null /\ accounts' = accounts
        /\ vaults' = [vaults EXCEPT ![v] = WithoutPosition(vaults[v])]
    BY <1>5 DEF RaydiumClosePosition, RaydiumPosition, NoPendingRebalance, TypeOK
  <2>2. WithoutPosition(vaults[v]).pending_rebalance = Null
    BY <1>0, <2>1 DEF WithoutPosition, VaultAccount
  <2> QED
    BY <1>0, <2>1, <2>2, SettledBy, BookUntouched
<1>6. ASSUME NEW r \in Ranges, NEW min \in FloorsOf(Pair),
             StartRebalanceRaydium(v, r, min)
      PROVE  PendingStep(v) /\ AccountStep(v)
  <2> DEFINE pos == ActivePosition(v)
             out == Removed(pos, BpsDivisor)
             collected == RaydiumCollected(v, pos)
             vault == RecordPendingRebalance(vaults[v], r)
  <2>1. /\ RaydiumVault(v) /\ RaydiumPosition(v) /\ vaults[v].pending_rebalance = Null
        /\ accounts' = [accounts EXCEPT ![v] = Credit(collected, out)]
        /\ vaults' = [vaults EXCEPT ![v] = vault]
        /\ OpenableTickRange(r)
    BY <1>6 DEF StartRebalanceRaydium, RaydiumPosition, NoPendingRebalance,
       OpenableTarget, TypeOK
  <2>2. vault \in VaultAccount /\ vault.pending_rebalance.range = r
    <3>1. WithoutPosition(vaults[v]) \in VaultAccount
      BY <1>0, <2>1, NftForgotten
    <3>2. vault \in VaultAccount
      BY <3>1, SetPendingType DEF RecordPendingRebalance, TypeOK
    <3> QED
      BY <3>1, <3>2 DEF RecordPendingRebalance, VaultAccount
  <2> HIDE DEF vault
  <2>3. vaults'[v] = vault /\ vaults'[v] # Null
    BY <2>1, <2>2, NullAssumption DEF TypeOK
  <2>4. Starts(v)
    BY <1>0, <2>1, <2>2, <2>3 DEF Starts
  <2>5. Credit(collected, out).open = accounts[v].open
    BY RaydiumCollectKeepsOpen, CreditKeepsOpen
  <2> QED
    BY <1>0, <2>1, <2>4, <2>5, BookKept DEF PendingStep
<1>7. ASSUME NEW p \in PositionIds, NEW max, NEW used,
             RetryPendingRebalanceRaydium(v, p, max, used)
      PROVE  PendingStep(v) /\ AccountStep(v)
  <2> DEFINE r == vaults[v].pending_rebalance.range
             vault == RecordRebalancedPosition(RecordPairTransferFees(vaults[v]), p, r)
  <2>1. /\ RaydiumVault(v) /\ vaults[v].pending_rebalance # Null
        /\ accounts' = [accounts EXCEPT ![v] = Debit(accounts[v], used)]
        /\ vaults' = [vaults EXCEPT ![v] = vault]
    BY <1>7 DEF RetryPendingRebalanceRaydium, TypeOK
  <2>2. r \in Ranges
    BY <1>0, <2>1 DEF VaultAccount, PendingRebalance
  <2>3. vault.pending_rebalance = Null
    <3>1. NftRecorded(vaults[v], p, r) \in VaultAccount
      BY <1>0, <2>1, <2>2, NftRecord
    <3>2. vault = [NftRecorded(vaults[v], p, r) EXCEPT !.pending_rebalance = Null]
      BY DEF RecordRebalancedPosition, NftRecorded
    <3> HIDE DEF vault
    <3> QED
      BY <3>1, <3>2 DEF VaultAccount
  <2> HIDE DEF vault
  <2> QED
    BY <1>0, <2>1, <2>3, VaultBook, DebitKeepsOpen, BookKept, SettledBy
<1> QED
  BY <1>1, <1>2, <1>3, <1>4, <1>5, <1>6, <1>7 DEF ManageRaydium

\* The environment moves no amount out of or into a vault's token accounts and
\* closes none of them.
LEMMA EnvironmentFunds ==
  ASSUME TypeOK, Administer \/ Trade \/ TokenPrograms \/ Tick \/ UNCHANGED vars,
         NEW v \in Vaults
  PROVE  Undisturbed(v) /\ accounts[v].open \subseteq accounts'[v].open
<1>1. vaults' = vaults
  BY EnvironmentIsLocal
<1>2. CASE accounts' = accounts
  BY <1>1, <1>2 DEF Undisturbed
<1>3. ASSUME NEW w \in Vaults, NEW m \in Mints, HarvestWithheld(w, m)
      PROVE  Undisturbed(v) /\ accounts[v].open \subseteq accounts'[v].open
  <2>1. accounts[v] \in TokenAccounts
    BY DEF TypeOK
  <2> QED
    BY <1>1, <1>3, <2>1 DEF HarvestWithheld, Undisturbed, TypeOK, TokenAccounts
<1>4. ASSUME NEW w \in Vaults, OpenRewardAccount(w)
      PROVE  Undisturbed(v) /\ accounts[v].open \subseteq accounts'[v].open
  <2>1. accounts[v] \in TokenAccounts
    BY DEF TypeOK
  <2> QED
    BY <1>1, <1>4, <2>1 DEF OpenRewardAccount, Undisturbed, TypeOK, TokenAccounts
<1>5. CASE Administer \/ Trade \/ Tick \/ UNCHANGED vars
  BY <1>2, <1>5 DEF Administer, InitializeProtocol, SetProtocolPause, Trade,
     AccrueFees, AccrueReward, TraderSwap, FundRewardVault, Tick, vars
<1>6. CASE TokenPrograms
  BY <1>2, <1>3, <1>4, <1>6 DEF TokenPrograms, SetTransferFee, NewEpoch
<1> QED
  BY <1>5, <1>6

\* Whatever happens, to every vault.
LEMMA EveryVaultFunds ==
  ASSUME TypeOK, [Next]_vars, NEW v \in Vaults
  PROVE  /\ PendingStep(v)
         /\ \/ AccountStep(v)
            \/ vaults'[v] = vaults[v] /\ accounts[v].open \subseteq accounts'[v].open
<1>1. ASSUME NEW w \in Vaults, Instruction(w), w # v
      PROVE  Undisturbed(v) /\ accounts'[v] = accounts[v]
  BY <1>1, InstructionIsLocal DEF Local, OnlyVault, Undisturbed
<1>2. CASE Instruction(v)
  BY <1>2, OwnFunds, MeteoraFunds, OrcaFunds, RaydiumFunds DEF Instruction
<1>3. CASE Administer \/ Trade \/ TokenPrograms \/ Tick \/ UNCHANGED vars
  BY <1>3, EnvironmentFunds DEF PendingStep, Undisturbed
<1> QED
  BY <1>1, <1>2, <1>3 DEF Next, Instruction, PendingStep, Undisturbed

----------------------------------------------------------------------------
(* The invariants and the freeze that follow *)

LEMMA FundedInvariant ==
  Spec => [](TypeOK /\ OrcaPendingIsFunded /\ RaydiumPendingIsOpenable)
<1>1. Init => TypeOK /\ OrcaPendingIsFunded /\ RaydiumPendingIsOpenable
  BY InitType DEF Init, OrcaPendingIsFunded, RaydiumPendingIsOpenable, Exists
<1>2. ASSUME TypeOK, OrcaPendingIsFunded, RaydiumPendingIsOpenable, [Next]_vars
      PROVE  (OrcaPendingIsFunded /\ RaydiumPendingIsOpenable)'
  <2>1. ASSUME NEW v \in Vaults, Exists(v)', Protocol[v] = "Orca",
               vaults'[v].pending_rebalance # Null
        PROVE  SomeOf(Only(Pair, accounts[v].amount))'
    <3>1. CASE Undisturbed(v)
      BY <1>2, <2>1, <3>1
         DEF Undisturbed, OrcaPendingIsFunded, Exists, SomeOf, Only
    <3>2. CASE Starts(v)
      BY <2>1, <3>2 DEF Starts
    <3> QED
      BY <1>2, <2>1, <3>1, <3>2, EveryVaultFunds DEF PendingStep, Settles, Exists
  <2>2. ASSUME NEW v \in Vaults, Exists(v)', Protocol[v] = "Raydium",
               vaults'[v].pending_rebalance # Null
        PROVE  OpenableTickRange(vaults'[v].pending_rebalance.range)
    <3>1. CASE Undisturbed(v)
      BY <1>2, <2>2, <3>1 DEF Undisturbed, RaydiumPendingIsOpenable, Exists
    <3>2. CASE Starts(v)
      BY <2>2, <3>2 DEF Starts
    <3> QED
      BY <1>2, <2>2, <3>1, <3>2, EveryVaultFunds DEF PendingStep, Settles, Exists
  <2> QED
    BY <2>1, <2>2 DEF OrcaPendingIsFunded, RaydiumPendingIsOpenable
<1>3. TypeOK /\ [Next]_vars => TypeOK'
  BY NextType
<1> QED
  BY <1>1, <1>2, <1>3, PTL DEF Spec

\* start_rebalance_orca.rs: whatever the transfer fees, the shares and the
\* floors, the close leg leaves tokens of the pair behind, and nothing takes
\* them before the open leg, a cancel or an exit.
THEOREM PendingOrcaIsFunded == Spec => []OrcaPendingIsFunded
BY FundedInvariant, PTL

\* start_rebalance_raydium.rs: no pending range is recorded that the open leg
\* would have to refuse.
THEOREM PendingRaydiumIsOpenable == Spec => []RaydiumPendingIsOpenable
BY FundedInvariant, PTL

\* deposit.rs, withdraw.rs and the guards of every handler: between the two
\* legs nothing changes the target or moves the tokens.
THEOREM PendingFreezesFunds == Spec => FundsAreFrozenWhilePending
<1>1. ASSUME TypeOK, [Next]_vars, NEW v \in Vaults,
             Exists(v), vaults[v].pending_rebalance # Null,
             vaults'[v] # Null, vaults'[v].pending_rebalance # Null
      PROVE  /\ vaults'[v].pending_rebalance = vaults[v].pending_rebalance
             /\ accounts'[v].amount = accounts[v].amount
  BY <1>1, EveryVaultFunds DEF PendingStep, Undisturbed, Settles, Starts
<1>2. TypeOK /\ [Next]_vars =>
        [\A v \in Vaults :
           LET pending == vaults[v].pending_rebalance
           IN  /\ Exists(v) /\ pending # Null
               /\ vaults'[v] # Null /\ vaults'[v].pending_rebalance # Null
               => /\ vaults'[v].pending_rebalance = pending
                  /\ accounts'[v].amount = accounts[v].amount]_vars
  BY <1>1
<1> QED
  BY <1>2, TypeCorrect, PTL DEF Spec, FundsAreFrozenWhilePending

\* create_vault.rs opens the pair's two token accounts and only an exit closes
\* one, with the vault: every handler finds them, whatever pair of accounts the
\* exit was given.
THEOREM TokenAccountsOutlast == Spec => []VaultHasItsTokenAccounts
<1>1. Init => VaultHasItsTokenAccounts
  BY DEF Init, VaultHasItsTokenAccounts, Exists
<1>2. ASSUME TypeOK, VaultHasItsTokenAccounts, [Next]_vars
      PROVE  VaultHasItsTokenAccounts'
  <2>1. ASSUME NEW v \in Vaults, Exists(v)'
        PROVE  Pair \subseteq accounts'[v].open
    <3>1. Exists(v) => Pair \subseteq accounts[v].open
      BY <1>2 DEF VaultHasItsTokenAccounts
    <3> QED
      BY <1>2, <2>1, <3>1, EveryVaultFunds DEF AccountStep, Exists
  <2> QED
    BY <2>1 DEF VaultHasItsTokenAccounts
<1> QED
  BY <1>1, <1>2, TypeCorrect, PTL DEF Spec

\* lp_fee.rs: whatever transfer fee is live, whatever the position has earned
\* and whatever reward arrives in a pair mint, the measured fee never exceeds
\* what the vault's account gains, so the measurement never blocks a Raydium
\* collect, decrease or close.
THEOREM MeasurementNeverBlocks == Spec => []FeesAreAlwaysMeasurable
<1>1. ASSUME TypeOK, NEW v \in Vaults, RaydiumPosition(v), NEW m \in Pair
      PROVE  LpFeeIsMeasurable(FeeLeg(v, ActivePosition(v), m), mintFee[m].live)
  <2> DEFINE pos == ActivePosition(v)
             reward == OfReward(RewardPayable(pos))
             fed == Credit(accounts[v], pos.fees)
  <2>1. /\ pos \in Position /\ accounts[v] \in TokenAccounts
        /\ mintFee \in [Mints -> TransferFeeConfig] /\ rewardVault \in Nat
    BY <1>1, RaydiumPositionType DEF TypeOK
  <2>2. pos.fees \in Coins /\ accounts[v].amount \in Coins /\ m \in Mints
    BY <2>1 DEF Position, TokenAccounts, Mints
  <2>3. reward \in Coins
    BY <2>1, RewardPayableType, OfRewardType DEF Position
  <2>4. /\ fed \in TokenAccounts /\ fed.amount = Plus(accounts[v].amount, Net(pos.fees))
        /\ Net(pos.fees) \in Coins /\ Net(reward) \in Coins
    BY <2>1, <2>2, <2>3, CreditType, NetType
  <2> HIDE DEF fed, reward, pos
  <2>5. Credit(fed, reward).amount = Plus(fed.amount, Net(reward))
    BY <2>1, <2>3, <2>4, CreditType
  <2> DEFINE before == accounts[v].amount[m]
             fee == Net(pos.fees)[m]
             after == Credit(fed, reward).amount[m]
  <2>6. before \in Nat /\ fee \in Nat /\ pos.fees[m] \in Nat
    BY <2>2, <2>4 DEF Coins
  <2>7. after = before + fee + Net(reward)[m] /\ Net(reward)[m] \in Nat
    BY <2>2, <2>4, <2>5 DEF Plus, Coins
  <2>8. after >= before /\ fee <= after - before
    <3> HIDE DEF before, fee, after
    <3> QED
      BY <2>6, <2>7
  <2>9. /\ pos.fees[m] - 0 = pos.fees[m]
        /\ fee = CalcNetAfterTransferFee(pos.fees[m], mintFee[m].live)
    BY <2>2, <2>6 DEF Net
  <2>10. FeeLeg(v, pos, m) = [pool_before |-> pos.fees[m], pool_after |-> 0,
                              ata_before |-> before, ata_after |-> after]
    BY DEF FeeLeg, RaydiumPayout, fed, reward
  <2> HIDE DEF before, fee, after
  <2> QED
    BY <2>6, <2>8, <2>9, <2>10 DEF LpFeeIsMeasurable, LpFeeReceived, pos
<1>2. TypeOK => FeesAreAlwaysMeasurable
  BY <1>1 DEF FeesAreAlwaysMeasurable, LpFeeMeasured
<1> QED
  BY <1>2, TypeCorrect, PTL

----------------------------------------------------------------------------
(* The transfer-fee snapshot *)

\* An NFT recorded anew comes with a new snapshot, and nothing else writes it.
Snapshots(v) ==
    LET opens == vaults'[v].position_mint \notin {Null, vaults[v].position_mint}
    IN  vaults'[v].transfer_fees =
          IF opens THEN PairTransferFees ELSE vaults[v].transfer_fees

LEMMA SnapshotKept ==
  ASSUME TypeOK, NEW v \in Vaults,
         NEW vault, vault.transfer_fees = vaults[v].transfer_fees,
         vault.position_mint \in {Null, vaults[v].position_mint},
         vaults' = [vaults EXCEPT ![v] = vault]
  PROVE  Snapshots(v)
<1>1. vaults'[v] = vault
  BY DEF TypeOK
<1> QED
  BY <1>1 DEF Snapshots

LEMMA SnapshotUntouched ==
  ASSUME NEW v \in Vaults, vaults'[v] = vaults[v]
  PROVE  Snapshots(v)
BY DEF Snapshots

\* A vault without a position has no NFT mint, so recording one is an open.
LEMMA SnapshotTaken ==
  ASSUME TypeOK, Ownership, NEW v \in Vaults, Exists(v), WithoutVaultPosition(v),
         NEW p \in PositionIds, NEW vault \in VaultAccount,
         vault.position_mint = p, vault.transfer_fees = PairTransferFees,
         vaults' = [vaults EXCEPT ![v] = vault]
  PROVE  Snapshots(v)
<1>1. vaults'[v] = vault
  BY DEF TypeOK
<1>2. vaults[v].position_mint = Null /\ p # Null
  BY StateAssumption DEF Ownership, VaultOk, RecordOk, WithoutVaultPosition, Recorded
<1> QED
  BY <1>1, <1>2 DEF Snapshots

LEMMA NftSnapshot ==
  ASSUME NEW vault \in VaultAccount, NEW p \in PositionIds, NEW r \in Ranges
  PROVE  NftRecorded(vault, p, r).transfer_fees = PairTransferFees
BY DEF NftRecorded, WithPosition, RecordPairTransferFees, VaultAccount

LEMMA OwnSnapshot ==
  ASSUME TypeOK, NEW v \in Vaults, Exists(v), vaults'[v] # Null, Own(v)
  PROVE  Snapshots(v)
<1>0. vaults[v] \in VaultAccount
  BY DEF TypeOK, Exists
<1>1. CASE vaults' = vaults
  BY <1>1, SnapshotUntouched
<1>2. CASE CancelPendingRebalance(v)
  <2> DEFINE vault == [vaults[v] EXCEPT !.pending_rebalance = Null]
  <2>1. vaults' = [vaults EXCEPT ![v] = vault]
    BY <1>2 DEF CancelPendingRebalance
  <2>2. /\ vault.transfer_fees = vaults[v].transfer_fees
        /\ vault.position_mint = vaults[v].position_mint
    BY <1>0 DEF VaultAccount
  <2> HIDE DEF vault
  <2> QED
    BY <2>1, <2>2, SnapshotKept
<1>3. CASE vaults' = [vaults EXCEPT ![v] = Null]
  BY <1>3 DEF TypeOK
<1> QED
  BY <1>1, <1>2, <1>3 DEF Own, Exit, CreateVault, Deposit, Withdraw,
     EmergencyWithdraw, CloseVault

LEMMA MeteoraSnapshot ==
  ASSUME TypeOK, NEW v \in Vaults, ManageMeteora(v)
  PROVE  Snapshots(v)
<1>0. ASSUME MeteoraVault(v)
      PROVE  vaults[v] \in VaultAccount
  BY <1>0, ManagedVaultType DEF MeteoraVault
<1>1. ASSUME NEW p \in PositionIds, NEW r \in Ranges, MeteoraOpenPosition(v, p, r)
      PROVE  Snapshots(v)
  <2> DEFINE vault == WithPosition(vaults[v], p, FALSE, r)
  <2>1. /\ vault.transfer_fees = vaults[v].transfer_fees
        /\ vault.position_mint = Null
        /\ vaults' = [vaults EXCEPT ![v] = vault]
    BY <1>0, <1>1 DEF MeteoraOpenPosition, WithPosition, VaultAccount, TypeOK
  <2> HIDE DEF vault
  <2> QED
    BY <2>1, SnapshotKept
<1>2. CASE MeteoraClosePosition(v)
  <2> DEFINE vault == [vaults[v] EXCEPT !.position_address = Null,
                                        !.position_range = Null]
  <2>1. MeteoraVault(v) /\ vaults' = [vaults EXCEPT ![v] = vault]
    BY <1>2 DEF MeteoraClosePosition, MeteoraPosition, TypeOK
  <2>2. /\ vault.transfer_fees = vaults[v].transfer_fees
        /\ vault.position_mint = vaults[v].position_mint
    BY <1>0, <2>1 DEF VaultAccount
  <2> HIDE DEF vault
  <2> QED
    BY <2>1, <2>2, SnapshotKept
<1>3. ASSUME NEW r \in Ranges, NEW max, NEW used, NEW s,
             ManualRebalance(v, r, max, used, s)
      PROVE  Snapshots(v)
  <2> DEFINE vault == MeteoraRebalanced(vaults[v], r)
  <2>1. MeteoraVault(v) /\ vaults' = [vaults EXCEPT ![v] = vault]
    BY <1>3 DEF ManualRebalance, MeteoraPosition, TypeOK
  <2>2. /\ vault.transfer_fees = vaults[v].transfer_fees
        /\ vault.position_mint = vaults[v].position_mint
    BY <1>0, <2>1 DEF MeteoraRebalanced, VaultAccount
  <2> HIDE DEF vault
  <2> QED
    BY <2>1, <2>2, SnapshotKept
<1>4. CASE vaults' = vaults
  BY <1>4, SnapshotUntouched
<1> QED
  BY <1>1, <1>2, <1>3, <1>4 DEF ManageMeteora, MeteoraIncreaseLiquidity,
     MeteoraDecreaseLiquidity, MeteoraCollectFees

LEMMA OrcaSnapshot ==
  ASSUME TypeOK, Ownership, NEW v \in Vaults, ManageOrca(v)
  PROVE  Snapshots(v)
<1>0. ASSUME OrcaVault(v)
      PROVE  /\ vaults[v] \in VaultAccount /\ Exists(v) /\ clock \in Nat
             /\ mintFee \in [Mints -> TransferFeeConfig]
  BY <1>0, ManagedVaultType DEF OrcaVault
<1>1. ASSUME NEW p \in PositionIds, NEW r \in Ranges, OrcaOpenPosition(v, p, r)
      PROVE  Snapshots(v)
  <2> DEFINE vault == NftRecorded(vaults[v], p, r)
  <2>1. /\ OrcaVault(v) /\ WithoutVaultPosition(v)
        /\ vaults' = [vaults EXCEPT ![v] = vault]
    BY <1>1 DEF OrcaOpenPosition, NftRecorded, TypeOK
  <2>2. /\ vault \in VaultAccount /\ vault.position_mint = p
        /\ vault.transfer_fees = PairTransferFees
    BY <1>0, <2>1, NftRecord, NftSnapshot
  <2> HIDE DEF vault
  <2> QED
    BY <1>0, <2>1, <2>2, SnapshotTaken
<1>2. ASSUME OrcaVault(v), vaults' = [vaults EXCEPT ![v] = WithoutPosition(vaults[v])]
      PROVE  Snapshots(v)
  <2>1. /\ WithoutPosition(vaults[v]).transfer_fees = vaults[v].transfer_fees
        /\ WithoutPosition(vaults[v]).position_mint = Null
    BY <1>0, <1>2 DEF WithoutPosition, VaultAccount
  <2> QED
    BY <1>2, <2>1, SnapshotKept
<1>3. ASSUME NEW r \in Ranges, OrcaVault(v),
             vaults' = [vaults EXCEPT ![v] = OrcaStarted(vaults[v], r)]
      PROVE  Snapshots(v)
  <2> DEFINE vault == OrcaStarted(vaults[v], r)
  <2>1. /\ WithoutPosition(vaults[v]) \in VaultAccount
        /\ WithoutPosition(vaults[v]).transfer_fees = vaults[v].transfer_fees
        /\ WithoutPosition(vaults[v]).position_mint = Null
    BY <1>0, <1>3, NftForgotten DEF WithoutPosition, VaultAccount
  <2>2. /\ vault.transfer_fees = vaults[v].transfer_fees
        /\ vault.position_mint = Null
    BY <2>1 DEF OrcaStarted, VaultAccount
  <2>3. vaults' = [vaults EXCEPT ![v] = vault]
    BY <1>3
  <2> HIDE DEF vault
  <2> QED
    BY <2>2, <2>3, SnapshotKept
<1>4. ASSUME NEW p \in PositionIds, NEW max, NEW used,
             RetryPendingRebalance(v, p, max, used)
      PROVE  Snapshots(v)
  <2> DEFINE r == vaults[v].pending_rebalance.range
             opened == NftRecorded(vaults[v], p, r)
             vault == [opened EXCEPT !.pending_rebalance = Null]
  <2>1. /\ OrcaVault(v) /\ WithoutVaultPosition(v)
        /\ vaults[v].pending_rebalance # Null
        /\ vaults' = [vaults EXCEPT ![v] = vault]
    BY <1>4 DEF RetryPendingRebalance, OrcaRebalanced, NftRecorded, TypeOK
  <2>2. r \in Ranges
    BY <1>0, <2>1 DEF VaultAccount, PendingRebalance
  <2>3. /\ opened \in VaultAccount /\ opened.position_mint = p
        /\ opened.transfer_fees = PairTransferFees
    BY <1>0, <2>1, <2>2, NftRecord, NftSnapshot
  <2> HIDE DEF r, opened
  <2>4. /\ vault \in VaultAccount /\ vault.position_mint = p
        /\ vault.transfer_fees = PairTransferFees
    BY <2>3, ClearPendingType DEF VaultAccount
  <2> HIDE DEF vault
  <2>5. Exists(v)
    BY <1>0, <2>1
  <2> QED
    BY <2>1, <2>4, <2>5, SnapshotTaken
<1>5. CASE vaults' = vaults
  BY <1>5, SnapshotUntouched
<1>6. CASE OrcaClosePosition(v)
  BY <1>2, <1>6 DEF OrcaClosePosition, OrcaPosition, TypeOK
<1>7. ASSUME NEW r \in Ranges, NEW bps, NEW min, StartRebalanceOrca(v, r, bps, min)
      PROVE  Snapshots(v)
  BY <1>3, <1>7 DEF StartRebalanceOrca, OrcaPosition, TypeOK
<1> QED
  BY <1>1, <1>4, <1>5, <1>6, <1>7 DEF ManageOrca, OrcaIncreaseLiquidity,
     OrcaDecreaseLiquidity, OrcaCollectFees

LEMMA RaydiumSnapshot ==
  ASSUME TypeOK, Ownership, NEW v \in Vaults, ManageRaydium(v)
  PROVE  Snapshots(v)
<1>0. ASSUME RaydiumVault(v)
      PROVE  /\ vaults[v] \in VaultAccount /\ Exists(v) /\ clock \in Nat
             /\ mintFee \in [Mints -> TransferFeeConfig]
  BY <1>0, ManagedVaultType DEF RaydiumVault
<1>1. ASSUME NEW p \in PositionIds, NEW r \in Ranges, RaydiumOpenPosition(v, p, r)
      PROVE  Snapshots(v)
  <2> DEFINE vault == NftRecorded(vaults[v], p, r)
  <2>1. /\ RaydiumVault(v) /\ WithoutVaultPosition(v)
        /\ vaults' = [vaults EXCEPT ![v] = vault]
    BY <1>1 DEF RaydiumOpenPosition, NftRecorded, TypeOK
  <2>2. /\ vault \in VaultAccount /\ vault.position_mint = p
        /\ vault.transfer_fees = PairTransferFees
    BY <1>0, <2>1, NftRecord, NftSnapshot
  <2> HIDE DEF vault
  <2> QED
    BY <1>0, <2>1, <2>2, SnapshotTaken
<1>2. ASSUME RaydiumVault(v), vaults' = [vaults EXCEPT ![v] = WithoutPosition(vaults[v])]
      PROVE  Snapshots(v)
  <2>1. /\ WithoutPosition(vaults[v]).transfer_fees = vaults[v].transfer_fees
        /\ WithoutPosition(vaults[v]).position_mint = Null
    BY <1>0, <1>2 DEF WithoutPosition, VaultAccount
  <2> QED
    BY <1>2, <2>1, SnapshotKept
<1>3. ASSUME NEW r \in Ranges, RaydiumVault(v),
             vaults' = [vaults EXCEPT ![v] = RecordPendingRebalance(vaults[v], r)]
      PROVE  Snapshots(v)
  <2> DEFINE vault == RecordPendingRebalance(vaults[v], r)
  <2>1. /\ WithoutPosition(vaults[v]) \in VaultAccount
        /\ WithoutPosition(vaults[v]).transfer_fees = vaults[v].transfer_fees
        /\ WithoutPosition(vaults[v]).position_mint = Null
    BY <1>0, <1>3, NftForgotten DEF WithoutPosition, VaultAccount
  <2>2. /\ vault.transfer_fees = vaults[v].transfer_fees
        /\ vault.position_mint = Null
    BY <2>1 DEF RecordPendingRebalance, VaultAccount
  <2>3. vaults' = [vaults EXCEPT ![v] = vault]
    BY <1>3
  <2> HIDE DEF vault
  <2> QED
    BY <2>2, <2>3, SnapshotKept
<1>4. ASSUME NEW p \in PositionIds, NEW max, NEW used,
             RetryPendingRebalanceRaydium(v, p, max, used)
      PROVE  Snapshots(v)
  <2> DEFINE r == vaults[v].pending_rebalance.range
             opened == NftRecorded(vaults[v], p, r)
             vault == [opened EXCEPT !.pending_rebalance = Null]
  <2>1. /\ RaydiumVault(v) /\ WithoutVaultPosition(v)
        /\ vaults[v].pending_rebalance # Null
        /\ vaults' = [vaults EXCEPT ![v] = vault]
    BY <1>4 DEF RetryPendingRebalanceRaydium, RecordRebalancedPosition, NftRecorded, TypeOK
  <2>2. r \in Ranges
    BY <1>0, <2>1 DEF VaultAccount, PendingRebalance
  <2>3. /\ opened \in VaultAccount /\ opened.position_mint = p
        /\ opened.transfer_fees = PairTransferFees
    BY <1>0, <2>1, <2>2, NftRecord, NftSnapshot
  <2> HIDE DEF r, opened
  <2>4. /\ vault \in VaultAccount /\ vault.position_mint = p
        /\ vault.transfer_fees = PairTransferFees
    BY <2>3, ClearPendingType DEF VaultAccount
  <2> HIDE DEF vault
  <2>5. Exists(v)
    BY <1>0, <2>1
  <2> QED
    BY <2>1, <2>4, <2>5, SnapshotTaken
<1>5. CASE vaults' = vaults
  BY <1>5, SnapshotUntouched
<1>6. CASE RaydiumClosePosition(v)
  BY <1>2, <1>6 DEF RaydiumClosePosition, RaydiumPosition, TypeOK
<1>7. ASSUME NEW r \in Ranges, NEW min, StartRebalanceRaydium(v, r, min)
      PROVE  Snapshots(v)
  BY <1>3, <1>7 DEF StartRebalanceRaydium, RaydiumPosition, TypeOK
<1> QED
  BY <1>1, <1>4, <1>5, <1>6, <1>7 DEF ManageRaydium, RaydiumIncreaseLiquidity,
     RaydiumDecreaseLiquidity, RaydiumCollectFees

\* execute_action_*.rs, retry_pending_rebalance*.rs: an open, the second leg of
\* a rebalance included, records what the mints carry then, and no other step
\* rewrites the snapshot of a vault that stays.
THEOREM OpensTakeTheSnapshot == Spec => SnapshotIsTakenAtOpen
<1>1. ASSUME TypeOK, Ownership, [Next]_vars, NEW v \in Vaults,
             Exists(v), vaults'[v] # Null
      PROVE  Snapshots(v)
  <2>1. ASSUME NEW w \in Vaults, Instruction(w), w # v
        PROVE  Snapshots(v)
    BY <1>1, <2>1, InstructionIsLocal, SnapshotUntouched DEF Local, OnlyVault
  <2>2. CASE Instruction(v)
    BY <1>1, <2>2, OwnSnapshot, MeteoraSnapshot, OrcaSnapshot, RaydiumSnapshot
       DEF Instruction
  <2>3. CASE Administer \/ Trade \/ TokenPrograms \/ Tick \/ UNCHANGED vars
    BY <1>1, <2>3, EnvironmentIsLocal, SnapshotUntouched
  <2> QED
    BY <1>1, <2>1, <2>2, <2>3 DEF Next, Instruction
<1>2. TypeOK /\ Ownership /\ [Next]_vars =>
        [\A v \in Vaults : Exists(v) /\ vaults'[v] # Null =>
           LET opens == vaults'[v].position_mint \notin {Null, vaults[v].position_mint}
           IN  vaults'[v].transfer_fees =
                 IF opens THEN PairTransferFees ELSE vaults[v].transfer_fees]_vars
  BY <1>1 DEF Snapshots
<1> QED
  BY <1>2, OwnershipInvariant, PTL DEF Spec, SnapshotIsTakenAtOpen

----------------------------------------------------------------------------
(* The pause *)

Paused == config # Null /\ config.is_paused

\* Nothing enters a vault or the treasury, nothing is opened or closed.
HeldStill ==
    /\ treasury' = treasury
    /\ \A p \in PositionIds : (positions[p] = Null) = (positions'[p] = Null)
    /\ \A v \in Vaults : Covers(accounts[v].amount, accounts'[v].amount)

\* Every managing handler reads the pause.
LEMMA PauseStopsManaging ==
  ASSUME Paused, NEW v \in Vaults
  PROVE  ~ManageMeteora(v) /\ ~ManageOrca(v) /\ ~ManageRaydium(v)
<1>0. ~NotPaused
  BY DEF Paused, NotPaused
<1>1. ~ManageMeteora(v)
  BY <1>0 DEF ManageMeteora, MeteoraOpenPosition, MeteoraIncreaseLiquidity,
     MeteoraDecreaseLiquidity, MeteoraCollectFees, MeteoraClosePosition,
     ManualRebalance, MeteoraPosition, MeteoraVault, ManagedVault
<1>2. ~ManageOrca(v)
  BY <1>0 DEF ManageOrca, OrcaOpenPosition, OrcaIncreaseLiquidity,
     OrcaDecreaseLiquidity, OrcaCollectFees, OrcaClosePosition,
     StartRebalanceOrca, RetryPendingRebalance, OrcaPosition, OrcaVault,
     ManagedVault
<1>3. ~ManageRaydium(v)
  BY <1>0 DEF ManageRaydium, RaydiumOpenPosition, RaydiumIncreaseLiquidity,
     RaydiumDecreaseLiquidity, RaydiumCollectFees, RaydiumClosePosition,
     StartRebalanceRaydium, RetryPendingRebalanceRaydium, RaydiumPosition,
     RaydiumVault, ManagedVault
<1> QED
  BY <1>1, <1>2, <1>3

\* Token accounts whose amounts only fall.
LEMMA FallingAmounts ==
  ASSUME TypeOK, NEW v \in Vaults, NEW accts,
         Covers(accounts[v].amount, accts.amount),
         accounts' = [accounts EXCEPT ![v] = accts]
  PROVE  \A w \in Vaults : Covers(accounts[w].amount, accounts'[w].amount)
<1>1. ASSUME NEW w \in Vaults PROVE Covers(accounts[w].amount, accounts[w].amount)
  BY DEF TypeOK, TokenAccounts, Coins, Covers
<1>2. \A w \in Vaults : accounts'[w] = IF w = v THEN accts ELSE accounts[w]
  BY DEF TypeOK
<1> QED
  BY <1>1, <1>2

\* What an exit leaves behind.
LEMMA ExitFalls ==
  ASSUME NEW accts \in TokenAccounts, NEW out \in Coins, NEW S
  PROVE  /\ Covers(accts.amount, Debit(accts, out).amount)
         /\ Covers(accts.amount, Close(Debit(accts, out), S).amount)
<1>1. accts.amount \in Coins /\ Minus(accts.amount, out) = Debit(accts, out).amount
  BY DEF TokenAccounts, Debit
<1>2. Covers(accts.amount, Minus(accts.amount, out))
  BY <1>1 DEF Covers, Minus, Coins
<1>3. Close(Debit(accts, out), S).amount = Debit(accts, out).amount
  BY DEF Close, Debit, TokenAccounts
<1> QED
  BY <1>1, <1>2, <1>3

LEMMA PausedOwn ==
  ASSUME TypeOK, Paused, NEW v \in Vaults, Own(v)
  PROVE  HeldStill
<1>0. accounts[v] \in TokenAccounts /\ accounts[v].amount \in Coins
  BY DEF TypeOK, TokenAccounts
<1>1. treasury' = treasury /\ positions' = positions
  BY DEF Own, Exit, CreateVault, Deposit, Withdraw, EmergencyWithdraw,
     CancelPendingRebalance
<1>2. ASSUME NEW width, CreateVault(v, width)
      PROVE  \A w \in Vaults : Covers(accounts[w].amount, accounts'[w].amount)
  <2> DEFINE accts == [accounts[v] EXCEPT !.open = accounts[v].open \cup Pair]
  <2>1. accounts' = [accounts EXCEPT ![v] = accts]
    BY <1>2 DEF CreateVault
  <2>2. Covers(accounts[v].amount, accts.amount)
    BY <1>0 DEF TokenAccounts, Covers, Coins
  <2> HIDE DEF accts
  <2> QED
    BY <2>1, <2>2, FallingAmounts
<1>3. ASSUME NEW S, NEW pct, NEW min, Withdraw(v, S, pct, min)
      PROVE  \A w \in Vaults : Covers(accounts[w].amount, accounts'[w].amount)
  <2> DEFINE out == ShareOf(Only(S, accounts[v].amount), pct)
  <2>1. pct \in 0 .. BpsDivisor
    BY <1>3, ShareIsBps DEF Withdraw
  <2>2. out \in Coins
    BY <1>0, <2>1, OnlyType, ShareOfType
  <2>3. \/ accounts' = [accounts EXCEPT ![v] = Debit(accounts[v], out)]
        \/ accounts' = [accounts EXCEPT ![v] = Close(Debit(accounts[v], out), S)]
    BY <1>3 DEF Withdraw, CloseVault
  <2> HIDE DEF out
  <2> QED
    BY <1>0, <2>2, <2>3, ExitFalls, FallingAmounts
<1>4. ASSUME NEW S, EmergencyWithdraw(v, S)
      PROVE  \A w \in Vaults : Covers(accounts[w].amount, accounts'[w].amount)
  <2> DEFINE out == Only(S, accounts[v].amount)
  <2>1. out \in Coins
    BY <1>0, OnlyType
  <2>2. accounts' = [accounts EXCEPT ![v] = Close(Debit(accounts[v], out), S)]
    BY <1>4 DEF EmergencyWithdraw, CloseVault
  <2> HIDE DEF out
  <2> QED
    BY <1>0, <2>1, <2>2, ExitFalls, FallingAmounts
<1>5. CASE CancelPendingRebalance(v)
  <2>1. \A w \in Vaults : Covers(accounts[w].amount, accounts'[w].amount)
    BY <1>5 DEF CancelPendingRebalance, TypeOK, TokenAccounts, Coins, Covers
  <2> QED
    BY <1>1, <2>1 DEF HeldStill
<1>6. ~NotPaused
  BY DEF Paused, NotPaused
<1> QED
  BY <1>1, <1>2, <1>3, <1>4, <1>5, <1>6 DEF Own, Exit, Deposit, HeldStill

LEMMA PausedEnvironment ==
  ASSUME TypeOK, Administer \/ Trade \/ TokenPrograms \/ Tick \/ UNCHANGED vars
  PROVE  HeldStill
<1>1. treasury' = treasury
  BY DEF Administer, InitializeProtocol, SetProtocolPause, Trade, AccrueFees,
     AccrueReward, TraderSwap, FundRewardVault, TokenPrograms, HarvestWithheld,
     OpenRewardAccount, SetTransferFee, NewEpoch, Tick, vars
<1>2. \A v \in Vaults : Covers(accounts[v].amount, accounts'[v].amount)
  BY EnvironmentFunds DEF Undisturbed, TypeOK, TokenAccounts, Coins, Covers
<1>3. \A p \in PositionIds : (positions[p] = Null) = (positions'[p] = Null)
  <2>1. ASSUME NEW p \in PositionIds, NEW m \in Pair, AccrueFees(p, m),
               NEW q \in PositionIds
        PROVE  (positions[q] = Null) = (positions'[q] = Null)
    <3>1. Frame
      BY <2>1, AccrueFeesFrame
    <3>2. positions'[q] # Null => positions[q] # Null
      BY <2>1 DEF AccrueFees, Earning, TypeOK
    <3> QED
      BY <3>1, <3>2 DEF Frame, Keeps
  <2>2. ASSUME NEW p \in PositionIds, AccrueReward(p), NEW q \in PositionIds
        PROVE  (positions[q] = Null) = (positions'[q] = Null)
    <3>1. Frame
      BY <2>2, AccrueRewardFrame
    <3>2. positions'[q] # Null => positions[q] # Null
      BY <2>2 DEF AccrueReward, Earning, TypeOK
    <3> QED
      BY <3>1, <3>2 DEF Frame, Keeps
  <2>3. ASSUME NEW p \in PositionIds, NEW sold \in Pair, NEW bought \in Pair,
               TraderSwap(p, sold, bought), NEW q \in PositionIds
        PROVE  (positions[q] = Null) = (positions'[q] = Null)
    <3>1. Frame
      BY <2>3, TraderSwapFrame
    <3>2. positions'[q] # Null => positions[q] # Null
      BY <2>3 DEF TraderSwap, Earning, TypeOK
    <3> QED
      BY <3>1, <3>2 DEF Frame, Keeps
  <2>4. MintA \in Pair /\ MintB \in Pair
    BY DEF Pair
  <2>5. CASE Trade
    BY <2>1, <2>2, <2>3, <2>4, <2>5 DEF Trade, FundRewardVault
  <2> QED
    BY <2>5 DEF Administer, InitializeProtocol, SetProtocolPause, TokenPrograms,
       HarvestWithheld, OpenRewardAccount, SetTransferFee, NewEpoch, Tick, vars
<1> QED
  BY <1>1, <1>2, <1>3 DEF HeldStill

\* execute_action*.rs, deposit.rs: under the pause, in whatever state it is
\* raised, the treasury, the positions and the vaults' balances can only stay,
\* or, for a balance, go out to its owner.
THEOREM PauseHolds == Spec => PausedMovesNothingIn
<1>1. ASSUME TypeOK, [Next]_vars, Paused
      PROVE  HeldStill
  BY <1>1, PauseStopsManaging, PausedOwn, PausedEnvironment DEF Next
<1>2. TypeOK /\ [Next]_vars =>
        [config # Null /\ config.is_paused =>
          /\ treasury' = treasury
          /\ \A p \in PositionIds : (positions[p] = Null) = (positions'[p] = Null)
          /\ \A v \in Vaults : Covers(accounts[v].amount, accounts'[v].amount)]_vars
  BY <1>1 DEF Paused, HeldStill
<1> QED
  BY <1>2, TypeCorrect, PTL DEF Spec, PausedMovesNothingIn
=============================================================================
