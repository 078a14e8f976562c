----------------------------- MODULE PositionCpi -----------------------------
(***************************************************************************)
(* What the CPIs into the DEX programs do to a position and to the token   *)
(* accounts of the vault that owns it, and the performance-fee split the   *)
(* three protocols make on collected LP fees.  An operator maps the state  *)
(* before a CPI to the state after it; an instruction composes several.    *)
(*                                                                         *)
(* A position has liquidity exactly when it holds some principal.          *)
(***************************************************************************)
EXTENDS AargauState

\* Guards every position-managing handler starts with: the pause gate, a
\* vault of the handler's protocol, its pair's accounts.
\* Mutant: the pause gate is missing.
UngatedManagedVault(v, protocol) ==
    /\ config # Null
    /\ Exists(v)
    /\ Protocol[v] = protocol
    /\ Pair \subseteq accounts[v].open

ManagedVault(v, protocol) ==
    /\ NotPaused
    /\ Exists(v)
    /\ Protocol[v] = protocol
    /\ Pair \subseteq accounts[v].open

HasLiquidity(pos) == SomeOf(pos.principal)

----------------------------------------------------------------------------
(* Liquidity *)

\* The ceilings of an increase: some side, never more than the vault holds.
\* Mutant: the vault's balances are not compared.
UnfundedCeilings(accts, max) == SomeOf(Only(Pair, max))
FundedCeilings(accts, max) == SomeOf(Only(Pair, max)) /\ Covers(accts.amount, max)

\* The DEX takes what the price needs of each side, within the ceilings.
\* Orca and Raydium are asked for a positive liquidity, so they take something.
TakenWithin(used, max) == Covers(max, used)

AddLiquidity(pos, used) == [pos EXCEPT !.principal = Plus(@, Net(used))]

Removed(pos, bps) == ShareOf(pos.principal, bps)

RemoveLiquidity(pos, bps) ==
    [pos EXCEPT !.principal = Minus(@, Removed(pos, bps))]

----------------------------------------------------------------------------
(* LP fees *)

ClaimFees(pos) == [pos EXCEPT !.fees = NoCoins]

\* Orca and Meteora: the fee base is the growth of the vault's token accounts
\* over the fee CPI, i.e. what arrived of the position's fees.
\* Mutants: the growth is read after the rewards, or after the principal.
FeeBaseWithRewards(pos) ==
    Net(Plus(pos.fees,
             OfReward(IF RewardMint = Null THEN 0 ELSE AtMost(pos.reward, rewardVault))))
FeeBaseWithPrincipal(pos) == Net(Plus(pos.fees, pos.principal))
FeeBase(pos) == Net(pos.fees)

\* The vault's token accounts after the fees in and the treasury's cut out.
SplitFees(accts, pos, base) == Debit(Credit(accts, pos.fees), AargauFee(base))

TreasuryAfter(base) == Plus(treasury, Net(AargauFee(base)))

----------------------------------------------------------------------------
(* Rewards *)

\* The pool pays what its reward vault can and leaves the rest owed.
RewardPayable(pos) ==
    IF RewardMint = Null THEN 0 ELSE AtMost(pos.reward, rewardVault)

PayReward(pos, paid) == [pos EXCEPT !.reward = @ - paid]

----------------------------------------------------------------------------
(* Open and close *)

\* Mutant: an address in use is accepted.
AnyPosition(p) == p \in PositionIds
FreshPosition(p) == positions[p] = Null

\* Mutant: a second position replaces the recorded one.
WithOrWithoutVaultPosition(v) == Exists(v)
WithoutVaultPosition(v) == Recorded(v) = Null

\* New contents pos of the position the vault records.
ActivePositionBecomes(v, pos) == positions' = [positions EXCEPT ![Recorded(v)] = pos]
=============================================================================
