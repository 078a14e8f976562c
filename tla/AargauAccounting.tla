--------------------------- MODULE AargauAccounting ---------------------------
(***************************************************************************)
(* Who ends up with the tokens: the treasury's cut and the owner's rest.   *)
(***************************************************************************)
EXTENDS AargauManager, Functions

\* A ledger holds finitely many accounts.
ASSUME LedgerAssumption == IsFiniteSet(Users) /\ IsFiniteSet(Vaults)

\* LP fees that leave position p in this step.
FeesLeaving(p) ==
    IF positions[p] = Null THEN NoCoins
    ELSE [m \in Mints |->
            LET left == IF positions'[p] = Null THEN 0 ELSE positions'[p].fees[m]
            IN  SaturatingSub(positions[p].fees[m], left)]

\* A Meteora position closed before its fees are claimed takes them with it.
Forfeits(p) ==
    /\ positions[p] # Null /\ positions'[p] = Null
    /\ Protocol[positions[p].owner] = "Meteora"

\* The performance fee on c, and what the treasury receives of it.
Cut(c) == [m \in Mints |-> (Net(c)[m] * config.fee_rate_bps) \div BpsDivisor]

\* The treasury grows by the floored performance fee on the LP fees that left a
\* position in the same step, and by nothing else: no instruction taxes
\* principal or rewards, taxes the same fees twice, or moves LP fees to the
\* vault untaxed.
TreasuryTakesOnlyItsCut ==
    [][LET collected == {p \in PositionIds : SomeOf(FeesLeaving(p)) /\ ~Forfeits(p)}
       IN  IF collected = {} THEN treasury' = treasury
           ELSE \E p \in PositionIds :
                   /\ collected = {p}
                   /\ treasury' = Plus(treasury, Net(Cut(FeesLeaving(p))))]_vars

----------------------------------------------------------------------------
\* The owner of v reaches its token accounts while the vault exists or can be
\* created again, which takes the pair's accounts closed.
Reaches(v) == Exists(v) \/ accounts[v].open \cap Pair = {}

\* What the owner of v can still reach of mint m through v.
Reachable(v, m) ==
    (IF Reaches(v) THEN accounts[v].amount[m] ELSE 0) +
    (IF Exists(v) /\ HasActivePosition(v)
       THEN ActivePosition(v).principal[m] + ActivePosition(v).fees[m]
       ELSE 0)

\* Every token of mint m that somebody still reaches.
Accounted(m) ==
    market[m] + treasury[m]
      + (IF m = RewardMint THEN rewardVault ELSE 0)
      + SumFunction([u \in Users |-> wallet[u][m]])
      + SumFunction([v \in Vaults |-> Reachable(v, m)])

\* What an exit of v leaves behind of mint m: the live position it forgets, and
\* the balance of a token account of the pair it does not close, beside which
\* the vault cannot be created again.
LeftBehind(v, m) ==
    (IF HasActivePosition(v)
       THEN ActivePosition(v).principal[m] + ActivePosition(v).fees[m]
       ELSE 0) +
    (IF Reaches(v)' THEN 0 ELSE accounts'[v].amount[m])

\* Of a mint without transfer fees, no instruction loses or creates a token:
\* what leaves a wallet, a position, a vault or the reward vault arrives
\* somewhere its owner or the treasury reaches.  The exceptions lose an exact
\* amount and no more: an exit what it leaves behind, a Meteora close the
\* unclaimed fees.  Trade with a position that was orphaned earlier is none of
\* the owner's.
NothingLeaks ==
    [][\A m \in Mints \ TransferFeeMints :
          \/ Accounted(m)' = Accounted(m)
          \/ \E v \in Vaults :
                /\ ExitsIn(v)
                /\ Accounted(m)' = Accounted(m) - LeftBehind(v, m)
          \/ \E p \in PositionIds :
                /\ Forfeits(p)
                /\ Accounted(m)' = Accounted(m) - positions[p].fees[m]
          \/ \E p \in PositionIds :
                /\ positions[p] # Null /\ positions'[p] # positions[p]
                /\ \A v \in Vaults : Exists(v) => Recorded(v) # p]_vars
=============================================================================
