-------------------------- MODULE DocumentedPromises --------------------------
(***************************************************************************)
(* What the docs and comments of the repository say of the program and the *)
(* code does not do.  Each formula states the documented behaviour; the    *)
(* run that checks it exhibits the behaviour of the code that refutes it.  *)
(***************************************************************************)
EXTENDS AargauAccounting

\* lib.rs:14, withdraw.rs:113 and emergency_withdraw.rs:70: the exits work on an
\* idle vault, so closing a vault never forgets a live position.  In the code
\* neither handler looks at position_address.
ExitsLeaveNoPosition ==
    [][\A v \in Vaults : ExitsIn(v) => ~HasActivePosition(v)]_vars

\* emergency_withdraw.rs:10-12: it is always available to the owner.  In the code
\* it closes the token accounts, which Token-2022 refuses while they withhold
\* transfer fees.
EmergencyWithdrawIsAlwaysAvailable ==
    \A v \in Vaults : Exists(v) => ENABLED EmergencyWithdraw(v, Pair)

\* start_rebalance_orca.rs:8-10, start_rebalance_raydium.rs:8-9 and the test
\* contract of a rebalance whose open leg never runs: the drained tokens stay
\* withdrawable, so an owner can withdraw some share of what a pending vault
\* holds.  In the code withdraw refuses a pending vault, whatever the share.
PendingFundsAreWithdrawable ==
    \A v \in Vaults :
        /\ Exists(v) /\ vaults[v].pending_rebalance # Null
        /\ SomeOf(Only(Pair, accounts[v].amount))
        => \E pct \in Shares : ENABLED Withdraw(v, Pair, pct, NoCoins)

\* start_rebalance_orca.rs:26: a reward of an incompatible mint is skipped,
\* never fatal, so a funded position can be rebalanced.  In the code the skipped
\* reward stays owed, and Whirlpools refuses to close a position that owes one.
SkippedRewardIsNeverFatal ==
    \A v \in Vaults :
        LET out == Net(ActivePosition(v).principal)
        IN  OrcaPosition(v) /\ SomeOf(Only(Pair, out)) =>
              \A r \in Ranges : Ordered(r) =>
                  ENABLED StartRebalanceOrca(v, r, BpsDivisor, out)
=============================================================================
