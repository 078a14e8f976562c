------------------------------- MODULE MCAargau -------------------------------
(***************************************************************************)
(* Small instances of the program for TLC.  Chunks of 5 make a 20% fee on  *)
(* one chunk exactly 1, so that floors and transfer fees are visible.      *)
(***************************************************************************)
EXTENDS DocumentedPromises, TLC

CONSTANTS v1, v2, alice, bob, a, b, rwd

OneUser == {alice}
OneVault == {v1}
OwnerIsAlice == [v \in Vaults |-> alice]

BothUsers == {alice, bob}
BothVaults == {v1, v2}
OneEach == (v1 :> alice) @@ (v2 :> bob)

AllOrca == [v \in Vaults |-> "Orca"]
AllRaydium == [v \in Vaults |-> "Raydium"]
AllMeteora == [v \in Vaults |-> "Meteora"]
OrcaAndRaydium == (v1 :> "Orca") @@ (v2 :> "Raydium")

\* Balances by mint; a reward mint that is one of the pair counts as that.
Balances(inA, inB, inReward) ==
    [m \in Mints |-> IF m = a THEN inA ELSE IF m = b THEN inB ELSE inReward]

FreeMints == [m \in Mints |-> NoTransferFee]
TwentyPercent == [bps |-> 2000, max |-> 2]
FortyPercentCapped == [bps |-> 4000, max |-> 1]
TransferFeeConfigs == {TwentyPercent, FortyPercentCapped}
FeeOnA == [m \in Mints |-> IF m = a THEN TwentyPercent ELSE NoTransferFee]

WalletOfFive == [u \in Users |-> Balances(5, 0, 0)]
MarketOfFive == Balances(5, 0, 0)
MarketOfTen == Balances(10, 0, 0)
MarketOfFifteen == Balances(15, 0, 0)

MarketWithRewards == Balances(5, 0, 5)
MarketOfBoth == Balances(5, 5, 0)

NoMints == {}
OnlyReward == {rwd}
AllPair == {a, b}
OnlyA == {a}

\* Openable; openable elsewhere; off the spacing; not ordered.
OneTickRange == {<<-8, 8>>}
TickRanges == {<<-8, 8>>, <<8, 16>>, <<3, 9>>, <<8, -8>>}
\* Legal twice; 70 bins; outside the inline bitmap; not ordered.
BinRanges == {<<-5, 5>>, <<0, 68>>, <<0, 69>>, <<5450, 5461>>, <<5, 4>>}
=============================================================================
