----------------------------- MODULE MCRewards -----------------------------
(***************************************************************************)
(* Two reward mints, one of which no DEX can move, in up to three slots,   *)
(* so that a blocked slot can lie before, between and after others.        *)
(***************************************************************************)
EXTENDS RewardAccounts

CONSTANTS plain, hooked

MCRewardMints == {plain, hooked}
MCBlockedMints == {hooked}
=============================================================================
