------------------------------- MODULE MCFund -------------------------------
(***************************************************************************)
(* Small instances of Fund.  One unit stands for a dollar; the haircut of  *)
(* a redemption is enlarged so that it shows in whole units.               *)
(***************************************************************************)
EXTENDS Fund, TLC

CONSTANTS alice, bob

BothWallets == {alice, bob}
OneWallet   == {alice}
NoPrices    == {}
LowOffer    == {10}
Twenty      == {20}
Three       == {3}
UpAndDown   == {-2, 2}
NoMemo      == {0}
AnyMemo     == {0, 1, 2}

Wallets == Permutations(BothWallets)
=============================================================================
