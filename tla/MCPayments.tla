----------------------------- MODULE MCPayments ------------------------------
(* Instances of Payments small enough for TLC.                              *)
EXTENDS Payments, TLC

Symmetry == Permutations(Workers) \union Permutations(CoinEvents)

\* An unmapped coin, one that is half the price and one that exceeds it.
MCCoinValues == {0, 1, 3}
=============================================================================
