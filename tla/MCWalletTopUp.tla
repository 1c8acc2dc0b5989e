--------------------------- MODULE MCWalletTopUp ---------------------------
(* Two payments at once, and a fare that is as much as the account can hold.  *)
(* MCWalletTopUp.cfg: notices over the screens of a payment, one balance and  *)
(* one price on their way to the form.  MCWalletTopUpOrders.cfg: fewer        *)
(* notices, two balances and two prices that overtake each other.             *)
EXTENDS WalletTopUp, TLC

CONSTANTS p1, p2, s1, s2

Symmetric == Permutations({p1, p2}) \cup Permutations({s1, s2})
=============================================================================
