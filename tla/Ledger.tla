------------------------------- MODULE Ledger -------------------------------
(***************************************************************************)
(* What topping up promises, whatever the app shows: a payment is charged  *)
(* once and credited once, after its charge and with its own amount, and   *)
(* nothing else adds to the account.  WalletTopUp implements it.           *)
(***************************************************************************)
EXTENDS Naturals, FiniteSets

CONSTANTS
    Payments,   \* payments ever begun
    Amount,     \* what each of them adds
    Opening     \* what the account holds to begin with

VARIABLES
    account,    \* what it holds
    charged,    \* the payments whose card was charged
    credited    \* those the account was credited for

vars == <<account, charged, credited>>

Init == account = Opening /\ charged = {} /\ credited = {}

Charge(t) ==
    /\ t \in Payments \ charged /\ charged' = charged \cup {t}
    /\ UNCHANGED <<account, credited>>

Credit(t) ==
    /\ t \in charged \ credited /\ credited' = credited \cup {t}
    /\ account' = account + Amount
    /\ UNCHANGED charged

Spend ==
    /\ account' \in {a \in 0 .. account : a < account}
    /\ UNCHANGED <<charged, credited>>

Next == Spend \/ \E t \in Payments : Charge(t) \/ Credit(t)

Spec == Init /\ [][Next]_vars

\* The account never holds more than was there and what charged cards have paid in.
Backed == account <= Opening + Amount * Cardinality(charged)

=============================================================================
