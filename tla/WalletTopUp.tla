---------------------------- MODULE WalletTopUp ----------------------------
(***************************************************************************)
(* Money: the wallet is topped up by a card payment, and pays for orders.  *)
(*                                                                         *)
(* PaymentScreen charges the card in the plugin's checkout dialog and then *)
(* has the wallet credited by a request of its own, saveWallet.  Its answer *)
(* pops a route, and whichever is on top by then goes: PaymentScreen, or a *)
(* second checkout, or, while PaymentScreen is on its way out, what is     *)
(* below it.  Nothing stops the rider from paying again or leaving before. *)
(* Nor does the app look at what it takes when an outage (Outages) is over *)
(* and it pops the notice of it: if that is gone, the checkout goes.       *)
(*                                                                         *)
(* The booking form asks for price and balance when it opens and again     *)
(* when a wallet opened from it closes; answers are applied as they come.  *)
(* An order from the wallet is refused here if the two do not allow it.    *)
(*                                                                         *)
(* Left out: the balance and the list WalletScreen shows, which nothing    *)
(* else reads; the order after it is booked (RideBooking).                 *)
(***************************************************************************)
EXTENDS Naturals, Sequences

CONSTANTS
    Payments,   \* checkouts ever started, each with a reference of its own
    Amount,     \* what each of them adds
    Opening,    \* the balance to begin with
    Fares,      \* prices that can be computed from the distance matrix
    Slots,      \* bound: the form's questions for its balance in flight
    MaxPricing, \* bound: those for the price in flight when one more is asked
    MaxDepth    \* bound: routes on the stack when one more notice is pushed

ASSUME MoneyAssumption ==
    /\ Amount \in Nat /\ Opening \in Nat /\ Fares \subseteq Nat
    /\ MaxPricing \in Nat /\ MaxDepth \in Nat

VARIABLES
    stack,      \* routes, the one on top last
    stage,      \* how far each payment is
    view,       \* its PaymentScreen: "here", "leaving" (popped, mounted), "gone"
    balance,    \* external: what the account holds
    asks,       \* the form's getWalletData calls
    pricing,    \* its calls for the distance matrix
    told,       \* mTotalAmount
    fare,       \* mRideTotalAmount
    order,      \* the last order it has sent
    booked,     \* the order is answered, and the form no longer shown
    paid,       \* history: the card was charged
    credits,    \* history: how often the payment was credited
    most        \* history: the most the account held since the form was opened

payments == <<stage, view, paid, credits>>
form == <<asks, pricing, told, fare, order, booked>>
account == <<balance, most>>
vars == <<stack, payments, account, form>>

\* "notice" is NoInternetScreen or LocationPermissionScreen.
Screens == {"home", "form", "wallet", "payment", "checkout", "notice"}
Stages == {"new", "checkout", "charged", "saving", "credited", "late", "over"}
NoOrder == [method |-> "none", amount |-> 0]
NoAsk == [at |-> "idle", balance |-> 0]

TypeOK ==
    /\ stack \in Seq(Screens)
    /\ stage \in [Payments -> Stages]
    /\ view \in [Payments -> {"here", "leaving", "gone"}]
    /\ asks \in [Slots -> [at : {"idle", "asked", "answered"}, balance : Nat]]
    /\ pricing \in Nat
    /\ {balance, told, fare, most} \subseteq Nat
    /\ order \in [method : {"none", "cash", "wallet"}, amount : Nat]
    /\ booked \in BOOLEAN
    /\ paid \in [Payments -> BOOLEAN]
    /\ credits \in [Payments -> Nat]

\* The fields of a form that is gone are cleared: nothing reads them again.
Cleared ==
    /\ asks' = [s \in Slots |-> NoAsk] /\ pricing' = 0
    /\ told' = 0 /\ fare' = 0 /\ order' = NoOrder /\ booked' = FALSE

Init ==
    /\ stack = <<"home">>
    /\ stage = [t \in Payments |-> "new"] /\ view = [t \in Payments |-> "gone"]
    /\ asks = [s \in Slots |-> NoAsk] /\ pricing = 0
    /\ told = 0 /\ fare = 0 /\ order = NoOrder /\ booked = FALSE
    /\ balance = Opening /\ most = Opening
    /\ paid = [t \in Payments |-> FALSE] /\ credits = [t \in Payments |-> 0]

Top == IF stack = <<>> THEN "nothing" ELSE stack[Len(stack)]
Push(screen) == stack' = Append(stack, screen)
Under == stack[Len(stack) - 1]

\* init of the form: price and balance are asked for.
FormInit ==
    /\ \E s \in Slots : asks[s].at = "idle" /\ asks' = [asks EXCEPT ![s].at = "asked"]
    /\ pricing <= MaxPricing /\ pricing' = pricing + 1
    /\ UNCHANGED <<told, fare, order, booked>>

\* Navigator.pop, when the payments are at the stages st.  A checkout that goes
\* without a result counts as failed; when a wallet goes, the form that opened
\* it runs its init again.
Pop(st) ==
    /\ stack' = SubSeq(stack, 1, Len(stack) - 1)
    /\ stage' = [t \in Payments |->
                    IF Top = "checkout" /\ st[t] \in {"checkout", "charged"}
                      THEN "over" ELSE st[t]]
    /\ view' = [t \in Payments |->
                    IF Top = "payment" /\ view[t] = "here" THEN "leaving" ELSE view[t]]
    /\ CASE Top = "wallet" /\ Under = "form" -> FormInit
         [] Top = "form"                     -> Cleared
         [] OTHER                            -> UNCHANGED form

------------------------------------------------------------------------------
(* The screens.                                                            *)

OpenForm ==
    /\ Top = "home" /\ Push("form")
    /\ \E s \in Slots :
          asks' = [r \in Slots |-> IF r = s THEN [NoAsk EXCEPT !.at = "asked"] ELSE NoAsk]
    /\ pricing' = 1 /\ told' = 0 /\ fare' = 0 /\ order' = NoOrder /\ booked' = FALSE
    /\ most' = balance
    /\ UNCHANGED <<payments, balance>>

\* From the drawer, or by the form's "Add money", which is shown if the last
\* build found too little; a balance that is told brings about no build.
OpenWallet ==
    /\ Top = "home" \/ (Top = "form" /\ ~booked)
    /\ Push("wallet")
    /\ UNCHANGED <<payments, account, form>>

OpenPayment ==
    /\ Top = "wallet" /\ Push("payment")
    /\ UNCHANGED <<payments, account, form>>

\* The rider goes back; from a checkout that is the plugin's affair.
Back ==
    /\ Top \in {"form", "wallet", "payment", "notice"}
    /\ Pop(stage)
    /\ UNCHANGED <<account, paid, credits>>

\* The network or the location service goes: a notice, whatever is on top.
Notify ==
    /\ Len(stack) < MaxDepth /\ Push("notice")
    /\ UNCHANGED <<payments, account, form>>

\* It is back, and a route is popped: the notice, or what is on top if the notice was
\* popped by another or, for a home screen that heard of no loss, never pushed.
OutageOver ==
    /\ stack # <<>>
    /\ Pop(stage)
    /\ UNCHANGED <<account, paid, credits>>

\* The transition of a PaymentScreen ends.
Unmount ==
    /\ \E t \in Payments : view[t] = "leaving"
    /\ view' = [t \in Payments |-> IF view[t] = "leaving" THEN "gone" ELSE view[t]]
    /\ UNCHANGED <<stack, stage, paid, credits, account, form>>

\* Some other part replaces all screens; the removed ones' futures never complete.
Replace ==
    /\ stack' = <<"home">>
    /\ stage' = [t \in Payments |->
                    IF stage[t] \in {"checkout", "charged"} THEN "over" ELSE stage[t]]
    /\ view' = [t \in Payments |-> IF view[t] = "here" THEN "leaving" ELSE view[t]]
    /\ Cleared
    /\ UNCHANGED <<paid, credits, account>>

\* The process ends and is started again.
Restart ==
    /\ stack' = <<"home">>
    /\ stage' = [t \in Payments |->
                    CASE stage[t] \in {"checkout", "charged", "credited"} -> "over"
                      [] stage[t] = "saving" -> "late"
                      [] OTHER -> stage[t]]
    /\ view' = [t \in Payments |-> "gone"]
    /\ Cleared
    /\ UNCHANGED <<paid, credits, account>>

------------------------------------------------------------------------------
(* A payment.                                                              *)

To(t, s) == stage' = [stage EXCEPT ![t] = s]

\* The dialog is modal: there is one at a time.
Pay(t) ==
    /\ Top = "payment" /\ stage[t] = "new"
    /\ Push("checkout") /\ To(t, "checkout")
    /\ view' = [view EXCEPT ![t] = "here"]
    /\ UNCHANGED <<paid, credits, account, form>>

\* The card is charged; the dialog says so for a while.
Charge(t) ==
    /\ stage[t] = "checkout" /\ To(t, "charged")
    /\ paid' = [paid EXCEPT ![t] = TRUE]
    /\ UNCHANGED <<stack, view, credits, account, form>>

\* It is cancelled or refused: "payment failed".  The dialog pops itself; with a
\* notice over it, that goes instead.
Abandon(t) ==
    /\ stage[t] = "checkout"
    /\ Pop(stage)
    /\ UNCHANGED <<account, paid, credits>>

\* The dialog's result is success, if it is the dialog that goes: paymentConfirm
\* asks for the credit.
Confirm(t) ==
    /\ stage[t] = "charged"
    /\ Pop(IF Top = "checkout" THEN [stage EXCEPT ![t] = "saving"] ELSE stage)
    /\ UNCHANGED <<account, paid, credits>>

\* The backend credits the wallet, also by a request the app has given up.
Serve(t) ==
    /\ stage[t] \in {"saving", "late"}
    /\ To(t, IF stage[t] = "saving" THEN "credited" ELSE "over")
    /\ credits' = [credits EXCEPT ![t] = @ + 1]
    /\ balance' = balance + Amount
    /\ most' = IF most < balance' THEN balance' ELSE most
    /\ UNCHANGED <<stack, view, paid, form>>

\* The request fails, or is no longer waited for, or its answer is dropped.
\* Mutation: the credit is asked for again when its answer was dropped.
AfterFailureRetried(s) == IF s = "saving" THEN {"over", "late"} ELSE {"saving"}
AfterFailure(s) == IF s = "saving" THEN {"over", "late"} ELSE {"over"}

\* What becomes of the screens then: nothing.
\* Mutation: they go back as they do after an answer.
FailedAndLeft(st, mounted) ==
    IF mounted /\ stack # <<>> THEN Pop(st) ELSE stage' = st /\ UNCHANGED <<stack, view, form>>
Failed(st, mounted) == stage' = st /\ UNCHANGED <<stack, view, form>>

Fail(t) ==
    /\ stage[t] \in {"saving", "credited"}
    /\ \E s \in AfterFailure(stage[t]) :
          Failed([stage EXCEPT ![t] = s], view[t] # "gone")
    /\ UNCHANGED <<paid, credits, account>>

\* A request the app has given up never arrives.
Lost(t) ==
    /\ stage[t] = "late" /\ To(t, "over")
    /\ UNCHANGED <<stack, view, paid, credits, account, form>>

\* onCallback, and back: from whatever is on top, if PaymentScreen is mounted; if
\* not its context throws, and with no route left pop does.
Answer(t) ==
    /\ stage[t] = "credited"
    /\ LET done == [stage EXCEPT ![t] = "over"]
       IN  IF view[t] # "gone" /\ stack # <<>>
             THEN Pop(done)
             ELSE stage' = done /\ UNCHANGED <<stack, view, form>>
    /\ UNCHANGED <<paid, credits, account>>

------------------------------------------------------------------------------
(* The booking form.                                                       *)

Tell(s) ==
    /\ asks[s].at = "asked"
    /\ asks' = [asks EXCEPT ![s] = [at |-> "answered", balance |-> balance]]
    /\ UNCHANGED <<stack, payments, account, pricing, told, fare, order, booked>>

Told(s) ==
    /\ asks[s].at = "answered"
    /\ told' = asks[s].balance
    /\ asks' = [asks EXCEPT ![s] = NoAsk]
    /\ UNCHANGED <<stack, payments, account, pricing, fare, order, booked>>

TellFails(s) ==
    /\ asks[s].at # "idle"
    /\ asks' = [asks EXCEPT ![s] = NoAsk]
    /\ UNCHANGED <<stack, payments, account, pricing, told, fare, order, booked>>

\* calculatePrice, or its failure.
Priced ==
    /\ pricing > 0 /\ pricing' = pricing - 1
    /\ fare' \in Fares \cup {fare}
    /\ UNCHANGED <<stack, payments, account, asks, told, order, booked>>

\* The wallet is refused for a price that is not below what the form was told.
\* Mutation: for one that is above it.
RefusedAbove == fare > told
Refused == fare >= told

\* saveBookingData: the price is sent as it is, 0 if it is not known.
Book(method) ==
    /\ Top = "form" /\ ~booked
    /\ method = "wallet" => ~Refused
    /\ order' = [method |-> method, amount |-> fare]
    /\ UNCHANGED <<stack, payments, account, asks, pricing, told, fare, booked>>

Booked ==
    /\ order # NoOrder /\ ~booked /\ booked' = TRUE
    /\ UNCHANGED <<stack, payments, account, asks, pricing, told, fare, order>>

\* The account pays for something.
Debit ==
    /\ balance' \in {b \in 0 .. balance : b < balance}
    /\ UNCHANGED <<stack, payments, form, most>>

Next ==
    \/ OpenForm \/ OpenWallet \/ OpenPayment \/ Back \/ Notify \/ OutageOver
    \/ Unmount \/ Replace \/ Restart
    \/ \E t \in Payments :
          \/ Pay(t) \/ Charge(t) \/ Abandon(t) \/ Confirm(t)
          \/ Serve(t) \/ Fail(t) \/ Lost(t) \/ Answer(t)
    \/ \E s \in Slots : Tell(s) \/ Told(s) \/ TellFails(s)
    \/ Priced \/ Booked \/ Debit
    \/ \E method \in {"cash", "wallet"} : Book(method)

Spec == Init /\ [][Next]_vars

(***************************************************************************)
(* Properties.                                                             *)
(***************************************************************************)

\* A payment is credited once at most, and only if the card was charged, however
\* requests and answers are lost, delayed or overtaken by a restart
\* (payStackPayment and paymentConfirm).
CreditedOnce ==
    \A t \in Payments : credits[t] <= 1 /\ (credits[t] = 1 => paid[t])

\* Once the card is charged the credit is asked for, unless all screens are
\* replaced or the process ends, or the app pops the dialog itself: for the answer of
\* another payment's credit (line 157), or at the end of an outage whose notice is no
\* longer there.  The rider's going back and requests that fail cannot cost a payment.
ChargedIsKept ==
    [][\A t \in Payments :
          stage[t] = "charged" /\ stage'[t] = "over"
          => \/ stack' = <<"home">>
             \/ \E u \in Payments : stage[u] = "credited" /\ stage'[u] = "over"
             \/ OutageOver]_vars

\* An order from the wallet is for less than the account held at some time since
\* its form was opened, whichever answers the form was given in whatever order:
\* a form that was told nothing yet, or something an earlier form asked for,
\* sends none.
FundedOrders ==
    [][order' # order /\ order'.method = "wallet" => order'.amount < most]_vars

\* What was charged and credited, as a ledger has it.
Ledger == INSTANCE Ledger
    WITH account  <- balance,
         charged  <- {t \in Payments : paid[t]},
         credited <- {t \in Payments : credits[t] = 1}

\* The screens, dialogs, requests that fail or come late, restarts and payments at
\* a time leave a ledger: each payment is credited once, after its charge, and
\* nothing else adds to the account (payStackPayment, paymentConfirm).
KeepsLedger == Ledger!Spec

=============================================================================
