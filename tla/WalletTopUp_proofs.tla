------------------------- MODULE WalletTopUp_proofs -------------------------
(* Proofs about the wallet, for any number of payments and of questions in
   flight, any amount and any prices. *)
EXTENDS WalletTopUp, SequenceTheorems, FiniteSetTheorems, TLAPS

\* A payment is charged from one stage and credited from two; none comes again.
Uncredited == {"new", "checkout", "charged", "saving", "late"}
Counted ==
    \A t \in Payments :
       /\ credits[t] <= 1
       /\ stage[t] \in Uncredited => credits[t] = 0
       /\ credits[t] = 1 \/ stage[t] \in {"charged", "saving", "late"} => paid[t]
       /\ stage[t] \in {"new", "checkout"} => ~paid[t]

PaymentSafe ==
    /\ stage \in [Payments -> Stages]
    /\ view \in [Payments -> {"here", "leaving", "gone"}]
    /\ paid \in [Payments -> BOOLEAN]
    /\ credits \in [Payments -> Nat]
    /\ Counted

AskSet == [at : {"idle", "asked", "answered"}, balance : Nat]
OrderSet == [method : {"none", "cash", "wallet"}, amount : Nat]

\* What the form was told, and what it is about to be, the account has held.
FormTyped ==
    /\ asks \in [Slots -> AskSet]
    /\ pricing \in Nat /\ told \in Nat /\ fare \in Nat
    /\ order \in OrderSet
    /\ booked \in BOOLEAN

FormKnows == told <= most /\ \A s \in Slots : asks[s].balance <= most

FormSafe == FormTyped /\ FormKnows

AccountSafe == balance \in Nat /\ most \in Nat /\ balance <= most

\* One checkout at a time, and nothing above it but notices.
Dialog == {"checkout", "charged"}
CheckoutShown ==
    \E i \in 1 .. Len(stack) :
       stack[i] = "checkout" /\ \A j \in i + 1 .. Len(stack) : stack[j] = "notice"
OneDialog ==
    /\ \A t \in Payments : stage[t] \in Dialog => CheckoutShown
    /\ \A t, u \in Payments : stage[t] \in Dialog /\ stage[u] \in Dialog => t = u

Inv == stack \in Seq(Screens) /\ PaymentSafe /\ OneDialog /\ FormSafe /\ AccountSafe

LEMMA Nothing ==
    /\ NoAsk \in AskSet /\ NoAsk.balance = 0
    /\ [NoAsk EXCEPT !.at = "asked"] \in AskSet /\ [NoAsk EXCEPT !.at = "asked"].balance = 0
    /\ NoOrder \in OrderSet
BY DEF NoAsk, NoOrder, AskSet, OrderSet

LEMMA ShownTop ==
    ASSUME stack \in Seq(Screens), CheckoutShown
    PROVE  stack # <<>> /\ Top \in {"checkout", "notice"}
<1>1. PICK i \in 1 .. Len(stack) :
         stack[i] = "checkout" /\ \A j \in i + 1 .. Len(stack) : stack[j] = "notice"
  BY DEF CheckoutShown
<1>2. Len(stack) \in Nat /\ (i = Len(stack) \/ Len(stack) \in i + 1 .. Len(stack))
  OBVIOUS
<1>3. QED
  BY <1>1, <1>2 DEF Top

LEMMA Shortened ==
    ASSUME stack \in Seq(Screens), NEW n \in Nat, n <= Len(stack)
    PROVE  /\ Len(SubSeq(stack, 1, Len(stack) - n)) = Len(stack) - n
           /\ \A j \in 1 .. Len(stack) - n : SubSeq(stack, 1, Len(stack) - n)[j] = stack[j]
BY SubSeqProperties

\* What is pushed over it or popped from over it are notices.
LEMMA StillShown ==
    ASSUME stack \in Seq(Screens), CheckoutShown,
           \/ stack' = Append(stack, "notice")
           \/ Top # "checkout" /\ stack' = SubSeq(stack, 1, Len(stack) - 1)
    PROVE  CheckoutShown'
<1>1. PICK i \in 1 .. Len(stack) :
         stack[i] = "checkout" /\ \A j \in i + 1 .. Len(stack) : stack[j] = "notice"
  BY DEF CheckoutShown
<1>2. CASE stack' = Append(stack, "notice")
  <2>1. /\ Len(stack') = Len(stack) + 1 /\ stack'[Len(stack) + 1] = "notice"
        /\ \A j \in 1 .. Len(stack) : stack'[j] = stack[j]
    BY <1>2
  <2>2. i \in 1 .. Len(stack') /\ stack'[i] = "checkout"
    BY <1>1, <2>1
  <2>3. ASSUME NEW j \in i + 1 .. Len(stack') PROVE stack'[j] = "notice"
    BY <1>1, <2>1, <2>3
  <2>4. QED
    BY <2>2, <2>3 DEF CheckoutShown
<1>3. CASE Top # "checkout" /\ stack' = SubSeq(stack, 1, Len(stack) - 1)
  <2>1. i # Len(stack)
    BY <1>1, <1>3 DEF Top
  <2>2. /\ Len(stack') = Len(stack) - 1
        /\ \A j \in 1 .. Len(stack) - 1 : stack'[j] = stack[j]
    <3>1. Len(stack) \in Nat /\ Len(stack) >= 1
      BY <1>1
    <3>2. QED
      BY <1>3, <3>1, Shortened
  <2>3. QED
    BY <1>1, <2>1, <2>2 DEF CheckoutShown
<1>4. QED
  BY <1>2, <1>3

LEMMA InvTyped == Inv => TypeOK /\ CreditedOnce
BY DEF Inv, PaymentSafe, FormSafe, FormTyped, AccountSafe, TypeOK, CreditedOnce, Counted, AskSet, OrderSet

LEMMA InitInv == Init => Inv
<1> SUFFICES ASSUME Init PROVE Inv
  OBVIOUS
<1>1. stack \in Seq(Screens)
  BY DEF Init, Screens
<1>2. PaymentSafe
  BY DEF Init, PaymentSafe, Counted, Stages
<1>3. FormSafe /\ AccountSafe
  <2>1. FormTyped
    BY Nothing DEF Init, FormTyped
  <2>2. FormKnows /\ AccountSafe
    BY Nothing, MoneyAssumption DEF Init, FormKnows, AccountSafe
  <2>3. QED
    BY <2>1, <2>2 DEF FormSafe
<1>4. OneDialog
  BY DEF Init, OneDialog, Dialog
<1>5. QED
  BY <1>1, <1>2, <1>3, <1>4 DEF Inv

------------------------------------------------------------------------------
(* The parts.                                                              *)

\* What a payment may do without being credited.
Ahead(s, r) ==
    \/ r = s \/ r = "over"
    \/ s = "new" /\ r = "checkout"
    \/ s = "charged" /\ r = "saving"
    \/ s = "saving" /\ r = "late"

LEMMA PaymentsGoOn ==
    ASSUME PaymentSafe, UNCHANGED <<paid, credits>>,
           stage' \in [Payments -> Stages],
           view' \in [Payments -> {"here", "leaving", "gone"}],
           \A t \in Payments : Ahead(stage[t], stage'[t])
    PROVE  PaymentSafe'
<1>1. Counted'
  <2> SUFFICES ASSUME NEW t \in Payments
               PROVE  /\ credits[t] <= 1
                      /\ stage'[t] \in Uncredited => credits[t] = 0
                      /\ credits[t] = 1 \/ stage'[t] \in {"charged", "saving", "late"} => paid[t]
                      /\ stage'[t] \in {"new", "checkout"} => ~paid[t]
    BY DEF Counted
  <2> QED
    BY DEF PaymentSafe, Counted, Ahead, Uncredited
<1>2. QED
  BY <1>1 DEF PaymentSafe

LEMMA PaymentsKept ==
    ASSUME PaymentSafe, UNCHANGED <<paid, credits, stage>>,
           view' \in [Payments -> {"here", "leaving", "gone"}]
    PROVE  PaymentSafe'
BY DEF PaymentSafe, Counted

LEMMA FormGoesOn ==
    ASSUME FormSafe, AccountSafe, most' = most, FormInit \/ Cleared \/ UNCHANGED form
    PROVE  FormSafe'
<1>1. CASE FormInit
  <2>1. PICK s \in Slots : asks' = [asks EXCEPT ![s].at = "asked"]
    BY <1>1 DEF FormInit
  <2>2. QED
    BY <1>1, <2>1 DEF FormInit, FormSafe, FormTyped, FormKnows, AskSet
<1>2. CASE Cleared
  <2>1. FormTyped'
    BY <1>2, Nothing DEF Cleared, FormTyped
  <2>2. FormKnows'
    BY <1>2, Nothing DEF Cleared, FormKnows, AccountSafe
  <2>3. QED
    BY <2>1, <2>2 DEF FormSafe
<1>3. CASE UNCHANGED form
  BY <1>3 DEF form, FormSafe, FormTyped, FormKnows
<1>4. QED
  BY <1>1, <1>2, <1>3

\* A pop, when no payment's stage goes back.
LEMMA PopKeepsInv ==
    ASSUME Inv, stack # <<>>, NEW st \in [Payments -> Stages],
           \A t \in Payments : Ahead(stage[t], st[t]) /\ (st[t] \in Dialog => st[t] = stage[t]),
           Pop(st), UNCHANGED <<account, paid, credits>>
    PROVE  Inv'
<1>1. stack' \in Seq(Screens)
  BY SubSeqProperties DEF Inv, Pop
<1>2. PaymentSafe'
  <2>1. stage' \in [Payments -> Stages]
    BY DEF Pop, Stages
  <2>2. view' \in [Payments -> {"here", "leaving", "gone"}]
    BY DEF Pop, Inv, PaymentSafe
  <2>3. \A t \in Payments : Ahead(stage[t], stage'[t])
    BY DEF Pop, Ahead
  <2>4. QED
    BY <2>1, <2>2, <2>3, PaymentsGoOn DEF Inv
<1>3. FormSafe'
  BY FormGoesOn DEF Pop, Inv, account
<1>4. AccountSafe'
  BY DEF Inv, AccountSafe, account
<1>5. OneDialog'
  \* A dialog on top goes, and none is left; else a notice that is over it goes.
  <2>1. CASE Top = "checkout"
    <3>1. \A t \in Payments : stage'[t] \notin Dialog
      BY <2>1 DEF Pop, Dialog
    <3>2. QED
      BY <3>1 DEF OneDialog
  <2>2. CASE Top # "checkout"
    <3>1. \A t \in Payments : stage'[t] \in Dialog => stage[t] \in Dialog
      BY <2>2 DEF Pop
    <3>2. CheckoutShown => CheckoutShown'
      BY <2>2, StillShown DEF Pop, Inv
    <3>3. QED
      BY <3>1, <3>2 DEF OneDialog, Inv
  <2>3. QED
    BY <2>1, <2>2
<1>6. QED
  BY <1>1, <1>2, <1>3, <1>4, <1>5 DEF Inv

\* A step that moves one payment on, and no screen.
LEMMA StageKeepsInv ==
    ASSUME Inv, NEW st \in [Payments -> Stages],
           \A t \in Payments : Ahead(stage[t], st[t]) /\ (st[t] \in Dialog => st[t] = stage[t]),
           stage' = st, UNCHANGED <<stack, view, paid, credits, account, form>>
    PROVE  Inv'
<1>1. PaymentSafe'
  BY PaymentsGoOn DEF Inv, PaymentSafe
<1>2. FormSafe'
  BY FormGoesOn DEF Inv, account
<1>3. OneDialog'
  BY DEF Inv, OneDialog, CheckoutShown
<1>4. QED
  BY <1>1, <1>2, <1>3 DEF Inv, AccountSafe, account

\* A step of the screens that moves no payment, with no dialog open or none moved.
LEMMA ScreensKeepInv ==
    ASSUME Inv, UNCHANGED <<stage, paid, credits>>,
           view' \in [Payments -> {"here", "leaving", "gone"}],
           stack' \in Seq(Screens), FormSafe', AccountSafe',
           Top \notin {"checkout", "notice"} \/ UNCHANGED stack \/ stack' = Append(stack, "notice")
    PROVE  Inv'
<1>1. OneDialog'
  <2>1. CASE Top \notin {"checkout", "notice"}
    <3>1. ~CheckoutShown
      BY <2>1, ShownTop DEF Inv
    <3>2. QED
      BY <3>1 DEF Inv, OneDialog
  <2>2. CASE UNCHANGED stack
    BY <2>2 DEF Inv, OneDialog, CheckoutShown
  <2>3. CASE stack' = Append(stack, "notice")
    BY <2>3, StillShown DEF Inv, OneDialog
  <2>4. QED
    BY <2>1, <2>2, <2>3
<1>2. QED
  BY <1>1, PaymentsKept DEF Inv

------------------------------------------------------------------------------
(* The actions.                                                            *)

LEMMA ScreenActionsKeepInv ==
    ASSUME Inv, OpenForm \/ OpenWallet \/ OpenPayment \/ Back \/ Notify \/ OutageOver \/ Unmount
    PROVE  Inv'
<1>1. CASE OpenForm
  <2>1. stack' \in Seq(Screens)
    BY <1>1 DEF OpenForm, Push, Inv, Screens
  <2>2. AccountSafe'
    BY <1>1 DEF OpenForm, Inv, AccountSafe
  <2>3. FormSafe'
    <3>1. PICK s \in Slots :
             asks' = [r \in Slots |-> IF r = s THEN [NoAsk EXCEPT !.at = "asked"] ELSE NoAsk]
      BY <1>1 DEF OpenForm
    <3>2. QED
      <4>1. FormTyped'
        BY <1>1, <3>1, Nothing DEF OpenForm, FormTyped
      <4>2. FormKnows'
        BY <1>1, <2>2, <3>1, Nothing DEF OpenForm, FormKnows, AccountSafe
      <4>3. QED
        BY <4>1, <4>2 DEF FormSafe
  <2>4. QED
    BY <1>1, <2>1, <2>2, <2>3, ScreensKeepInv DEF OpenForm, Top, payments, Inv, PaymentSafe
<1>2. CASE OpenWallet \/ OpenPayment \/ Notify
  <2>1. stack' \in Seq(Screens)
    BY <1>2 DEF OpenWallet, OpenPayment, Notify, Push, Inv, Screens
  <2>2. UNCHANGED <<payments, account, form>>
    BY <1>2 DEF OpenWallet, OpenPayment, Notify
  <2>3. FormSafe' /\ AccountSafe'
    BY <2>2, FormGoesOn DEF Inv, account, AccountSafe
  <2>4. Top \notin {"checkout", "notice"} \/ stack' = Append(stack, "notice")
    BY <1>2 DEF OpenWallet, OpenPayment, Notify, Push
  <2>5. QED
    BY <2>1, <2>2, <2>3, <2>4, ScreensKeepInv DEF payments, Inv, PaymentSafe
<1>3. CASE Back \/ OutageOver
  <2>1. stack # <<>>
    BY <1>3 DEF Back, OutageOver, Top
  <2>2. QED
    BY <1>3, <2>1, PopKeepsInv DEF Back, OutageOver, Ahead, Inv, PaymentSafe
<1>4. CASE Unmount
  <2>1. FormSafe' /\ AccountSafe'
    BY <1>4, FormGoesOn DEF Unmount, Inv, account, AccountSafe
  <2>2. QED
    BY <1>4, <2>1, ScreensKeepInv DEF Unmount, Inv, PaymentSafe
<1>5. QED
  BY <1>1, <1>2, <1>3, <1>4

LEMMA EndsKeepInv ==
    ASSUME Inv, Replace \/ Restart
    PROVE  Inv'
<1>1. stack' \in Seq(Screens) /\ UNCHANGED <<paid, credits, account>> /\ Cleared
  <2>1. stack' = <<"home">> /\ UNCHANGED <<paid, credits, account>> /\ Cleared
    BY DEF Replace, Restart
  <2>2. <<"home">> \in Seq(Screens)
    BY DEF Screens
  <2>3. QED
    BY <2>1, <2>2
<1>2. /\ stage' \in [Payments -> Stages]
      /\ view' \in [Payments -> {"here", "leaving", "gone"}]
      /\ \A t \in Payments : Ahead(stage[t], stage'[t])
  <2>1. CASE Replace
    BY <2>1 DEF Replace, Inv, PaymentSafe, Stages, Ahead
  <2>2. CASE Restart
    BY <2>2 DEF Restart, Inv, PaymentSafe, Stages, Ahead
  <2>3. QED
    BY <2>1, <2>2
<1>3. PaymentSafe'
  BY <1>1, <1>2, PaymentsGoOn DEF Inv
<1>4. FormSafe' /\ AccountSafe'
  BY <1>1, FormGoesOn DEF Inv, account, AccountSafe
<1>5. OneDialog'
  <2>1. \A t \in Payments : stage'[t] \notin Dialog
    BY DEF Replace, Restart, Dialog
  <2>2. QED
    BY <2>1 DEF OneDialog
<1>6. QED
  BY <1>1, <1>3, <1>4, <1>5 DEF Inv

LEMMA PaymentActionsKeepInv ==
    ASSUME Inv, NEW t \in Payments,
           Pay(t) \/ Abandon(t) \/ Confirm(t) \/ Fail(t) \/ Lost(t) \/ Answer(t)
    PROVE  Inv'
<1> USE DEF Inv
<1>1. CASE Pay(t)
  <2>1. stack' \in Seq(Screens)
    BY <1>1 DEF Pay, Push, Screens
  <2>2. PaymentSafe'
    BY <1>1, PaymentsGoOn DEF Pay, To, PaymentSafe, Stages, Ahead
  <2>3. FormSafe' /\ AccountSafe'
    BY <1>1, FormGoesOn DEF Pay, account, AccountSafe
  <2>4. OneDialog'
    <3>1. \A u \in Payments : stage[u] \notin Dialog
      BY <1>1, ShownTop DEF Pay, OneDialog
    <3>2. \A u \in Payments : stage'[u] \in Dialog => u = t
      BY <1>1, <3>1 DEF Pay, To, PaymentSafe
    <3>3. stack' = Append(stack, "checkout")
      BY <1>1 DEF Pay, Push
    <3>4. CheckoutShown'
      <4>1. Len(stack') = Len(stack) + 1 /\ stack'[Len(stack) + 1] = "checkout"
        BY <3>3
      <4>2. Len(stack') \in 1 .. Len(stack') /\ Len(stack') + 1 .. Len(stack') = {}
        BY <4>1
      <4>3. QED
        BY <4>1, <4>2 DEF CheckoutShown
    <3>5. QED
      BY <3>2, <3>4 DEF OneDialog
  <2>5. QED
    BY <2>1, <2>2, <2>3, <2>4
<1>2. CASE Abandon(t)
  <2>1. stack # <<>>
    BY <1>2, ShownTop DEF Abandon, OneDialog, Dialog
  <2>2. QED
    BY <1>2, <2>1, PopKeepsInv DEF Abandon, Ahead, PaymentSafe
<1>3. CASE Confirm(t)
  <2> DEFINE st == IF Top = "checkout" THEN [stage EXCEPT ![t] = "saving"] ELSE stage
  <2>1. stack # <<>>
    BY <1>3, ShownTop DEF Confirm, OneDialog, Dialog
  <2>2. /\ st \in [Payments -> Stages]
        /\ \A u \in Payments :
              Ahead(stage[u], st[u]) /\ (st[u] \in Dialog => st[u] = stage[u])
    BY <1>3 DEF Confirm, PaymentSafe, Stages, Ahead, Dialog
  <2>3. Pop(st) /\ UNCHANGED <<account, paid, credits>>
    BY <1>3 DEF Confirm
  <2>4. QED
    BY <2>1, <2>2, <2>3, PopKeepsInv
<1>4. CASE Fail(t)
  <2>1. PICK s \in AfterFailure(stage[t]) : Failed([stage EXCEPT ![t] = s], view[t] # "gone")
    BY <1>4 DEF Fail
  <2> DEFINE st == [stage EXCEPT ![t] = s]
  <2>2. /\ st \in [Payments -> Stages]
        /\ \A u \in Payments :
              Ahead(stage[u], st[u]) /\ (st[u] \in Dialog => st[u] = stage[u])
    BY <1>4, <2>1 DEF Fail, AfterFailure, PaymentSafe, Stages, Ahead, Dialog
  <2>3. stage' = st /\ UNCHANGED <<stack, view, paid, credits, account, form>>
    BY <1>4, <2>1 DEF Fail, Failed
  <2>4. QED
    BY <2>2, <2>3, StageKeepsInv
<1>5. CASE Lost(t)
  <2> DEFINE st == [stage EXCEPT ![t] = "over"]
  <2>1. /\ st \in [Payments -> Stages]
        /\ \A u \in Payments :
              Ahead(stage[u], st[u]) /\ (st[u] \in Dialog => st[u] = stage[u])
    BY DEF PaymentSafe, Stages, Ahead, Dialog
  <2>2. stage' = st /\ UNCHANGED <<stack, view, paid, credits, account, form>>
    BY <1>5 DEF Lost, To
  <2>3. QED
    BY <2>1, <2>2, StageKeepsInv
<1>6. CASE Answer(t)
  <2> DEFINE st == [stage EXCEPT ![t] = "over"]
  <2>1. /\ st \in [Payments -> Stages]
        /\ \A u \in Payments :
              Ahead(stage[u], st[u]) /\ (st[u] \in Dialog => st[u] = stage[u])
    BY DEF PaymentSafe, Stages, Ahead, Dialog
  <2>2. CASE view[t] # "gone" /\ stack # <<>>
    <3>1. Pop(st) /\ UNCHANGED <<account, paid, credits>>
      BY <1>6, <2>2 DEF Answer
    <3>2. QED
      BY <2>1, <2>2, <3>1, PopKeepsInv
  <2>3. CASE ~(view[t] # "gone" /\ stack # <<>>)
    <3>1. stage' = st /\ UNCHANGED <<stack, view, paid, credits, account, form>>
      BY <1>6, <2>3 DEF Answer
    <3>2. QED
      BY <2>1, <3>1, StageKeepsInv
  <2>4. QED
    BY <2>2, <2>3
<1>7. QED
  BY <1>1, <1>2, <1>3, <1>4, <1>5, <1>6

\* The card is charged and the wallet credited: the two that count.
LEMMA MoneyKeepsInv ==
    ASSUME Inv, NEW t \in Payments, Charge(t) \/ Serve(t)
    PROVE  Inv'
<1> USE DEF Inv
<1>1. CASE Charge(t)
  <2>1. PaymentSafe'
    BY <1>1 DEF Charge, To, PaymentSafe, Counted, Stages, Uncredited
  <2>2. FormSafe' /\ AccountSafe'
    BY <1>1, FormGoesOn DEF Charge, account, AccountSafe
  <2>3. OneDialog'
    BY <1>1 DEF Charge, To, OneDialog, Dialog, PaymentSafe, CheckoutShown
  <2>4. QED
    BY <1>1, <2>1, <2>2, <2>3 DEF Charge
<1>2. CASE Serve(t)
  <2>1. stage[t] \in {"saving", "late"} /\ credits[t] = 0 /\ paid[t]
    BY <1>2 DEF Serve, PaymentSafe, Counted, Uncredited
  <2>2. /\ stage' = [stage EXCEPT ![t] = IF stage[t] = "saving" THEN "credited" ELSE "over"]
        /\ credits' = [credits EXCEPT ![t] = credits[t] + 1]
        /\ UNCHANGED <<stack, view, paid, form>>
    BY <1>2 DEF Serve, To
  <2>3. PaymentSafe'
    BY <2>1, <2>2 DEF PaymentSafe, Counted, Stages, Uncredited
  <2>4. AccountSafe' /\ most <= most'
    BY <1>2, MoneyAssumption DEF Serve, AccountSafe
  <2>5. FormSafe'
    <3>1. FormTyped'
      BY <2>2 DEF FormSafe, FormTyped, form
    <3>2. FormKnows'
      BY <2>2, <2>4 DEF FormSafe, FormTyped, FormKnows, AccountSafe, AskSet, form
    <3>3. QED
      BY <3>1, <3>2 DEF FormSafe
  <2>6. OneDialog'
    BY <2>1, <2>2 DEF OneDialog, Dialog, PaymentSafe, CheckoutShown
  <2>7. QED
    BY <2>2, <2>3, <2>4, <2>5, <2>6
<1>3. QED
  BY <1>1, <1>2

LEMMA AsksKeepInv ==
    ASSUME Inv, NEW s \in Slots, Tell(s) \/ Told(s) \/ TellFails(s)
    PROVE  Inv'
<1> USE DEF Inv
<1>1. PaymentSafe' /\ AccountSafe' /\ UNCHANGED stack
  BY PaymentsKept DEF Tell, Told, TellFails, payments, account, AccountSafe, PaymentSafe
<1>2. FormSafe'
  <2>1. CASE Tell(s)
    BY <2>1 DEF Tell, FormSafe, FormTyped, FormKnows, AccountSafe, account, AskSet
  <2>2. CASE Told(s)
    BY <2>2, Nothing DEF Told, FormSafe, FormTyped, FormKnows, AccountSafe, account, AskSet
  <2>3. CASE TellFails(s)
    BY <2>3, Nothing DEF TellFails, FormSafe, FormTyped, FormKnows, AccountSafe, account
  <2>4. QED
    BY <2>1, <2>2, <2>3
<1>3. OneDialog'
  BY DEF Tell, Told, TellFails, payments, OneDialog, CheckoutShown
<1>4. QED
  BY <1>1, <1>2, <1>3

LEMMA FormActionsKeepInv ==
    ASSUME Inv, \/ Priced \/ Booked \/ Debit
                \/ \E method \in {"cash", "wallet"} : Book(method)
    PROVE  Inv'
<1> USE DEF Inv
<1>1. PaymentSafe' /\ UNCHANGED <<stack, most>>
  BY PaymentsKept DEF Priced, Booked, Debit, Book, payments, account, PaymentSafe
<1>2. AccountSafe'
  BY <1>1 DEF Priced, Booked, Debit, Book, account, AccountSafe
<1>3. FormSafe'
  <2>1. CASE Priced
    BY <2>1, <1>1, MoneyAssumption DEF Priced, FormSafe, FormTyped, FormKnows
  <2>2. CASE Booked
    BY <2>2, <1>1 DEF Booked, FormSafe, FormTyped, FormKnows
  <2>3. CASE Debit
    BY <2>3, <1>1 DEF Debit, form, FormSafe, FormTyped, FormKnows
  <2>4. ASSUME NEW method \in {"cash", "wallet"}, Book(method) PROVE FormSafe'
    BY <2>4, <1>1 DEF Book, FormSafe, FormTyped, FormKnows, OrderSet
  <2>5. QED
    BY <2>1, <2>2, <2>3, <2>4
<1>4. OneDialog'
  BY DEF Priced, Booked, Debit, Book, payments, OneDialog, CheckoutShown
<1>5. QED
  BY <1>1, <1>2, <1>3, <1>4

LEMMA StutterKeepsInv == ASSUME Inv, UNCHANGED vars PROVE Inv'
<1>1. UNCHANGED <<stack, payments, account, form>>
  BY DEF vars
<1>2. FormSafe' /\ AccountSafe'
  BY <1>1, FormGoesOn DEF Inv, account, AccountSafe
<1>3. QED
  BY <1>1, <1>2, ScreensKeepInv DEF payments, Inv, PaymentSafe

THEOREM InvHolds == Spec => []Inv
<1>1. Inv /\ [Next]_vars => Inv'
  <2> SUFFICES ASSUME Inv, [Next]_vars PROVE Inv'
    OBVIOUS
  <2> QED
    BY ScreenActionsKeepInv, EndsKeepInv, PaymentActionsKeepInv, MoneyKeepsInv, AsksKeepInv,
       FormActionsKeepInv, StutterKeepsInv DEF Next
<1>2. QED
  BY InitInv, <1>1, PTL DEF Spec

\* Screens, payments, questions, form and account keep their types, with any number
\* of payments and of questions in flight.
THEOREM WalletTypes == Spec => []TypeOK
BY InvHolds, InvTyped, PTL

\* No payment is credited twice, or without a charge (paymentConfirm).
THEOREM PaymentsCreditOnce == Spec => []CreditedOnce
BY InvHolds, InvTyped, PTL

------------------------------------------------------------------------------
(* What steps may do.                                                      *)

\* Where a charged payment's checkout may go without its credit being asked for.
LEMMA ChargedStep ==
    ASSUME Inv, [Next]_vars, NEW t \in Payments, stage[t] = "charged", stage'[t] = "over"
    PROVE  \/ stack' = <<"home">>
           \/ \E u \in Payments : stage[u] = "credited" /\ stage'[u] = "over"
           \/ OutageOver
<1> USE DEF Inv, PaymentSafe
<1>1. CASE \E u \in Payments : Answer(u)
  <2>1. PICK u \in Payments : Answer(u)
    BY <1>1
  <2>2. stage[u] = "credited" /\ stage'[u] = "over"
    BY <2>1 DEF Answer, Pop
  <2>3. QED
    BY <2>2
<1>2. CASE Replace \/ Restart
  BY <1>2 DEF Replace, Restart
<1>3. CASE \E u \in Payments : Pay(u) \/ Charge(u) \/ Serve(u) \/ Lost(u)
  <2>1. PICK u \in Payments : Pay(u) \/ Charge(u) \/ Serve(u) \/ Lost(u)
    BY <1>3
  <2>2. stage[u] # "charged" /\ \E s \in Stages : stage' = [stage EXCEPT ![u] = s]
    BY <2>1 DEF Pay, Charge, Serve, Lost, To, Stages
  <2>3. QED
    BY <2>2
<1>4. CASE \E u \in Payments : Fail(u)
  <2>1. PICK u \in Payments : Fail(u)
    BY <1>4
  <2>2. stage[u] # "charged" /\ \E s \in Stages : stage' = [stage EXCEPT ![u] = s]
    BY <2>1 DEF Fail, Failed, AfterFailure, Stages
  <2>3. QED
    BY <2>2
<1>5. CASE Back
  BY <1>5 DEF Back, Pop
<1>6. CASE \E u \in Payments : Abandon(u) \/ Confirm(u)
  \* The dialog is this payment's own, whose credit is asked for if it goes.
  <2>1. PICK u \in Payments : Abandon(u) \/ Confirm(u)
    BY <1>6
  <2>2. u = t
    BY <2>1 DEF Abandon, Confirm, OneDialog, Dialog
  <2>3. QED
    BY <2>1, <2>2 DEF Abandon, Confirm, Pop
<1>7. CASE UNCHANGED stage
  BY <1>7
<1>8. QED
  BY <1>1, <1>2, <1>3, <1>4, <1>5, <1>6, <1>7
     DEF Next, vars, payments, OpenForm, OpenWallet, OpenPayment, Notify, Unmount, Tell, Told, TellFails,
         Priced, Booked, Debit, Book

\* A charge is followed up, unless the screens are replaced, the process ends or
\* the app pops the dialog, for another payment's answer or an outage that is over.
THEOREM ChargesAreKept == Spec => ChargedIsKept
<1>1. Inv /\ [Next]_vars => [\A t \in Payments :
         stage[t] = "charged" /\ stage'[t] = "over"
         => \/ stack' = <<"home">>
            \/ \E u \in Payments : stage[u] = "credited" /\ stage'[u] = "over"
            \/ OutageOver]_vars
  BY ChargedStep
<1>2. QED
  BY InvHolds, <1>1, PTL DEF Spec, ChargedIsKept

\* An order from the wallet is for less than the account held at some time since
\* the form was opened (saveBookingData).
THEOREM OrdersAreFunded == Spec => FundedOrders
<1>1. Inv /\ [Next]_vars
      => [order' # order /\ order'.method = "wallet" => order'.amount < most]_vars
  <2> SUFFICES ASSUME Inv, Next, order' # order, order'.method = "wallet"
               PROVE  order'.amount < most
    BY DEF vars
  <2>1. ~(FormInit \/ Cleared \/ UNCHANGED form)
    BY DEF FormInit, Cleared, form, NoOrder
  <2>2. PICK method \in {"cash", "wallet"} : Book(method)
    BY <2>1 DEF Next, OpenForm, OpenWallet, OpenPayment, Back, Pop, Notify, OutageOver, Unmount, Replace, Restart, Pay,
        Charge, Abandon, Confirm, Serve, Fail, Failed, Lost, Answer, Tell, Told, TellFails, Priced,
        Booked, Debit, NoOrder
  <2>3. order' = [method |-> method, amount |-> fare] /\ (method = "wallet" => ~(fare >= told))
    BY <2>2 DEF Book, Refused
  <2>4. fare < told
    BY <2>3 DEF Inv, FormSafe, FormTyped, FormKnows
  <2>5. QED
    BY <2>3, <2>4 DEF Inv, FormSafe, FormTyped, FormKnows, AccountSafe
<1>2. QED
  BY InvHolds, <1>1, PTL DEF Spec, FundedOrders

------------------------------------------------------------------------------
(* The ledger.                                                             *)

Charged == {t \in Payments : paid[t]}
Credited == {t \in Payments : credits[t] = 1}

LEMMA LedgerInit == Init => Ledger!Init
BY DEF Init, Ledger!Init

\* Only Charge and Serve write into it, and the account's spending.
LEMMA LedgerIdle ==
    ASSUME UNCHANGED <<balance, paid, credits>>
    PROVE  UNCHANGED Ledger!vars
BY DEF Ledger!vars

LEMMA LedgerCharge ==
    ASSUME Inv, NEW t \in Payments, Charge(t)
    PROVE  Ledger!Charge(t)
<1> USE DEF Inv, PaymentSafe, Counted
<1>1. t \notin Charged
  BY DEF Charge, Charged
<1>2. Charged' = Charged \cup {t}
  BY DEF Charge, Charged
<1>3. UNCHANGED <<balance, Credited>>
  BY DEF Charge, Credited, account
<1>4. QED
  BY <1>1, <1>2, <1>3 DEF Ledger!Charge, Charged, Credited

LEMMA LedgerCredit ==
    ASSUME Inv, NEW t \in Payments, Serve(t)
    PROVE  Ledger!Credit(t)
<1> USE DEF Inv, PaymentSafe, Counted
<1>1. t \in Charged \ Credited
  BY DEF Serve, Uncredited, Charged, Credited
<1>2. Credited' = Credited \cup {t}
  BY DEF Serve, Uncredited, Credited
<1>3. balance' = balance + Amount /\ UNCHANGED Charged
  BY DEF Serve, Charged
<1>4. QED
  BY <1>1, <1>2, <1>3 DEF Ledger!Credit, Charged, Credited

LEMMA LedgerStep ==
    ASSUME Inv, [Next]_vars
    PROVE  [Ledger!Next]_(Ledger!vars)
<1>1. CASE \E t \in Payments : Charge(t)
  BY <1>1, LedgerCharge DEF Ledger!Next
<1>2. CASE \E t \in Payments : Serve(t)
  BY <1>2, LedgerCredit DEF Ledger!Next
<1>3. CASE Debit
  <2>1. UNCHANGED <<paid, credits>>
    BY <1>3 DEF Debit, payments
  <2>2. QED
    BY <1>3, <2>1 DEF Debit, Ledger!Next, Ledger!Spend
<1>4. CASE UNCHANGED <<balance, paid, credits>>
  BY <1>4, LedgerIdle
<1>5. QED
  BY <1>1, <1>2, <1>3, <1>4
     DEF Next, vars, payments, account, OpenForm, OpenWallet, OpenPayment, Back, Notify, OutageOver, Unmount, Replace,
         Restart, Pay, Abandon, Confirm, Fail, Lost, Answer, Tell, Told, TellFails, Priced, Booked,
         Book

\* Whatever the screens, requests and restarts do, the backend's account is a ledger
\* of the payments: each credited once, after its charge, and by nothing else
\* (payStackPayment, paymentConfirm).
THEOREM WalletKeepsLedger == Spec => KeepsLedger
<1>1. Inv /\ [Next]_vars => [Ledger!Next]_(Ledger!vars)
  BY LedgerStep
<1>2. QED
  BY InvHolds, LedgerInit, <1>1, PTL DEF Spec, KeepsLedger, Ledger!Spec

\* What a ledger holds: finitely many payments so far, and no more than they paid in.
Balanced ==
    /\ balance \in Nat
    /\ IsFiniteSet(Charged) /\ Credited \subseteq Charged
    /\ balance <= Opening + Amount * Cardinality(Credited)

LEMMA OneMore ==
    ASSUME NEW S, IsFiniteSet(S), NEW t, t \notin S
    PROVE  Amount * Cardinality(S \cup {t}) = Amount * Cardinality(S) + Amount
<1>1. Cardinality(S) \in Nat /\ Cardinality(S \cup {t}) = Cardinality(S) + 1
  BY FS_AddElement, FS_CardinalityType
<1>2. \A n \in Nat : Amount * (n + 1) = Amount * n + Amount
  BY MoneyAssumption
<1>3. QED
  BY <1>1, <1>2

LEMMA BalancedStep ==
    ASSUME Balanced, [Ledger!Next]_(Ledger!vars)
    PROVE  Balanced'
<1>1. ASSUME NEW t \in Payments, Ledger!Charge(t) PROVE Balanced'
  <2>1. Charged' = Charged \cup {t} /\ UNCHANGED <<balance, Credited>>
    BY <1>1 DEF Ledger!Charge, Charged, Credited
  <2>2. IsFiniteSet(Charged')
    BY <2>1, FS_AddElement DEF Balanced
  <2>3. QED
    BY <2>1, <2>2 DEF Balanced
<1>2. ASSUME NEW t \in Payments, Ledger!Credit(t) PROVE Balanced'
  <2>1. /\ t \in Charged \ Credited /\ Credited' = Credited \cup {t}
        /\ balance' = balance + Amount /\ UNCHANGED Charged
    BY <1>2 DEF Ledger!Credit, Charged, Credited
  <2>2. IsFiniteSet(Credited)
    BY FS_Subset DEF Balanced
  <2>3. Amount * Cardinality(Credited') = Amount * Cardinality(Credited) + Amount
    BY <2>1, <2>2, OneMore
  <2>4. Amount * Cardinality(Credited) \in Nat
    BY <2>2, FS_CardinalityType, MoneyAssumption
  <2>5. QED
    BY <2>1, <2>3, <2>4, MoneyAssumption DEF Balanced
<1>3. CASE Ledger!Spend
  <2>1. balance' \in Nat /\ balance' <= balance /\ UNCHANGED <<Charged, Credited>>
    BY <1>3 DEF Ledger!Spend, Charged, Credited, Balanced
  <2>2. Amount * Cardinality(Credited) \in Nat
    BY FS_Subset, FS_CardinalityType, MoneyAssumption DEF Balanced
  <2>3. QED
    BY <2>1, <2>2, MoneyAssumption DEF Balanced
<1>4. CASE UNCHANGED Ledger!vars
  BY <1>4 DEF Ledger!vars, Charged, Credited, Balanced
<1>5. QED
  BY <1>1, <1>2, <1>3, <1>4 DEF Ledger!Next

LEMMA BalancedBacks == Balanced => Ledger!Backed
<1> SUFFICES ASSUME Balanced PROVE Ledger!Backed
  OBVIOUS
<1>1. /\ Cardinality(Credited) \in Nat /\ Cardinality(Charged) \in Nat
      /\ Cardinality(Credited) <= Cardinality(Charged)
  BY FS_Subset, FS_CardinalityType DEF Balanced
<1>2. \A m, n \in Nat : m <= n => Amount * m <= Amount * n /\ {Amount * m, Amount * n} \subseteq Nat
  BY MoneyAssumption
<1>3. \A S : Ledger!Cardinality(S) = Cardinality(S)
  BY DEF Ledger!Cardinality, Cardinality
<1>4. QED
  BY <1>1, <1>2, <1>3, MoneyAssumption DEF Balanced, Ledger!Backed, Charged

\* A ledger is backed by its charges, and so is every implementation of it.
THEOREM LedgerBacked == Ledger!Spec => []Ledger!Backed
<1>1. Ledger!Init => Balanced
  <2> SUFFICES ASSUME Ledger!Init PROVE Balanced
    OBVIOUS
  <2>1. balance = Opening /\ Charged = {} /\ Credited = {}
    BY DEF Ledger!Init, Charged, Credited
  <2>2. QED
    BY <2>1, FS_EmptySet, MoneyAssumption DEF Balanced
<1>2. Balanced /\ [Ledger!Next]_(Ledger!vars) => Balanced'
  BY BalancedStep
<1>3. QED
  BY <1>1, <1>2, BalancedBacks, PTL DEF Ledger!Spec

=============================================================================
