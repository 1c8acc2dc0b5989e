--------------------------- MODULE Outages_proofs ---------------------------
(* Proofs about overlapping outages, for any number of home screens that listen
   and any depth of the stack. *)
EXTENDS Outages, SequenceTheorems, TLAPS

\* The screens the outages have pushed and not yet popped.
Raised == (IF isCurrentlyOnNoInternet THEN 1 ELSE 0) + (IF locationOn THEN 0 ELSE listeners)

\* In an outage that nothing disturbs, the screens there were before lie under as
\* many others as will be popped; outside of one they are all there is.
Clean == ~disturbed /\ base # <<>>

Layered ==
    /\ Settled => stack = base /\ ~disturbed
    /\ Clean => /\ Len(stack) = Len(base) + Raised
                /\ \A i \in 1 .. Len(base) : stack[i] = base[i]

Inv == TypeOK /\ Layered

LEMMA PushedIs ==
    ASSUME stack \in Seq(Kinds), NEW n \in Nat, NEW kind \in Kinds
    PROVE  /\ Pushed(n, kind) \in Seq(Kinds)
           /\ Len(Pushed(n, kind)) = Len(stack) + n
           /\ \A i \in 1 .. Len(stack) : Pushed(n, kind)[i] = stack[i]
<1> DEFINE top == [i \in 1 .. n |-> kind]
<1>1. top \in Seq(Kinds) /\ Len(top) = n
  OBVIOUS
<1>2. QED
  BY <1>1, ConcatProperties DEF Pushed

LEMMA PoppedIs ==
    ASSUME stack \in Seq(Kinds), NEW n \in Nat, n <= Len(stack)
    PROVE  /\ Popped(n) \in Seq(Kinds)
           /\ Len(Popped(n)) = Len(stack) - n
           /\ \A i \in 1 .. Len(stack) - n : Popped(n)[i] = stack[i]
BY SubSeqProperties DEF Popped

\* Recording keeps the history in step, given what the step did to the stack.
LEMMA RecordKeepsInv ==
    ASSUME Inv, NEW moved \in BOOLEAN, Record(moved),
           stack' \in Seq(Kinds), isCurrentlyOnNoInternet' \in BOOLEAN,
           locationOn' \in BOOLEAN, listeners' \in 1 .. MaxListeners,
           Clean /\ ~moved =>
              /\ Len(stack') = Len(base) + Raised'
              /\ \A i \in 1 .. Len(base) : stack'[i] = base[i]
    PROVE  Inv'
<1>1. TypeOK'
  BY DEF Record, Inv, TypeOK, Settled
<1>2. CASE Settled'
  <2>1. Raised' = 0
    BY <1>2 DEF Settled, Raised
  <2>2. base' = stack' /\ disturbed' = FALSE
    BY <1>2 DEF Record
  <2>3. Len(stack') \in Nat
    OBVIOUS
  <2>4. Layered'
    BY <2>1, <2>2, <2>3 DEF Layered, Clean
  <2>5. QED
    BY <1>1, <2>4 DEF Inv
<1>3. CASE ~Settled'
  BY <1>1, <1>3 DEF Record, Inv, Layered, Clean, TypeOK
<1>4. QED
  BY <1>2, <1>3

\* What the stack of an undisturbed outage becomes when n routes are pushed.
LEMMA PushKeepsLayers ==
    ASSUME Inv, Clean, NEW n \in Nat, NEW kind \in Kinds, stack' = Pushed(n, kind)
    PROVE  /\ Len(stack') = Len(base) + Raised + n
           /\ \A i \in 1 .. Len(base) : stack'[i] = base[i]
<1>1. Raised \in Nat /\ Len(base) \in Nat
  BY DEF Inv, TypeOK, Raised
<1>2. /\ Len(stack) = Len(base) + Raised
      /\ \A i \in 1 .. Len(base) : stack[i] = base[i]
  BY DEF Inv, Layered
<1>3. /\ Len(Pushed(n, kind)) = Len(stack) + n
      /\ \A i \in 1 .. Len(stack) : Pushed(n, kind)[i] = stack[i]
  BY PushedIs DEF Inv, TypeOK
<1>4. QED
  BY <1>1, <1>2, <1>3

LEMMA PopKeepsLayers ==
    ASSUME Inv, Clean, NEW n \in Nat, n <= Raised, stack' = Popped(n)
    PROVE  /\ Len(stack') = Len(base) + Raised - n
           /\ \A i \in 1 .. Len(base) : stack'[i] = base[i]
<1>1. Raised \in Nat /\ Len(base) \in Nat
  BY DEF Inv, TypeOK, Raised
<1>2. /\ Len(stack) = Len(base) + Raised
      /\ \A i \in 1 .. Len(base) : stack[i] = base[i]
  BY DEF Inv, Layered
<1>3. n <= Len(stack)
  BY <1>1, <1>2
<1>4. /\ Len(Popped(n)) = Len(stack) - n
      /\ \A i \in 1 .. Len(stack) - n : Popped(n)[i] = stack[i]
  BY <1>3, PoppedIs DEF Inv, TypeOK
<1>5. QED
  BY <1>1, <1>2, <1>4

LEMMA Facts ==
    ASSUME Inv
    PROVE  /\ stack \in Seq(Kinds) /\ base \in Seq(Kinds) /\ listeners \in Nat \ {0}
           /\ isCurrentlyOnNoInternet \in BOOLEAN /\ locationOn \in BOOLEAN
           /\ disturbed \in BOOLEAN /\ listeners \in 1 .. MaxListeners
           /\ Len(stack) \in Nat /\ Len(base) \in Nat /\ Raised \in Nat
           /\ \A n \in Nat : n <= Len(stack) => Popped(n) \in Seq(Kinds)
           /\ \A n \in Nat, kind \in Kinds : Pushed(n, kind) \in Seq(Kinds)
<1>1. /\ stack \in Seq(Kinds) /\ base \in Seq(Kinds) /\ listeners \in Nat \ {0}
      /\ isCurrentlyOnNoInternet \in BOOLEAN /\ locationOn \in BOOLEAN
      /\ disturbed \in BOOLEAN /\ listeners \in 1 .. MaxListeners
  BY DEF Inv, TypeOK
<1>2. Len(stack) \in Nat /\ Len(base) \in Nat /\ Raised \in Nat
  BY <1>1 DEF Raised
<1>3. \A n \in Nat : n <= Len(stack) => Popped(n) \in Seq(Kinds)
  BY <1>1, PoppedIs
<1>4. \A n \in Nat, kind \in Kinds : Pushed(n, kind) \in Seq(Kinds)
  BY <1>1, PushedIs
<1>5. QED
  BY <1>1, <1>2, <1>3, <1>4

\* The network comes back: one screen fewer, if the flag says so.
LEMMA NetworkFoundLayers ==
    ASSUME Inv, NetworkFound
    PROVE  /\ stack' \in Seq(Kinds)
           /\ Clean => /\ Len(stack') = Len(base) + Raised'
                       /\ \A i \in 1 .. Len(base) : stack'[i] = base[i]
<1>1. stack' = (IF isCurrentlyOnNoInternet THEN Popped(1) ELSE stack) /\ Len(stack) >= 1
  BY Facts, EmptySeq DEF NetworkFound, FlagSet
<1>2. stack' \in Seq(Kinds)
  BY Facts, <1>1
<1>3. ASSUME Clean
      PROVE  /\ Len(stack') = Len(base) + Raised'
             /\ \A i \in 1 .. Len(base) : stack'[i] = base[i]
  <2>1. CASE isCurrentlyOnNoInternet
    <3>1. locationOn \in BOOLEAN /\ listeners \in Nat
      BY Facts
    <3>2. isCurrentlyOnNoInternet' = FALSE /\ UNCHANGED <<locationOn, listeners>>
      BY DEF NetworkFound
    <3>3. Raised' = Raised - 1 /\ 1 <= Raised
      BY <2>1, <3>1, <3>2 DEF Raised
    <3>4. QED
      BY Facts, <1>1, <1>3, <2>1, <3>3, PopKeepsLayers
  <2>2. CASE ~isCurrentlyOnNoInternet
    <3>1. Raised' = Raised
      BY Facts, <2>2 DEF NetworkFound, Raised
    <3>2. QED
      BY <1>1, <1>3, <2>2, <3>1 DEF Inv, Layered
  <2>3. QED
    BY <2>1, <2>2
<1>4. QED
  BY <1>2, <1>3

\* The location service comes back: one screen fewer for every listener.
LEMMA LocationFoundLayers ==
    ASSUME Inv, LocationFound
    PROVE  /\ stack' \in Seq(Kinds)
           /\ Clean => /\ Len(stack') = Len(base) + Raised'
                       /\ \A i \in 1 .. Len(base) : stack'[i] = base[i]
<1>1. stack' = PopEach
  BY DEF LocationFound
<1>2. stack' \in Seq(Kinds)
  <2>1. CASE Len(stack) > listeners
    BY Facts, <1>1, <2>1 DEF PopEach
  <2>2. CASE ~(Len(stack) > listeners) /\ stack = <<>>
    BY Facts, <1>1, <2>2 DEF PopEach
  <2>3. CASE ~(Len(stack) > listeners) /\ stack # <<>>
    <3>1. Len(stack) >= 1
      BY Facts, <2>3, EmptySeq
    <3>2. \A i \in 1 .. 1 : stack[i] \in Kinds
      BY Facts, <3>1
    <3>3. SubSeq(stack, 1, 1) \in Seq(Kinds)
      BY <3>2, SubSeqProperties
    <3>4. QED
      BY <1>1, <2>3, <3>3 DEF PopEach
  <2>4. QED
    BY <2>1, <2>2, <2>3
<1>3. Raised' = Raised - listeners /\ listeners <= Raised
  BY Facts DEF LocationFound, Raised
<1>4. ASSUME Clean
      PROVE  /\ Len(stack') = Len(base) + Raised'
             /\ \A i \in 1 .. Len(base) : stack'[i] = base[i]
  \* There is a screen below those that are popped, so canPop stops none.
  <2>1. Len(base) >= 1 /\ Len(stack) = Len(base) + Raised
    BY <1>4, Facts, EmptySeq DEF Clean, Inv, Layered
  <2>2. stack' = Popped(listeners)
    BY Facts, <1>1, <1>3, <2>1 DEF PopEach
  <2>3. QED
    BY Facts, <1>3, <1>4, <2>2, PopKeepsLayers
<1>5. QED
  BY <1>2, <1>4

LEMMA InitInv == Init => Inv
<1> SUFFICES ASSUME Init PROVE Inv
  OBVIOUS
<1>1. TypeOK
  <2>1. listeners \in 1 .. MaxListeners
    BY OutageBoundAssumption DEF Init
  <2>2. stack \in Seq(Kinds) /\ base \in Seq(Kinds)
    BY DEF Init, Kinds
  <2>3. QED
    BY <2>1, <2>2 DEF Init, TypeOK
<1>2. Settled /\ Raised = 0
  BY DEF Init, Settled, Raised
<1>3. Layered
  BY <1>2 DEF Init, Layered
<1>4. QED
  BY <1>1, <1>3 DEF Inv

LEMMA NextKeepsInv == Inv /\ [Next]_vars => Inv'
<1> SUFFICES ASSUME Inv, [Next]_vars PROVE Inv'
  OBVIOUS
<1>1. /\ stack \in Seq(Kinds) /\ base \in Seq(Kinds) /\ listeners \in Nat \ {0}
      /\ isCurrentlyOnNoInternet \in BOOLEAN /\ locationOn \in BOOLEAN
      /\ disturbed \in BOOLEAN /\ listeners \in 1 .. MaxListeners
  BY Facts
<1>2. Len(stack) \in Nat /\ Len(base) \in Nat /\ Raised \in Nat
  BY Facts
<1>3. "app" \in Kinds /\ "noInternet" \in Kinds /\ "locationPermission" \in Kinds
  BY DEF Kinds
<1>4. \A n \in Nat : n <= Len(stack) => Popped(n) \in Seq(Kinds)
  BY Facts
<1>5. \A n \in Nat, kind \in Kinds : Pushed(n, kind) \in Seq(Kinds)
  BY Facts
<1>6. CASE NetworkLost
  <2>1. stack' = Pushed(1, "noInternet") /\ stack' \in Seq(Kinds)
    BY <1>3, <1>5, <1>6 DEF NetworkLost
  <2>2. ASSUME Clean, ~isCurrentlyOnNoInternet
        PROVE  /\ Len(stack') = Len(base) + Raised'
               /\ \A i \in 1 .. Len(base) : stack'[i] = base[i]
    <3>1. Raised' = Raised + 1
      BY <1>1, <1>6, <2>2 DEF NetworkLost, Raised
    <3>2. QED
      BY <1>2, <1>3, <2>1, <2>2, <3>1, PushKeepsLayers
  <2>3. QED
    BY <1>1, <1>6, <2>1, <2>2, RecordKeepsInv DEF NetworkLost
<1>7. CASE NetworkFound
  BY <1>1, <1>7, NetworkFoundLayers, RecordKeepsInv DEF NetworkFound
<1>8. CASE LocationLost
  <2>1. stack' = Pushed(listeners, "locationPermission") /\ stack' \in Seq(Kinds)
    BY <1>1, <1>3, <1>5, <1>8 DEF LocationLost
  <2>2. Raised' = Raised + listeners
    BY <1>1, <1>8 DEF LocationLost, Raised
  <2>3. ASSUME Clean
        PROVE  /\ Len(stack') = Len(base) + Raised'
               /\ \A i \in 1 .. Len(base) : stack'[i] = base[i]
    BY <1>1, <1>2, <1>3, <2>1, <2>2, <2>3, PushKeepsLayers
  <2>4. QED
    BY <1>1, <1>8, <2>1, <2>3, RecordKeepsInv DEF LocationLost
<1>9. CASE LocationFound
  BY <1>1, <1>9, LocationFoundLayers, RecordKeepsInv DEF LocationFound
<1>10. ASSUME Move, stack' \in Seq(Kinds), listeners' \in 1 .. MaxListeners
       PROVE  Inv'
  BY <1>1, <1>10, RecordKeepsInv DEF Move
<1>11. CASE Open
  BY <1>1, <1>3, <1>5, <1>10, <1>11 DEF Open
<1>12. CASE OpenHome
  <2>1. stack' \in Seq(Kinds)
    <3>1. Pushed(1, "app") \in Seq(Kinds) /\ <<"app">> \in Seq(Kinds)
      BY <1>3, <1>5
    <3>2. QED
      BY <1>12, <3>1 DEF OpenHome
  <2>2. listeners' \in 1 .. MaxListeners
    BY <1>1, <1>12, OutageBoundAssumption DEF OpenHome
  <2>3. QED
    BY <1>10, <1>12, <2>1, <2>2 DEF OpenHome
<1>13. CASE Replace
  BY <1>1, <1>3, <1>10, <1>13 DEF Replace
<1>14. CASE Back
  BY <1>1, <1>2, <1>4, <1>10, <1>14 DEF Back
<1>15. CASE UNCHANGED vars
  BY <1>15 DEF vars, Inv, TypeOK, Layered, Settled, Raised, Clean
<1>16. QED
  BY <1>6, <1>7, <1>8, <1>9, <1>11, <1>12, <1>13, <1>14, <1>15 DEF Next

LEMMA InvAlways == Spec => []Inv
BY InitInv, NextKeepsInv, PTL DEF Spec

\* Every variable keeps its type.
THEOREM OutageTypes == Spec => []TypeOK
<1>1. Inv => TypeOK
  BY DEF Inv
<1>2. QED
  BY <1>1, InvAlways, PTL

\* When both outages are over the screens are those of before, however they
\* overlapped and however many home screens listen.
THEOREM OutagesOver == Spec => OutagesLeaveNothing
<1>1. Inv /\ Inv' /\ [Next]_vars =>
        [~Settled /\ Settled' /\ ~disturbed /\ base # <<>> => stack' = base]_vars
  <2> SUFFICES ASSUME Inv, Inv', Next, ~Settled, Settled', Clean
               PROVE  stack' = base
    BY DEF Clean
  <2>1. NetworkFound \/ LocationFound
    <3>1. ~NetworkLost /\ ~LocationLost
      BY DEF NetworkLost, LocationLost, Settled
    <3>2. ASSUME Move PROVE FALSE
      <4>1. isCurrentlyOnNoInternet' = isCurrentlyOnNoInternet /\ locationOn' = locationOn
        BY <3>2 DEF Move
      <4>2. QED
        BY <4>1 DEF Settled
    <3>3. QED
      BY <3>1, <3>2 DEF Next, Open, OpenHome, Replace, Back
  <2>2. /\ stack' \in Seq(Kinds)
        /\ Len(stack') = Len(base) + Raised'
        /\ \A i \in 1 .. Len(base) : stack'[i] = base[i]
    BY <2>1, NetworkFoundLayers, LocationFoundLayers
  <2>3. base \in Seq(Kinds) /\ Len(base) \in Nat
    BY Facts
  <2>4. Raised' = 0
    BY DEF Settled, Raised
  <2>5. Len(stack') = Len(base)
    BY <2>2, <2>3, <2>4
  <2>6. QED
    BY <2>2, <2>3, <2>5, SeqEqual
<1>2. QED
  BY <1>1, InvAlways, PTL DEF Spec, OutagesLeaveNothing

\* No outage by itself takes away the last screen.
THEOREM EmptiedOnlyDisturbed == Spec => EmptiedByOutage
<1>1. Inv /\ [Next]_vars => [stack' = <<>> => disturbed \/ base = <<>>]_vars
  <2> SUFFICES ASSUME Inv, Next, stack' = <<>>, Clean
               PROVE  FALSE
    BY Facts DEF Clean
  <2>1. /\ stack \in Seq(Kinds) /\ base \in Seq(Kinds) /\ listeners \in Nat
        /\ Len(stack) \in Nat /\ Raised \in Nat
    BY Facts
  <2>2. Len(base) \in Nat \ {0} /\ Len(stack') = 0
    BY <2>1, EmptySeq DEF Clean
  <2>3. Len(stack) = Len(base) + Raised
    BY DEF Inv, Layered
  <2>4. CASE NetworkFound \/ LocationFound
    <3>1. Len(stack') = Len(base) + Raised'
      BY <2>4, NetworkFoundLayers, LocationFoundLayers
    <3>2. Raised' \in Nat
      <4>1. listeners' = listeners
        BY <2>4 DEF NetworkFound, LocationFound
      <4>2. QED
        BY <2>1, <4>1 DEF Raised
    <3>3. QED
      BY <2>2, <3>1, <3>2
  <2>5. ASSUME NEW n \in Nat, NEW kind \in Kinds, stack' = Pushed(n, kind) PROVE FALSE
    <3>1. Len(stack') = Len(stack) + n
      BY <2>1, <2>5, PushedIs
    <3>2. QED
      BY <2>1, <2>2, <2>3, <3>1
  <2>6. CASE NetworkLost \/ LocationLost \/ Open
    BY <2>1, <2>5, <2>6 DEF NetworkLost, LocationLost, Open, Kinds
  <2>7. CASE OpenHome \/ Replace
    <3>1. stack' = Pushed(1, "app") \/ stack' = <<"app">>
      BY <2>7 DEF OpenHome, Replace
    <3>2. QED
      BY <2>2, <2>5, <3>1 DEF Kinds
  <2>8. CASE Back
    <3>1. Len(stack) > 1 /\ stack' = Popped(1)
      BY <2>8 DEF Back
    <3>2. Len(Popped(1)) = Len(stack) - 1
      BY <2>1, <3>1, PoppedIs
    <3>3. QED
      BY <2>1, <2>2, <3>1, <3>2
  <2>9. QED
    BY <2>4, <2>6, <2>7, <2>8 DEF Next
<1>2. QED
  BY <1>1, InvAlways, PTL DEF Spec, EmptiedByOutage

=============================================================================
