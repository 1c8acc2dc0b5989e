------------------------- MODULE RideTracking_proofs -------------------------
(* Proofs about the timers of a booking screen, for any number of calls in
   flight and of timers. *)
EXTENDS RideTracking, TLAPS

Inv == TypeOK /\ PositionFollowed

LEMMA OneMoreTyped ==
    ASSUME NEW n \in 0 .. MaxTimers
    PROVE  OneMore(n) \in 0 .. MaxTimers
BY TimersAssumption DEF OneMore

\* The seven stages, spelt out.
LEMMA Stages ==
    Stage = {"new", "accepted", "pickingup", "arrived", "pickup", "inprogress", "completed"}
BY DEF Stage, Rank

LEMMA InitInv == Init => Inv
<1> SUFFICES ASSUME Init PROVE Inv
  OBVIOUS
<1>1. TypeOK
  <2>1. asks \in [Slots -> Stage \cup {"idle", "sent", "none"}]
    BY DEF Init
  <2>2. {orphans, askTimers, lost} \subseteq 0 .. MaxTimers
    BY TimersAssumption DEF Init
  <2>3. QED
    BY <2>1, <2>2 DEF Init, TypeOK
<1>2. QED
  BY <1>1 DEF Init, Inv, PositionFollowed

\* The steps that make, serve or lose a call touch nothing else.
LEMMA CallsKeepInv ==
    ASSUME Inv, NEW a \in Slots, PanelAsks(a) \/ TimerAsks(a) \/ Serve(a) \/ Fail(a)
    PROVE  Inv'
<1> USE DEF Inv, TypeOK
<1>1. asks' \in [Slots -> Stage \cup {"idle", "sent", "none"}]
  <2>1. CASE PanelAsks(a) \/ TimerAsks(a)
    BY <2>1 DEF PanelAsks, TimerAsks, Ask
  <2>2. CASE Serve(a)
    BY <2>2 DEF Serve
  <2>3. CASE Fail(a)
    BY <2>3 DEF Fail
  <2>4. QED
    BY <2>1, <2>2, <2>3
<1>2. UNCHANGED <<server, open, shown, driver, card, timers, locating>>
  BY DEF PanelAsks, TimerAsks, Serve, Fail
<1>3. QED
  BY <1>1, <1>2 DEF PositionFollowed, timers

\* Dropping the card keeps its types.
LEMMA DropCardTyped ==
    ASSUME TypeOK, DropCard
    PROVE  card' \in {"absent", "reading", "ready"} /\ orphans' \in 0 .. MaxTimers
BY OneMoreTyped DEF DropCard, TypeOK

LEMMA AnswerKeepsInv ==
    ASSUME Inv, NEW a \in Slots, Answer(a)
    PROVE  Inv'
<1> USE DEF Inv
<1> DEFINE s == ShownAfter(asks[a])
           known == driver \/ asks[a] \notin {"none", "new"}
<1>1. asks[a] \in Stage \cup {"none"} /\ s \in Stage \cup {"none"} /\ known \in BOOLEAN
  BY DEF Answer, ShownAfter, TypeOK
<1>2. /\ shown' = s /\ driver' = known
      /\ IF s = "none" THEN UNCHANGED <<held, lost>> ELSE LocationTimer(s, known)
      /\ UNCHANGED <<server, open, askTimers, locating>>
  BY DEF Answer
<1>3. asks' \in [Slots -> Stage \cup {"idle", "sent", "none"}]
  BY DEF Answer, TypeOK
<1>4. card' \in {"absent", "reading", "ready"} /\ orphans' \in 0 .. MaxTimers
  <2>1. CASE DropCard
    BY <2>1, DropCardTyped
  <2>2. CASE ~DropCard
    BY <2>2 DEF Answer, TypeOK
  <2>3. QED
    BY <2>1, <2>2
<1>5. held' \in BOOLEAN /\ lost' \in 0 .. MaxTimers
  <2>1. CASE s = "none"
    BY <2>1, <1>2 DEF TypeOK
  <2>2. CASE s # "none"
    BY <2>2, <1>2, OneMoreTyped DEF LocationTimer, TypeOK
  <2>3. QED
    BY <2>1, <2>2
<1>6. TypeOK'
  BY <1>1, <1>2, <1>3, <1>4, <1>5 DEF TypeOK
<1>7. PositionFollowed'
  <2>1. CASE s = "none"
    \* Nothing was shown before either, so no timer was held.
    <3>1. shown = "none"
      BY <2>1, <1>1, Stages DEF ShownAfter
    <3>2. QED
      BY <2>1, <3>1, <1>2 DEF PositionFollowed
  <2>2. CASE s # "none"
    BY <2>2, <1>2 DEF LocationTimer, PositionFollowed
  <2>3. QED
    BY <2>1, <2>2
<1>8. QED
  BY <1>6, <1>7

LEMMA NextKeepsInv == Inv /\ [Next]_vars => Inv'
<1> SUFFICES ASSUME Inv, [Next]_vars PROVE Inv'
  OBVIOUS
<1> USE DEF Inv
<1>1. CASE Progress \/ Vanish \/ OrderAgain
  BY <1>1, Stages DEF Progress, Vanish, OrderAgain, TypeOK, PositionFollowed, timers
<1>2. ASSUME NEW a \in Slots, PanelAsks(a) \/ TimerAsks(a) \/ Serve(a) \/ Fail(a)
      PROVE  Inv'
  BY <1>2, CallsKeepInv
<1>3. ASSUME NEW a \in Slots, Answer(a) PROVE Inv'
  BY <1>3, AnswerKeepsInv
<1>4. CASE ReadDriver
  BY <1>4, OneMoreTyped DEF ReadDriver, TypeOK, PositionFollowed
<1>5. CASE ReadOrphan
  BY <1>5, OneMoreTyped, TimersAssumption DEF ReadOrphan, TypeOK, PositionFollowed
<1>6. CASE LocationTick
  BY <1>6 DEF LocationTick, UnderWay, TypeOK, PositionFollowed
<1>7. CASE Located
  BY <1>7 DEF Located, TypeOK, PositionFollowed, timers
<1>8. CASE Dispose
  BY <1>8, DropCardTyped DEF Dispose, TypeOK, PositionFollowed
<1>9. CASE UNCHANGED vars
  BY <1>9 DEF vars, TypeOK, PositionFollowed
<1>10. QED
  BY <1>1, <1>2, <1>3, <1>4, <1>5, <1>6, <1>7, <1>8, <1>9 DEF Next

\* Every variable of the screen and its timers keeps its type.
THEOREM TrackingTypes == Spec => []TypeOK
<1>1. Inv => TypeOK
  BY DEF Inv
<1>2. QED
  BY <1>1, InitInv, NextKeepsInv, PTL DEF Spec

\* Whatever order the answers of getCurrentRequest come in, the timer that asks
\* for the driver's position is held exactly while there is a ride to follow.
THEOREM TimerFollowsRide == Spec => []PositionFollowed
<1>1. Inv => PositionFollowed
  BY DEF Inv
<1>2. QED
  BY <1>1, InitInv, NextKeepsInv, PTL DEF Spec

LEMMA SettledStep ==
    ASSUME TypeOK, Settled, [Next]_vars
    PROVE  (Settled' /\ (locating' => locating)) \/ server' = "new"
<1> USE DEF Settled
<1>1. CASE Progress \/ Vanish
  <2>1. \A s \in Stage : ~(Rank[s] > Rank["completed"])
    BY DEF Stage, Rank
  <2>2. QED
    BY <1>1, <2>1 DEF Progress, Vanish
<1>2. ASSUME NEW a \in Slots, PanelAsks(a) \/ TimerAsks(a) \/ Serve(a) \/ Fail(a)
      PROVE  Settled' /\ (locating' => locating)
  <2>1. asks' \in [Slots -> {"idle", "sent", "completed", "none"}]
    BY <1>2 DEF PanelAsks, TimerAsks, Ask, Serve, Fail, TypeOK
  <2>2. UNCHANGED <<server, shown, locating>>
    BY <1>2 DEF PanelAsks, TimerAsks, Serve, Fail
  <2>3. QED
    BY <2>1, <2>2
<1>3. ASSUME NEW a \in Slots, Answer(a) PROVE Settled' /\ (locating' => locating)
  <2>1. asks[a] \in {"completed", "none"} /\ shown' = ShownAfter(asks[a])
    BY <1>3 DEF Answer
  <2>2. QED
    BY <1>3, <2>1 DEF Answer, ShownAfter, TypeOK
<1>4. CASE LocationTick
  BY <1>4 DEF LocationTick, UnderWay
<1>5. CASE OrderAgain
  BY <1>5 DEF OrderAgain
<1>6. QED
  BY <1>1, <1>2, <1>3, <1>4, <1>5 DEF Next, ReadDriver, ReadOrphan, Located, Dispose, vars

\* A screen that shows its ride completed, all older answers being in, never shows it
\* otherwise nor starts to ask for the driver's position, whatever timers are left,
\* before the rider orders again.
THEOREM CompletionIsKept == Spec => CompletionKept
<1>1. TypeOK /\ [Next]_vars
      => [Settled => (Settled' /\ (locating' => locating)) \/ server' = "new"]_vars
  BY SettledStep
<1>2. QED
  BY <1>1, TrackingTypes, PTL DEF Spec, CompletionKept

=============================================================================
