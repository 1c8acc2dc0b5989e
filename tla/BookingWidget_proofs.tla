------------------------ MODULE BookingWidget_proofs ------------------------
(* Proofs about the waiting panel, for any set of orders, any length of the
   wait and any polling interval.  Every proof is by induction over the steps
   of BookingWidget; the invariants build on one another in the order below. *)
EXTENDS BookingWidget, TLAPS

\* A request marked as sent by a mounted panel has one: Unmount and Restart
\* re-mark the requests of the panels they remove.
FromMounted ==
    \A c \in calls : c.from = "mounted" =>
        c.panel \in Panels /\ mounted[c.panel]

\* IS_TIME lies a whole wait after the instant its order was placed, or later.
Owned ==
    isTime # Absent =>
        /\ owner \in Orders
        /\ server[owner] # "none"
        /\ isTime + age[owner] >= timerMaxSeconds

\* The seconds a counting panel has left make up, with the order's age, a whole
\* wait but for the second that inSeconds may drop.
Waits ==
    \A p \in Panels :
        mounted[p] /\ running[p] /\ p \notin borrowed =>
            /\ order[p] \in Orders
            /\ server[order[p]] # "none"
            /\ \/ age[order[p]] + 1 >= timerMaxSeconds
               \/ duration[p] - elapsed[p] + age[order[p]] + 1 >= timerMaxSeconds

------------------------------------------------------------------------------

LEMMA UpType ==
    ASSUME NEW n \in Nat, NEW b \in Nat, n <= b
    PROVE  Up(n, b) \in 0 .. b
BY DEF Up

\* What giving up on a request leaves of it.
LEMMA GoneCall ==
    ASSUME NEW c \in Call
    PROVE  /\ Gone(c) \in Call
           /\ Gone(c).from = "gone" /\ Gone(c).panel = Absent
           /\ Gone(c).order = c.order /\ Gone(c).kind = c.kind /\ Gone(c).reply = c.reply
BY DEF Call, Gone

\* The end of the process, orderly or not: no panel is left, nobody waits for the
\* requests that are on their way, and a cancellation among them was asked for.
LEMMA Ended ==
    ASSUME TypeOK, Restart \/ Kill
    PROVE  /\ mounted' = [p \in Panels |-> FALSE]
           /\ running' = [p \in Panels |-> FALSE]
           /\ order' = [p \in Panels |-> Absent]
           /\ due' = [p \in Panels |-> FALSE]
           /\ duration' = [p \in Panels |-> 0]
           /\ elapsed' = [p \in Panels |-> 0]
           /\ count' = [p \in Panels |-> 0]
           /\ borrowed' = {}
           /\ UNCHANGED <<server, age>>
           /\ \A d \in calls' :
                /\ d \in Call
                /\ d.from = "gone" /\ d.panel = Absent /\ d.reply = "unserved"
                /\ asked' \/ \E c \in calls : c.kind = d.kind
           /\ asked => asked'
<1>1. PICK sent \in SUBSET {Request(o) : o \in Orders} :
        /\ EndProcess(sent)
        /\ asked' \/ sent = {}
        /\ asked => asked'
  BY DEF Restart, Kill, CutWrite, CutCancel, CutRemoval
<1>2. ASSUME NEW c \in sent PROVE c \in Call /\ c.reply = "unserved"
  <2>1. PICK o \in Orders : c = Request(o)
    OBVIOUS
  <2>2. QED
    BY <2>1 DEF Request, Call, Kind
<1>3. ASSUME NEW d \in calls'
      PROVE  /\ d \in Call
             /\ d.from = "gone" /\ d.panel = Absent /\ d.reply = "unserved"
             /\ asked' \/ \E c \in calls : c.kind = d.kind
  <2>1. PICK c \in sent \cup {k \in calls : k.reply = "unserved" /\ k.kind # "poll"} :
          d = Gone(c)
    BY <1>1, <1>3 DEF EndProcess
  <2>2. c \in Call /\ c.reply = "unserved" /\ (c \in calls \/ sent # {})
    BY <1>2, <2>1 DEF TypeOK
  <2>3. QED
    BY <1>1, <2>1, <2>2, GoneCall
<1>4. QED
  BY <1>1, <1>3 DEF EndProcess

\* Every variable keeps its type: in particular a panel's count and the
\* requests it sends stay within what the backend's interface knows.
THEOREM TypeCorrect == Spec => []TypeOK
<1> USE SecondsAssumption, PollAssumption, AbsentAssumption
<1>1. Init => TypeOK
  <2>1. 0 \in Seconds /\ 0 \in 0 .. PollEvery /\ "none" \in Status
    BY DEF Seconds, Status
  <2> SUFFICES ASSUME Init PROVE TypeOK
    OBVIOUS
  <2> USE DEF Init
  <2>2. server \in [Orders -> Status] /\ age \in [Orders -> Seconds]
    BY <2>1
  <2>3. duration \in [Panels -> Seconds] /\ elapsed \in [Panels -> Seconds]
    BY <2>1
  <2>4. count \in [Panels -> 0 .. PollEvery]
    BY <2>1
  <2>5. /\ mounted \in [Panels -> BOOLEAN]
        /\ order \in [Panels -> Orders \cup {Absent}]
        /\ running \in [Panels -> BOOLEAN]
        /\ due \in [Panels -> BOOLEAN]
    OBVIOUS
  <2>6. isTime \in Seconds \cup {Absent} /\ owner \in Orders \cup {Absent}
    OBVIOUS
  <2>7. remaining \in BOOLEAN /\ asked \in BOOLEAN
    OBVIOUS
  <2>8. calls \subseteq Call /\ borrowed \subseteq Panels
    OBVIOUS
  <2>9. QED
    BY <2>2, <2>3, <2>4, <2>5, <2>6, <2>7, <2>8 DEF TypeOK
<1>2. TypeOK /\ [Next]_vars => TypeOK'
  <2> SUFFICES ASSUME TypeOK, [Next]_vars PROVE TypeOK'
    OBVIOUS
  <2> USE DEF TypeOK, Seconds
  <2>1. CASE Second
    BY <2>1, UpType DEF Second
  <2>2. ASSUME NEW p \in Panels, NEW o \in Orders, Mount(p, o) PROVE TypeOK'
    <3>1. CASE MountFirst(p, o)
      BY <2>2, <3>1 DEF Mount, MountFirst, WriteBoth, Fresh
    <3>2. CASE MountResumed(p, o)
      <4>1. PICK s \in Left : s > 0 /\ Fresh(p, o, s, TRUE)
        BY <3>2 DEF MountResumed
      <4>2. s \in Seconds
        BY <3>2 DEF MountResumed, Left
      <4>3. QED
        BY <2>2, <3>2, <4>1, <4>2 DEF Mount, MountResumed, Fresh, prefs
    <3>3. CASE MountExpired(p, o)
      BY <2>2, <3>3 DEF Mount, MountExpired, Fresh
    <3>4. QED
      BY <2>2, <3>1, <3>2, <3>3 DEF Mount
  <2>3. ASSUME NEW p \in Panels, Tick(p) PROVE TypeOK'
    <3>1. mounted[p] => Sends(p) \subseteq Call
      BY DEF Sends, New, Call, Kind
    <3>2. calls' \subseteq Call
      BY <2>3, <3>1 DEF Tick, TickUnmounted, TickThrows, TickRuns
    <3>3. count' \in [Panels -> 0 .. PollEvery]
      BY <2>3 DEF Tick, TickUnmounted, TickThrows, TickRuns, CountAfter, Polls, Up
    <3>4. running' \in [Panels -> BOOLEAN] /\ asked' \in BOOLEAN
      BY <2>3 DEF Tick, TickUnmounted, TickThrows, TickRuns, RunsOn, TimeUp
    <3>5. QED
      BY <2>3, <3>2, <3>3, <3>4 DEF Tick, prefs
  <2>4. ASSUME NEW o \in Orders, Cancel(o) PROVE TypeOK'
    BY <2>4 DEF Cancel, Request, Call, Kind, RemoveBoth, panel
  <2>5. ASSUME NEW gone \in SUBSET Panels, Unmount(gone) PROVE TypeOK'
    <3>1. Orphaned(gone) \subseteq Call
      BY DEF Orphaned, Call
    <3>2. \A p \in Panels : mounted'[p] => order'[p] \in Orders
      BY <2>5 DEF Unmount, Clear
    <3>3. /\ mounted' \in [Panels -> BOOLEAN]
          /\ order' \in [Panels -> Orders \cup {Absent}]
          /\ due' \in [Panels -> BOOLEAN]
      BY <2>5 DEF Unmount, Clear
    <3>4. /\ duration' \in [Panels -> Seconds]
          /\ elapsed' \in [Panels -> Seconds]
          /\ count' \in [Panels -> 0 .. PollEvery]
      BY <2>5 DEF Unmount, Clear
    <3>5. QED
      BY <2>5, <3>1, <3>2, <3>3, <3>4 DEF Unmount, prefs
  <2>6. ASSUME NEW c \in calls, Answer(c) PROVE TypeOK'
    <3>1. calls' \subseteq Call
      BY <2>6, GoneCall DEF Answer, PollAnswer, AutoAnswer, RiderAnswer, Fail, Call
    <3>2. QED
      BY <2>6, <3>1, GoneCall DEF Answer, PollAnswer, AutoAnswer, RiderAnswer, Fail, RemoveBoth,
                        prefs, panel, history
  <2>7. CASE Backend
    <3>1. ASSUME NEW c \in calls, Serve(c) PROVE TypeOK'
      <4>1. After(c) \in Status
        BY DEF After, Status, Call
      <4>2. calls' \subseteq Call
        BY <3>1, <4>1 DEF Serve, Call
      <4>3. QED
        BY <3>1, <4>1, <4>2 DEF Serve, prefs, panel, history, Call
    <3>2. QED
      BY <2>7, <3>1 DEF Backend, Place, Withdraw, Progress, Status, prefs, panel, history
  <2>8. CASE DropIsTime
    BY <2>8 DEF DropIsTime, panel
  <2>9. CASE Restart \/ Kill
    <3>1. calls' \subseteq Call
      BY <2>9, Ended
    <3>2. /\ isTime' \in Seconds \cup {Absent} /\ remaining' \in BOOLEAN
          /\ owner' \in Orders \cup {Absent}
          /\ asked' \in BOOLEAN /\ torn' \in BOOLEAN
      <4>1. CASE Restart
        BY <4>1 DEF Restart, prefs
      <4>2. CASE \E o \in Orders : CutWrite(o)
        BY <4>2 DEF CutWrite
      <4>3. CASE \E o \in Orders : CutCancel(o)
        BY <4>3 DEF CutCancel, HalfRemoved, prefs
      <4>4. CASE \E c \in calls : CutRemoval(c)
        BY <4>4 DEF CutRemoval, HalfRemoved
      <4>5. QED
        BY <2>9, <4>1, <4>2, <4>3, <4>4 DEF Kill
    <3>3. /\ server' \in [Orders -> Status] /\ age' \in [Orders -> Seconds]
          /\ order' \in [Panels -> Orders \cup {Absent}]
          /\ \A p \in Panels : mounted'[p] => order'[p] \in Orders
          /\ borrowed' \subseteq Panels
      BY <2>9, Ended
    <3>4. /\ duration' \in [Panels -> Seconds] /\ elapsed' \in [Panels -> Seconds]
          /\ count' \in [Panels -> 0 .. PollEvery]
      <4>1. 0 \in Seconds /\ 0 \in 0 .. PollEvery
        OBVIOUS
      <4>2. QED
        BY <2>9, <4>1, Ended
    <3>5. /\ mounted' \in [Panels -> BOOLEAN] /\ running' \in [Panels -> BOOLEAN]
          /\ due' \in [Panels -> BOOLEAN]
      BY <2>9, Ended
    <3>6. QED
      BY <3>1, <3>2, <3>3, <3>4, <3>5
  <2>10. CASE UNCHANGED vars
    BY <2>10 DEF vars, prefs, panel, history
  <2>11. ASSUME NEW p \in Panels, NEW o \in Orders, Rebind(p, o) PROVE TypeOK'
    BY <2>11 DEF Rebind, prefs
  <2>12. QED
    BY <2>1, <2>2, <2>3, <2>4, <2>5, <2>6, <2>7, <2>8, <2>9, <2>10, <2>11 DEF Next, PanelStep
<1>3. QED
  BY <1>1, <1>2, PTL DEF Spec

------------------------------------------------------------------------------

\* Whichever panel, answer, dialog or restart touches the two preferences, only
\* a kill between the two writes or the two removals leaves IS_TIME alone, and
\* the next pair that is written or removed whole mends it: only init writes
\* IS_TIME, and whoever removes REMAINING_TIME removes IS_TIME after it.
THEOREM PrefsArePaired == Spec => []PrefsPaired
<1>1. Init => PrefsPaired
  BY DEF Init, PrefsPaired
<1>2. TypeOK /\ PrefsPaired /\ [Next]_vars => PrefsPaired'
  <2> SUFFICES ASSUME TypeOK, PrefsPaired, [Next]_vars PROVE PrefsPaired'
    OBVIOUS
  <2> USE DEF PrefsPaired
  <2>1. CASE Second
    BY <2>1, AbsentAssumption DEF Second, TypeOK
  <2>2. CASE PanelStep
    BY <2>2 DEF PanelStep, Rebind, Mount, MountFirst, MountResumed, MountExpired, WriteBoth,
                Tick, Cancel, RemoveBoth, prefs, TypeOK
  <2>3. ASSUME NEW c \in calls, Answer(c) PROVE PrefsPaired'
    BY <2>3, GoneCall DEF Answer, PollAnswer, AutoAnswer, RiderAnswer, Fail, RemoveBoth, prefs,
                history, TypeOK
  <2>4. CASE Backend
    BY <2>4 DEF Backend, Place, Withdraw, Progress, Serve, prefs, history
  <2>5. CASE DropIsTime \/ Restart \/ Kill \/ \E gone \in SUBSET Panels : Unmount(gone)
    BY <2>5 DEF DropIsTime, Restart, Kill, CutWrite, CutCancel, CutRemoval, HalfRemoved,
                Unmount, prefs, TypeOK
  <2>6. CASE UNCHANGED vars
    BY <2>6 DEF vars, prefs, history
  <2>7. QED
    BY <2>1, <2>2, <2>3, <2>4, <2>5, <2>6 DEF Next
<1>3. QED
  BY <1>1, <1>2, TypeCorrect, PTL DEF Spec

------------------------------------------------------------------------------

\* An answer that says "canceled" is about an order that stays cancelled, and a
\* cancellation on its way has been asked for.
CancelsKnown ==
    \A c \in calls :
        /\ c.reply = "canceled" => server[c.order] = "canceled"
        /\ c.kind # "poll" => asked

LEMMA CancelsStayKnown ==
    TypeOK /\ CancelsKnown /\ [Next]_vars => CancelsKnown'
<1> SUFFICES ASSUME TypeOK, CancelsKnown, [Next]_vars PROVE CancelsKnown'
  OBVIOUS
<1> USE DEF CancelsKnown, TypeOK
<1>1. CASE Second
  BY <1>1 DEF Second
<1>2. CASE PanelStep
  <2>1. ASSUME NEW p \in Panels, NEW o \in Orders, Mount(p, o) PROVE CancelsKnown'
    BY <1>2, <2>1 DEF Mount
  <2>2. ASSUME NEW p \in Panels, Tick(p) PROVE CancelsKnown'
    <3>1. \A c \in Sends(p) : c.reply = "unserved" /\ (c.kind # "poll" => TimeUp(p))
      BY DEF Sends, New
    <3>2. QED
      BY <2>2, <3>1 DEF Tick, TickUnmounted, TickThrows, TickRuns
  <2>3. ASSUME NEW o \in Orders, Cancel(o) PROVE CancelsKnown'
    BY <2>3 DEF Cancel, Request
  <2>4. ASSUME NEW p \in Panels, NEW o \in Orders, Rebind(p, o) PROVE CancelsKnown'
    BY <2>4 DEF Rebind
  <2>5. QED
    BY <1>2, <2>1, <2>2, <2>3, <2>4 DEF PanelStep
<1>3. ASSUME NEW gone \in SUBSET Panels, Unmount(gone) PROVE CancelsKnown'
  <2>1. ASSUME NEW d \in Orphaned(gone)
        PROVE  \E c \in calls : d.order = c.order /\ d.reply = c.reply /\ d.kind = c.kind
    BY DEF Orphaned, Call
  <2>2. QED
    BY <1>3, <2>1 DEF Unmount
<1>4. ASSUME NEW c \in calls, Answer(c) PROVE CancelsKnown'
  BY <1>4, GoneCall DEF Answer, PollAnswer, AutoAnswer, RiderAnswer, Fail, panel, history, Call
<1>5. CASE Backend
  <2>1. "canceled" \notin Active
    BY UnderwayAssumption DEF Active
  <2>2. ASSUME NEW c \in calls, Serve(c) PROVE CancelsKnown'
    <3>1. c \in Call
      OBVIOUS
    <3>2. server'[c.order] = After(c)
      BY <2>2, <3>1 DEF Serve, Call
    <3>3. \A o \in Orders : server[o] = "canceled" => server'[o] = "canceled"
      BY <2>2, <2>1 DEF Serve, After
    <3>4. \A d \in calls' : \/ d \in calls
                            \/ d.order = c.order /\ d.kind = c.kind /\ d.reply = After(c)
      BY <2>2, <3>1 DEF Serve, Call
    <3>5. asked' = asked
      BY <2>2 DEF Serve, history
    <3>6. \A d \in calls : d.order \in Orders
      BY DEF Call
    <3>7. QED
      BY <3>1, <3>2, <3>3, <3>4, <3>5, <3>6
  <2>3. ASSUME NEW o \in Orders,
               Place(o) \/ Withdraw(o) \/ \E s \in Status : Progress(o, s)
        PROVE  CancelsKnown'
    <3>1. \A p \in Orders : server[p] = "canceled" => server'[p] = "canceled"
      BY <2>3, <2>1, UnderwayAssumption DEF Place, Withdraw, Progress
    <3>2. calls' = calls /\ asked' = asked
      BY <2>3 DEF Place, Withdraw, Progress, history
    <3>3. \A d \in calls : d.order \in Orders
      BY DEF Call
    <3>4. QED
      BY <3>1, <3>2, <3>3
  <2>4. QED
    BY <1>5, <2>2, <2>3 DEF Backend
<1>6. CASE DropIsTime
  BY <1>6 DEF DropIsTime
<1>7. CASE Restart \/ Kill
  BY <1>7, Ended
<1>8. CASE UNCHANGED vars
  BY <1>8 DEF vars, history
<1>9. QED
  BY <1>1, <1>2, <1>3, <1>4, <1>5, <1>6, <1>7, <1>8 DEF Next

\* A panel goes deaf - its timer runs and REMAINING_TIME is gone, so that every
\* twentieth tick throws - only when a cancellation came before, or a kill that
\* left IS_TIME alone.
THEOREM DeafnessNeedsACancel == Spec => []DeafOnlyAfterCancel
<1> DEFINE Inv == CancelsKnown /\ DeafOnlyAfterCancel
<1>1. Init => Inv
  BY DEF Init, CancelsKnown, DeafOnlyAfterCancel
<1>2. TypeOK /\ PrefsPaired /\ Inv /\ [Next]_vars => Inv'
  <2> SUFFICES ASSUME TypeOK, PrefsPaired, CancelsKnown, DeafOnlyAfterCancel, [Next]_vars
               PROVE  DeafOnlyAfterCancel'
    BY CancelsStayKnown
  <2> USE DEF DeafOnlyAfterCancel, TypeOK
  <2>1. CASE Second
    BY <2>1 DEF Second
  <2>2. CASE PanelStep
    <3>1. ASSUME NEW p \in Panels, NEW o \in Orders, Mount(p, o) PROVE DeafOnlyAfterCancel'
      BY <3>1 DEF Mount, MountFirst, MountResumed, MountExpired, WriteBoth, Fresh, prefs,
                  PrefsPaired
    <3>2. ASSUME NEW p \in Panels, Tick(p) PROVE DeafOnlyAfterCancel'
      BY <3>2 DEF Tick, TickUnmounted, TickThrows, TickRuns, RunsOn, TimeUp, prefs
    <3>3. ASSUME NEW o \in Orders, Cancel(o) PROVE DeafOnlyAfterCancel'
      BY <3>3 DEF Cancel
    <3>4. ASSUME NEW p \in Panels, NEW o \in Orders, Rebind(p, o) PROVE DeafOnlyAfterCancel'
      BY <3>4 DEF Rebind, prefs
    <3>5. QED
      BY <2>2, <3>1, <3>2, <3>3, <3>4 DEF PanelStep
  <2>3. ASSUME NEW c \in calls, Answer(c) PROVE DeafOnlyAfterCancel'
    BY <2>3, GoneCall DEF Answer, PollAnswer, AutoAnswer, RiderAnswer, Fail, RemoveBoth, Answered,
                prefs, panel, history, CancelsKnown, Call
  <2>4. CASE Backend
    <3>1. \A p \in Orders : server[p] = "canceled" => server'[p] = "canceled"
      BY <2>4, UnderwayAssumption
         DEF Backend, Place, Withdraw, Progress, Serve, After, Active, Call
    <3>2. UNCHANGED <<prefs, panel, asked, torn>>
      BY <2>4 DEF Backend, Place, Withdraw, Progress, Serve, history
    <3>3. QED
      BY <3>1, <3>2 DEF prefs, panel
  <2>5. CASE DropIsTime
    BY <2>5 DEF DropIsTime, panel
  <2>6. CASE Restart \/ Kill
    BY <2>6, Ended
  <2>7. ASSUME NEW gone \in SUBSET Panels, Unmount(gone) PROVE DeafOnlyAfterCancel'
    BY <2>7 DEF Unmount, Clear, prefs
  <2>8. CASE UNCHANGED vars
    BY <2>8 DEF vars, prefs, panel, history
  <2>9. QED
    BY <2>1, <2>2, <2>3, <2>4, <2>5, <2>6, <2>7, <2>8 DEF Next
<1>3. QED
  BY <1>1, <1>2, TypeCorrect, PrefsArePaired, PTL DEF Spec

------------------------------------------------------------------------------

\* A request marked "mounted" has its panel: Unmount and Restart re-mark the
\* requests of the panels they remove.
LEMMA FromMountedStep ==
    TypeOK /\ FromMounted /\ [Next]_vars => FromMounted'
<1> SUFFICES ASSUME TypeOK, FromMounted, [Next]_vars PROVE FromMounted'
  OBVIOUS
<1> USE DEF FromMounted, TypeOK
<1>1. CASE PanelStep
  <2>1. ASSUME NEW p \in Panels, NEW o \in Orders, Mount(p, o) PROVE FromMounted'
    BY <2>1 DEF Mount, MountFirst, MountResumed, MountExpired, Fresh, Call
  <2>2. ASSUME NEW p \in Panels, Tick(p) PROVE FromMounted'
    <3>1. \A d \in Sends(p) : d.panel = p /\ d.order = order[p]
      BY DEF Sends, New
    <3>2. calls' = calls \/ (mounted[p] /\ calls' = calls \cup Sends(p))
      BY <2>2 DEF Tick, TickUnmounted, TickThrows, TickRuns
    <3>3. QED
      BY <2>2, <3>1, <3>2 DEF Tick
  <2>3. ASSUME NEW o \in Orders, Cancel(o) PROVE FromMounted'
    BY <2>3 DEF Cancel, Request, panel
  <2>4. ASSUME NEW p \in Panels, NEW o \in Orders, Rebind(p, o) PROVE FromMounted'
    BY <2>4 DEF Rebind
  <2>5. QED
    BY <1>1, <2>1, <2>2, <2>3, <2>4 DEF PanelStep
<1>2. ASSUME NEW gone \in SUBSET Panels, Unmount(gone) PROVE FromMounted'
  BY <1>2 DEF Unmount, Clear, Orphaned, Call
<1>3. ASSUME NEW c \in calls, Answer(c) PROVE FromMounted'
  BY <1>3, GoneCall DEF Answer, PollAnswer, AutoAnswer, RiderAnswer, Fail, panel, Call
<1>4. CASE Backend
  BY <1>4 DEF Backend, Place, Withdraw, Progress, Serve, panel, Call
<1>5. CASE Second \/ DropIsTime \/ UNCHANGED vars
  BY <1>5 DEF Second, DropIsTime, vars, panel
<1>6. CASE Restart \/ Kill
  BY <1>6, Ended
<1>7. QED
  BY <1>1, <1>2, <1>3, <1>4, <1>5, <1>6 DEF Next

\* The panel that sends the automatic cancellation has stopped its timer for
\* good: mounting anew is the only way to start one, and it re-marks nothing.
THEOREM OneAutoCancelPerPanel == Spec => []AutoStopsTimer
<1> DEFINE Inv == FromMounted /\ AutoStopsTimer
<1>1. Init => Inv
  BY DEF Init, FromMounted, AutoStopsTimer
<1>2. TypeOK /\ Inv /\ [Next]_vars => Inv'
  <2> SUFFICES ASSUME TypeOK, FromMounted, AutoStopsTimer, [Next]_vars
               PROVE  AutoStopsTimer'
    BY FromMountedStep
  <2> USE DEF AutoStopsTimer, TypeOK
  <2>1. CASE PanelStep
    <3>1. ASSUME NEW p \in Panels, NEW o \in Orders, Mount(p, o) PROVE AutoStopsTimer'
      BY <3>1 DEF Mount, MountFirst, MountResumed, MountExpired, Fresh, FromMounted, Call
    <3>2. ASSUME NEW p \in Panels, Tick(p) PROVE AutoStopsTimer'
      <4>1. \A d \in Sends(p) : d.panel = p /\ (d.kind = "auto" => ~RunsOn(p))
        BY DEF Sends, New, RunsOn
      <4>2. QED
        BY <3>2, <4>1 DEF Tick, TickUnmounted, TickThrows, TickRuns, FromMounted
    <3>3. ASSUME NEW o \in Orders, Cancel(o) PROVE AutoStopsTimer'
      BY <3>3 DEF Cancel, Request, panel
    <3>4. ASSUME NEW p \in Panels, NEW o \in Orders, Rebind(p, o) PROVE AutoStopsTimer'
      BY <3>4 DEF Rebind
    <3>5. QED
      BY <2>1, <3>1, <3>2, <3>3, <3>4 DEF PanelStep
  <2>2. ASSUME NEW gone \in SUBSET Panels, Unmount(gone) PROVE AutoStopsTimer'
    BY <2>2 DEF Unmount, Orphaned, Call
  <2>3. ASSUME NEW c \in calls, Answer(c) PROVE AutoStopsTimer'
    BY <2>3, GoneCall DEF Answer, PollAnswer, AutoAnswer, RiderAnswer, Fail, panel, Call
  <2>4. CASE Backend
    BY <2>4 DEF Backend, Place, Withdraw, Progress, Serve, panel, Call
  <2>5. CASE Second \/ DropIsTime \/ UNCHANGED vars
    BY <2>5 DEF Second, DropIsTime, vars, panel
  <2>6. CASE Restart \/ Kill
    BY <2>6, Ended
  <2>7. QED
    BY <2>1, <2>2, <2>3, <2>4, <2>5, <2>6 DEF Next
<1>3. QED
  BY <1>1, <1>2, TypeCorrect, PTL DEF Spec

------------------------------------------------------------------------------

\* A panel that has been disposed of sends neither a poll nor a cancellation,
\* although its timer still ticks.
THEOREM SilenceAfterDispose == Spec => DisposedPanelIsSilent
<1>1. TypeOK /\ [Next]_vars =>
        [\A p \in Panels : ~mounted[p] => Automatic(p)' \subseteq Automatic(p)]_vars
  <2> SUFFICES ASSUME TypeOK, [Next]_vars,
                      NEW q \in Panels, ~mounted[q], NEW d \in calls', d.panel = q
               PROVE  \E c \in calls : c.panel = q /\ c.kind = d.kind
    BY DEF Automatic, CallsOf
  <2> DEFINE Sent == \E c \in calls : c.panel = q /\ c.kind = d.kind
  <2> USE AbsentAssumption DEF TypeOK
  <2>1. CASE PanelStep
    <3>1. ASSUME NEW p \in Panels, NEW o \in Orders, Mount(p, o) PROVE Sent
      BY <3>1 DEF Mount
    <3>2. ASSUME NEW p \in Panels, Tick(p) PROVE Sent
      <4>1. calls' = calls \/ (mounted[p] /\ calls' = calls \cup Sends(p))
        BY <3>2 DEF Tick, TickUnmounted, TickThrows, TickRuns
      <4>2. \A k \in Sends(p) : k.panel = p
        BY DEF Sends, New
      <4>3. QED
        BY <4>1, <4>2
    <3>3. ASSUME NEW o \in Orders, Cancel(o) PROVE Sent
      BY <3>3 DEF Cancel, Request
    <3>4. ASSUME NEW p \in Panels, NEW o \in Orders, Rebind(p, o) PROVE Sent
      BY <3>4 DEF Rebind
    <3>5. QED
      BY <2>1, <3>1, <3>2, <3>3, <3>4 DEF PanelStep
  <2>2. ASSUME NEW gone \in SUBSET Panels, Unmount(gone) PROVE Sent
    BY <2>2 DEF Unmount, Orphaned, Call
  <2>3. ASSUME NEW c \in calls, Answer(c) PROVE Sent
    BY <2>3, GoneCall DEF Answer, PollAnswer, AutoAnswer, RiderAnswer, Fail, Call
  <2>4. CASE Backend
    BY <2>4 DEF Backend, Place, Withdraw, Progress, Serve, Call
  <2>5. CASE Second \/ DropIsTime \/ UNCHANGED vars
    BY <2>5 DEF Second, DropIsTime, vars
  <2>6. CASE Restart \/ Kill
    BY <2>6, Ended
  <2>7. QED
    BY <2>1, <2>2, <2>3, <2>4, <2>5, <2>6 DEF Next
<1>2. QED
  BY <1>1, TypeCorrect, PTL DEF Spec, DisposedPanelIsSilent

------------------------------------------------------------------------------

\* What a second takes from the time left it adds to the age.
LEMMA LaterSum ==
    ASSUME NEW left \in Int, NEW later \in Int, NEW old \in Int, NEW next \in Int,
           NEW bound \in Int,
           later >= 0, later + 1 >= left, left + old >= bound,
           next = old + 1 \/ next = bound
    PROVE  later + next >= bound
OBVIOUS

LEMMA OwnedStep == TypeOK /\ Owned /\ [Next]_vars => Owned'
<1> SUFFICES ASSUME TypeOK, Owned, [Next]_vars PROVE Owned'
  OBVIOUS
<1> USE AbsentAssumption, SecondsAssumption DEF Owned, TypeOK, Seconds
<1>1. CASE Second
  <2> SUFFICES ASSUME isTime # Absent
               PROVE  /\ owner \in Orders
                      /\ server[owner] # "none"
                      /\ isTime' + age'[owner] >= timerMaxSeconds
    BY <1>1 DEF Second
  <2>1. isTime \in Int /\ isTime' \in Int /\ isTime' + 1 >= isTime /\ isTime' >= 0
    BY <1>1 DEF Second
  <2>2. owner \in Orders /\ server[owner] # "none"
    BY <1>1 DEF Second
  <2>3. age'[owner] = age[owner] + 1 \/ age'[owner] = timerMaxSeconds
    BY <1>1, <2>2 DEF Second, Up
  <2>4. age[owner] \in Int /\ age'[owner] \in Int /\ timerMaxSeconds \in Int
    BY <2>2, <2>3
  <2>5. isTime + age[owner] >= timerMaxSeconds
    BY <1>1 DEF Second
  <2> HIDE DEF Owned, TypeOK, Seconds
  <2>6. isTime' + age'[owner] >= timerMaxSeconds
    BY <2>1, <2>3, <2>4, <2>5, LaterSum
  <2>7. QED
    BY <2>2, <2>6
<1>2. CASE PanelStep
  <2>1. ASSUME NEW p \in Panels, NEW o \in Orders, Mount(p, o) PROVE Owned'
    <3>1. CASE MountFirst(p, o)
      BY <2>1, <3>1 DEF Mount, MountFirst, WriteBoth
    <3>2. CASE MountResumed(p, o)
      BY <2>1, <3>2 DEF Mount, MountResumed, prefs
    <3>3. CASE MountExpired(p, o)
      BY <2>1, <3>3 DEF Mount, MountExpired
    <3>4. QED
      BY <2>1, <3>1, <3>2, <3>3 DEF Mount
  <2>2. ASSUME NEW p \in Panels, Tick(p) PROVE Owned'
    BY <2>2 DEF Tick, prefs
  <2>3. ASSUME NEW o \in Orders, Cancel(o) PROVE Owned'
    BY <2>3 DEF Cancel, RemoveBoth
  <2>4. ASSUME NEW p \in Panels, NEW o \in Orders, Rebind(p, o) PROVE Owned'
    BY <2>4 DEF Rebind, prefs
  <2>5. QED
    BY <1>2, <2>1, <2>2, <2>3, <2>4 DEF PanelStep
<1>3. ASSUME NEW gone \in SUBSET Panels, Unmount(gone) PROVE Owned'
  BY <1>3 DEF Unmount, prefs
<1>4. ASSUME NEW c \in calls, Answer(c) PROVE Owned'
  BY <1>4, GoneCall DEF Answer, PollAnswer, AutoAnswer, RiderAnswer, Fail, RemoveBoth, prefs, history
<1>5. CASE Backend
  <2>1. \A o \in Orders : server[o] # "none" => server'[o] # "none"
    BY <1>5, UnderwayAssumption
       DEF Backend, Place, Withdraw, Progress, Serve, After, Active, Call
  <2>2. UNCHANGED <<prefs, history>>
    BY <1>5 DEF Backend, Place, Withdraw, Progress, Serve
  <2>3. QED
    BY <2>1, <2>2 DEF prefs, history
<1>6. CASE DropIsTime \/ UNCHANGED vars
  BY <1>6 DEF DropIsTime, vars, prefs, history
<1>7. CASE Restart \/ Kill
  <2>1. UNCHANGED <<server, age>>
    BY <1>7, Ended
  <2>2. \/ UNCHANGED <<isTime, owner>>
        \/ /\ isTime' = timerMaxSeconds /\ owner' \in Orders
           /\ server[owner'] # "none"
    BY <1>7 DEF Restart, Kill, CutWrite, CutCancel, CutRemoval, HalfRemoved, prefs
  <2>3. QED
    BY <2>1, <2>2
<1>8. QED
  BY <1>1, <1>2, <1>3, <1>4, <1>5, <1>6, <1>7 DEF Next

LEMMA WaitsStep == TypeOK /\ Owned /\ Waits /\ [Next]_vars => Waits'
<1> SUFFICES ASSUME TypeOK, Owned, Waits, [Next]_vars PROVE Waits'
  OBVIOUS
<1> USE AbsentAssumption, SecondsAssumption DEF Waits, TypeOK, Seconds
<1>1. CASE Second
  BY <1>1 DEF Second, Up
<1>2. CASE PanelStep
  <2>1. ASSUME NEW p \in Panels, NEW o \in Orders, Mount(p, o) PROVE Waits'
    <3>1. CASE MountFirst(p, o)
      BY <2>1, <3>1 DEF Mount, MountFirst, Fresh
    <3>2. CASE MountResumed(p, o)
      <4>1. PICK s \in Left : s > 0 /\ Fresh(p, o, s, TRUE)
        BY <3>2 DEF MountResumed
      <4>2. isTime \in Int /\ s \in Int /\ s + 1 >= isTime
        BY <3>2, <4>1 DEF MountResumed, Left
      <4>3. owner = o \/ p \in borrowed'
        BY <3>2 DEF MountResumed
      <4>4. owner = o => server[o] # "none" /\ s + age[o] + 1 >= timerMaxSeconds
        BY <3>2, <4>2 DEF Owned, MountResumed
      <4>5. QED
        BY <2>1, <3>2, <4>1, <4>2, <4>3, <4>4 DEF Mount, MountResumed, Fresh
    <3>3. CASE MountExpired(p, o)
      BY <2>1, <3>3 DEF Mount, MountExpired, Fresh
    <3>4. QED
      BY <2>1, <3>1, <3>2, <3>3 DEF Mount
  <2>2. ASSUME NEW p \in Panels, Tick(p) PROVE Waits'
    BY <2>2 DEF Tick, TickUnmounted, TickThrows, TickRuns, RunsOn, TimeUp
  <2>3. ASSUME NEW o \in Orders, Cancel(o) PROVE Waits'
    BY <2>3 DEF Cancel, panel
  <2>4. ASSUME NEW p \in Panels, NEW o \in Orders, Rebind(p, o) PROVE Waits'
    BY <2>4 DEF Rebind
  <2>5. QED
    BY <1>2, <2>1, <2>2, <2>3, <2>4 DEF PanelStep
<1>3. ASSUME NEW gone \in SUBSET Panels, Unmount(gone) PROVE Waits'
  BY <1>3 DEF Unmount, Clear
<1>4. ASSUME NEW c \in calls, Answer(c) PROVE Waits'
  BY <1>4, GoneCall DEF Answer, PollAnswer, AutoAnswer, RiderAnswer, Fail, panel, history
<1>5. CASE Backend
  <2>1. \A o \in Orders : server[o] # "none" => server'[o] # "none"
    BY <1>5, UnderwayAssumption
       DEF Backend, Place, Withdraw, Progress, Serve, After, Active, Call
  <2>2. UNCHANGED <<panel, history>>
    BY <1>5 DEF Backend, Place, Withdraw, Progress, Serve
  <2>3. QED
    BY <2>1, <2>2 DEF panel, history
<1>6. CASE DropIsTime \/ UNCHANGED vars
  BY <1>6 DEF DropIsTime, vars, panel, history
<1>7. CASE Restart \/ Kill
  BY <1>7, Ended
<1>8. QED
  BY <1>1, <1>2, <1>3, <1>4, <1>5, <1>6, <1>7 DEF Next

\* The wait is never cut short: an automatic cancellation is sent only when the
\* order has waited as long as timerMaxSeconds says, whatever restarts and
\* remounts came between, unless its panel took over another order's IS_TIME.
THEOREM NoEarlyCancel == Spec => []NotEarly
<1> DEFINE Inv == FromMounted /\ Owned /\ Waits /\ NotEarly
<1>1. Init => Inv
  BY DEF Init, FromMounted, Owned, Waits, NotEarly
<1>2. TypeOK /\ Inv /\ [Next]_vars => Inv'
  <2> SUFFICES ASSUME TypeOK, FromMounted, Owned, Waits, NotEarly, [Next]_vars
               PROVE  NotEarly'
    BY FromMountedStep, OwnedStep, WaitsStep
  <2> USE SecondsAssumption DEF NotEarly, TypeOK, Seconds
  <2>1. CASE Second
    BY <2>1 DEF Second, Up, Call
  <2>2. CASE PanelStep
    <3>1. ASSUME NEW p \in Panels, NEW o \in Orders, Mount(p, o) PROVE NotEarly'
      BY <3>1 DEF Mount, MountFirst, MountResumed, MountExpired, FromMounted
    <3>2. ASSUME NEW p \in Panels, Tick(p) PROVE NotEarly'
      <4>1. \A d \in Sends(p) :
              d.panel = p /\ d.order = order[p] /\ (d.kind = "auto" => TimeUp(p))
        BY DEF Sends, New
      <4>2. mounted[p] /\ TimeUp(p) /\ p \notin borrowed => age[order[p]] + 1 >= timerMaxSeconds
        BY <3>2 DEF Tick, TimeUp, Waits
      <4>3. calls' = calls \/ (mounted[p] /\ calls' = calls \cup Sends(p))
        BY <3>2 DEF Tick, TickUnmounted, TickThrows, TickRuns
      <4>4. QED
        BY <3>2, <4>1, <4>2, <4>3 DEF Tick
    <3>3. ASSUME NEW o \in Orders, Cancel(o) PROVE NotEarly'
      BY <3>3 DEF Cancel, Request
    <3>4. ASSUME NEW p \in Panels, NEW o \in Orders, Rebind(p, o) PROVE NotEarly'
      BY <3>4 DEF Rebind
    <3>5. QED
      BY <2>2, <3>1, <3>2, <3>3, <3>4 DEF PanelStep
  <2>3. ASSUME NEW gone \in SUBSET Panels, Unmount(gone) PROVE NotEarly'
    BY <2>3 DEF Unmount, Orphaned, Call
  <2>4. ASSUME NEW c \in calls, Answer(c) PROVE NotEarly'
    BY <2>4, GoneCall DEF Answer, PollAnswer, AutoAnswer, RiderAnswer, Fail, history, Call
  <2>5. CASE Backend
    BY <2>5 DEF Backend, Place, Withdraw, Progress, Serve, history, Call
  <2>6. CASE DropIsTime \/ UNCHANGED vars
    BY <2>6 DEF DropIsTime, vars, history
  <2>7. CASE Restart \/ Kill
    BY <2>7, Ended
  <2>8. QED
    BY <2>1, <2>2, <2>3, <2>4, <2>5, <2>6, <2>7 DEF Next
<1>3. QED
  BY <1>1, <1>2, TypeCorrect, PTL DEF Spec

=============================================================================
