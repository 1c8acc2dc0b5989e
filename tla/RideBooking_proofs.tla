-------------------------- MODULE RideBooking_proofs --------------------------
(* Proofs about the booking screens, for any set of orders and any number of
   screens.  The screens use the panel as its module says (PanelInside), so what
   is proved of the panel alone holds inside the app. *)
EXTENDS RideBooking, SequenceTheorems, TLAPS

\* A panel in the tree has an order to watch.
MountedHasOrder == \A p \in Panels : mounted[p] => order[p] \in Orders

\* isBooking is never set on a screen whose isCurrentRequest is not, and a
\* screen with isCurrentRequest, which books once init has run, has an order; a
\* ride on the screen is some order's.
ScreensOK ==
    /\ screen \in [Panels -> Screens]
    /\ \A p \in Panels : screen[p].isBooking => IsOpen(p) /\ screen[p].isCurrentRequest
    /\ \A p \in Panels : screen[p].isCurrentRequest => screen[p].id \in Orders
    /\ \A p \in Panels : screen[p].status # "none" => screen[p].ride \in Orders

\* What the backend tells of a ride names its order.
QueriesOK ==
    /\ queries \subseteq Query
    /\ \A q \in queries : q.status \notin {"none", "unserved"} => q.order \in Orders

\* Who waits for the answer of a booking is still there.
SavesOK == saves \subseteq Save /\ \A s \in saves : IsOpen(s.by)

LeavesOK == leaves \subseteq Leave

StackOK == stack \in Seq(Routes) /\ stack # <<>>

AppInv ==
    /\ TypeOK /\ MountedHasOrder
    /\ StackOK
    /\ ScreensOK
    /\ QueriesOK
    /\ SavesOK
    /\ LeavesOK

------------------------------------------------------------------------------
(* The panel alone.                                                        *)

LEMMA PanelInit == Init => TypeOK /\ MountedHasOrder
BY DEF Init, TypeOK, MountedHasOrder, Status

\* What giving up on a request leaves is a request.
LEMMA GoneIsCall ==
    ASSUME NEW c \in Call
    PROVE  Gone(c) \in Call
BY DEF Gone, Call

\* The end of the process, orderly or not: no panel is left, and nobody waits for
\* the requests that are on their way.
LEMMA Ended ==
    ASSUME TypeOK, Restart \/ Kill
    PROVE  /\ mounted' = [p \in Panels |-> FALSE]
           /\ order' = [p \in Panels |-> Absent]
           /\ counting' = [p \in Panels |-> FALSE]
           /\ UNCHANGED server
           /\ isTime' \in BOOLEAN /\ remaining' \in BOOLEAN
           /\ \A d \in calls' : d \in Call /\ d.from = "gone"
<1>1. PICK sent \in SUBSET {Request(o) : o \in Orders} : EndProcess(sent)
  BY DEF Restart, Kill, CutWrite, CutCancel, CutRemoval
<1>2. ASSUME NEW c \in sent PROVE c \in Call
  <2>1. PICK o \in Orders : c = Request(o)
    OBVIOUS
  <2>2. QED
    BY <2>1 DEF Request, Call
<1>3. ASSUME NEW d \in calls' PROVE d \in Call /\ d.from = "gone"
  <2>1. PICK c \in Call : d = Gone(c)
    BY <1>1, <1>2, <1>3 DEF EndProcess, TypeOK
  <2>2. QED
    BY <2>1, GoneIsCall DEF Gone, Call
<1>4. isTime' \in BOOLEAN /\ remaining' \in BOOLEAN
  BY DEF Restart, Kill, CutWrite, CutCancel, CutRemoval, HalfRemoved, prefs, TypeOK
<1>5. QED
  BY <1>1, <1>3, <1>4 DEF EndProcess

LEMMA PanelKeepsTypes ==
    ASSUME TypeOK, MountedHasOrder, [Next]_vars
    PROVE  TypeOK' /\ MountedHasOrder'
<1> USE DEF TypeOK, MountedHasOrder
<1>1. ASSUME NEW p \in Panels, Tick(p) PROVE TypeOK' /\ MountedHasOrder'
  <2>1. PICK sent \in (SUBSET {"poll", "auto"}) \ {{}} :
          /\ calls' = calls \cup {New(p, kind) : kind \in sent}
          /\ counting' = [counting EXCEPT ![p] = "auto" \notin sent]
    BY <1>1 DEF Tick
  <2>2. \A kind \in sent : New(p, kind) \in Call
    BY <1>1 DEF Tick, New, Call
  <2>3. counting' \in [Panels -> BOOLEAN] /\ calls' \subseteq Call
    BY <2>1, <2>2
  <2>4. QED
    BY <1>1, <2>3 DEF Tick, prefs
<1>2. ASSUME NEW p \in Panels, NEW o \in Orders, Mount(p, o)
      PROVE  TypeOK' /\ MountedHasOrder'
  BY <1>2 DEF Mount, prefs
<1>3. ASSUME NEW p \in Panels, NEW o \in Orders, Rebind(p, o)
      PROVE  TypeOK' /\ MountedHasOrder'
  BY <1>3 DEF Rebind, prefs
<1>4. ASSUME NEW o \in Orders, Cancel(o) PROVE TypeOK' /\ MountedHasOrder'
  BY <1>4 DEF Cancel, Request, RemoveBoth, Call, panel
<1>5. ASSUME NEW gone \in SUBSET Panels, Unmount(gone) PROVE TypeOK' /\ MountedHasOrder'
  <2>1. calls' \subseteq Call
    BY <1>5 DEF Unmount, Orphaned, Call
  <2>2. QED
    BY <1>5, <2>1 DEF Unmount, prefs
<1>6. ASSUME NEW c \in calls, Answer(c) PROVE TypeOK' /\ MountedHasOrder'
  <2>1. Gone(c) \in Call
    BY GoneIsCall
  <2>2. QED
    BY <1>6, <2>1 DEF Answer, PollAnswer, AutoAnswer, RiderAnswer, Fail, RemoveBoth,
                      prefs, panel
<1>7. CASE Backend
  <2>1. ASSUME NEW c \in calls, Serve(c) PROVE TypeOK' /\ MountedHasOrder'
    <3>1. After(c) \in Status
      BY DEF After, Status, Call
    <3>2. calls' \subseteq Call
      BY <2>1, <3>1 DEF Serve, Call
    <3>3. QED
      BY <2>1, <3>1, <3>2 DEF Serve, prefs, panel
  <2>2. QED
    BY <1>7, <2>1 DEF Backend, Place, Withdraw, Progress, Status, prefs, panel
<1>8. CASE DropIsTime
  BY <1>8 DEF DropIsTime, panel
<1>9. CASE Restart \/ Kill
  <2>1. calls' \subseteq Call /\ isTime' \in BOOLEAN /\ remaining' \in BOOLEAN
    BY <1>9, Ended
  <2>2. server' \in [Orders -> Status] /\ mounted' \in [Panels -> BOOLEAN]
    BY <1>9, Ended
  <2>3. counting' \in [Panels -> BOOLEAN] /\ order' \in [Panels -> Orders \cup {Absent}]
    BY <1>9, Ended
  <2>4. \A p \in Panels : mounted'[p] => order'[p] \in Orders
    BY <1>9, Ended
  <2>5. QED
    BY <2>1, <2>2, <2>3, <2>4
<1>10. CASE UNCHANGED vars
  BY <1>10 DEF vars, prefs, panel
<1>11. QED
  BY <1>1, <1>2, <1>3, <1>4, <1>5, <1>6, <1>7, <1>8, <1>9, <1>10 DEF Next, PanelStep

------------------------------------------------------------------------------
(* The panel inside the app.                                               *)

LEMMA HomeType == Home \in Routes
BY DEF Home, Route, Routes

LEMMA TopType == StackOK => Top \in Routes
BY DEF StackOK, Top

\* However the app is killed, its panel is.
LEMMA KilledWithPanel ==
    ASSUME AppInv, RideRestart
    PROVE  Restart \/ Kill
<1> USE DEF AppInv
<1>1. ASSUME NEW p \in Panels, ShowsPanel(p), CutWrite(screen[p].id) PROVE Kill
  BY <1>1 DEF ShowsPanel, ScreensOK, Kill
<1>2. ASSUME Top.kind = "panelDialog", CutCancel(Top.order) PROVE Kill
  BY <1>2, TopType DEF Routes, Kill
<1>3. QED
  BY <1>1, <1>2 DEF RideRestart, RideKill, Kill

\* What a step of the app is for the panel.
LEMMA AppStepIsPanelStep ==
    ASSUME AppInv, [RideNext]_rideVars
    PROVE  [Next]_vars
<1> USE DEF AppInv
<1>1. CASE PanelAlone
  BY <1>1 DEF PanelAlone, Next, PanelStep, Answer, Backend
<1>2. ASSUME NEW p \in Panels, ScreenStep(p) PROVE [Next]_vars
  <2>1. CASE \/ OpenForm(p) \/ Loaded(p) \/ OpenWallet(p) \/ OpenDialog(p)
             \/ CompleteRide(p) \/ OpenRideDialog(p) \/ Track(p)
    BY <2>1 DEF OpenForm, Loaded, OpenWallet, OpenDialog, CompleteRide, OpenRideDialog, Track
  <2>2. CASE BookNow(p)
    BY <2>2 DEF BookNow, Next, Backend
  <2>3. CASE BuildPanel(p) \/ RebuildPanel(p)
    BY <2>3 DEF BuildPanel, RebuildPanel, ShowsPanel, ScreensOK, Next, PanelStep
  <2>4. CASE BuildRide(p)
    BY <2>4 DEF BuildRide, Next
  <2>5. CASE ReadDriver(p)
    BY <2>5 DEF ReadDriver, Next
  <2>6. QED
    BY <1>2, <2>1, <2>2, <2>3, <2>4, <2>5 DEF ScreenStep
<1>3. ASSUME NEW c \in calls, RidePollAnswer(c) \/ RideAutoAnswer(c) \/ RideRiderAnswer(c)
      PROVE  [Next]_vars
  BY <1>3 DEF RidePollAnswer, RideAutoAnswer, RideRiderAnswer, Next, Answer
<1>4. CASE SubmitDialog
  <2>1. Top.order \in Orders
    BY <1>4, TopType DEF SubmitDialog, Routes
  <2>2. QED
    BY <1>4, <2>1 DEF SubmitDialog, Next, PanelStep
<1>5. ASSUME NEW gone \in SUBSET Panels, Dispose(gone) PROVE [Next]_vars
  BY <1>5 DEF Dispose, Next
<1>6. CASE RideRestart
  BY <1>6, KilledWithPanel DEF Next
<1>7. ASSUME NEW q \in queries, ServeQuery(q) \/ ScreenAnswer(q) \/ HomeAnswer(q)
      PROVE  [Next]_vars
  BY <1>7 DEF ServeQuery, ScreenAnswer, HomeAnswer
<1>8. ASSUME NEW s \in saves, SaveAnswer(s) PROVE [Next]_vars
  BY <1>8 DEF SaveAnswer
<1>9. CASE Back \/ SubmitRideDialog
  BY <1>9 DEF Back, SubmitRideDialog
<1>10. CASE UNCHANGED rideVars
  BY <1>10 DEF rideVars
<1>11. ASSUME NEW l \in leaves, ServeLeave(l) \/ LeaveAnswer(l) \/ LeaveFail(l)
       PROVE  [Next]_vars
  <2>1. l.order \in Orders
    BY DEF LeavesOK, Leave
  <2>2. QED
    BY <1>11, <2>1 DEF ServeLeave, LeaveAnswer, LeaveFail, Next, Backend
<1>12. QED
  BY <1>1, <1>2, <1>3, <1>4, <1>5, <1>6, <1>7, <1>8, <1>9, <1>10, <1>11 DEF RideNext

------------------------------------------------------------------------------
(* The screens.                                                            *)

\* A route list without its last route is a route list.
LEMMA PopType ==
    ASSUME NEW routes \in Seq(Routes)
    PROVE  SubSeq(routes, 1, Len(routes) - 1) \in Seq(Routes)
<1>1. \A i \in 1 .. Len(routes) - 1 : routes[i] \in Routes
  OBVIOUS
<1>2. QED
  BY <1>1, SubSeqProperties

LEMMA PushType ==
    ASSUME NEW routes \in Seq(Routes), NEW r \in Routes, Push(routes, r)
    PROVE  StackOK'
BY DEF Push, StackOK

LEMMA NewTaskType ==
    ASSUME NEW r \in Routes, NewTask(r)
    PROVE  StackOK'
BY DEF NewTask, StackOK

\* A new question to the backend is typed and names no order yet.
LEMMA AskType ==
    ASSUME QueriesOK, NEW p \in Panels \cup {Absent}, Ask(p)
    PROVE  QueriesOK'
BY DEF Ask, Query, QueriesOK

LEMMA FewerQueries ==
    ASSUME QueriesOK, queries' \subseteq queries
    PROVE  QueriesOK'
BY DEF QueriesOK

LEMMA SendLeaveType ==
    ASSUME LeavesOK, NEW o \in Orders, NEW kind \in {"cancel", "rated"}, SendLeave(o, kind)
    PROVE  LeavesOK'
<1>1. [order |-> o, kind |-> kind, served |-> FALSE] \in Leave
  BY DEF Leave
<1>2. QED
  BY <1>1 DEF SendLeave, LeavesOK

\* A screen that opens, for a ride or for a form.
LEMMA OpeningType ==
    ASSUME NEW current \in BOOLEAN, NEW o \in Orders \cup {Absent}
    PROVE  /\ Closed \in Screens /\ Closed.status = "none" /\ ~Closed.isBooking /\ ~Closed.isCurrentRequest
           /\ Opening(current, o) \in Screens /\ Opening(current, o).phase = "opening"
           /\ ~Opening(current, o).isBooking
           /\ Opening(current, o).isCurrentRequest = current
           /\ Opening(current, o).id = o /\ Opening(current, o).status = "none"
BY DEF Opening, Closed, Screens, Status

LEMMA ScreensKept ==
    ASSUME UNCHANGED screen
    PROVE  /\ ScreensOK => ScreensOK'
           /\ \A p : IsOpen(p)' = IsOpen(p)
BY DEF ScreensOK, IsOpen

LEMMA FewerSaves ==
    ASSUME SavesOK, saves' \subseteq saves, \A p \in Panels : IsOpen(p) => IsOpen(p)'
    PROVE  SavesOK'
BY DEF SavesOK, Save

LEMMA BookedType ==
    ASSUME ScreensOK, NEW p \in Panels, IsOpen(p), NEW o \in Orders, Booked(p, o)
    PROVE  ScreensOK' /\ \A q \in Panels : IsOpen(q) => IsOpen(q)'
<1>1. /\ screen[p] \in Screens
      /\ screen' = [screen EXCEPT ![p] = [@ EXCEPT !.id = o, !.isBooking = TRUE,
                                                   !.isCurrentRequest = TRUE]]
  BY DEF Booked, ScreensOK
<1>2. screen'[p] \in Screens /\ screen'[p].id = o /\ IsOpen(p)'
  BY <1>1 DEF ScreensOK, Screens, IsOpen
<1>3. \A q \in Panels \ {p} : screen'[q] = screen[q]
  BY <1>1 DEF ScreensOK
<1>4. /\ screen'[p].isCurrentRequest /\ screen' \in [Panels -> Screens]
      /\ screen'[p].ride = screen[p].ride /\ screen'[p].status = screen[p].status
  BY <1>1, <1>2 DEF ScreensOK, Screens
<1>5. QED
  BY <1>2, <1>3, <1>4 DEF ScreensOK, IsOpen

LEMMA LoadedType ==
    ASSUME ScreensOK, NEW p \in Panels, Loaded(p)
    PROVE  ScreensOK' /\ \A q \in Panels : IsOpen(q) => IsOpen(q)'
BY DEF ScreensOK, Loaded, Screens, IsOpen

LEMMA OneOpens ==
    ASSUME ScreensOK, NEW p \in Panels, NEW current \in BOOLEAN,
           NEW o \in Orders \cup {Absent}, current => o \in Orders,
           screen' = [screen EXCEPT ![p] = Opening(current, o)]
    PROVE  ScreensOK' /\ \A q \in Panels : IsOpen(q) => IsOpen(q)'
<1>1. Opening(current, o).phase # "closed" /\ Opening(current, o) \in Screens
  BY OpeningType
<1>2. screen' \in [Panels -> Screens]
  BY <1>1 DEF ScreensOK
<1>3. QED
  BY <1>1, <1>2, OpeningType DEF ScreensOK, IsOpen

LEMMA AppTypes == AppInv => RideTypeOK
BY DEF AppInv, RideTypeOK, StackOK, ScreensOK, QueriesOK, SavesOK, LeavesOK

LEMMA AppInit == RideInit => AppInv
<1> SUFFICES ASSUME RideInit PROVE AppInv
  OBVIOUS
<1>1. TypeOK /\ MountedHasOrder
  BY PanelInit DEF RideInit
<1>2. StackOK /\ SavesOK /\ LeavesOK
  BY DEF RideInit, Routes, Home, Route, StackOK, SavesOK, LeavesOK
<1>3. ScreensOK
  BY DEF RideInit, ScreensOK, Closed, Screens, Status
<1>4. QueriesOK
  BY DEF RideInit, QueriesOK, Query
<1>5. QED
  BY <1>1, <1>2, <1>3, <1>4 DEF AppInv

\* A dialog that is given another order keeps its place.
LEMMA RereadKeeps ==
    ASSUME StackOK, NEW kind \in {"panelDialog", "rideDialog"}, NEW p \in Panels,
           NEW o \in Orders, Reread(kind, p, o)
    PROVE  /\ StackOK' /\ Len(stack') = Len(stack)
           /\ \A i \in 1 .. Len(stack) :
                /\ stack'[i].by = stack[i].by
                /\ \A q : stack'[i] = Booking(q) <=> stack[i] = Booking(q)
<1>1. \A r \in Routes : r.kind = kind => /\ [r EXCEPT !.order = o] \in Routes
                                         /\ [r EXCEPT !.order = o].by = r.by
                                         /\ [r EXCEPT !.order = o].kind = kind
  BY DEF Routes
<1>2. \A q : Booking(q).kind = "booking"
  BY DEF Booking, Route
<1>3. stack \in Seq(Routes) /\ stack # <<>>
  BY DEF StackOK
<1>4. ASSUME NEW i \in 1 .. Len(stack)
      PROVE  /\ stack'[i] \in Routes /\ stack'[i].by = stack[i].by
             /\ \A q : stack'[i] = Booking(q) <=> stack[i] = Booking(q)
  <2>1. stack[i] \in Routes
    BY <1>3
  <2>2. CASE stack[i].kind = kind /\ stack[i].by = p
    <3>1. stack'[i] = [stack[i] EXCEPT !.order = o]
      BY <2>2 DEF Reread
    <3>2. stack'[i].kind = kind /\ stack[i].kind = kind /\ kind # "booking"
      BY <1>1, <2>1, <2>2, <3>1
    <3>3. QED
      BY <1>1, <1>2, <2>1, <2>2, <3>1, <3>2
  <2>3. CASE ~(stack[i].kind = kind /\ stack[i].by = p)
    BY <2>1, <2>3 DEF Reread
  <2>4. QED
    BY <2>2, <2>3
<1>5. stack' \in Seq(Routes) /\ Len(stack') = Len(stack)
  <2>1. \A i \in 1 .. Len(stack) : stack'[i] \in Routes
    BY <1>4
  <2>2. Len(stack) \in Nat /\ stack' = [i \in 1 .. Len(stack) |-> stack'[i]]
    BY <1>3 DEF Reread
  <2>3. QED
    BY <2>1, <2>2
<1>6. Len(stack) > 0
  BY <1>3
<1>7. QED
  BY <1>4, <1>5, <1>6 DEF StackOK

LEMMA ScreenAnswerStack ==
    ASSUME AppInv, NEW q \in queries, ScreenAnswer(q)
    PROVE  \/ UNCHANGED stack
           \/ q.by \in Panels /\ q.order \in Orders /\ Reread("rideDialog", q.by, q.order)
<1>1. q.by \in Panels
  BY DEF AppInv, QueriesOK, Query, ScreenAnswer
<1>2. q.status \in RideStatus => q.order \in Orders
  BY DEF AppInv, QueriesOK, RideStatus
<1>3. QED
  BY <1>1, <1>2 DEF ScreenAnswer

\* A step of one screen.
LEMMA ScreenKeepsInv ==
    ASSUME AppInv, NEW p \in Panels, ScreenStep(p)
    PROVE  /\ StackOK' /\ ScreensOK'
           /\ QueriesOK' /\ SavesOK' /\ LeavesOK'
<1> USE DEF AppInv
<1>1. CASE OpenForm(p)
  <2>1. Booking(p) \in Routes
    BY DEF Routes, Booking, Route
  <2>2. QED
    BY <1>1, <2>1, PushType, OneOpens, AskType, FewerSaves DEF OpenForm, StackOK, LeavesOK
<1>2. CASE Loaded(p)
  BY <1>2, LoadedType, AskType, FewerSaves DEF Loaded, StackOK, LeavesOK
<1>3. CASE OpenWallet(p)
  <2>1. Route("wallet", p, Absent) \in Routes
    BY DEF Routes, Route
  <2>2. QED
    BY <1>3, <2>1, PushType, ScreensKept, FewerQueries, FewerSaves DEF OpenWallet, StackOK, LeavesOK
<1>4. CASE BookNow(p)
  BY <1>4, ScreensKept, FewerQueries DEF BookNow, Save, SavesOK, StackOK, LeavesOK
<1>5. CASE BuildPanel(p) \/ BuildRide(p)
  BY <1>5, ScreensKept, FewerQueries, FewerSaves
     DEF BuildPanel, BuildRide, nav, StackOK, LeavesOK
<1>6. CASE RebuildPanel(p)
  <2>1. screen[p].id \in Orders
    BY <1>6 DEF RebuildPanel, ShowsPanel, ScreensOK
  <2>2. StackOK'
    BY <1>6, <2>1, RereadKeeps DEF RebuildPanel
  <2>3. QED
    BY <1>6, <2>2, ScreensKept, FewerQueries, FewerSaves DEF RebuildPanel, LeavesOK
<1>7. CASE OpenDialog(p)
  <2>1. Route("panelDialog", p, order[p]) \in Routes
    BY <1>7 DEF OpenDialog, MountedHasOrder, Routes, Route
  <2>2. QED
    BY <1>7, <2>1, PushType, ScreensKept, FewerQueries, FewerSaves DEF OpenDialog, StackOK, LeavesOK
<1>8. CASE CompleteRide(p)
  <2>1. screen[p].ride \in Orders
    BY <1>8 DEF CompleteRide, ScreensOK
  <2>2. LeavesOK'
    BY <1>8, <2>1, SendLeaveType DEF CompleteRide
  <2>3. QED
    BY <1>8, <2>2, ScreensKept, FewerQueries, FewerSaves DEF CompleteRide, StackOK
<1>9. CASE OpenRideDialog(p)
  <2>1. Route("rideDialog", p, screen[p].ride) \in Routes
    <3>1. screen[p].status # "none"
      BY <1>9 DEF OpenRideDialog
    <3>2. QED
      BY <3>1 DEF ScreensOK, Routes, Route
  <2>2. QED
    BY <1>9, <2>1, PushType, ScreensKept, FewerQueries, FewerSaves DEF OpenRideDialog, StackOK, LeavesOK
<1>10. CASE ReadDriver(p)
  <2>1. ScreensOK' /\ \A q \in Panels : IsOpen(q) => IsOpen(q)'
    BY <1>10 DEF ReadDriver, ScreensOK, Screens, IsOpen
  <2>2. QED
    BY <1>10, <2>1, FewerQueries, FewerSaves DEF ReadDriver, StackOK, LeavesOK
<1>11. CASE Track(p)
  BY <1>11, ScreensKept, AskType, FewerSaves DEF Track, StackOK, LeavesOK
<1>12. QED
  BY <1>1, <1>2, <1>3, <1>4, <1>5, <1>6, <1>7, <1>8, <1>9, <1>10, <1>11 DEF ScreenStep

\* An answer to current-ride-request.
LEMMA QueryKeepsInv ==
    ASSUME AppInv, NEW q \in queries, ServeQuery(q) \/ ScreenAnswer(q) \/ HomeAnswer(q)
    PROVE  /\ StackOK' /\ ScreensOK'
           /\ QueriesOK' /\ SavesOK' /\ LeavesOK'
<1> USE DEF AppInv
<1>1. q \in Query /\ q.by \in Panels \cup {Absent}
  BY DEF QueriesOK, Query
<1>2. CASE ServeQuery(q)
  <2>1. \A o \in Orders : server[o] \in Status
    BY DEF TypeOK
  <2>2. QueriesOK'
    BY <1>1, <1>2, <2>1 DEF ServeQuery, QueriesOK, CurrentRide, Query, Status
  <2>3. QED
    BY <1>2, <2>2, ScreensKept, FewerSaves DEF ServeQuery, StackOK, LeavesOK
<1>3. CASE ScreenAnswer(q)
  <2>1. /\ q.status \in Status /\ q.order \in Orders \cup {Absent}
        /\ q.status # "none" => q.order \in Orders
    BY <1>1, <1>3 DEF ScreenAnswer, Query, QueriesOK
  <2>2. ScreensOK' /\ \A p \in Panels : IsOpen(p)' = IsOpen(p)
    BY <1>1, <1>3, <2>1 DEF ScreenAnswer, ScreensOK, Screens, IsOpen
  <2>3. StackOK'
    BY <1>3, ScreenAnswerStack, RereadKeeps DEF StackOK
  <2>4. QED
    BY <1>3, <2>2, <2>3, FewerQueries, FewerSaves DEF ScreenAnswer, LeavesOK
<1>4. CASE HomeAnswer(q)
  <2>1. CASE q.status \in Active
    <3>1. q.order \in Orders
      BY <2>1, PanelStatusAssumption DEF QueriesOK, Active
    <3>2. PICK p \in Panels :
            Resume(p) /\ screen' = [screen EXCEPT ![p] = Opening(TRUE, q.order)]
      BY <1>4, <2>1 DEF HomeAnswer
    <3>3. StackOK'
      BY <3>2, NewTaskType DEF Resume, Routes, Booking, Route
    <3>4. ScreensOK' /\ \A r \in Panels : IsOpen(r) => IsOpen(r)'
      BY <3>1, <3>2, OneOpens
    <3>5. QED
      BY <1>4, <2>1, <3>3, <3>4, FewerQueries, FewerSaves DEF HomeAnswer, LeavesOK
  <2>2. CASE q.status \notin Active
    BY <1>4, <2>2, ScreensKept, FewerQueries, FewerSaves DEF HomeAnswer, StackOK, LeavesOK
  <2>3. QED
    BY <2>1, <2>2
<1>5. QED
  BY <1>2, <1>3, <1>4

\* What the panel's answers and its dialog do to the screens.
LEMMA CallKeepsInv ==
    ASSUME AppInv,
           SubmitDialog \/ \E c \in calls : \/ RidePollAnswer(c)
                                           \/ RideAutoAnswer(c)
                                           \/ RideRiderAnswer(c)
    PROVE  /\ StackOK' /\ ScreensOK'
           /\ QueriesOK' /\ SavesOK' /\ LeavesOK'
<1> USE DEF AppInv
<1>1. ASSUME NEW c \in calls, PanelHome(c) PROVE StackOK' /\ QueriesOK'
  BY <1>1, HomeType, PushType, AskType, FewerQueries DEF PanelHome, PushHome, StackOK
<1>2. ASSUME NEW c \in calls, RidePollAnswer(c) PROVE StackOK' /\ QueriesOK'
  <2>1. c.panel \in Panels \cup {Absent}
    BY DEF TypeOK, Call
  <2>2. QED
    BY <1>1, <1>2, <2>1, AskType, FewerQueries DEF RidePollAnswer, StackOK
<1>3. ASSUME NEW c \in calls, RideRiderAnswer(c) PROVE StackOK' /\ QueriesOK'
  BY <1>3, HomeType, NewTaskType, AskType DEF RideRiderAnswer, HomeTask
<1>4. CASE SubmitDialog
  <2>1. StackOK' /\ QueriesOK'
    BY <1>4, HomeType, PopType, PushType, AskType DEF SubmitDialog, PushHome, StackOK
  <2>2. QED
    BY <1>4, <2>1, ScreensKept, FewerSaves DEF SubmitDialog, LeavesOK
<1>5. QED
  BY <1>1, <1>2, <1>3, <1>4, ScreensKept, FewerSaves
     DEF RidePollAnswer, RideAutoAnswer, RideRiderAnswer, LeavesOK

\* A request of RideAcceptWidget.
LEMMA LeaveKeepsInv ==
    ASSUME AppInv,
           SubmitRideDialog \/ \E l \in leaves : \/ ServeLeave(l)
                                               \/ LeaveAnswer(l)
                                               \/ LeaveFail(l)
    PROVE  /\ StackOK' /\ ScreensOK'
           /\ QueriesOK' /\ SavesOK' /\ LeavesOK'
<1> USE DEF AppInv
<1>1. CASE SubmitRideDialog
  <2>1. Top.order \in Orders
    BY <1>1, TopType DEF SubmitRideDialog, Routes
  <2>2. LeavesOK'
    BY <1>1, <2>1, SendLeaveType DEF SubmitRideDialog
  <2>3. StackOK' /\ QueriesOK'
    BY <1>1, HomeType, PopType, PushType, AskType DEF SubmitRideDialog, PushHome, StackOK
  <2>4. QED
    BY <1>1, <2>2, <2>3, ScreensKept, FewerSaves DEF SubmitRideDialog
<1>2. ASSUME NEW l \in leaves, ServeLeave(l) \/ LeaveAnswer(l) \/ LeaveFail(l)
      PROVE  LeavesOK' /\ UNCHANGED <<screen, saves>>
  BY <1>2 DEF ServeLeave, LeaveAnswer, LeaveFail, LeavesOK, Leave
<1>3. ASSUME NEW l \in leaves, ServeLeave(l) \/ LeaveAnswer(l) \/ LeaveFail(l)
      PROVE  StackOK' /\ QueriesOK'
  BY <1>3, HomeType, NewTaskType, AskType, FewerQueries
     DEF ServeLeave, LeaveAnswer, LeaveFail, HomeTask, StackOK
<1>4. QED
  BY <1>1, <1>2, <1>3, ScreensKept, FewerSaves

LEMMA AppKeepsInv ==
    ASSUME AppInv, [RideNext]_rideVars
    PROVE  AppInv'
<1> USE DEF AppInv
<1>1. TypeOK' /\ MountedHasOrder'
  BY AppStepIsPanelStep, PanelKeepsTypes
<1> DEFINE Rest == /\ StackOK /\ ScreensOK
                   /\ QueriesOK /\ SavesOK /\ LeavesOK
<1> SUFFICES Rest'
  BY <1>1
<1>2. CASE PanelAlone /\ UNCHANGED nav
  BY <1>2, ScreensKept, FewerQueries, FewerSaves DEF nav, StackOK, LeavesOK
<1>3. ASSUME NEW s \in saves, SaveAnswer(s) PROVE Rest'
  <2>1. s.by \in Panels /\ s.order \in Orders /\ IsOpen(s.by)
    BY DEF SavesOK, Save
  <2>2. QED
    BY <1>3, <2>1, BookedType, AskType, FewerSaves DEF SaveAnswer, StackOK, LeavesOK
<1>4. CASE Back
  <2>1. StackOK'
    <3>1. SubSeq(stack, 1, Len(stack) - 1) # <<>>
      <4> DEFINE n == Len(stack) - 1
      <4>1. n \in Nat \ {0} /\ \A i \in 1 .. n : stack[i] \in Routes
        BY <1>4 DEF Back, StackOK
      <4> HIDE DEF n
      <4>2. Len(SubSeq(stack, 1, n)) = n - 1 + 1
        BY <4>1, SubSeqProperties
      <4>3. SubSeq(stack, 1, n) # <<>>
        <5>1. Len(<<>>) = 0 /\ Len(SubSeq(stack, 1, n)) # 0
          BY <4>1, <4>2
        <5>2. QED
          BY <5>1, Zenon
      <4>4. QED
        BY <4>3 DEF n
    <3>2. QED
      BY <1>4, <3>1, PopType DEF Back, StackOK
  <2>2. ScreensOK' /\ \A p \in Panels : IsOpen(p) => IsOpen(p)'
    <3>1. CASE UNCHANGED screen
      BY <3>1, ScreensKept
    <3>2. CASE Top.kind = "wallet"
      <4>1. screen' = [screen EXCEPT ![Top.by] = [@ EXCEPT !.phase = "opening"]]
        BY <1>4, <3>2 DEF Back
      <4>2. Top.by \in Panels
        BY <3>2, TopType DEF Routes
      <4>3. [screen[Top.by] EXCEPT !.phase = "opening"] \in Screens
        BY <4>2 DEF ScreensOK, Screens
      <4>4. QED
        BY <4>1, <4>2, <4>3 DEF ScreensOK, Screens, IsOpen
    <3>3. QED
      BY <1>4, <3>1, <3>2 DEF Back
  <2>3. QED
    BY <1>4, <2>1, <2>2, FewerQueries, FewerSaves DEF Back, LeavesOK
<1>6. ASSUME NEW gone \in SUBSET Panels, Dispose(gone) PROVE Rest'
  <2>1. ScreensOK' /\ \A p \in Panels \ gone : IsOpen(p)' = IsOpen(p)
    BY <1>6, OpeningType DEF Dispose, ScreensOK, IsOpen
  <2>2. SavesOK'
    BY <1>6, <2>1 DEF Dispose, SavesOK, Save
  <2>3. QED
    BY <1>6, <2>1, <2>2, FewerQueries DEF Dispose, StackOK, LeavesOK
<1>7. CASE RideRestart
  <2>1. StackOK' /\ SavesOK' /\ LeavesOK'
    BY <1>7, HomeType, NewTaskType DEF RideRestart, SavesOK, LeavesOK
  <2>2. ScreensOK'
    BY <1>7, OpeningType DEF RideRestart, ScreensOK
  <2>3. QueriesOK'
    BY <1>7 DEF RideRestart, QueriesOK, Query
  <2>4. QED
    BY <1>7, <2>1, <2>2, <2>3
<1>8. CASE UNCHANGED rideVars
  BY <1>8, ScreensKept, FewerQueries, FewerSaves DEF rideVars, nav, StackOK, LeavesOK
<1>9. QED
  BY <1>2, <1>3, <1>4, <1>6, <1>7, <1>8,
     ScreenKeepsInv, QueryKeepsInv, CallKeepsInv, LeaveKeepsInv DEF RideNext

LEMMA AppInvariant == RideSpec => []AppInv
BY AppInit, AppKeepsInv, PTL DEF RideSpec

\* The screens keep their types; above all, a screen that shows one of its two
\* panels has an order to show (rideRequestId, NewEstimateRideListWidget.dart:436).
THEOREM RideTypeCorrect == RideSpec => []RideTypeOK
BY AppInvariant, AppTypes, PTL

\* Every step of the app is, for the panel, a step its own module allows or none
\* at all: the screens mount, rebind and unmount it only as it expects, so what
\* is shown of WaitingPanel holds inside the app.
THEOREM PanelInside == RideSpec => Spec
<1>1. RideInit => Init
  BY DEF RideInit
<1>2. AppInv /\ [RideNext]_rideVars => [Next]_vars
  BY AppStepIsPanelStep
<1>3. QED
  BY <1>1, <1>2, AppInvariant, PTL DEF RideSpec, Spec

\* A booked screen never falls back to its form: isBooking is only ever set
\* together with widget.isCurrentRequest, which is what init restores it from
\* when the wallet closes (lines 174, 437, 438 and 1247).
THEOREM BookedForGood == RideSpec => BookedStaysBooked
<1>1. AppInv /\ [RideNext]_rideVars =>
        [\A p \in Panels : screen[p].isBooking /\ screen'[p].phase # "closed"
                             => screen'[p].isBooking]_rideVars
  <2> SUFFICES ASSUME AppInv, RideNext, NEW p \in Panels,
                      screen[p].isBooking, screen'[p].phase # "closed"
               PROVE  screen'[p].isBooking
    OBVIOUS
  <2> USE DEF AppInv
  <2> screen[p] \in Screens /\ IsOpen(p) /\ screen[p].isCurrentRequest
    BY DEF ScreensOK
  <2>1. CASE UNCHANGED screen
    BY <2>1
  <2>2. ASSUME NEW q \in Panels, ScreenStep(q) PROVE screen'[p].isBooking
    <3>1. CASE OpenForm(q)
      BY <3>1 DEF OpenForm, IsOpen, ScreensOK
    <3>2. CASE Loaded(q)
      BY <3>2 DEF Loaded, ScreensOK, Screens
    <3>3. CASE ReadDriver(q)
      BY <3>3 DEF ReadDriver, ScreensOK, Screens
    <3>4. QED
      BY <2>1, <2>2, <3>1, <3>2, <3>3
         DEF ScreenStep, OpenWallet, BookNow, BuildPanel, RebuildPanel, BuildRide,
             OpenDialog, CompleteRide, OpenRideDialog, Track, nav
  <2>3. ASSUME NEW s \in saves, SaveAnswer(s) PROVE screen'[p].isBooking
    BY <2>3 DEF SaveAnswer, Booked, ScreensOK, Screens
  <2>4. ASSUME NEW q \in queries, ServeQuery(q) \/ ScreenAnswer(q) \/ HomeAnswer(q)
        PROVE  screen'[p].isBooking
    <3>1. CASE ServeQuery(q)
      BY <2>1, <3>1 DEF ServeQuery
    <3>2. CASE ScreenAnswer(q)
      BY <2>1, <3>2 DEF ScreenAnswer, ScreensOK, Screens
    <3>3. CASE HomeAnswer(q)
      BY <2>1, <3>3 DEF HomeAnswer, ScreensOK
    <3>4. QED
      BY <2>4, <3>1, <3>2, <3>3
  <2>5. CASE Back
    BY <2>1, <2>5 DEF Back, ScreensOK, Screens
  <2>6. ASSUME NEW gone \in SUBSET Panels, Dispose(gone) PROVE screen'[p].isBooking
    BY <2>6, OpeningType DEF Dispose, Closed, ScreensOK
  <2>7. CASE RideRestart
    BY <2>7 DEF RideRestart, Closed
  <2>8. QED
    BY <2>1, <2>2, <2>3, <2>4, <2>5, <2>6, <2>7
       DEF RideNext, nav, SubmitDialog, SubmitRideDialog, RidePollAnswer, RideAutoAnswer,
           RideRiderAnswer, ServeLeave, LeaveAnswer, LeaveFail
<1>2. QED
  BY <1>1, AppInvariant, PTL DEF RideSpec, BookedStaysBooked

------------------------------------------------------------------------------
(* One screen per order.                                                   *)

\* An order that a screen shows, a booking has made or an answer tells of has
\* been placed, and so cannot be placed again.
Placed ==
    /\ \A p \in Panels : screen[p].id # Absent => server[screen[p].id] # "none"
    /\ \A s \in saves : server[s.order] # "none"
    /\ \A q \in queries : q.status \notin {"none", "unserved"} => server[q.order] # "none"

\* A booking not yet answered is for an order no other screen has.
SavesAlone ==
    \A s \in saves : OnStack(s.by) =>
        /\ \A p \in Panels : OnStack(p) /\ screen[p].id = s.order => p = s.by
        /\ \A t \in saves : OnStack(t.by) /\ t.order = s.order => t.by = s.by

LEMMA PlacedForGood ==
    ASSUME TypeOK, [Next]_vars, NEW o \in Orders, server[o] # "none"
    PROVE  server'[o] # "none"
<1> USE DEF TypeOK
<1>1. CASE Backend
  <2>1. ASSUME NEW r \in Orders, Place(r) \/ Withdraw(r) PROVE server'[o] # "none"
    BY <2>1 DEF Place, Withdraw
  <2>2. ASSUME NEW r \in Orders, NEW s \in Status, Progress(r, s) PROVE server'[o] # "none"
    BY <2>2, PanelStatusAssumption DEF Progress
  <2>3. ASSUME NEW c \in calls, Serve(c) PROVE server'[o] # "none"
    <3>1. c.order \in Orders
      BY DEF Call
    <3>2. QED
      BY <2>3, <3>1 DEF Serve, After
  <2>4. QED
    BY <1>1, <2>1, <2>2, <2>3 DEF Backend
<1>2. CASE UNCHANGED server
  BY <1>2
<1>3. QED
  BY <1>1, <1>2, Ended DEF Next, PanelStep, Tick, Mount, Rebind, Cancel, Unmount, Answer, PollAnswer,
                    AutoAnswer, RiderAnswer, Fail, DropIsTime, vars

\* What pushing, popping and replacing do to the booking screens on the stack.
LEMMA OnStackPush ==
    ASSUME NEW routes \in Seq(Routes), NEW r \in Routes, Push(routes, r),
           NEW p, OnStack(p)'
    PROVE  r = Booking(p) \/ \E i \in 1 .. Len(routes) : routes[i] = Booking(p)
BY DEF Push, OnStack, Booking

LEMMA OnStackPop ==
    ASSUME StackOK, NEW p, NEW i \in 1 .. Len(SubSeq(stack, 1, Len(stack) - 1)),
           SubSeq(stack, 1, Len(stack) - 1)[i] = Booking(p)
    PROVE  OnStack(p)
<1> DEFINE n == Len(stack) - 1
<1>1. n \in Int /\ (\A j \in 1 .. n : stack[j] \in Routes) /\ 1 .. n \subseteq 1 .. Len(stack)
  BY DEF StackOK
<1> HIDE DEF n
<1>2. /\ Len(SubSeq(stack, 1, n)) = IF 1 <= n THEN n - 1 + 1 ELSE 0
      /\ \A j \in 1 .. n - 1 + 1 : SubSeq(stack, 1, n)[j] = stack[1 + j - 1]
  BY <1>1, SubSeqProperties
<1>3. i \in 1 .. n /\ SubSeq(stack, 1, n)[i] = stack[i]
  BY <1>1, <1>2 DEF n
<1>4. QED
  BY <1>1, <1>3 DEF OnStack, n

LEMMA HomeIsNotBooking ==
    ASSUME NEW p PROVE Home # Booking(p)
BY DEF Home, Booking, Route

\* A step that pushes home, after a pop or not, or replaces all by it, adds no
\* booking screen.
LEMMA HomeAddsNone ==
    ASSUME StackOK, NEW p, OnStack(p)',
           \/ UNCHANGED stack
           \/ Push(stack, Home)
           \/ Push(SubSeq(stack, 1, Len(stack) - 1), Home)
           \/ NewTask(Home)
    PROVE  OnStack(p)
<1>1. CASE UNCHANGED stack
  BY <1>1 DEF OnStack
<1>2. CASE Push(stack, Home)
  BY <1>2, HomeType, OnStackPush, HomeIsNotBooking DEF StackOK, OnStack
<1>3. CASE Push(SubSeq(stack, 1, Len(stack) - 1), Home)
  BY <1>3, HomeType, PopType, OnStackPush, HomeIsNotBooking, OnStackPop DEF StackOK
<1>4. CASE NewTask(Home)
  BY <1>4, HomeIsNotBooking DEF NewTask, OnStack
<1>5. QED
  BY <1>1, <1>2, <1>3, <1>4

\* Where the ids on the screens, the bookings and the answers come from.
LEMMA NewSaves ==
    ASSUME AppInv, RideNext, NEW s \in saves', s \notin saves
    PROVE  \E p \in Panels, o \in Orders :
              /\ BookNow(p) /\ Place(o) /\ Top = Booking(p)
              /\ s = [by |-> p, order |-> o]
<1>1. PICK p \in Panels : BookNow(p)
  BY DEF RideNext, nav, ScreenStep, OpenForm, Loaded, OpenWallet, BuildPanel, RebuildPanel,
         BuildRide, OpenDialog, CompleteRide, OpenRideDialog, ReadDriver, Track, SaveAnswer,
         ServeQuery, ScreenAnswer, HomeAnswer, RidePollAnswer, RideAutoAnswer, RideRiderAnswer, ServeLeave,
         LeaveAnswer, LeaveFail, Back, SubmitDialog, SubmitRideDialog, Dispose, RideRestart
<1>2. QED
  BY <1>1 DEF BookNow

LEMMA NewQueries ==
    ASSUME AppInv, RideNext, NEW q \in queries', q \notin queries
    PROVE  \/ q.status \in {"none", "unserved"}
           \/ q.order \in Orders /\ server[q.order] # "none"
<1> USE DEF AppInv
<1>1. ASSUME NEW r \in queries, ServeQuery(r)
      PROVE  \/ q.status \in {"none", "unserved"}
             \/ q.order \in Orders /\ server[q.order] # "none"
  <2>1. r \in Query
    BY DEF QueriesOK
  <2>2. CASE queries' = (queries \ {r}) \cup {[r EXCEPT !.status = "none"]}
    BY <2>1, <2>2 DEF Query
  <2>3. ASSUME NEW o \in CurrentRide,
               queries' = (queries \ {r}) \cup {[r EXCEPT !.order = o, !.status = server[o]]}
        PROVE  q.order \in Orders /\ server[q.order] # "none"
    BY <2>1, <2>3, PanelStatusAssumption DEF Query, CurrentRide, Active
  <2>4. QED
    BY <1>1, <2>2, <2>3 DEF ServeQuery
<1>2. ASSUME NEW p, Ask(p) PROVE q.status = "unserved"
  BY <1>2 DEF Ask
<1>3. CASE queries' \subseteq queries
  BY <1>3
<1>4. CASE RideRestart
  BY <1>4 DEF RideRestart
<1>5. QED
  BY <1>1, <1>2, <1>3, <1>4
     DEF RideNext, nav, ScreenStep, OpenForm, Loaded, OpenWallet, BookNow, BuildPanel,
         RebuildPanel, BuildRide, OpenDialog, CompleteRide, OpenRideDialog, ReadDriver, Track,
         SaveAnswer, ScreenAnswer, HomeAnswer, RidePollAnswer, RideAutoAnswer, RideRiderAnswer, PanelHome,
         PushHome, HomeTask, ServeLeave, LeaveAnswer, LeaveFail, Back, SubmitDialog,
         SubmitRideDialog, Dispose

\* A screen goes, by its disposal or with the process.
Ends(p) == RideRestart \/ \E gone \in SUBSET Panels : Dispose(gone) /\ p \in gone

LEMMA NewIds ==
    ASSUME AppInv, RideNext, NEW p \in Panels
    PROVE  \/ screen'[p].id = screen[p].id
           \/ screen'[p].id = Absent /\ (OpenForm(p) \/ Ends(p))
           \/ \E s \in saves : SaveAnswer(s) /\ s.by = p /\ screen'[p].id = s.order
           \/ \E q \in queries : /\ HomeAnswer(q) /\ screen'[p].id = q.order
                                 /\ q.status \in Active /\ Resume(p)
<1> USE DEF AppInv
<1>1. ASSUME NEW s \in saves, SaveAnswer(s) 
      PROVE  \/ s.by = p /\ screen'[p].id = s.order
             \/ screen'[p].id = screen[p].id
  BY <1>1 DEF SaveAnswer, Booked, ScreensOK, Screens, SavesOK, Save
<1>2. ASSUME NEW q \in queries, HomeAnswer(q)
      PROVE  \/ screen'[p].id = screen[p].id
             \/ screen'[p].id = q.order /\ q.status \in Active /\ Resume(p)
  <2>1. CASE q.status \in Active
    <3>1. PICK r \in Panels : Resume(r) /\ screen' = [screen EXCEPT ![r] = Opening(TRUE, q.order)]
      BY <1>2, <2>1 DEF HomeAnswer
    <3>2. Opening(TRUE, q.order).id = q.order
      BY DEF Opening, Closed
    <3>3. QED
      BY <2>1, <3>1, <3>2 DEF ScreensOK
  <2>2. CASE q.status \notin Active
    BY <1>2, <2>2 DEF HomeAnswer
  <2>3. QED
    BY <2>1, <2>2
<1>3. CASE UNCHANGED screen
  BY <1>3
<1>4. ASSUME NEW r \in Panels, OpenForm(r) \/ Loaded(r) \/ ReadDriver(r)
      PROVE  screen'[p].id = screen[p].id \/ (screen'[p].id = Absent /\ OpenForm(p))
  <2>1. Opening(FALSE, Absent).id = Absent
    BY DEF Opening, Closed
  <2>2. CASE OpenForm(r)
    BY <2>1, <2>2 DEF OpenForm, ScreensOK
  <2>3. CASE Loaded(r)
    BY <2>3 DEF Loaded, ScreensOK, Screens
  <2>4. CASE ReadDriver(r)
    BY <2>4 DEF ReadDriver, ScreensOK, Screens
  <2>5. QED
    BY <1>4, <2>2, <2>3, <2>4
<1>5. ASSUME NEW q \in queries, ScreenAnswer(q) PROVE screen'[p].id = screen[p].id
  BY <1>5 DEF ScreenAnswer, ScreensOK, Screens
<1>6. CASE Back
  BY <1>6 DEF Back, ScreensOK, Screens
<1>7. CASE RideRestart \/ \E gone \in SUBSET Panels : Dispose(gone)
  <2>1. Closed.id = Absent
    BY DEF Closed
  <2>2. screen'[p] = screen[p] \/ (screen'[p] = Closed /\ Ends(p))
    BY <1>7 DEF RideRestart, Dispose, Ends
  <2>3. QED
    BY <2>1, <2>2
<1>8. QED
  BY <1>1, <1>2, <1>3, <1>4, <1>5, <1>6, <1>7
     DEF RideNext, nav, ScreenStep, OpenWallet, BookNow, BuildPanel, RebuildPanel, BuildRide,
         OpenDialog, CompleteRide, OpenRideDialog, Track, ServeQuery, RidePollAnswer, RideAutoAnswer,
         RideRiderAnswer, ServeLeave, LeaveAnswer, LeaveFail, SubmitDialog, SubmitRideDialog

LEMMA PlacedStep ==
    ASSUME AppInv, Placed, [RideNext]_rideVars
    PROVE  Placed'
<1> USE DEF AppInv, Placed
<1>1. \A o \in Orders : server[o] # "none" => server'[o] # "none"
  BY AppStepIsPanelStep, PlacedForGood
<1>2. CASE UNCHANGED rideVars
  BY <1>2 DEF rideVars, vars, nav
<1>3. CASE RideNext
  <2>1. ASSUME NEW p \in Panels, screen'[p].id # Absent PROVE server'[screen'[p].id] # "none"
    <3>1. CASE screen'[p].id = screen[p].id
      BY <1>1, <2>1, <3>1 DEF ScreensOK, Screens
    <3>2. ASSUME NEW s \in saves, screen'[p].id = s.order PROVE server'[screen'[p].id] # "none"
      BY <1>1, <3>2 DEF SavesOK, Save
    <3>3. ASSUME NEW q \in queries, q.status \in Active, screen'[p].id = q.order
          PROVE  server'[screen'[p].id] # "none"
      BY <1>1, <3>3, PanelStatusAssumption DEF QueriesOK, Active
    <3>4. QED
      BY <1>3, <2>1, <3>1, <3>2, <3>3, NewIds
  <2>2. ASSUME NEW s \in saves' PROVE server'[s.order] # "none"
    <3>1. CASE s \in saves
      BY <1>1, <3>1 DEF SavesOK, Save
    <3>2. CASE s \notin saves
      BY <1>3, <3>2, NewSaves DEF Place, TypeOK
    <3>3. QED
      BY <3>1, <3>2
  <2>3. ASSUME NEW q \in queries', q.status \notin {"none", "unserved"}
        PROVE  server'[q.order] # "none"
    <3>1. CASE q \in queries
      BY <1>1, <2>3, <3>1 DEF QueriesOK
    <3>2. CASE q \notin queries
      BY <1>1, <1>3, <2>3, <3>2, NewQueries
    <3>3. QED
      BY <3>1, <3>2
  <2>4. QED
    BY <2>1, <2>2, <2>3
<1>4. QED
  BY <1>2, <1>3

LEMMA SameBooking ==
    ASSUME NEW p, NEW q, Booking(p) = Booking(q) PROVE p = q
BY DEF Booking, Route

\* How a booking screen comes to be on the stack.
LEMMA NewOnStack ==
    ASSUME AppInv, RideNext, NEW p \in Panels, OnStack(p)'
    PROVE  \/ OnStack(p)
           \/ OpenForm(p)
           \/ \E q \in queries : HomeAnswer(q) /\ q.status \in Active /\ Resume(p)
<1> USE DEF AppInv
<1>1. ASSUME NEW r \in Routes, Push(stack, r), r # Booking(p) PROVE OnStack(p)
  BY <1>1, OnStackPush DEF StackOK, OnStack
<1>2. ASSUME NEW r \in Panels, ScreenStep(r) PROVE OnStack(p) \/ OpenForm(p)
  <2>1. CASE OpenForm(r)
    <3>1. Booking(r) \in Routes
      BY DEF Booking, Route, Routes
    <3>2. QED
      BY <1>1, <2>1, <3>1, SameBooking DEF OpenForm
  <2>2. CASE OpenWallet(r)
    <3>1. Route("wallet", r, Absent) \in Routes /\ Route("wallet", r, Absent) # Booking(p)
      BY DEF Booking, Route, Routes
    <3>2. QED
      BY <1>1, <2>2, <3>1 DEF OpenWallet
  <2>3. CASE OpenDialog(r)
    <3>1. /\ Route("panelDialog", r, order[r]) \in Routes
          /\ Route("panelDialog", r, order[r]) # Booking(p)
      BY <2>3 DEF OpenDialog, MountedHasOrder, Booking, Route, Routes
    <3>2. QED
      BY <1>1, <2>3, <3>1 DEF OpenDialog
  <2>4. CASE OpenRideDialog(r)
    <3>1. /\ Route("rideDialog", r, screen[r].ride) \in Routes
          /\ Route("rideDialog", r, screen[r].ride) # Booking(p)
      BY <2>4 DEF OpenRideDialog, ScreensOK, Booking, Route, Routes
    <3>2. QED
      BY <1>1, <2>4, <3>1 DEF OpenRideDialog
  <2>5. CASE RebuildPanel(r)
    <3>1. screen[r].id \in Orders /\ Reread("panelDialog", r, screen[r].id)
      BY <2>5 DEF RebuildPanel, ShowsPanel, ScreensOK
    <3>2. QED
      BY <3>1, RereadKeeps DEF OnStack, Booking
  <2>6. CASE UNCHANGED stack
    BY <2>6 DEF OnStack
  <2>7. QED
    BY <1>2, <2>1, <2>2, <2>3, <2>4, <2>5, <2>6
       DEF ScreenStep, Loaded, BookNow, BuildPanel, BuildRide, CompleteRide, ReadDriver,
           Track, nav
<1>3. ASSUME NEW q \in queries, HomeAnswer(q)
      PROVE  OnStack(p) \/ (q.status \in Active /\ Resume(p))
  <2>1. CASE q.status \in Active
    <3>1. PICK r \in Panels : Resume(r)
      BY <1>3, <2>1 DEF HomeAnswer
    <3>2. Booking(r) = Booking(p)
      BY <3>1 DEF Resume, NewTask, OnStack
    <3>3. QED
      BY <2>1, <3>1, <3>2, SameBooking
  <2>2. CASE q.status \notin Active
    BY <1>3, <2>2 DEF HomeAnswer, OnStack
  <2>3. QED
    BY <2>1, <2>2
<1>4. CASE Back
  BY <1>4, OnStackPop DEF Back, OnStack
<1>5. CASE \/ UNCHANGED stack \/ Push(stack, Home) \/ NewTask(Home)
           \/ Push(SubSeq(stack, 1, Len(stack) - 1), Home)
  BY <1>5, HomeAddsNone
<1>6. ASSUME NEW q \in queries, ScreenAnswer(q) PROVE OnStack(p)
  BY <1>6, ScreenAnswerStack, RereadKeeps DEF OnStack, Booking
<1>7. QED
  BY <1>2, <1>3, <1>4, <1>5, <1>6
     DEF RideNext, nav, SaveAnswer, ServeQuery, RidePollAnswer, RideAutoAnswer,
         RideRiderAnswer, PanelHome, PushHome, HomeTask, ServeLeave, LeaveAnswer, LeaveFail,
         SubmitDialog, SubmitRideDialog, Dispose, RideRestart

\* One screen per order, together with what the bookings still to be answered
\* will make of it.
LEMMA OneScreenStep ==
    ASSUME AppInv, Placed, SavesAlone, OneScreenPerOrder, [RideNext]_rideVars
    PROVE  SavesAlone' /\ OneScreenPerOrder'
<1> USE DEF AppInv
<1>1. CASE UNCHANGED rideVars
  BY <1>1 DEF rideVars, nav, SavesAlone, OneScreenPerOrder, OnStack
<1>2. ASSUME RideNext, NEW q \in queries, HomeAnswer(q), q.status \in Active
      PROVE  SavesAlone' /\ OneScreenPerOrder'
  <2>1. PICK r \in Panels : Resume(r)
    BY <1>2 DEF HomeAnswer
  <2>2. \A p : OnStack(p)' => p = r
    BY <2>1, SameBooking DEF Resume, NewTask, OnStack
  <2>3. \A s \in saves' : s.by \in Panels
    BY <1>2 DEF HomeAnswer, SavesOK, Save
  <2>4. QED
    BY <2>2, <2>3 DEF SavesAlone, OneScreenPerOrder
<1>3. ASSUME RideNext, ~ \E q \in queries : HomeAnswer(q) /\ q.status \in Active
      PROVE  SavesAlone' /\ OneScreenPerOrder'
  <2>1. ASSUME NEW p \in Panels, OnStack(p)', screen'[p].id # Absent
        PROVE  /\ OnStack(p)
               /\ \/ screen'[p].id = screen[p].id
                  \/ \E s \in saves : SaveAnswer(s) /\ s.by = p /\ screen'[p].id = s.order
    <3>1. ~ OpenForm(p)
      BY <2>1 DEF OpenForm, Opening, Closed, ScreensOK
    <3>2. QED
      BY <1>3, <2>1, <3>1, NewOnStack, NewIds
  <2>2. ASSUME NEW s \in saves, OnStack(s.by)' PROVE OnStack(s.by)
    <3>1. s.by \in Panels /\ ~ OpenForm(s.by)
      BY DEF SavesOK, Save, OpenForm
    <3>2. QED
      BY <1>3, <2>2, <3>1, NewOnStack
  <2>3. ASSUME NEW p \in Panels, NEW q \in Panels, OnStack(p)', OnStack(q)',
               screen'[p].id # Absent, screen'[p].id = screen'[q].id
        PROVE  p = q
    BY <2>1, <2>3 DEF SavesAlone, OneScreenPerOrder
  <2>4. ASSUME NEW s \in saves', OnStack(s.by)',
               NEW p \in Panels, OnStack(p)', screen'[p].id = s.order
        PROVE  p = s.by
    <3>1. CASE s \in saves
      <4>1. s.order \in Orders /\ s.order # Absent
        BY <3>1, PanelAbsentAssumption DEF SavesOK, Save
      <4>2. QED
        BY <2>1, <2>2, <2>4, <3>1, <4>1 DEF SavesAlone
    <3>2. CASE s \notin saves
      <4>1. PICK r \in Panels, o \in Orders : BookNow(r) /\ Place(o) /\ s = [by |-> r, order |-> o]
        BY <1>3, <3>2, NewSaves
      <4>2. screen[p].id = o /\ server[o] = "none" /\ o # Absent
        BY <2>4, <4>1, PanelAbsentAssumption DEF BookNow, Place
      <4>3. QED
        BY <4>2 DEF Placed
    <3>3. QED
      BY <3>1, <3>2
  <2>5. ASSUME NEW s \in saves', NEW t \in saves', OnStack(s.by)', OnStack(t.by)',
               s.order = t.order
        PROVE  t.by = s.by
    <3>1. CASE s \in saves /\ t \in saves
      BY <2>2, <2>5, <3>1 DEF SavesAlone
    <3>2. CASE s \notin saves /\ t \notin saves
      BY <1>3, <3>2, NewSaves, SameBooking
    <3>3. ASSUME NEW u \in saves, NEW v \in saves', v \notin saves, u.order = v.order
          PROVE  FALSE
      BY <1>3, <3>3, NewSaves DEF Placed, Place
    <3>4. QED
      BY <2>5, <3>1, <3>2, <3>3
  <2>6. QED
    BY <2>3, <2>4, <2>5 DEF SavesAlone, OneScreenPerOrder
<1>4. QED
  BY <1>1, <1>2, <1>3

LEMMA BookingInit == RideInit => Placed /\ SavesAlone /\ OneScreenPerOrder
<1> SUFFICES ASSUME RideInit PROVE Placed /\ SavesAlone /\ OneScreenPerOrder
  OBVIOUS
<1>1. \A p \in Panels : screen[p].id = Absent
  BY DEF RideInit, Closed
<1>2. QED
  BY <1>1 DEF RideInit, Placed, SavesAlone, OneScreenPerOrder

\* Two booking screens on the stack are never for the same order, although each
\* home screen ever pushed resumes the ride (WhatToDeliver.dart:150-168): it does
\* so in place of every route, and an order is booked from one form only.
THEOREM OneScreen == RideSpec => []OneScreenPerOrder
BY BookingInit, AppInvariant, PlacedStep, OneScreenStep, PTL DEF RideSpec

------------------------------------------------------------------------------
(* The calls of the panel, alone and inside the app.                       *)

\* A call whose panel still listens has one.
CallsListen == \A c \in calls : c.from = "mounted" => c.panel \in Panels /\ mounted[c.panel]

LEMMA PanelStepListens ==
    ASSUME TypeOK, CallsListen, [Next]_vars
    PROVE  CallsListen'
<1> USE DEF TypeOK, CallsListen
<1>1. ASSUME NEW p \in Panels, Tick(p) PROVE CallsListen'
  BY <1>1 DEF Tick, New
<1>2. ASSUME NEW p \in Panels, NEW o \in Orders, Mount(p, o) \/ Rebind(p, o) PROVE CallsListen'
  BY <1>2 DEF Mount, Rebind
<1>3. ASSUME NEW o \in Orders, Cancel(o) PROVE CallsListen'
  BY <1>3 DEF Cancel, Request, panel
<1>4. ASSUME NEW gone \in SUBSET Panels, Unmount(gone) PROVE CallsListen'
  <2>1. \A c \in calls' : c.from = "mounted" => c \in calls /\ c.panel \notin gone
    BY <1>4 DEF Unmount, Orphaned, Call
  <2>2. QED
    BY <1>4, <2>1 DEF Unmount
<1>5. \A c \in Call : Gone(c).from = "gone"
  BY DEF Gone, Call
<1>6. ASSUME NEW c \in calls, Answer(c) PROVE CallsListen'
  BY <1>5, <1>6 DEF Answer, PollAnswer, AutoAnswer, RiderAnswer, Fail, panel
<1>7. CASE Backend
  <2>1. ASSUME NEW c \in calls, Serve(c) PROVE CallsListen'
    <3>1. /\ c \in Call
          /\ [c EXCEPT !.reply = After(c)].from = c.from
          /\ [c EXCEPT !.reply = After(c)].panel = c.panel
      BY DEF Call
    <3>2. QED
      BY <2>1, <3>1 DEF Serve, panel
  <2>2. QED
    BY <1>7, <2>1 DEF Backend, Place, Withdraw, Progress, panel
<1>8. CASE Restart \/ Kill
  BY <1>8, Ended
<1>9. QED
  BY <1>1, <1>2, <1>3, <1>4, <1>6, <1>7, <1>8 DEF Next, PanelStep, DropIsTime, vars, panel

LEMMA PanelAlwaysTyped == Spec => [](TypeOK /\ MountedHasOrder)
BY PanelInit, PanelKeepsTypes, PTL DEF Spec

LEMMA PanelListens == Spec => []CallsListen
<1>1. Init => CallsListen
  BY DEF Init, CallsListen
<1>2. QED
  BY <1>1, PanelAlwaysTyped, PanelStepListens, PTL DEF Spec

------------------------------------------------------------------------------
(* Routes, panels and screens.                                             *)

\* A wallet or a dialog lies above its booking screen, which is open.
Seated ==
    \A i \in 1 .. Len(stack) :
        stack[i].by # Absent => \E j \in 1 .. i : stack[j] = Booking(stack[i].by)
OpenOnStack == \A p \in Panels : OnStack(p) => IsOpen(p)

LEMMA SeatedLives == StackOK /\ Seated /\ OpenOnStack => RoutesLive
<1> SUFFICES ASSUME StackOK, Seated, OpenOnStack, NEW i \in 1 .. Len(stack), stack[i].by # Absent
             PROVE  IsOpen(stack[i].by)
  BY DEF RoutesLive
<1>1. PICK j \in 1 .. i : stack[j] = Booking(stack[i].by)
  BY DEF Seated
<1>2. stack[i].by \in Panels
  BY DEF StackOK, Routes
<1>3. j \in 1 .. Len(stack)
  BY DEF StackOK
<1>4. QED
  BY <1>1, <1>2, <1>3 DEF OpenOnStack, OnStack

\* Every way in which a step changes the stack.
Popped == SubSeq(stack, 1, Len(stack) - 1)
Above(p, r) == r \in Routes /\ r.by = p /\ r.kind # "booking" /\ Top = Booking(p)

PlainMove ==
    \/ UNCHANGED stack \/ stack' = Popped
    \/ Push(stack, Home) \/ Push(Popped, Home) \/ NewTask(Home)
ScreenMove(p) ==
    \/ OpenForm(p)
    \/ \E r \in Routes : Above(p, r) /\ Push(stack, r)
    \/ \E kind \in {"panelDialog", "rideDialog"}, o \in Orders : Reread(kind, p, o)
    \/ Resume(p) /\ IsOpen(p)'

LEMMA ScreenStepMoves ==
    ASSUME AppInv, NEW p \in Panels, ScreenStep(p)
    PROVE  PlainMove \/ ScreenMove(p)
<1> USE DEF AppInv
<1>1. ASSUME NEW r, Above(p, r), Push(stack, r) PROVE ScreenMove(p)
  BY <1>1 DEF ScreenMove, Above
<1>2. CASE OpenWallet(p)
  <2>1. Above(p, Route("wallet", p, Absent))
    BY <1>2 DEF OpenWallet, Above, Route, Routes
  <2>2. QED
    BY <1>1, <1>2, <2>1 DEF OpenWallet
<1>3. CASE OpenDialog(p)
  <2>1. Above(p, Route("panelDialog", p, order[p]))
    BY <1>3 DEF OpenDialog, MountedHasOrder, Above, Route, Routes
  <2>2. QED
    BY <1>1, <1>3, <2>1 DEF OpenDialog
<1>4. CASE OpenRideDialog(p)
  <2>1. screen[p].ride \in Orders /\ Top = Booking(p)
    <3>1. screen[p].status # "none"
      BY <1>4 DEF OpenRideDialog
    <3>2. QED
      BY <1>4, <3>1 DEF OpenRideDialog, OnRide, ScreensOK
  <2>2. Above(p, Route("rideDialog", p, screen[p].ride))
    BY <2>1 DEF Above, Route, Routes
  <2>3. QED
    BY <1>1, <1>4, <2>2 DEF OpenRideDialog
<1>5. CASE OpenForm(p) \/ RebuildPanel(p)
  BY <1>5 DEF RebuildPanel, ShowsPanel, ScreensOK, ScreenMove
<1>6. CASE UNCHANGED stack
  BY <1>6 DEF PlainMove
<1>7. QED
  BY <1>2, <1>3, <1>4, <1>5, <1>6
     DEF ScreenStep, Loaded, BookNow, BuildPanel, BuildRide, CompleteRide, ReadDriver, Track, nav

LEMMA StackStep ==
    ASSUME AppInv, RideNext
    PROVE  PlainMove \/ \E p \in Panels : ScreenMove(p)
<1> USE DEF AppInv
<1>1. ASSUME NEW q \in queries, HomeAnswer(q) PROVE PlainMove \/ \E p \in Panels : ScreenMove(p)
  <2>1. CASE q.status \in Active
    <3>1. PICK p \in Panels : Resume(p) /\ screen' = [screen EXCEPT ![p] = Opening(TRUE, q.order)]
      BY <1>1, <2>1 DEF HomeAnswer
    <3>2. Opening(TRUE, q.order).phase # "closed"
      BY DEF Opening, Closed
    <3>3. IsOpen(p)'
      BY <3>1, <3>2 DEF ScreensOK, IsOpen
    <3>4. QED
      BY <3>1, <3>3 DEF ScreenMove
  <2>2. CASE q.status \notin Active
    BY <1>1, <2>2 DEF HomeAnswer, PlainMove
  <2>3. QED
    BY <2>1, <2>2
<1>2. CASE PlainMove
  BY <1>2
<1>3. ASSUME NEW q \in queries, ScreenAnswer(q)
      PROVE  PlainMove \/ \E p \in Panels : ScreenMove(p)
  BY <1>3, ScreenAnswerStack DEF PlainMove, ScreenMove
<1>4. QED
  BY <1>1, <1>2, <1>3, ScreenStepMoves
     DEF RideNext, nav, SaveAnswer, ServeQuery, RidePollAnswer, RideAutoAnswer,
         RideRiderAnswer, PanelHome, PushHome, HomeTask, ServeLeave, LeaveAnswer, LeaveFail,
         Back, SubmitDialog, SubmitRideDialog, Dispose, RideRestart, Popped, PlainMove

\* The routes below the one on top are still there when it is gone.
LEMMA PoppedRoutes ==
    ASSUME StackOK
    PROVE  /\ Popped \in Seq(Routes) /\ Len(Popped) <= Len(stack)
           /\ \A i \in 1 .. Len(Popped) : Popped[i] = stack[i]
<1> DEFINE n == Len(stack) - 1
<1>1. n \in Nat /\ (\A j \in 1 .. n : stack[j] \in Routes)
  <2>1. Len(stack) \in Nat \ {0}
    BY DEF StackOK
  <2>2. QED
    BY <2>1 DEF StackOK
<1> HIDE DEF n
<1>2. /\ Len(SubSeq(stack, 1, n)) = IF 1 <= n THEN n - 1 + 1 ELSE 0
      /\ \A j \in 1 .. n - 1 + 1 : SubSeq(stack, 1, n)[j] = stack[1 + j - 1]
  BY <1>1, SubSeqProperties
<1>3. Popped = SubSeq(stack, 1, n)
  BY DEF Popped, n
<1>4. Len(Popped) = n /\ \A j \in 1 .. n : Popped[j] = stack[j]
  BY <1>1, <1>2, <1>3
<1>5. Popped \in Seq(Routes)
  BY PopType DEF StackOK, Popped
<1>6. n <= Len(stack)
  BY DEF n, StackOK
<1>7. QED
  BY <1>4, <1>5, <1>6

\* One more on top, in a list whose routes have their seats.
SeatedIn(routes) ==
    \A i \in 1 .. Len(routes) :
        routes[i].by # Absent => \E j \in 1 .. i : routes[j] = Booking(routes[i].by)

LEMMA PushSeated ==
    ASSUME NEW routes \in Seq(Routes), SeatedIn(routes), NEW r \in Routes, Push(routes, r),
           \/ r.by = Absent
           \/ r = Booking(r.by)
           \/ \E j \in 1 .. Len(routes) : routes[j] = Booking(r.by)
    PROVE  Seated'
<1>1. /\ stack' = Append(routes, r) /\ Len(stack') = Len(routes) + 1 /\ Len(routes) \in Nat
      /\ \A i \in 1 .. Len(routes) : stack'[i] = routes[i]
      /\ stack'[Len(routes) + 1] = r
  BY DEF Push
<1>2. ASSUME NEW i \in 1 .. Len(stack'), stack'[i].by # Absent
      PROVE  \E j \in 1 .. i : stack'[j] = Booking(stack'[i].by)
  <2>1. CASE i \in 1 .. Len(routes)
    <3>1. PICK j \in 1 .. i : routes[j] = Booking(routes[i].by)
      BY <1>1, <1>2, <2>1 DEF SeatedIn
    <3>2. j \in 1 .. Len(routes)
      BY <1>1, <2>1
    <3>3. QED
      BY <1>1, <2>1, <3>1, <3>2
  <2>2. CASE i = Len(routes) + 1
    <3>1. CASE r = Booking(r.by)
      BY <1>1, <2>2, <3>1
    <3>2. ASSUME NEW j \in 1 .. Len(routes), routes[j] = Booking(r.by)
          PROVE  \E k \in 1 .. i : stack'[k] = Booking(stack'[i].by)
      <4>1. j \in 1 .. i
        BY <1>1, <2>2
      <4>2. QED
        BY <1>1, <2>2, <3>2, <4>1
    <3>3. QED
      BY <1>1, <1>2, <2>2, <3>1, <3>2
  <2>3. QED
    BY <1>1, <2>1, <2>2
<1>3. QED
  BY <1>2 DEF Seated, Booking

LEMMA SeatedStep ==
    ASSUME AppInv, Seated, [RideNext]_rideVars
    PROVE  Seated'
<1> USE DEF AppInv
<1>1. SeatedIn(stack) /\ SeatedIn(Popped) /\ Home.by = Absent
  BY PoppedRoutes DEF Seated, SeatedIn, StackOK, Home, Route
<1>2. CASE UNCHANGED stack
  BY <1>2 DEF Seated, Booking
<1>3. CASE stack' = Popped
  BY <1>1, <1>3 DEF Seated, SeatedIn, Booking
<1>4. CASE Push(stack, Home) \/ Push(Popped, Home)
  BY <1>1, <1>4, HomeType, PoppedRoutes, PushSeated DEF StackOK
<1>5. CASE NewTask(Home)
  BY <1>1, <1>5 DEF NewTask, Seated
<1>6. ASSUME NEW p \in Panels, OpenForm(p) PROVE Seated'
  <2>1. Booking(p) \in Routes /\ Booking(p).by = p
    BY DEF Booking, Route, Routes
  <2>2. QED
    BY <1>1, <1>6, <2>1, PushSeated DEF OpenForm, StackOK
<1>7. ASSUME NEW p \in Panels, NEW r \in Routes, Above(p, r), Push(stack, r) PROVE Seated'
  <2>1. Len(stack) \in 1 .. Len(stack) /\ stack[Len(stack)] = Booking(r.by)
    BY <1>7 DEF StackOK, Above, Top
  <2>2. QED
    BY <1>1, <1>7, <2>1, PushSeated DEF StackOK
<1>8. ASSUME NEW p \in Panels, NEW kind \in {"panelDialog", "rideDialog"}, NEW o \in Orders,
             Reread(kind, p, o)
      PROVE  Seated'
  <2>1. /\ Len(stack') = Len(stack)
        /\ \A i \in 1 .. Len(stack) : /\ stack'[i].by = stack[i].by
                                     /\ \A q : stack[i] = Booking(q) => stack'[i] = Booking(q)
    BY <1>8, RereadKeeps
  <2>2. \A i \in 1 .. Len(stack) : \A j \in 1 .. i : j \in 1 .. Len(stack)
    BY DEF StackOK
  <2>3. QED
    BY <2>1, <2>2 DEF Seated, Booking
<1>9. ASSUME NEW p \in Panels, Resume(p) PROVE Seated'
  BY <1>9 DEF Resume, NewTask, Seated, Booking, Route
<1>10. CASE UNCHANGED rideVars
  BY <1>2, <1>10 DEF rideVars, nav
<1>11. QED
  BY <1>2, <1>3, <1>4, <1>5, <1>6, <1>7, <1>8, <1>9, <1>10, StackStep DEF PlainMove, ScreenMove

\* Only its own disposal and the end of the process take a screen's State away, or
\* what it has booked.
LEMMA StaysOpen ==
    ASSUME AppInv, RideNext, NEW p \in Panels, ~Ends(p)
    PROVE  /\ IsOpen(p) => IsOpen(p)'
           /\ screen[p].isBooking => screen'[p].isBooking
<1> USE DEF AppInv, ScreensOK, IsOpen
<1> screen[p] \in Screens
  OBVIOUS
<1>1. CASE screen'[p] = screen[p]
  BY <1>1
<1>2. ASSUME NEW q \in Panels, ~IsOpen(q), NEW new, screen' = [screen EXCEPT ![q] = new]
      PROVE  /\ IsOpen(p) => IsOpen(p)'
             /\ screen[p].isBooking => screen'[p].isBooking
  BY <1>2
<1>3. ASSUME NEW q \in Panels, ScreenStep(q)
      PROVE  /\ IsOpen(p) => IsOpen(p)'
             /\ screen[p].isBooking => screen'[p].isBooking
  <2>1. CASE OpenForm(q)
    BY <1>2, <2>1 DEF OpenForm
  <2>2. CASE Loaded(q)
    BY <2>2 DEF Loaded, Screens
  <2>3. CASE ReadDriver(q)
    BY <2>3 DEF ReadDriver, Screens
  <2>4. CASE UNCHANGED screen
    BY <2>4
  <2>5. QED
    BY <1>3, <2>1, <2>2, <2>3, <2>4
       DEF ScreenStep, OpenWallet, BookNow, BuildPanel, RebuildPanel, BuildRide,
           OpenDialog, CompleteRide, OpenRideDialog, Track, nav
<1>4. ASSUME NEW s \in saves, SaveAnswer(s)
      PROVE  /\ IsOpen(p) => IsOpen(p)'
             /\ screen[p].isBooking => screen'[p].isBooking
  BY <1>4 DEF SaveAnswer, Booked, Screens
<1>5. ASSUME NEW q \in queries, ScreenAnswer(q) \/ HomeAnswer(q)
      PROVE  /\ IsOpen(p) => IsOpen(p)'
             /\ screen[p].isBooking => screen'[p].isBooking
  <2>1. CASE ScreenAnswer(q)
    BY <2>1 DEF ScreenAnswer, Screens
  <2>2. CASE HomeAnswer(q)
    BY <1>1, <1>2, <2>2 DEF HomeAnswer
  <2>3. QED
    BY <1>5, <2>1, <2>2
<1>6. CASE Back
  BY <1>6 DEF Back, Screens
<1>7. ASSUME NEW gone \in SUBSET Panels, Dispose(gone) PROVE screen'[p] = screen[p]
  BY <1>7 DEF Dispose, Ends
<1>8. QED
  BY <1>1, <1>3, <1>4, <1>5, <1>6, <1>7
     DEF RideNext, nav, Ends, SubmitDialog, SubmitRideDialog, ServeQuery, RidePollAnswer,
         RideAutoAnswer, RideRiderAnswer, ServeLeave, LeaveAnswer, LeaveFail

LEMMA OpenOnStackStep ==
    ASSUME AppInv, OpenOnStack, [RideNext]_rideVars
    PROVE  OpenOnStack'
<1> USE DEF AppInv, OpenOnStack
<1>1. CASE UNCHANGED rideVars
  BY <1>1 DEF rideVars, nav, OnStack, IsOpen
<1>2. ASSUME RideNext, NEW p \in Panels, OnStack(p)' PROVE IsOpen(p)'
  <2>1. ~Ends(p)
    <3>1. CASE RideRestart
      BY <1>2, <3>1, HomeIsNotBooking DEF RideRestart, NewTask, OnStack
    <3>2. ASSUME NEW gone \in SUBSET Panels, Dispose(gone), p \in gone PROVE FALSE
      BY <1>2, <3>2 DEF Dispose, Left, OnStack
    <3>3. QED
      BY <3>1, <3>2 DEF Ends
  <2>2. CASE OnStack(p)
    BY <1>2, <2>1, <2>2, StaysOpen
  <2>3. CASE OpenForm(p)
    BY <2>3, OpeningType DEF OpenForm, ScreensOK, IsOpen
  <2>4. ASSUME NEW q \in queries, HomeAnswer(q), q.status \in Active, Resume(p) PROVE IsOpen(p)'
    <3>1. PICK r \in Panels : Resume(r) /\ screen' = [screen EXCEPT ![r] = Opening(TRUE, q.order)]
      BY <2>4 DEF HomeAnswer
    <3>2. Booking(r) = Booking(p)
      BY <2>4, <3>1 DEF Resume, NewTask
    <3>3. Opening(TRUE, q.order).phase # "closed"
      BY DEF Opening, Closed
    <3>4. QED
      BY <3>1, <3>2, <3>3, SameBooking DEF ScreensOK, IsOpen
  <2>5. QED
    BY <1>2, <2>2, <2>3, <2>4, NewOnStack
<1>3. QED
  BY <1>1, <1>2

LEMMA StackInvariant == RideSpec => [](Seated /\ OpenOnStack)
<1>1. RideInit => Seated /\ OpenOnStack
  <2> SUFFICES ASSUME RideInit PROVE Seated /\ OpenOnStack
    OBVIOUS
  <2>1. Seated
    BY DEF RideInit, Seated, Home, Route
  <2>2. OpenOnStack
    BY HomeIsNotBooking DEF RideInit, OpenOnStack, OnStack
  <2>3. QED
    BY <2>1, <2>2
<1>2. QED
  BY <1>1, AppInvariant, SeatedStep, OpenOnStackStep, PTL DEF RideSpec

\* A wallet or a dialog never outlives the State of the booking screen it was opened
\* from (line 1247, BookingWidget.dart:228).
THEOREM RoutesAlwaysLive == RideSpec => []RoutesLive
<1>1. AppInv /\ Seated /\ OpenOnStack => RoutesLive
  BY SeatedLives DEF AppInv
<1>2. QED
  BY <1>1, AppInvariant, StackInvariant, PTL

\* A panel is in the tree of a booked screen.
Housed == \A p \in Panels : mounted[p] => screen[p].isBooking

LEMMA HousedStep ==
    ASSUME AppInv, Housed, [RideNext]_rideVars
    PROVE  Housed'
<1> USE DEF AppInv, Housed
<1>1. CASE UNCHANGED rideVars
  BY <1>1 DEF rideVars, nav, vars, panel
<1>2. ASSUME RideNext, NEW p \in Panels, mounted'[p] PROVE screen'[p].isBooking
  <2>1. ~Ends(p)
    <3>1. CASE RideRestart
      BY <1>2, <3>1, KilledWithPanel, Ended
    <3>2. ASSUME NEW gone \in SUBSET Panels, Dispose(gone), p \in gone PROVE FALSE
      BY <1>2, <3>2 DEF Dispose, Unmount, vars, panel
    <3>3. QED
      BY <3>1, <3>2 DEF Ends
  <2>2. CASE mounted[p]
    BY <1>2, <2>1, <2>2, StaysOpen
  <2>3. CASE ~mounted[p]
    <3>1. BuildPanel(p)
      <4>1. CASE UNCHANGED mounted
        BY <1>2, <2>3, <4>1
      <4>2. ASSUME NEW q \in Panels, BuildPanel(q) PROVE q = p
        BY <1>2, <2>3, <4>2 DEF BuildPanel, Mount, TypeOK
      <4>3. ASSUME NEW gone \in SUBSET Panels, Unmount(gone) PROVE FALSE
        BY <1>2, <2>3, <4>3 DEF Unmount
      <4>4. CASE UNCHANGED vars
        BY <4>1, <4>4 DEF vars, panel
      <4>5. CASE RideRestart
        BY <1>2, <4>5, KilledWithPanel, Ended
      <4>6. ASSUME NEW c \in calls, PollAnswer(c) \/ AutoAnswer(c) \/ RiderAnswer(c)
            PROVE  UNCHANGED mounted
        BY <4>6 DEF PollAnswer, AutoAnswer, RiderAnswer, panel
      <4>7. ASSUME NEW o, Withdraw(o) \/ Place(o) \/ Cancel(o) PROVE UNCHANGED mounted
        BY <4>7 DEF Withdraw, Place, Cancel, panel
      <4>8. CASE PanelAlone
        BY <4>1, <4>7, <4>8 DEF PanelAlone, Tick, Fail, Serve, Progress, DropIsTime, panel
      <4>9. ASSUME NEW q \in Panels, ScreenStep(q), ~BuildPanel(q) PROVE mounted'[p] = FALSE
        <5>1. CASE RebuildPanel(q)
          BY <2>3, <4>1, <5>1 DEF RebuildPanel, Rebind, TypeOK
        <5>2. CASE BuildRide(q)
          BY <4>3, <5>2 DEF BuildRide
        <5>3. CASE ReadDriver(q)
          BY <2>3, <4>4, <5>3 DEF ReadDriver, DropIsTime, vars, panel, TypeOK
        <5>4. CASE BookNow(q)
          BY <2>3, <4>7, <5>4 DEF BookNow, TypeOK
        <5>5. CASE UNCHANGED vars
          BY <2>3, <5>5 DEF vars, panel, TypeOK
        <5>6. QED
          BY <4>9, <5>1, <5>2, <5>3, <5>4, <5>5
             DEF ScreenStep, OpenForm, Loaded, OpenWallet, OpenDialog, CompleteRide,
                 OpenRideDialog, Track
      <4>10. QED
        BY <1>2, <4>1, <4>2, <4>3, <4>4, <4>5, <4>6, <4>7, <4>8, <4>9
           DEF RideNext, SaveAnswer, ServeQuery, ScreenAnswer, HomeAnswer, RidePollAnswer,
               RideAutoAnswer, RideRiderAnswer, ServeLeave, LeaveAnswer, LeaveFail, Back,
               SubmitDialog, SubmitRideDialog, Dispose
    <3>2. QED
      BY <3>1 DEF BuildPanel, ShowsPanel, nav
  <2>4. QED
    BY <2>2, <2>3
<1>3. QED
  BY <1>1, <1>2

\* Neither a waiting panel nor a call it could act on is left behind by its screen
\* (build and dispose, lines 562 and 792).
THEOREM PanelsAlwaysHoused == RideSpec => []PanelsHoused
<1>1. RideInit => Housed
  BY DEF RideInit, Init, Housed
<1>2. Housed /\ CallsListen => PanelsHoused
  BY DEF Housed, CallsListen, PanelsHoused
<1>3. QED
  BY <1>1, <1>2, AppInvariant, HousedStep, PanelInside, PanelListens, PTL DEF RideSpec

------------------------------------------------------------------------------
(* RideAcceptWidget has a driver to show.                                  *)

\* The same of the answers that are on their way to the screens.
AnswersDriven ==
    \A q \in queries : q.status \in RideStatus => server[q.order] \notin {"none", "new"}

LEMMA DriverForGood ==
    ASSUME TypeOK, [Next]_vars, NEW o \in Orders, server[o] \notin {"none", "new"}
    PROVE  server'[o] \notin {"none", "new"}
<1> USE DEF TypeOK
<1>1. CASE Backend
  <2>1. ASSUME NEW r \in Orders, Place(r) \/ Withdraw(r) PROVE server'[o] \notin {"none", "new"}
    BY <2>1 DEF Place, Withdraw
  <2>2. ASSUME NEW r \in Orders, NEW s \in Status, Progress(r, s)
        PROVE  server'[o] \notin {"none", "new"}
    BY <2>2, PanelStatusAssumption DEF Progress
  <2>3. ASSUME NEW c \in calls, Serve(c) PROVE server'[o] \notin {"none", "new"}
    <3>1. c.order \in Orders
      BY DEF Call
    <3>2. QED
      BY <2>3, <3>1 DEF Serve, After
  <2>4. QED
    BY <1>1, <2>1, <2>2, <2>3 DEF Backend
<1>2. CASE UNCHANGED server
  BY <1>2
<1>3. QED
  BY <1>1, <1>2, Ended DEF Next, PanelStep, Tick, Mount, Rebind, Cancel, Unmount, Answer, PollAnswer,
                    AutoAnswer, RiderAnswer, Fail, DropIsTime, vars

\* Where an answer comes from, and what a screen is told of a ride.
LEMMA NewAnswers ==
    ASSUME AppInv, RideNext, NEW q \in queries', q \notin queries, q.status \in RideStatus
    PROVE  q.order \in Orders /\ server[q.order] = q.status
<1> USE DEF AppInv
<1>1. ASSUME NEW r \in queries, ServeQuery(r)
      PROVE  q.order \in Orders /\ server[q.order] = q.status
  <2>1. r \in Query
    BY DEF QueriesOK
  <2>2. CASE queries' = (queries \ {r}) \cup {[r EXCEPT !.status = "none"]}
    BY <2>1, <2>2 DEF Query, RideStatus
  <2>3. ASSUME NEW o \in CurrentRide,
               queries' = (queries \ {r}) \cup {[r EXCEPT !.order = o, !.status = server[o]]}
        PROVE  q.order \in Orders /\ server[q.order] = q.status
    BY <2>1, <2>3 DEF Query, CurrentRide
  <2>4. QED
    BY <1>1, <2>2, <2>3 DEF ServeQuery
<1>2. ASSUME NEW p, Ask(p) PROVE q.status = "unserved"
  BY <1>2 DEF Ask
<1>3. CASE queries' \subseteq queries
  BY <1>3
<1>4. CASE RideRestart
  BY <1>4 DEF RideRestart, RideStatus
<1>5. "unserved" \notin RideStatus
  BY DEF RideStatus
<1>6. QED
  BY <1>1, <1>2, <1>3, <1>4, <1>5
     DEF RideNext, nav, ScreenStep, OpenForm, Loaded, OpenWallet, BookNow, BuildPanel,
         RebuildPanel, BuildRide, OpenDialog, CompleteRide, OpenRideDialog, ReadDriver, Track,
         SaveAnswer, ScreenAnswer, HomeAnswer, RidePollAnswer, RideAutoAnswer, RideRiderAnswer,
         PanelHome, PushHome, HomeTask, ServeLeave, LeaveAnswer, LeaveFail, Back, SubmitDialog,
         SubmitRideDialog, Dispose

LEMMA NewRides ==
    ASSUME AppInv, RideNext, NEW p \in Panels
    PROVE  \/ screen'[p].status = screen[p].status /\ screen'[p].ride = screen[p].ride
           \/ screen'[p].status = "none"
           \/ \E q \in queries : /\ screen'[p].status = q.status
                                 /\ screen'[p].ride = q.order
<1> USE DEF AppInv, ScreensOK
<1> screen[p] \in Screens
  OBVIOUS
<1> DEFINE Kept == screen'[p].status = screen[p].status /\ screen'[p].ride = screen[p].ride
           Heard == \E q \in queries : screen'[p].status = q.status /\ screen'[p].ride = q.order
<1> SUFFICES Kept \/ screen'[p].status = "none" \/ Heard
  OBVIOUS
<1>1. CASE UNCHANGED screen
  BY <1>1
<1>2. ASSUME NEW q \in Panels, NEW current, NEW o,
             screen' = [screen EXCEPT ![q] = Opening(current, o)]
      PROVE  Kept \/ screen'[p].status = "none"
  BY <1>2 DEF Opening, Closed
<1>3. ASSUME NEW q \in Panels, OpenForm(q) \/ Loaded(q) \/ ReadDriver(q)
      PROVE  Kept \/ screen'[p].status = "none"
  <2>1. CASE OpenForm(q)
    BY <1>2, <2>1 DEF OpenForm
  <2>2. CASE Loaded(q)
    BY <2>2 DEF Loaded, Screens
  <2>3. CASE ReadDriver(q)
    BY <2>3 DEF ReadDriver, Screens
  <2>4. QED
    BY <1>3, <2>1, <2>2, <2>3
<1>4. ASSUME NEW s \in saves, SaveAnswer(s) PROVE Kept
  BY <1>4 DEF SaveAnswer, Booked, Screens
<1>5. ASSUME NEW q \in queries, ScreenAnswer(q)
      PROVE  Kept \/ Heard
  BY <1>5 DEF ScreenAnswer, Screens
<1>6. ASSUME NEW q \in queries, HomeAnswer(q) PROVE Kept \/ screen'[p].status = "none"
  BY <1>2, <1>6 DEF HomeAnswer
<1>7. CASE Back
  BY <1>7 DEF Back, Screens
<1>8. CASE RideRestart \/ \E gone \in SUBSET Panels : Dispose(gone)
  <2>1. screen'[p] \in {screen[p], Closed} /\ Closed.status = "none"
    BY <1>8 DEF RideRestart, Dispose, Closed
  <2>2. QED
    BY <2>1
<1> HIDE DEF AppInv, ScreensOK, Kept, Heard
<1>9. QED
  BY <1>1, <1>3, <1>4, <1>5, <1>6, <1>7, <1>8
     DEF RideNext, nav, ScreenStep, OpenWallet, BookNow, BuildPanel, RebuildPanel, BuildRide,
         OpenDialog, CompleteRide, OpenRideDialog, Track, ServeQuery, RidePollAnswer,
         RideAutoAnswer, RideRiderAnswer, ServeLeave, LeaveAnswer, LeaveFail, SubmitDialog,
         SubmitRideDialog

LEMMA DrivenStep ==
    ASSUME AppInv, RideHasDriver, AnswersDriven, [RideNext]_rideVars
    PROVE  RideHasDriver' /\ AnswersDriven'
<1> USE DEF AppInv, RideHasDriver, AnswersDriven
<1>1. \A o \in Orders : server[o] \notin {"none", "new"} => server'[o] \notin {"none", "new"}
  BY AppStepIsPanelStep, DriverForGood
<1>2. CASE UNCHANGED rideVars
  BY <1>2 DEF rideVars, vars, nav
<1>3. CASE RideNext
  <2>1. {"none", "new", "unserved"} \cap RideStatus = {}
    BY DEF RideStatus
  <2>2. ASSUME NEW p \in Panels, screen'[p].status \in RideStatus
        PROVE  server'[screen'[p].ride] \notin {"none", "new"}
    <3>1. CASE screen'[p].status = screen[p].status /\ screen'[p].ride = screen[p].ride
      BY <1>1, <2>1, <2>2, <3>1 DEF ScreensOK
    <3>2. ASSUME NEW q \in queries, screen'[p].status = q.status, screen'[p].ride = q.order
          PROVE  server'[screen'[p].ride] \notin {"none", "new"}
      BY <1>1, <2>1, <2>2, <3>2 DEF QueriesOK
    <3>3. QED
      BY <1>3, <2>1, <2>2, <3>1, <3>2, NewRides
  <2>3. ASSUME NEW q \in queries', q.status \in RideStatus
        PROVE  server'[q.order] \notin {"none", "new"}
    <3>1. CASE q \in queries
      BY <1>1, <2>1, <2>3, <3>1 DEF QueriesOK
    <3>2. CASE q \notin queries
      BY <1>1, <1>3, <2>1, <2>3, <3>2, NewAnswers
    <3>3. QED
      BY <3>1, <3>2
  <2>4. QED
    BY <2>2, <2>3
<1>4. QED
  BY <1>2, <1>3

\* RideAcceptWidget always shows an order some driver has accepted, whatever the
\* order its screen booked and however late the answer (lines 185 and 792).  So what
\* the panel's module asks of whoever drops IS_TIME, DropIsTime, is met.
THEOREM RideAlwaysHasDriver == RideSpec => []RideHasDriver
<1>1. RideInit => RideHasDriver /\ AnswersDriven
  BY DEF RideInit, Closed, RideStatus, RideHasDriver, AnswersDriven
<1>2. QED
  BY <1>1, AppInvariant, DrivenStep, PTL DEF RideSpec

------------------------------------------------------------------------------
(* The screens keep the promise of BookingScreens.                         *)

Holds == [p \in Panels |-> IF OnStack(p) THEN screen[p].id ELSE Absent]

\* What the proofs above know of the screens on the stack.
ScreensKnown == AppInv /\ OpenOnStack /\ SavesAlone

LEMMA PromiseInit == RideInit => Promise!Init
<1> SUFFICES ASSUME RideInit PROVE Promise!Init
  OBVIOUS
<1>1. \A p \in Panels : ~OnStack(p)
  BY HomeIsNotBooking DEF RideInit, OnStack
<1>2. QED
  BY <1>1 DEF Promise!Init, OnTheStack

\* A ride in progress closes all other screens.
LEMMA ResumePromised ==
    ASSUME ScreensKnown, NEW q \in queries, HomeAnswer(q), q.status \in Active
    PROVE  \E p \in Panels, o \in Orders : Promise!Resume(p, o)
<1> USE DEF ScreensKnown, AppInv
<1>1. PICK p \in Panels :
         ~IsOpen(p) /\ Resume(p) /\ screen' = [screen EXCEPT ![p] = Opening(TRUE, q.order)]
  BY DEF HomeAnswer
<1>2. q.order \in Orders
  BY PanelStatusAssumption DEF QueriesOK, Active
<1>3. p \notin OnTheStack
  BY <1>1 DEF OpenOnStack, OnTheStack
<1>4. \A r \in Panels : OnStack(r)' <=> r = p
  BY <1>1, SameBooking DEF Resume, NewTask, OnStack, Booking
<1>5. screen'[p].id = q.order
  BY <1>1 DEF ScreensOK, Opening, Closed
<1>6. OnTheStack' = {p} /\ Holds' = [r \in Panels |-> IF r = p THEN q.order ELSE Absent]
  BY <1>4, <1>5 DEF OnTheStack, Holds
<1>7. QED
  BY <1>2, <1>3, <1>6 DEF Promise!Resume, Holds

\* A form opens.
LEMMA OpenPromised ==
    ASSUME ScreensKnown, NEW p \in Panels, OpenForm(p)
    PROVE  Promise!Open(p)
<1> USE DEF ScreensKnown, AppInv
<1>1. p \notin OnTheStack
  BY DEF OpenForm, OpenOnStack, OnTheStack
<1>2. \A r \in Panels : OnStack(r)' <=> OnStack(r) \/ r = p
  <2>1. stack' = Append(stack, Booking(p)) /\ Len(stack) \in Nat
    BY DEF OpenForm, Push, StackOK
  <2>2. /\ Len(stack') = Len(stack) + 1 /\ stack'[Len(stack) + 1] = Booking(p)
        /\ \A i \in 1 .. Len(stack) : stack'[i] = stack[i]
    BY <2>1 DEF StackOK
  <2>3. Len(stack) + 1 \in 1 .. Len(stack') /\ \A i \in 1 .. Len(stack) : i \in 1 .. Len(stack')
    BY <2>1, <2>2
  <2>4. \A i \in 1 .. Len(stack') : i \in 1 .. Len(stack) \/ i = Len(stack) + 1
    BY <2>1, <2>2
  <2>5. QED
    BY <2>2, <2>3, <2>4, SameBooking DEF OnStack, Booking
<1>3. screen'[p].id = Absent /\ \A r \in Panels \ {p} : screen'[r] = screen[r]
  BY DEF OpenForm, ScreensOK, Opening, Closed
<1>4. OnTheStack' = OnTheStack \cup {p} /\ Holds' = Holds
  BY <1>1, <1>2, <1>3 DEF OnTheStack, Holds
<1>5. QED
  BY <1>1, <1>4 DEF Promise!Open, Holds

\* A booking is answered: the order is nobody else's.
LEMMA BookPromised ==
    ASSUME ScreensKnown, NEW s \in saves, SaveAnswer(s), OnStack(s.by)
    PROVE  \E p \in Panels, o \in Orders : Promise!Book(p, o)
<1> USE DEF ScreensKnown, AppInv
<1>1. s.by \in Panels /\ s.order \in Orders /\ s.order # Absent /\ s.by \in OnTheStack
  BY PanelAbsentAssumption DEF SavesOK, Save, OnTheStack
<1>2. \A r \in OnTheStack \ {s.by} : Holds[r] # s.order
  BY <1>1 DEF SavesAlone, OnTheStack, Holds
<1>3. /\ screen'[s.by].id = s.order
      /\ \A r \in Panels \ {s.by} : screen'[r].id = screen[r].id
  <2>1. screen[s.by] \in Screens
    BY <1>1 DEF ScreensOK
  <2>2. QED
    BY <1>1, <2>1 DEF SaveAnswer, Booked, ScreensOK, Screens
<1>4. \A r \in Panels : OnStack(r)' = OnStack(r)
  BY DEF SaveAnswer, OnStack, Booking
<1>5. OnTheStack' = OnTheStack /\ Holds' = [Holds EXCEPT ![s.by] = s.order]
  BY <1>1, <1>3, <1>4 DEF OnTheStack, Holds
<1>6. QED
  BY <1>1, <1>2, <1>5 DEF Promise!Book, Holds

\* Everything else can only take screens off the stack.
LEMMA ClosePromised ==
    ASSUME ScreensKnown, RideNext,
           ~ \E q \in queries : HomeAnswer(q) /\ q.status \in Active,
           ~ \E p \in Panels : OpenForm(p),
           ~ \E s \in saves : SaveAnswer(s) /\ OnStack(s.by)
    PROVE  Promise!Close
<1> USE DEF ScreensKnown
<1>1. \A p \in Panels : OnStack(p)' => OnStack(p)
  BY NewOnStack
<1>2. ASSUME NEW p \in Panels, OnStack(p)' PROVE screen'[p].id = screen[p].id
  <2>1. CASE Ends(p)
    <3>1. CASE RideRestart
      BY <1>2, <3>1, HomeIsNotBooking DEF RideRestart, NewTask, OnStack
    <3>2. ASSUME NEW gone \in SUBSET Panels, Dispose(gone), p \in gone PROVE FALSE
      BY <1>2, <3>2 DEF Dispose, Left, OnStack
    <3>3. QED
      BY <2>1, <3>1, <3>2 DEF Ends
  <2>2. CASE ~Ends(p)
    BY <1>1, <1>2, <2>2, NewIds
  <2>3. QED
    BY <2>1, <2>2
<1>3. OnTheStack' \subseteq OnTheStack
  BY <1>1 DEF OnTheStack
<1>4. Holds' = [p \in Panels |-> IF p \in OnTheStack' THEN Holds[p] ELSE Absent]
  BY <1>1, <1>2 DEF OnTheStack, Holds
<1>5. QED
  BY <1>3, <1>4 DEF Promise!Close, Holds

LEMMA PromiseStep ==
    ASSUME ScreensKnown, [RideNext]_rideVars
    PROVE  [Promise!Next]_(Promise!vars)
<1>1. CASE UNCHANGED rideVars
  <2>1. \A p \in Panels : OnStack(p)' = OnStack(p)
    BY <1>1 DEF rideVars, nav, OnStack, Booking
  <2>2. OnTheStack' = OnTheStack /\ Holds' = Holds
    BY <1>1, <2>1 DEF rideVars, nav, OnTheStack, Holds
  <2>3. QED
    BY <2>2 DEF Promise!vars, Holds
<1>2. CASE RideNext
  <2>1. CASE \E q \in queries : HomeAnswer(q) /\ q.status \in Active
    BY <2>1, ResumePromised DEF Promise!Next
  <2>2. CASE \E p \in Panels : OpenForm(p)
    BY <2>2, OpenPromised DEF Promise!Next
  <2>3. CASE \E s \in saves : SaveAnswer(s) /\ OnStack(s.by)
    BY <2>3, BookPromised DEF Promise!Next
  <2>4. QED
    BY <1>2, <2>1, <2>2, <2>3, ClosePromised DEF Promise!Next
<1>3. QED
  BY <1>1, <1>2

\* The booking screens are, for the orders they are for, what BookingScreens says: an
\* order is booked by one screen and resumed only in place of all others
\* (saveBookingData; getCurrentRequest, WhatToDeliver.dart:150-168).
THEOREM ScreensKeepPromise == RideSpec => KeepsPromise
<1>1. RideSpec => []SavesAlone
  BY BookingInit, AppInvariant, PlacedStep, OneScreenStep, PTL DEF RideSpec
<1>2. AppInv /\ OpenOnStack /\ SavesAlone /\ [RideNext]_rideVars => [Promise!Next]_(Promise!vars)
  BY PromiseStep DEF ScreensKnown
<1>3. QED
  BY <1>1, <1>2, PromiseInit, AppInvariant, StackInvariant, PTL
     DEF RideSpec, KeepsPromise, Promise!Spec

\* Of whatever keeps that promise, no two screens are for the same order.
THEOREM PromiseIsOneEach == Promise!Spec => []Promise!OneEach
<1> DEFINE Typed == /\ OnTheStack \subseteq Panels
                    /\ Holds \in [Panels -> Orders \cup {Absent}]
                    /\ \A p \in Panels \ OnTheStack : Holds[p] = Absent
           One == \A p, q \in OnTheStack : Holds[p] # Absent /\ Holds[p] = Holds[q] => p = q
<1>1. Promise!Init => Typed /\ One
  BY DEF Promise!Init, Holds
<1>2. Typed /\ One /\ [Promise!Next]_(Promise!vars) => (Typed /\ One)'
  <2> SUFFICES ASSUME Typed, One, [Promise!Next]_(Promise!vars) PROVE Typed' /\ One'
    OBVIOUS
  <2>1. ASSUME NEW p \in Panels, Promise!Open(p) PROVE Typed' /\ One'
    <3>1. p \in Panels \ OnTheStack /\ OnTheStack' = OnTheStack \cup {p} /\ Holds' = Holds
      BY <2>1 DEF Promise!Open, Holds
    <3> HIDE DEF Holds
    <3>2. QED
      BY <3>1
  <2>2. ASSUME NEW p \in Panels, NEW o \in Orders, Promise!Book(p, o) PROVE Typed' /\ One'
    <3>1. /\ p \in OnTheStack /\ \A q \in OnTheStack \ {p} : Holds[q] # o
          /\ OnTheStack' = OnTheStack /\ Holds' = [Holds EXCEPT ![p] = o]
      BY <2>2 DEF Promise!Book, Holds
    <3> HIDE DEF Holds
    <3>2. QED
      BY <3>1
  <2>3. ASSUME NEW p \in Panels, NEW o \in Orders, Promise!Resume(p, o) PROVE Typed' /\ One'
    <3>1. OnTheStack' = {p} /\ Holds' = [q \in Panels |-> IF q = p THEN o ELSE Absent]
      BY <2>3 DEF Promise!Resume, Holds
    <3> HIDE DEF Holds
    <3>2. QED
      BY <3>1
  <2>4. CASE Promise!Close
    <3>1. /\ OnTheStack' \subseteq OnTheStack
          /\ Holds' = [q \in Panels |-> IF q \in OnTheStack' THEN Holds[q] ELSE Absent]
      BY <2>4 DEF Promise!Close, Holds
    <3> HIDE DEF Holds
    <3>2. QED
      BY <3>1
  <2>5. CASE UNCHANGED Promise!vars
    <3>1. OnTheStack' = OnTheStack /\ Holds' = Holds
      BY <2>5 DEF Promise!vars, Holds
    <3> HIDE DEF Holds
    <3>2. QED
      BY <3>1
  <2>6. QED
    BY <2>1, <2>2, <2>3, <2>4, <2>5 DEF Promise!Next
<1>3. One => Promise!OneEach
  BY DEF Promise!OneEach, Holds
<1>4. QED
  BY <1>1, <1>2, <1>3, PTL DEF Promise!Spec

=============================================================================
