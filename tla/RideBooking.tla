----------------------------- MODULE RideBooking -----------------------------
(***************************************************************************)
(* The screens around the waiting panel: the home screen WhatToDeliver,    *)
(* the booking screen NewEstimateRideListWidget with its two panels, the   *)
(* cancel dialog, and the Navigator's stack of routes that holds them.     *)
(*                                                                         *)
(* WaitingPanel leaves open when its panels are mounted; here the build    *)
(* methods decide. The home screen asks the backend for a ride in progress *)
(* and, finding one, replaces every route by a booking screen for it. The  *)
(* booking screen saves an order and then, as the status it was last told, *)
(* shows the waiting panel or RideAcceptWidget, which the rider leaves by  *)
(* cancelling the ride or completing it.                                   *)
(*                                                                         *)
(* The map screen, DashBoardScreen, asks and resumes as the home screen    *)
(* does, and is one with it here; the search sheet is AddressSearch's, and *)
(* holds no order. A booking screen is identified with its waiting panel:  *)
(* it has at most one at a time.                                           *)
(***************************************************************************)
EXTENDS WaitingPanel, Sequences

CONSTANTS
    MaxQueries,  \* bound: current-ride-request calls in flight
    MaxLeaves,   \* bound: RideAcceptWidget's calls that end a ride, in flight
    MaxDepth     \* bound: routes on the stack

ASSUME RideBoundAssumption == {MaxQueries, MaxLeaves, MaxDepth} \subseteq Nat

VARIABLES
    stack,    \* the Navigator's routes, the one on top last
    screen,   \* the booking screens' State objects
    queries,  \* current-ride-request calls in flight
    saves,    \* save-order-request calls that are served and not yet answered
    leaves    \* RideAcceptWidget's calls that end a ride, in flight

nav == <<stack, screen, queries, saves, leaves>>
rideVars == <<vars, nav>>

\* The home screen, a booking screen, the wallet screen opened from one, and the
\* cancel dialog of its waiting panel or of its RideAcceptWidget, for an order.
Routes ==
    [kind : {"home"}, by : {Absent}, order : {Absent}]
      \cup [kind : {"booking", "wallet"}, by : Panels, order : {Absent}]
      \cup [kind : {"panelDialog", "rideDialog"}, by : Panels, order : Orders]
Route(kind, p, o) == [kind |-> kind, by |-> p, order |-> o]
Home == Route("home", Absent, Absent)
Booking(p) == Route("booking", p, Absent)

\* phase is "opening" while init waits for the map icons; id is rideRequestId or
\* else widget.id; ride and status are those of the field rideRequest, Absent
\* and "none" when it is null.  tracking is set once a RideAcceptWidget of the
\* screen has started the timer that asks for the ride again and again.
Closed == [phase |-> "closed", isCurrentRequest |-> FALSE, isBooking |-> FALSE,
           id |-> Absent, ride |-> Absent, status |-> "none", tracking |-> FALSE]
Screens == [phase : {"closed", "opening", "open"}, isCurrentRequest : BOOLEAN,
            isBooking : BOOLEAN, id : Orders \cup {Absent},
            ride : Orders \cup {Absent}, status : Status, tracking : BOOLEAN]
Opening(current, o) ==
    [Closed EXCEPT !.phase = "opening", !.isCurrentRequest = current, !.id = o]

Query == [by : Panels \cup {Absent}, order : Orders \cup {Absent},
          status : Status \cup {"unserved"}]
Save == [by : Panels, order : Orders]
Leave == [order : Orders, kind : {"cancel", "rated"}, served : BOOLEAN]

RideTypeOK ==
    /\ stack \in Seq(Routes)
    /\ screen \in [Panels -> Screens]
    /\ queries \subseteq Query
    /\ saves \subseteq Save
    /\ leaves \subseteq Leave
    \* What the panel's module assumes of the screen: it has an order to show.
    /\ \A p \in Panels : screen[p].isBooking => screen[p].id \in Orders

Top == stack[Len(stack)]
OnStack(p) == \E i \in 1 .. Len(stack) : stack[i] = Booking(p)
IsOpen(p) == screen[p].phase # "closed"

\* getCurrentRequest by screen p, or by a home screen (Absent).  A call that
\* fails is logged and forgotten, so it is as if it had not been made.
Ask(p) ==
    \/ UNCHANGED queries
    \/ /\ Cardinality(queries) < MaxQueries
       /\ queries' = queries \cup {[by |-> p, order |-> Absent, status |-> "unserved"]}

RideInit ==
    /\ Init
    /\ stack = <<Home>>
    /\ screen = [p \in Panels |-> Closed]
    /\ queries = {[by |-> Absent, order |-> Absent, status |-> "unserved"]}
    /\ saves = {}
    /\ leaves = {}

------------------------------------------------------------------------------
(* The Navigator.                                                          *)

\* launchScreen: on top of the stack, or in place of it (isNewTask).
Push(routes, r) ==
    /\ Len(routes) < MaxDepth
    /\ stack' = Append(routes, r)
NewTask(r) == stack' = <<r>>

\* The home screen is pushed or replaces all; its initState asks for a ride.
PushHome(routes) == Push(routes, Home) /\ Ask(Absent)
HomeTask == NewTask(Home) /\ Ask(Absent)

\* Android's back button, or the pop that follows "location is on again".
\* The booking screen runs init again when the wallet closes above it.
Back ==
    /\ Len(stack) > 1
    /\ stack' = SubSeq(stack, 1, Len(stack) - 1)
    /\ screen' = IF Top.kind = "wallet"
                   THEN [screen EXCEPT ![Top.by].phase = "opening"] ELSE screen
    /\ UNCHANGED <<vars, queries, saves, leaves>>

\* Routes that have left the stack are disposed of when the transition ends.
\* Mutation: so are those that are covered.
LeftOrCovered(p) == IsOpen(p) /\ Top # Booking(p)
Left(p) == IsOpen(p) /\ ~OnStack(p)

Dispose(gone) ==
    /\ gone # {}
    /\ \A p \in gone : Left(p)
    /\ screen' = [p \in Panels |-> IF p \in gone THEN Closed ELSE screen[p]]
    /\ queries' = {q \in queries : q.by \notin gone}
    /\ saves' = {s \in saves : s.by \notin gone}
    /\ LET panels == {p \in gone : mounted[p]}
       IN  IF panels = {} THEN UNCHANGED vars ELSE Unmount(panels)
    /\ UNCHANGED <<stack, leaves>>

------------------------------------------------------------------------------
(* The booking screen.                                                     *)

\* From the home screen by way of the map screen, which asks for a ride once more,
\* to an empty form.
OpenForm(p) ==
    /\ Top = Home
    /\ ~IsOpen(p)
    /\ Push(stack, Booking(p))
    /\ screen' = [screen EXCEPT ![p] = Opening(FALSE, Absent)]
    /\ Ask(Absent)
    /\ UNCHANGED <<vars, saves, leaves>>

\* The rest of init, once the icons are loaded.
Loaded(p) ==
    /\ screen[p].phase = "opening"
    /\ screen' = [screen EXCEPT ![p].phase = "open",
                                ![p].isBooking = screen[p].isCurrentRequest]
    /\ Ask(p)
    /\ UNCHANGED <<vars, stack, saves, leaves>>

OpenWallet(p) ==
    /\ Top = Booking(p) /\ IsOpen(p)
    /\ ~screen[p].isBooking
    /\ Push(stack, Route("wallet", p, Absent))
    /\ UNCHANGED <<vars, screen, queries, saves, leaves>>

\* saveBookingData: the loader it shows does not keep the rider from tapping
\* Book Now again.  The request is taken to reach the backend at once; one that
\* is refused changes nothing, and one that is delayed beyond the life of the
\* form, or whose answer is lost, is an order placed without an answer (Place).
BookNow(p) ==
    /\ Top = Booking(p) /\ IsOpen(p)
    /\ ~screen[p].isBooking
    /\ \E o \in Orders : Place(o) /\ saves' = saves \cup {[by |-> p, order |-> o]}
    /\ UNCHANGED <<stack, screen, queries, leaves>>

\* Mutations: rideRequestId is not set; widget.isCurrentRequest is not set, so
\* that init undoes isBooking; the ride is shown as accepted already.
BookedAsAccepted(p, o) ==
    screen' = [screen EXCEPT ![p].id = o, ![p].isBooking = TRUE, ![p].isCurrentRequest = TRUE,
                             ![p].ride = o, ![p].status = "accepted"]
BookedWithoutId(p, o) ==
    screen' = [screen EXCEPT ![p].isBooking = TRUE, ![p].isCurrentRequest = TRUE]
BookedOnlyHere(p, o) ==
    screen' = [screen EXCEPT ![p].id = o, ![p].isBooking = TRUE]
Booked(p, o) ==
    screen' = [screen EXCEPT ![p].id = o, ![p].isBooking = TRUE,
                             ![p].isCurrentRequest = TRUE]

SaveAnswer(s) ==
    /\ s \in saves
    /\ Booked(s.by, s.order)
    /\ saves' = saves \ {s}
    /\ Ask(s.by)
    /\ UNCHANGED <<vars, stack, leaves>>

\* Statuses for which build shows RideAcceptWidget; all others, and none,
\* show the waiting panel.
RideStatus == {"accepted", "pickingup", "pickup", "inprogress", "completed"}
ShowsRide(p) == screen[p].isBooking /\ screen[p].status \in RideStatus
ShowsPanel(p) == screen[p].isBooking /\ screen[p].status \notin RideStatus

\* build puts the waiting panel there.
BuildPanel(p) ==
    /\ ShowsPanel(p)
    /\ Mount(p, screen[p].id)
    /\ UNCHANGED nav

\* An open dialog reads its widget's order when it is submitted: a widget that
\* is rebuilt with another one has it too.
Reread(kind, p, o) ==
    stack' = [i \in 1 .. Len(stack) |->
                IF stack[i].kind = kind /\ stack[i].by = p
                  THEN [stack[i] EXCEPT !.order = o] ELSE stack[i]]

\* build gives the panel that is there another id.
RebuildPanel(p) ==
    /\ ShowsPanel(p)
    /\ Rebind(p, screen[p].id)
    /\ Reread("panelDialog", p, screen[p].id)
    /\ UNCHANGED <<screen, queries, saves, leaves>>

\* build puts RideAcceptWidget in its place.
BuildRide(p) ==
    /\ ShowsRide(p) /\ mounted[p]
    /\ Unmount({p})
    /\ UNCHANGED nav

------------------------------------------------------------------------------
(* RideAcceptWidget.                                                       *)

\* What it shows is the field rideRequest, whatever order the screen booked.
OnRide(p) == Top = Booking(p) /\ ShowsRide(p) /\ ~mounted[p]

\* init, when the driver's details are answered or refused.  Which of the
\* statuses start the timer is read only then; "pickup" does not.
ReadDriver(p) ==
    /\ ShowsRide(p) /\ ~mounted[p]
    /\ screen' = [screen EXCEPT ![p].tracking =
                    @ \/ screen[p].status \in {"accepted", "pickingup", "inprogress"}]
    /\ DropIsTime \/ UNCHANGED vars
    /\ UNCHANGED <<stack, queries, saves, leaves>>

\* The timer, which nothing ever cancels, calls the screen's getCurrentRequest;
\* on a screen that has been disposed of the answer changes nothing.
Track(p) ==
    /\ screen[p].tracking
    /\ Ask(p)
    /\ UNCHANGED <<vars, stack, screen, saves, leaves>>

SendLeave(o, kind) ==
    /\ Cardinality(leaves) < MaxLeaves
    /\ leaves' = leaves \cup {[order |-> o, kind |-> kind, served |-> FALSE]}

\* "Complete Ride / Order Again"
CompleteRide(p) ==
    /\ OnRide(p) /\ screen[p].status = "completed"
    /\ SendLeave(screen[p].ride, "rated")
    /\ UNCHANGED <<vars, stack, screen, queries, saves>>

OpenRideDialog(p) ==
    /\ OnRide(p) /\ screen[p].status \in {"accepted", "inprogress"}
    /\ Push(stack, Route("rideDialog", p, screen[p].ride))
    /\ UNCHANGED <<vars, screen, queries, saves, leaves>>

\* submit: the request is sent, the dialog is popped and home pushed at once.
SubmitRideDialog ==
    /\ Top.kind = "rideDialog"
    /\ SendLeave(Top.order, "cancel")
    /\ PushHome(SubSeq(stack, 1, Len(stack) - 1))
    /\ UNCHANGED <<vars, screen, saves>>

ServeLeave(l) ==
    /\ l \in leaves /\ ~l.served
    /\ leaves' = (leaves \ {l}) \cup {[l EXCEPT !.served = TRUE]}
    /\ IF l.kind = "cancel" /\ server[l.order] \in Active
         THEN Withdraw(l.order) ELSE UNCHANGED vars
    /\ UNCHANGED <<stack, screen, queries, saves>>

\* The answer brings home, wherever the rider is by then.
LeaveAnswer(l) ==
    /\ l \in leaves /\ l.served
    /\ leaves' = leaves \ {l}
    /\ HomeTask
    /\ UNCHANGED <<vars, screen, saves>>

\* The request fails, or times out; one that reaches the backend after that is
\* a Withdraw.
LeaveFail(l) ==
    /\ l \in leaves
    /\ leaves' = leaves \ {l}
    /\ UNCHANGED <<vars, stack, screen, queries, saves>>

------------------------------------------------------------------------------
(* current-ride-request.                                                   *)

\* External: the backend tells of a ride in progress if there is one, and may
\* tell of one that is completed and not yet rated.
CurrentRide ==
    {o \in Orders : \/ server[o] \in Active
                    \/ /\ server[o] = "completed"
                       /\ \A p \in Orders : server[p] \notin Active}
ServeQuery(q) ==
    /\ q \in queries /\ q.status = "unserved"
    /\ \/ /\ \A o \in Orders : server[o] \notin Active
          /\ queries' = (queries \ {q}) \cup {[q EXCEPT !.status = "none"]}
       \/ \E o \in CurrentRide :
             queries' = (queries \ {q}) \cup
                          {[q EXCEPT !.order = o, !.status = server[o]]}
    /\ UNCHANGED <<vars, stack, screen, saves, leaves>>

\* The booking screen keeps its rideRequest when the answer holds none.  setState
\* has RideAcceptWidget rebuilt with another one.
ScreenAnswer(q) ==
    /\ q \in queries /\ q.by # Absent /\ q.status # "unserved"
    /\ screen' = IF q.status = "none" THEN screen
                  ELSE [screen EXCEPT ![q.by].ride = q.order, ![q.by].status = q.status]
    /\ IF ShowsRide(q.by) /\ ~mounted[q.by] /\ q.status \in RideStatus
         THEN Reread("rideDialog", q.by, q.order) ELSE UNCHANGED stack
    /\ queries' = queries \ {q}
    /\ UNCHANGED <<vars, saves, leaves>>

\* Mutation: the screen is launched on top of the others.
ResumeOnTop(p) == Push(stack, Booking(p))
Resume(p) == NewTask(Booking(p))

\* The home screen, gone or not, launches a booking screen for the ride.
HomeAnswer(q) ==
    /\ q \in queries /\ q.by = Absent /\ q.status # "unserved"
    /\ queries' = queries \ {q}
    /\ IF q.status \in Active
         THEN \E p \in Panels :
                /\ ~IsOpen(p)
                /\ Resume(p)
                /\ screen' = [screen EXCEPT ![p] = Opening(TRUE, q.order)]
         ELSE UNCHANGED <<stack, screen>>
    /\ UNCHANGED <<vars, saves, leaves>>

------------------------------------------------------------------------------
(* What the waiting panel does to the screens.                             *)

\* launchScreen(context, WhatToDeliver()): reading context throws in a panel
\* that is unmounted.
PanelHome(c) ==
    IF c.from = "mounted" THEN PushHome(stack) ELSE UNCHANGED <<stack, queries>>

RidePollAnswer(c) ==
    /\ PollAnswer(c)
    /\ CASE c.reply = "canceled" -> PanelHome(c)
         [] c.reply \in Underway /\ IsOpen(c.panel) -> Ask(c.panel) /\ UNCHANGED stack
         [] OTHER -> UNCHANGED <<stack, queries>>
    /\ UNCHANGED <<screen, saves, leaves>>

RideAutoAnswer(c) ==
    /\ AutoAnswer(c)
    /\ PanelHome(c)
    /\ UNCHANGED <<screen, saves, leaves>>

RideRiderAnswer(c) ==
    /\ RiderAnswer(c)
    /\ HomeTask
    /\ UNCHANGED <<screen, saves, leaves>>

OpenDialog(p) ==
    /\ Top = Booking(p) /\ mounted[p]
    /\ Push(stack, Route("panelDialog", p, order[p]))
    /\ UNCHANGED <<vars, screen, queries, saves, leaves>>

SubmitDialog ==
    /\ Top.kind = "panelDialog"
    /\ Cancel(Top.order)
    /\ PushHome(SubSeq(stack, 1, Len(stack) - 1))
    /\ UNCHANGED <<screen, saves, leaves>>

------------------------------------------------------------------------------

\* The app is killed, perhaps while a panel is built, or while a dialog or an
\* answer removes the preferences; the splash screen launches home again.
RideKill ==
    \/ \E p \in Panels : ShowsPanel(p) /\ ~mounted[p] /\ CutWrite(screen[p].id)
    \/ \E c \in calls : CutRemoval(c)
    \/ Top.kind = "panelDialog" /\ CutCancel(Top.order)

RideRestart ==
    /\ Restart \/ RideKill
    /\ NewTask(Home)
    /\ screen' = [p \in Panels |-> Closed]
    /\ queries' = {[by |-> Absent, order |-> Absent, status |-> "unserved"]}
    /\ saves' = {}
    /\ leaves' = {}

PanelAlone ==
    \/ \E p \in Panels : Tick(p)
    \/ \E c \in calls : Fail(c) \/ Serve(c)
    \/ \E o \in Orders : Place(o) \/ Withdraw(o) \/ \E s \in Status : Progress(o, s)
    \/ DropIsTime

ScreenStep(p) ==
    OpenForm(p) \/ Loaded(p) \/ OpenWallet(p) \/ BookNow(p) \/ BuildPanel(p)
      \/ RebuildPanel(p) \/ BuildRide(p) \/ OpenDialog(p) \/ CompleteRide(p)
      \/ OpenRideDialog(p) \/ ReadDriver(p) \/ Track(p)

RideNext ==
    \/ PanelAlone /\ UNCHANGED nav
    \/ \E p \in Panels : ScreenStep(p)
    \/ \E s \in saves : SaveAnswer(s)
    \/ \E q \in queries : ServeQuery(q) \/ ScreenAnswer(q) \/ HomeAnswer(q)
    \/ \E c \in calls : RidePollAnswer(c) \/ RideAutoAnswer(c) \/ RideRiderAnswer(c)
    \/ \E l \in leaves : ServeLeave(l) \/ LeaveAnswer(l) \/ LeaveFail(l)
    \/ Back \/ SubmitDialog \/ SubmitRideDialog
    \/ \E gone \in SUBSET Panels : Dispose(gone)
    \/ RideRestart

RideSpec == RideInit /\ [][RideNext]_rideVars

(***************************************************************************)
(* Properties.                                                             *)
(***************************************************************************)

\* Once an order is booked from a form, no answer, rebuild or return from the
\* wallet brings the form back, from which it could be booked again: init runs
\* anew after the wallet and sets isBooking from widget.isCurrentRequest
\* (lines 174, 437 and 1247).
BookedStaysBooked ==
    [][\A p \in Panels :
         screen[p].isBooking /\ screen'[p].phase # "closed" => screen'[p].isBooking]_rideVars

\* Two booking screens on the stack never wait for the same order, although
\* home screens are pushed over a booking screen and each resumes the ride.
OneScreenPerOrder ==
    \A p, q \in Panels :
        OnStack(p) /\ OnStack(q) /\ screen[p].id # Absent /\ screen[p].id = screen[q].id
            => p = q

\* The wallet and the dialogs opened from a booking screen go before it does: a
\* wallet that closes runs init, and a dialog reads the order, in a State that is
\* still there (line 1247, BookingWidget.dart:228).
RoutesLive == \A i \in 1 .. Len(stack) : stack[i].by # Absent => IsOpen(stack[i].by)

\* A waiting panel is never in the tree of a screen that has nothing booked, nor
\* does a poll or a cancellation that such a panel could still act on belong
\* to it, whichever way its screen is left (build, dispose).
PanelsHoused ==
    /\ \A p \in Panels : mounted[p] => screen[p].isBooking
    /\ \A c \in calls : c.from = "mounted" => mounted[c.panel]

\* RideAcceptWidget is never shown for an order that nobody has accepted, however
\* old the answer is that the screen still shows (lines 185 and 792).
RideHasDriver ==
    \A p \in Panels :
        screen[p].status \in RideStatus => server[screen[p].ride] \notin {"none", "new"}

\* The screens as BookingScreens has them: those on the stack, and their orders.
OnTheStack == {p \in Panels : OnStack(p)}
Promise == INSTANCE BookingScreens
    WITH open  <- OnTheStack,
         holds <- [p \in Panels |-> IF OnStack(p) THEN screen[p].id ELSE Absent]

\* Through wallets, dialogs, home screens pushed over each other, answers that
\* come late and restarts, the booking screens do what BookingScreens promises.
KeepsPromise == Promise!Spec

=============================================================================
