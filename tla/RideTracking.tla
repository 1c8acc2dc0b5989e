---------------------------- MODULE RideTracking ----------------------------
(***************************************************************************)
(* How the booking screen follows a ride: RideBooking's one screen and one *)
(* order, with its timers counted and its calls kept apart.                *)
(*                                                                         *)
(* getCurrentRequest asks the backend for the ride; what the screen shows, *)
(* and which timers run, follows from the answers, which are applied in    *)
(* the order in which they come.  It is called again by the waiting panel, *)
(* while that is what is shown, and by the timer of RideAcceptWidget.  No  *)
(* one ever cancels that timer, so that it asks on behalf of a screen that *)
(* is gone; and each answer about a ride under way starts a timer that     *)
(* asks for the driver's position, whose handle the next answer overwrites.*)
(* When the rider orders again, the timers left by the old screen ask on,  *)
(* and give that screen the new order beside the old driver.               *)
(***************************************************************************)
EXTENDS Naturals

CONSTANTS
    Slots,      \* the getCurrentRequest calls that can be in flight
    MaxTimers   \* bound: timers are told apart up to this number

ASSUME TimersAssumption == MaxTimers \in Nat \ {0}

\* OnRideRequest.status as the ride goes on, and what build shows for it:
\* RideAcceptWidget, or else the waiting panel.
Rank == [new |-> 0, accepted |-> 1, pickingup |-> 2, arrived |-> 3,
         pickup |-> 4, inprogress |-> 5, completed |-> 6]
Stage == DOMAIN Rank
CardStages == {"accepted", "pickingup", "pickup", "inprogress", "completed"}
TimerStages == {"accepted", "pickingup", "inprogress"}

VARIABLES
    server,     \* external: the last order's status, "gone" when there is no ride to tell of
    open,       \* the booking screen is in the widget tree
    shown,      \* rideRequest.status, "none" when rideRequest is null
    driver,     \* driverData is not null
    card,       \* RideAcceptWidget: "absent", "reading" its driver, "ready"
    orphans,    \* cards that left the tree while reading, and will start a timer
    askTimers,  \* RideAcceptWidget's timers
    held,       \* the field timer holds a timer that runs
    lost,       \* driver-position timers whose handle was overwritten
    asks,       \* getCurrentRequest calls: "idle", "sent", or the answer
    locating    \* a request for the driver's position is in flight

vars == <<server, open, shown, driver, card, orphans, askTimers, held, lost, asks, locating>>
timers == <<orphans, askTimers, held, lost>>

TypeOK ==
    /\ server \in Stage \cup {"gone"}
    /\ shown \in Stage \cup {"none"}
    /\ {open, driver, held, locating} \subseteq BOOLEAN
    /\ card \in {"absent", "reading", "ready"}
    /\ {orphans, askTimers, lost} \subseteq 0 .. MaxTimers
    /\ asks \in [Slots -> Stage \cup {"idle", "sent", "none"}]

\* One more timer, as far as they are counted.
OneMore(n) == IF n < MaxTimers THEN n + 1 ELSE n

\* The screen asks, once an order is saved or when it is opened for a ride.
Init ==
    /\ server \in Stage
    /\ open = TRUE /\ shown = "none" /\ driver = FALSE
    /\ card = "absent"
    /\ orphans = 0 /\ askTimers = 0 /\ held = FALSE /\ lost = 0
    /\ \E a \in Slots : asks = [b \in Slots |-> IF b = a THEN "sent" ELSE "idle"]
    /\ locating = FALSE

------------------------------------------------------------------------------
(* The ride, in the backend.                                               *)

\* The driver goes on; a stage may pass between two looks at it.
Progress ==
    /\ server # "gone"
    /\ \E s \in Stage : Rank[s] > Rank[server] /\ server' = s
    /\ UNCHANGED <<open, shown, driver, card, timers, asks, locating>>

\* It is cancelled by anyone, or rated.
Vanish ==
    /\ server # "gone" /\ server' = "gone"
    /\ UNCHANGED <<open, shown, driver, card, timers, asks, locating>>

\* The rider orders again, from another screen: the backend tells of that order now.
OrderAgain ==
    /\ server \in {"completed", "gone"} /\ server' = "new"
    /\ UNCHANGED <<open, shown, driver, card, timers, asks, locating>>

------------------------------------------------------------------------------
(* getCurrentRequest.                                                      *)

Ask(a) == asks[a] = "idle" /\ asks' = [asks EXCEPT ![a] = "sent"]

\* The waiting panel has polled a ride that is under way.
PanelAsks(a) ==
    /\ open /\ shown \notin CardStages
    /\ server \notin {"gone", "new", "completed"}
    /\ Ask(a)
    /\ UNCHANGED <<server, open, shown, driver, card, timers, locating>>

TimerAsks(a) ==
    /\ askTimers > 0
    /\ Ask(a)
    /\ UNCHANGED <<server, open, shown, driver, card, timers, locating>>

Serve(a) ==
    /\ asks[a] = "sent"
    /\ asks' = [asks EXCEPT ![a] = IF server = "gone" THEN "none" ELSE server]
    /\ UNCHANGED <<server, open, shown, driver, card, timers, locating>>

\* A failure is logged and forgotten.
Fail(a) ==
    /\ asks[a] # "idle"
    /\ asks' = [asks EXCEPT ![a] = "idle"]
    /\ UNCHANGED <<server, open, shown, driver, card, timers, locating>>

\* What is shown after an answer: one without a ride leaves the old one.
\* Mutations: an answer is dropped once the screen has a ride whose driver it knows;
\* one without a ride empties the screen.
ShownAsTold(answer) == answer
ShownAfterFirst(answer) ==
    IF answer = "none" \/ driver THEN shown ELSE answer
ShownAfter(answer) == IF answer = "none" THEN shown ELSE answer

\* Mutation: the timer is left running for a ride that is completed.
LocationTimerStays(s, known) ==
    IF known THEN held' = TRUE /\ lost' = IF held THEN OneMore(lost) ELSE lost
             ELSE held' = FALSE /\ UNCHANGED lost

\* With a driver and a ride under way another timer is started; else the one
\* that is held is cancelled.
LocationTimer(s, known) ==
    IF known /\ s # "completed"
      THEN held' = TRUE /\ lost' = IF held THEN OneMore(lost) ELSE lost
      ELSE held' = FALSE /\ UNCHANGED lost

\* The card that leaves the tree goes on with its init.
DropCard ==
    /\ card' = "absent"
    /\ orphans' = IF card = "reading" /\ shown \in TimerStages
                    THEN OneMore(orphans) ELSE orphans

Answer(a) ==
    /\ asks[a] \notin {"idle", "sent"}
    /\ asks' = [asks EXCEPT ![a] = "idle"]
    /\ LET s == ShownAfter(asks[a])
           known == driver \/ asks[a] \notin {"none", "new"}
       IN  /\ shown' = s
           /\ driver' = known
           /\ IF s = "none" THEN UNCHANGED <<held, lost>> ELSE LocationTimer(s, known)
           /\ IF open /\ s \in CardStages
                THEN /\ card' = IF card = "absent" THEN "reading" ELSE card
                     /\ UNCHANGED orphans
                ELSE DropCard
    /\ UNCHANGED <<server, open, askTimers, locating>>

------------------------------------------------------------------------------
(* RideAcceptWidget's init, and the driver's position.                     *)

\* The driver's details are answered, or refused: the status of that moment
\* decides whether the ride will be asked for again.
ReadDriver ==
    /\ card = "reading" /\ card' = "ready"
    /\ askTimers' = IF shown \in TimerStages THEN OneMore(askTimers) ELSE askTimers
    /\ UNCHANGED <<server, open, shown, driver, orphans, held, lost, asks, locating>>

ReadOrphan ==
    /\ orphans > 0 /\ orphans' = orphans - 1
    /\ askTimers' = OneMore(askTimers)
    /\ UNCHANGED <<server, open, shown, driver, card, held, lost, asks, locating>>

\* getUserDetailLocation, by the timer that is held or a lost one.
\* Mutation: it does not look at the status.
Locatable == TRUE
UnderWay == shown # "completed"

LocationTick ==
    /\ held \/ lost > 0
    /\ IF UnderWay THEN locating' = TRUE /\ UNCHANGED held
                   ELSE held' = FALSE /\ UNCHANGED locating
    /\ UNCHANGED <<server, open, shown, driver, card, orphans, askTimers, lost, asks>>

\* It is answered, or fails.
Located ==
    /\ locating /\ locating' = FALSE
    /\ UNCHANGED <<server, open, shown, driver, card, timers, asks>>

\* The screen is popped, or replaced by another.
Dispose ==
    /\ open /\ open' = FALSE
    /\ held' = FALSE
    /\ DropCard
    /\ UNCHANGED <<server, shown, driver, askTimers, lost, asks, locating>>

------------------------------------------------------------------------------

Next ==
    \/ Progress \/ Vanish \/ OrderAgain
    \/ \E a \in Slots : PanelAsks(a) \/ TimerAsks(a) \/ Serve(a) \/ Fail(a) \/ Answer(a)
    \/ ReadDriver \/ ReadOrphan \/ LocationTick \/ Located \/ Dispose

Spec == Init /\ [][Next]_vars

\* Timers fire and replies arrive.  A call may fail, but of calls made again and
\* again some are served, and of answers given again and again some arrive.
Fairness ==
    /\ \A a \in Slots : WF_vars(TimerAsks(a)) /\ SF_vars(Serve(a)) /\ SF_vars(Answer(a))
    /\ WF_vars(Located)

FairSpec == Spec /\ Fairness

(***************************************************************************)
(* Properties.                                                             *)
(***************************************************************************)

\* The screen holds a timer for the driver's position exactly while it shows a
\* ride that is not completed and knows its driver (getCurrentRequest, lines
\* 193-200), whatever order the answers come in and whichever timer ticks.
PositionFollowed ==
    open => (held <=> driver /\ shown \notin {"none", "completed"})

\* The last order is completed, stays so, and a RideAcceptWidget has started its
\* timer.
CompletedAndAsked == <>[](server = "completed") /\ <>(askTimers > 0)

\* Then the screen ends up showing it completed, although answers given earlier
\* may come later and show it, or the order before it, under way again.
CompletionShown == CompletedAndAsked => <>[](shown = "completed")

\* Then the app ends up no longer asking for the driver's position.  The timers
\* that were lost run for ever and look at rideRequest of the screen that started
\* them, which has perhaps been disposed of: it is the timer of RideAcceptWidget,
\* which nothing cancels either, that has it updated.
PositionLetGo == CompletedAndAsked => <>[](~locating)

\* The completed ride is shown, and no answer given before that is still to come.
Settled ==
    /\ server \in {"completed", "gone"} /\ shown = "completed"
    /\ \A a \in Slots : asks[a] \in {"idle", "sent", "completed", "none"}

\* From then on only the rider's next order, which the old screen's timers will be
\* told of, can bring a ride back under way or have a driver's position asked for:
\* not the backend's forgetting the ride, nor the timers that ask and ask, nor those
\* that were lost or left by a screen that is disposed of.
CompletionKept ==
    [][Settled => (Settled' /\ (locating' => locating)) \/ server' = "new"]_vars

=============================================================================
