---------------------------- MODULE BookingWidget ----------------------------
(***************************************************************************)
(* The "looking for nearby drivers" panel, components/BookingWidget.dart.  *)
(*                                                                         *)
(* While an order has no driver the panel counts down ten minutes.  Every  *)
(* twentieth tick it posts the time left to the backend and reads the      *)
(* order's status from the answer; when the time is up it asks the backend *)
(* to cancel the order.  Two preferences outlive the panel and the         *)
(* process: IS_TIME, the instant the wait ends, and REMAINING_TIME, the    *)
(* number the poll reports.  They are shared by every panel ever mounted.  *)
(*                                                                         *)
(* The module is open: Mount, Unmount and Restart happen whenever the      *)
(* screens around the panel make them happen (module RideBooking says      *)
(* when), and the backend and its drivers are an environment.              *)
(*                                                                         *)
(* Time is counted in seconds.  IS_TIME is kept as the number of seconds   *)
(* until the instant it names, 0 when that instant has passed, so that     *)
(* runs need no horizon.  Only the presence of REMAINING_TIME is kept: the *)
(* number in it reaches nothing but the backend.                           *)
(***************************************************************************)
EXTENDS Integers, FiniteSets

CONSTANTS
    Orders,           \* orders the rider may place
    Panels,           \* State objects of the panel, reused once unmounted
    timerMaxSeconds,  \* length of the wait
    PollEvery,        \* ticks between two polls
    Underway,         \* statuses a poll takes for "a driver has accepted"
    Absent,           \* a preference that is not set, no order, no panel
    MaxCalls          \* bound: requests in flight when one more is sent

ASSUME SecondsAssumption == timerMaxSeconds \in Nat \ {0}
ASSUME PollAssumption == PollEvery \in Nat \ {0}
ASSUME AbsentAssumption == Absent \notin Int \cup Orders \cup Panels
ASSUME UnderwayAssumption ==
    Underway \cap {"none", "new", "completed", "canceled", "unserved"} = {}
ASSUME BoundAssumption == MaxCalls \in Nat

VARIABLES
    server,     \* external: each order's status in the backend
    isTime,     \* preference IS_TIME, as seconds left, or Absent
    remaining,  \* preference REMAINING_TIME is set
    mounted,    \* the panel is in the widget tree
    order,      \* its widget.id
    running,    \* its Timer.periodic has not been cancelled
    duration,   \* its field duration
    elapsed,    \* seconds since its timer was started (timer.tick when it fires)
    due,        \* the timer should fire
    count,      \* its field count
    calls       \* update-order-request calls between the app and the backend

(***************************************************************************)
(* History, for the properties only: age is the time since the order was   *)
(* placed, owner the order IS_TIME was written for, borrowed the panels    *)
(* that took their duration from another order's IS_TIME, asked whether    *)
(* the app has asked to cancel any order, torn whether the process was     *)
(* killed between two writes of the preferences and left IS_TIME alone,    *)
(* with no pair written or removed whole since.                            *)
(***************************************************************************)
VARIABLES age, owner, borrowed, asked, torn

panel == <<mounted, order, running, duration, elapsed, due, count>>
prefs == <<isTime, remaining>>
history == <<age, owner, borrowed, asked, torn>>
vars == <<server, prefs, panel, calls, history>>

Seconds == 0 .. timerMaxSeconds
Status == {"none", "new", "completed", "canceled"} \cup Underway
Kind == {"poll", "auto", "rider"}

(***************************************************************************)
(* A request.  "from" is what has become of the State object that sent it: *)
(* still mounted, unmounted, or gone with its process or its timeout, in   *)
(* which case nobody waits for the answer any more.                        *)
(***************************************************************************)
Call == [order : Orders, kind : Kind, panel : Panels \cup {Absent},
         from  : {"mounted", "unmounted", "gone"},
         reply : Status \cup {"unserved"}]

CallsOf(p) == {c \in calls : c.panel = p}
Active == {"new"} \cup Underway

TypeOK ==
    /\ server \in [Orders -> Status]
    /\ isTime \in Seconds \cup {Absent}
    /\ remaining \in BOOLEAN
    /\ mounted \in [Panels -> BOOLEAN]
    /\ order \in [Panels -> Orders \cup {Absent}]
    /\ \A p \in Panels : mounted[p] => order[p] \in Orders
    /\ running \in [Panels -> BOOLEAN]
    /\ duration \in [Panels -> Seconds]
    /\ elapsed \in [Panels -> Seconds]
    /\ due \in [Panels -> BOOLEAN]
    /\ count \in [Panels -> 0 .. PollEvery]
    /\ calls \subseteq Call
    /\ age \in [Orders -> Seconds]
    /\ owner \in Orders \cup {Absent}
    /\ borrowed \subseteq Panels
    /\ asked \in BOOLEAN /\ torn \in BOOLEAN

Init ==
    /\ server = [o \in Orders |-> "none"]
    /\ isTime = Absent
    /\ remaining = FALSE
    /\ mounted = [p \in Panels |-> FALSE]
    /\ order = [p \in Panels |-> Absent]
    /\ running = [p \in Panels |-> FALSE]
    /\ duration = [p \in Panels |-> 0]
    /\ elapsed = [p \in Panels |-> 0]
    /\ due = [p \in Panels |-> FALSE]
    /\ count = [p \in Panels |-> 0]
    /\ calls = {}
    /\ age = [o \in Orders |-> 0]
    /\ owner = Absent
    /\ borrowed = {}
    /\ asked = FALSE /\ torn = FALSE

------------------------------------------------------------------------------
(* Time.                                                                   *)

Up(n, bound) == IF n < bound THEN n + 1 ELSE bound

\* One second of wall-clock time.  Running timers become due; a tick that is
\* late is not repeated, it only finds a larger timer.tick.
Second ==
    /\ isTime' = IF isTime \in 1 .. timerMaxSeconds THEN isTime - 1 ELSE isTime
    /\ elapsed' = [p \in Panels |->
                     IF running[p] /\ mounted[p] THEN Up(elapsed[p], timerMaxSeconds)
                                              ELSE elapsed[p]]
    /\ due' = [p \in Panels |-> due[p] \/ (running[p] /\ mounted[p])]
    /\ age' = [o \in Orders |->
                 IF server[o] = "none" THEN age[o] ELSE Up(age[o], timerMaxSeconds)]
    /\ UNCHANGED <<server, remaining, mounted, order, running, duration, count, calls,
                   owner, borrowed, asked, torn>>

------------------------------------------------------------------------------
(* The panel.                                                              *)

\* initState on a State with no timer yet: the fields of a new object.
Fresh(p, o, d, runs) ==
    /\ mounted' = [mounted EXCEPT ![p] = TRUE]
    /\ order' = [order EXCEPT ![p] = o]
    /\ running' = [running EXCEPT ![p] = runs]
    /\ duration' = [duration EXCEPT ![p] = d]
    /\ elapsed' = [elapsed EXCEPT ![p] = 0]
    /\ due' = [due EXCEPT ![p] = FALSE]
    /\ count' = [count EXCEPT ![p] = 0]

\* Mutation: the second preference is not written.
WriteOne(o) ==
    isTime' = timerMaxSeconds /\ owner' = o /\ torn' = FALSE /\ UNCHANGED remaining
WriteBoth(o) ==
    isTime' = timerMaxSeconds /\ owner' = o /\ torn' = FALSE /\ remaining' = TRUE

\* init with no IS_TIME: a full wait, and both preferences are written.
MountFirst(p, o) ==
    /\ isTime = Absent
    /\ Fresh(p, o, timerMaxSeconds, TRUE)
    /\ WriteBoth(o)
    /\ borrowed' = borrowed \ {p}

\* Duration.inSeconds drops the fraction of a second that is left.
Left == {s \in {isTime, isTime - 1} : s >= 0}

\* init with an IS_TIME in the future: the wait goes on.
MountResumed(p, o) ==
    /\ isTime # Absent
    /\ \E s \in Left : s > 0 /\ Fresh(p, o, s, TRUE)
    /\ borrowed' = IF owner = o THEN borrowed \ {p} ELSE borrowed \cup {p}
    /\ UNCHANGED <<prefs, owner, torn>>

\* init with an IS_TIME that has passed: the key is dropped, no timer starts.
MountExpired(p, o) ==
    /\ isTime # Absent
    /\ 0 \in Left
    /\ Fresh(p, o, timerMaxSeconds, FALSE)
    /\ isTime' = Absent
    /\ owner' = Absent
    /\ UNCHANGED <<remaining, borrowed, torn>>

Mount(p, o) ==
    /\ ~mounted[p]
    /\ server[o] # "none"
    /\ MountFirst(p, o) \/ MountResumed(p, o) \/ MountExpired(p, o)
    /\ UNCHANGED <<server, calls, age, asked>>

\* The screen is rebuilt around a mounted panel with another order's id, as a
\* second booking from the same form does: the State and its wait are kept.
Rebind(p, o) ==
    /\ mounted[p] /\ order[p] # o
    /\ server[o] # "none"
    /\ order' = [order EXCEPT ![p] = o]
    /\ borrowed' = borrowed \cup {p}
    /\ UNCHANGED <<server, prefs, mounted, running, duration, elapsed, due, count,
                   calls, age, owner, asked, torn>>

\* The calls, once the panels in gone are unmounted.
Orphaned(gone) ==
    {IF c.panel \in gone /\ c.from = "mounted"
       THEN [c EXCEPT !.from = "unmounted"] ELSE c : c \in calls}

Clear(f, gone, none) == [p \in Panels |-> IF p \in gone THEN none ELSE f[p]]

\* dispose, of any panels at once: their timers run on (at any time: see Tick)
\* and their calls are still answered, but nothing reads their fields again.
Unmount(gone) ==
    /\ gone # {}
    /\ \A p \in gone : mounted[p]
    /\ mounted' = Clear(mounted, gone, FALSE)
    /\ order' = Clear(order, gone, Absent)
    /\ duration' = Clear(duration, gone, 0)
    /\ elapsed' = Clear(elapsed, gone, 0)
    /\ due' = Clear(due, gone, FALSE)
    /\ count' = Clear(count, gone, 0)
    /\ calls' = Orphaned(gone)
    /\ borrowed' = borrowed \ gone
    /\ UNCHANGED <<server, prefs, running, age, owner, asked, torn>>

New(p, kind) == [order |-> order[p], kind |-> kind, panel |-> p, reply |-> "unserved",
                 from |-> IF mounted[p] THEN "mounted" ELSE "unmounted"]

Polls(p) == count[p] + 1 >= PollEvery

\* Mutations of TimeUp: one second early; missed by a tick that comes late.
TimeUpEarly(p) == elapsed[p] + 1 >= duration[p]
TimeUpOnTheDot(p) == elapsed[p] = duration[p]

TimeUp(p) == elapsed[p] >= duration[p]

\* Mutation: no mounted test, so the cancellation is sent all the same.
TickNotGuarded(p) ==
    /\ ~mounted[p]
    /\ calls' = calls \cup {New(p, "auto")}
    /\ UNCHANGED <<running, count, asked>>

\* The timer of a panel that has been disposed of: setState tests mounted.
TickUnmounted(p) ==
    /\ ~mounted[p]
    /\ UNCHANGED <<running, count, calls, asked>>

\* int.parse(getString(REMAINING_TIME)!) throws: the rest of the tick is
\* skipped, count is not reset, so every later tick throws as well.
TickThrows(p) ==
    /\ mounted[p]
    /\ Polls(p) /\ ~remaining
    /\ count' = [count EXCEPT ![p] = Up(@, PollEvery)]
    /\ UNCHANGED <<running, calls, asked>>

\* What a tick that runs to its end sends.
Sends(p) == (IF Polls(p) THEN {New(p, "poll")} ELSE {})
              \cup (IF TimeUp(p) THEN {New(p, "auto")} ELSE {})

\* Mutation: count is never reset.
CountKept(p) == count[p] + 1
CountAfter(p) == IF Polls(p) THEN 0 ELSE count[p] + 1

\* Mutation: the timer is not cancelled.
RunsForEver(p) == TRUE
RunsOn(p) == ~TimeUp(p)

\* A tick that runs to its end: it may poll, and it may cancel the order.
TickRuns(p) ==
    /\ mounted[p]
    /\ Polls(p) => remaining
    /\ Sends(p) # {} => Cardinality(calls) < MaxCalls
    /\ count' = [count EXCEPT ![p] = CountAfter(p)]
    /\ running' = [running EXCEPT ![p] = RunsOn(p)]
    /\ calls' = calls \cup Sends(p)
    /\ asked' = (asked \/ TimeUp(p))

Tick(p) ==
    /\ running[p]
    /\ due[p] \/ ~mounted[p]
    /\ due' = [due EXCEPT ![p] = FALSE]
    /\ TickUnmounted(p) \/ TickThrows(p) \/ TickRuns(p)
    /\ UNCHANGED <<server, prefs, mounted, order, duration, elapsed,
                   age, owner, borrowed, torn>>

\* Mutation: IS_TIME is left behind.
RemoveOne(cond) ==
    /\ remaining' = (remaining /\ ~cond)
    /\ UNCHANGED <<isTime, owner, torn>>

\* Removes REMAINING_TIME and IS_TIME when cond holds.
RemoveBoth(cond) ==
    /\ remaining' = (remaining /\ ~cond)
    /\ isTime' = IF cond THEN Absent ELSE isTime
    /\ owner' = IF cond THEN Absent ELSE owner
    /\ torn' = (torn /\ ~cond)

\* The rider submits CancelOrderDialog: both preferences go before the request
\* is sent.  The dialog may still be open when its panel has been disposed of,
\* and the answer does the same in both cases: no panel is recorded.
Request(o) == [order |-> o, kind |-> "rider", panel |-> Absent, from |-> "unmounted",
               reply |-> "unserved"]

Cancel(o) ==
    /\ server[o] # "none"
    /\ Cardinality(calls) < MaxCalls
    /\ RemoveBoth(TRUE)
    /\ calls' = calls \cup {Request(o)}
    /\ asked' = TRUE
    /\ UNCHANGED <<server, panel, age, borrowed>>

------------------------------------------------------------------------------
(* Answers.  Those of a panel that is unmounted run too, but reading       *)
(* State.context there throws.                                             *)

\* Nobody waits for the answer any more.
Gone(c) == [c EXCEPT !.from = "gone", !.panel = Absent]

Answered(c) == c \in calls /\ c.reply # "unserved" /\ c.from # "gone"

\* The answer of a poll.  A cancelled order's preferences are removed before
\* the home screen is launched.
PollAnswer(c) ==
    /\ Answered(c) /\ c.kind = "poll"
    /\ RemoveBoth(c.reply = "canceled")
    /\ calls' = calls \ {c}
    /\ UNCHANGED <<server, panel, age, borrowed, asked>>

\* The answer of the automatic cancellation.  launchScreen comes first and
\* throws in an unmounted panel, whose preferences are therefore kept.
AutoAnswer(c) ==
    /\ Answered(c) /\ c.kind = "auto"
    /\ RemoveBoth(c.from = "mounted")
    /\ calls' = calls \ {c}
    /\ UNCHANGED <<server, panel, age, borrowed, asked>>

\* The answer of the rider's cancellation: it only launches a screen.
RiderAnswer(c) ==
    /\ Answered(c) /\ c.kind = "rider"
    /\ calls' = calls \ {c}
    /\ UNCHANGED <<server, prefs, panel, history>>

\* catchError: offline, refused by the backend, or timed out after 20 seconds.
\* A request that timed out may still reach the backend.
Fail(c) ==
    /\ c \in calls /\ c.from # "gone"
    /\ \/ calls' = calls \ {c}
       \/ /\ c.reply = "unserved" /\ c.kind # "poll"
          /\ calls' = (calls \ {c}) \cup {Gone(c)}
    /\ UNCHANGED <<server, prefs, panel, history>>

------------------------------------------------------------------------------
(* The environment: backend, drivers, and the rest of the app.             *)

\* The backend creates the order.
Place(o) ==
    /\ server[o] = "none"
    /\ server' = [server EXCEPT ![o] = "new"]
    /\ UNCHANGED <<prefs, panel, calls, history>>

\* A driver accepts the order, moves it along or completes it.
Progress(o, s) ==
    /\ \/ server[o] \in Active /\ s \in Underway
       \/ server[o] \in Underway /\ s = "completed"
    /\ server' = [server EXCEPT ![o] = s]
    /\ UNCHANGED <<prefs, panel, calls, history>>

\* The order is cancelled by the driver or in the backend.
Withdraw(o) ==
    /\ server[o] \in Active
    /\ server' = [server EXCEPT ![o] = "canceled"]
    /\ UNCHANGED <<prefs, panel, calls, history>>

\* update-order-request: a cancellation cancels an order that is not over, and
\* every answer tells the order's status.
After(c) ==
    IF c.kind # "poll" /\ server[c.order] \in Active THEN "canceled" ELSE server[c.order]

Serve(c) ==
    /\ c \in calls /\ c.reply = "unserved"
    /\ server' = [server EXCEPT ![c.order] = After(c)]
    /\ calls' = (calls \ {c}) \cup
                  (IF c.from = "gone" THEN {} ELSE {[c EXCEPT !.reply = After(c)]})
    /\ UNCHANGED <<prefs, panel, history>>

\* RideAcceptWidget has read the driver's details: it removes IS_TIME only.
DropIsTime ==
    /\ \E o \in Orders : server[o] \notin {"none", "new"}
    /\ isTime' = Absent
    /\ owner' = Absent
    /\ UNCHANGED <<server, remaining, panel, calls, age, borrowed, asked, torn>>

\* What the end of the process leaves of the app: requests that are on their
\* way, those of sent with them, still reach the backend.
EndProcess(sent) ==
    /\ mounted' = [p \in Panels |-> FALSE]
    /\ order' = [p \in Panels |-> Absent]
    /\ running' = [p \in Panels |-> FALSE]
    /\ due' = [p \in Panels |-> FALSE]
    /\ calls' = {Gone(c) :
                   c \in sent \cup {k \in calls : k.reply = "unserved" /\ k.kind # "poll"}}
    /\ duration' = [p \in Panels |-> 0]
    /\ elapsed' = [p \in Panels |-> 0]
    /\ count' = [p \in Panels |-> 0]
    /\ borrowed' = {}
    /\ UNCHANGED <<server, age>>

\* The process is killed and started again; the preferences survive.
Restart == EndProcess({}) /\ UNCHANGED <<prefs, owner, asked, torn>>

\* Each setString and remove is persisted on its own, and none is awaited: a
\* kill may come between the two of a pair.  Here init has written IS_TIME and
\* not yet REMAINING_TIME.
CutWrite(o) ==
    /\ isTime = Absent
    /\ server[o] # "none" /\ \E p \in Panels : ~mounted[p]
    /\ EndProcess({})
    /\ isTime' = timerMaxSeconds
    /\ owner' = o
    /\ torn' = ~remaining
    /\ UNCHANGED <<remaining, asked>>

\* REMAINING_TIME is removed and IS_TIME is not yet.
HalfRemoved ==
    /\ remaining' = FALSE
    /\ torn' = (isTime # Absent)
    /\ UNCHANGED <<isTime, owner>>

\* The same kill in the answer of a poll or of the automatic cancellation.
CutRemoval(c) ==
    /\ Answered(c)
    /\ \/ c.kind = "poll" /\ c.reply = "canceled"
       \/ c.kind = "auto" /\ c.from = "mounted"
    /\ EndProcess({})
    /\ HalfRemoved
    /\ UNCHANGED asked

\* And in the rider's cancellation: neither removal, or the first one only, has
\* been persisted, and the request may have been sent.
CutCancel(o) ==
    /\ server[o] # "none"
    /\ Cardinality(calls) < MaxCalls
    /\ \E sent \in SUBSET {Request(o)} :
          /\ EndProcess(sent)
          /\ HalfRemoved \/ (sent # {} /\ UNCHANGED <<prefs, owner, torn>>)
    /\ asked' = TRUE

------------------------------------------------------------------------------

PanelStep ==
    \/ \E p \in Panels : Tick(p) \/ \E o \in Orders : Mount(p, o) \/ Rebind(p, o)
    \/ \E o \in Orders : Cancel(o)
Answer(c) == PollAnswer(c) \/ AutoAnswer(c) \/ RiderAnswer(c) \/ Fail(c)
Backend ==
    \/ \E o \in Orders : Place(o) \/ Withdraw(o) \/ \E s \in Status : Progress(o, s)
    \/ \E c \in calls : Serve(c)

Kill ==
    \/ \E o \in Orders : CutWrite(o) \/ CutCancel(o)
    \/ \E c \in calls : CutRemoval(c)

Next ==
    \/ Second
    \/ PanelStep
    \/ \E gone \in SUBSET Panels : Unmount(gone)
    \/ \E c \in calls : Answer(c)
    \/ Backend
    \/ DropIsTime
    \/ Restart
    \/ Kill

Spec == Init /\ [][Next]_vars

(***************************************************************************)
(* Properties.                                                             *)
(***************************************************************************)

\* IS_TIME is set without REMAINING_TIME only after a kill between the writes of
\* lines 74 and 76 or the removals of lines 111-112, 150-151 and 233-234, and
\* until a pair is written or removed whole: otherwise, whichever panel, dialog
\* or screen writes or removes them, a panel that resumes a wait can parse the
\* number its first poll needs (BookingWidget.dart:82 and :99).
PrefsPaired == isTime # Absent => remaining \/ torn

\* A panel that is counting down finds REMAINING_TIME gone, and so has stopped
\* polling and will never cancel (line 99 throws), only after some order was
\* cancelled or asked to be cancelled, or after a kill between two writes of
\* the preferences.
DeafOnlyAfterCancel ==
    \A p \in Panels :
        mounted[p] /\ running[p] /\ ~remaining =>
            torn \/ asked \/ \E o \in Orders : server[o] = "canceled"

\* The automatic cancellation never comes early: when the app sends one, the
\* order has been waiting for the ten minutes of line 51, less the second that
\* inSeconds may drop, through any number of restarts and remounts; unless
\* the panel took over an IS_TIME left behind by another order.
NotEarly ==
    \A c \in calls :
        c.kind = "auto" /\ c.from = "mounted" /\ c.panel \notin borrowed =>
            age[c.order] + 1 >= timerMaxSeconds

\* While a panel's automatic cancellation is under way its timer is stopped
\* (timer.cancel, line 142): it sends no second one and no poll that races it.
AutoStopsTimer ==
    \A c \in calls : c.kind = "auto" /\ c.from = "mounted" => ~running[c.panel]

\* dispose leaves the timer running (lines 189-192), and yet a panel that has
\* been disposed of neither polls nor cancels: the mounted test of setState is
\* all that stops it.
Automatic(p) == {c.kind : c \in CallsOf(p)}

DisposedPanelIsSilent ==
    [][\A p \in Panels : ~mounted[p] => Automatic(p)' \subseteq Automatic(p)]_vars

\* The panel does what WaitingPanel promises, whatever its clock does: the
\* presence of IS_TIME is all the other components see of it.
Abstract == INSTANCE WaitingPanel WITH
    isTime <- isTime # Absent,
    counting <- [p \in Panels |-> mounted[p] /\ running[p]]

Implements == Abstract!Spec

(***************************************************************************)
(* Fairness: timers fire, the backend answers, answers are handled and     *)
(* clocks run.  Nothing obliges the rider, the drivers or the network.     *)
(***************************************************************************)
Fairness ==
    /\ WF_vars(Second)
    /\ \A p \in Panels : WF_vars(Tick(p))
    /\ WF_vars(\E c \in calls : Serve(c))
    /\ WF_vars(\E c \in calls : PollAnswer(c) \/ AutoAnswer(c) \/ RiderAnswer(c))

FairSpec == Spec /\ Fairness

\* A panel that counts a new order down while its REMAINING_TIME is there.
Watching(p, o) ==
    server[o] = "new" /\ mounted[p] /\ order[p] = o /\ running[p] /\ remaining

\* A wait ends: the order gets a driver, is over or is cancelled; or the panel
\* goes or loses REMAINING_TIME; or its one cancellation request has failed and
\* nothing is left that could end it.
WaitEnds ==
    \A p \in Panels, o \in Orders :
        Watching(p, o) ~> \/ server[o] # "new"
                          \/ ~mounted[p]
                          \/ ~remaining
                          \/ ~running[p] /\ CallsOf(p) = {}

=============================================================================
