---------------------------- MODULE WaitingPanel ----------------------------
(***************************************************************************)
(* What the waiting panel (components/BookingWidget.dart) promises to the  *)
(* screens around it and to the backend, without its clock: a panel that   *)
(* is counting may poll at any time, and may at any time send its one      *)
(* automatic cancellation.  Of the preferences IS_TIME and REMAINING_TIME  *)
(* only the presence is kept.                                              *)
(*                                                                         *)
(* Module BookingWidget, with the clock, implements this one; module       *)
(* RideBooking puts this one inside the app's screens.                     *)
(***************************************************************************)
EXTENDS Integers, FiniteSets

CONSTANTS
    Orders,    \* orders the rider may place
    Panels,    \* State objects of the panel, reused once unmounted
    Underway,  \* statuses a poll takes for "a driver has accepted"
    Absent,    \* no order, no panel
    MaxCalls   \* bound: requests in flight when one more is sent

ASSUME PanelAbsentAssumption == Absent \notin Orders \cup Panels
ASSUME PanelStatusAssumption ==
    Underway \cap {"none", "new", "completed", "canceled", "unserved"} = {}

VARIABLES
    server,     \* external: each order's status in the backend
    isTime,     \* preference IS_TIME is set
    remaining,  \* preference REMAINING_TIME is set
    mounted,    \* the panel is in the widget tree
    order,      \* its widget.id
    counting,   \* it is mounted and its timer runs
    calls       \* update-order-request calls between the app and the backend

panel == <<mounted, order, counting>>
prefs == <<isTime, remaining>>
vars == <<server, prefs, panel, calls>>

Status == {"none", "new", "completed", "canceled"} \cup Underway
Active == {"new"} \cup Underway
Call == [order : Orders, kind : {"poll", "auto", "rider"}, panel : Panels \cup {Absent},
         from  : {"mounted", "unmounted", "gone"},
         reply : Status \cup {"unserved"}]

TypeOK ==
    /\ server \in [Orders -> Status]
    /\ isTime \in BOOLEAN /\ remaining \in BOOLEAN
    /\ mounted \in [Panels -> BOOLEAN]
    /\ order \in [Panels -> Orders \cup {Absent}]
    /\ counting \in [Panels -> BOOLEAN]
    /\ calls \subseteq Call

Init ==
    /\ server = [o \in Orders |-> "none"]
    /\ isTime = FALSE /\ remaining = FALSE
    /\ mounted = [p \in Panels |-> FALSE]
    /\ order = [p \in Panels |-> Absent]
    /\ counting = [p \in Panels |-> FALSE]
    /\ calls = {}

------------------------------------------------------------------------------
(* The panel.                                                              *)

\* initState: a new wait, an old one that goes on, or one that has run out.
Mount(p, o) ==
    /\ ~mounted[p]
    /\ server[o] # "none"
    /\ mounted' = [mounted EXCEPT ![p] = TRUE]
    /\ order' = [order EXCEPT ![p] = o]
    /\ \/ /\ ~isTime
          /\ isTime' = TRUE /\ remaining' = TRUE
          /\ counting' = [counting EXCEPT ![p] = TRUE]
       \/ /\ isTime
          /\ UNCHANGED prefs
          /\ counting' = [counting EXCEPT ![p] = TRUE]
       \/ /\ isTime
          /\ isTime' = FALSE /\ UNCHANGED remaining
          /\ counting' = [counting EXCEPT ![p] = FALSE]
    /\ UNCHANGED <<server, calls>>

\* The same State is given another order's id.
Rebind(p, o) ==
    /\ mounted[p] /\ order[p] # o
    /\ server[o] # "none"
    /\ order' = [order EXCEPT ![p] = o]
    /\ UNCHANGED <<server, prefs, mounted, counting, calls>>

Orphaned(gone) ==
    {IF c.panel \in gone /\ c.from = "mounted"
       THEN [c EXCEPT !.from = "unmounted"] ELSE c : c \in calls}

Unmount(gone) ==
    /\ gone # {}
    /\ \A p \in gone : mounted[p]
    /\ mounted' = [p \in Panels |-> mounted[p] /\ p \notin gone]
    /\ order' = [p \in Panels |-> IF p \in gone THEN Absent ELSE order[p]]
    /\ counting' = [p \in Panels |-> counting[p] /\ p \notin gone]
    /\ calls' = Orphaned(gone)
    /\ UNCHANGED <<server, prefs>>

New(p, kind) == [order |-> order[p], kind |-> kind, panel |-> p,
                 from |-> "mounted", reply |-> "unserved"]

\* A tick that sends something: a poll, which needs REMAINING_TIME, or the
\* automatic cancellation, which ends the count, or both.
Tick(p) ==
    /\ mounted[p] /\ counting[p]
    /\ Cardinality(calls) < MaxCalls
    /\ \E sent \in (SUBSET {"poll", "auto"}) \ {{}} :
          /\ "poll" \in sent => remaining
          /\ calls' = calls \cup {New(p, kind) : kind \in sent}
          /\ counting' = [counting EXCEPT ![p] = "auto" \notin sent]
    /\ UNCHANGED <<server, prefs, mounted, order>>

RemoveBoth(cond) ==
    /\ isTime' = (isTime /\ ~cond)
    /\ remaining' = (remaining /\ ~cond)

\* The rider cancels: the preferences go before the request is sent.
Request(o) == [order |-> o, kind |-> "rider", panel |-> Absent, from |-> "unmounted",
               reply |-> "unserved"]

Cancel(o) ==
    /\ server[o] # "none"
    /\ Cardinality(calls) < MaxCalls
    /\ RemoveBoth(TRUE)
    /\ calls' = calls \cup {Request(o)}
    /\ UNCHANGED <<server, panel>>

------------------------------------------------------------------------------
(* Answers.                                                                *)

Gone(c) == [c EXCEPT !.from = "gone", !.panel = Absent]
Answered(c) == c \in calls /\ c.reply # "unserved" /\ c.from # "gone"

PollAnswer(c) ==
    /\ Answered(c) /\ c.kind = "poll"
    /\ RemoveBoth(c.reply = "canceled")
    /\ calls' = calls \ {c}
    /\ UNCHANGED <<server, panel>>

AutoAnswer(c) ==
    /\ Answered(c) /\ c.kind = "auto"
    /\ RemoveBoth(c.from = "mounted")
    /\ calls' = calls \ {c}
    /\ UNCHANGED <<server, panel>>

RiderAnswer(c) ==
    /\ Answered(c) /\ c.kind = "rider"
    /\ calls' = calls \ {c}
    /\ UNCHANGED <<server, prefs, panel>>

Fail(c) ==
    /\ c \in calls /\ c.from # "gone"
    /\ \/ calls' = calls \ {c}
       \/ /\ c.reply = "unserved" /\ c.kind # "poll"
          /\ calls' = (calls \ {c}) \cup {Gone(c)}
    /\ UNCHANGED <<server, prefs, panel>>

------------------------------------------------------------------------------
(* The environment.                                                        *)

Place(o) ==
    /\ server[o] = "none"
    /\ server' = [server EXCEPT ![o] = "new"]
    /\ UNCHANGED <<prefs, panel, calls>>

Progress(o, s) ==
    /\ \/ server[o] \in Active /\ s \in Underway
       \/ server[o] \in Underway /\ s = "completed"
    /\ server' = [server EXCEPT ![o] = s]
    /\ UNCHANGED <<prefs, panel, calls>>

Withdraw(o) ==
    /\ server[o] \in Active
    /\ server' = [server EXCEPT ![o] = "canceled"]
    /\ UNCHANGED <<prefs, panel, calls>>

After(c) ==
    IF c.kind # "poll" /\ server[c.order] \in Active THEN "canceled" ELSE server[c.order]

Serve(c) ==
    /\ c \in calls /\ c.reply = "unserved"
    /\ server' = [server EXCEPT ![c.order] = After(c)]
    /\ calls' = (calls \ {c}) \cup
                  (IF c.from = "gone" THEN {} ELSE {[c EXCEPT !.reply = After(c)]})
    /\ UNCHANGED <<prefs, panel>>

DropIsTime ==
    /\ \E o \in Orders : server[o] \notin {"none", "new"}
    /\ isTime' = FALSE
    /\ UNCHANGED <<server, remaining, panel, calls>>

\* The end of the process, with the requests of sent on their way.
EndProcess(sent) ==
    /\ mounted' = [p \in Panels |-> FALSE]
    /\ order' = [p \in Panels |-> Absent]
    /\ counting' = [p \in Panels |-> FALSE]
    /\ calls' = {Gone(c) :
                   c \in sent \cup {k \in calls : k.reply = "unserved" /\ k.kind # "poll"}}
    /\ UNCHANGED server

Restart == EndProcess({}) /\ UNCHANGED prefs

\* The process is killed after the first of the two writes of a wait, or after
\* the first of the two removals (or, in the rider's cancellation, before it,
\* with the request on its way): IS_TIME may be left alone.
CutWrite(o) ==
    /\ ~isTime
    /\ server[o] # "none" /\ \E p \in Panels : ~mounted[p]
    /\ EndProcess({})
    /\ isTime' = TRUE
    /\ UNCHANGED remaining

HalfRemoved == remaining' = FALSE /\ UNCHANGED isTime

CutRemoval(c) ==
    /\ Answered(c)
    /\ \/ c.kind = "poll" /\ c.reply = "canceled"
       \/ c.kind = "auto" /\ c.from = "mounted"
    /\ EndProcess({})
    /\ HalfRemoved

CutCancel(o) ==
    /\ server[o] # "none"
    /\ Cardinality(calls) < MaxCalls
    /\ \E sent \in SUBSET {Request(o)} :
          EndProcess(sent) /\ (HalfRemoved \/ (sent # {} /\ UNCHANGED prefs))

------------------------------------------------------------------------------

PanelStep ==
    \/ \E p \in Panels : Tick(p) \/ \E o \in Orders : Mount(p, o) \/ Rebind(p, o)
    \/ \E o \in Orders : Cancel(o)
Answer(c) == PollAnswer(c) \/ AutoAnswer(c) \/ RiderAnswer(c) \/ Fail(c)
Backend ==
    \/ \E o \in Orders : Place(o) \/ Withdraw(o) \/ \E s \in Status : Progress(o, s)
    \/ \E c \in calls : Serve(c)

Kill ==
    \/ \E o \in Orders : CutWrite(o) \/ CutCancel(o)
    \/ \E c \in calls : CutRemoval(c)

Next ==
    \/ PanelStep
    \/ \E gone \in SUBSET Panels : Unmount(gone)
    \/ \E c \in calls : Answer(c)
    \/ Backend
    \/ DropIsTime
    \/ Restart
    \/ Kill

Spec == Init /\ [][Next]_vars

=============================================================================
