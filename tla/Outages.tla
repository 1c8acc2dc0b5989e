------------------------------- MODULE Outages -------------------------------
(***************************************************************************)
(* The network and the location service go off and on (main.dart's init,   *)
(* and locationPermission of every home screen).  Whoever notices pushes a *)
(* screen that says so, and pops when it is over: not that screen, but     *)
(* whatever is on top of the Navigator's stack by then.  MyApp pops only   *)
(* if it has pushed, a home screen only if something would be left.        *)
(*                                                                         *)
(* The subscriptions of home screens are never cancelled: all that were    *)
(* ever shown notice, and push and pop one each.  Screens of the app are   *)
(* not told apart here; RideBooking says which follow which.               *)
(***************************************************************************)
EXTENDS Naturals, Sequences

CONSTANTS
    MaxDepth,      \* bound: routes on the stack when one more is pushed
    MaxListeners   \* bound: home screens that were ever shown

ASSUME OutageBoundAssumption == MaxDepth \in Nat /\ MaxListeners \in Nat \ {0}

VARIABLES
    stack,                    \* the Navigator's routes, the one on top last
    isCurrentlyOnNoInternet,  \* the flag of main.dart
    locationOn,               \* external: the device's location service
    listeners,                \* subscriptions to that service's status
    base,                     \* history: the stack before the outage, or now
    disturbed                 \* history: in the outage something else moved

vars == <<stack, isCurrentlyOnNoInternet, locationOn, listeners, base, disturbed>>

Kinds == {"app", "noInternet", "locationPermission"}

TypeOK ==
    /\ stack \in Seq(Kinds)
    /\ isCurrentlyOnNoInternet \in BOOLEAN /\ locationOn \in BOOLEAN
    /\ listeners \in 1 .. MaxListeners
    /\ base \in Seq(Kinds)
    /\ disturbed \in BOOLEAN

Settled == ~isCurrentlyOnNoInternet /\ locationOn

\* The first home screen is shown, and the device is on line.
Init ==
    /\ stack = <<"app">> /\ base = stack
    /\ isCurrentlyOnNoInternet = FALSE /\ locationOn = TRUE
    /\ listeners = 1
    /\ disturbed = FALSE

Pushed(n, kind) == stack \o [i \in 1 .. n |-> kind]
Popped(n) == SubSeq(stack, 1, Len(stack) - n)

\* After the last outage is over the history starts anew.
Record(moved) ==
    /\ base' = IF Settled' THEN stack' ELSE base
    /\ disturbed' = (~Settled' /\ (disturbed \/ moved))

------------------------------------------------------------------------------
(* The network.                                                            *)

\* The plugin may report "none" twice, and there are two screens then.
NetworkLost ==
    /\ Len(stack) < MaxDepth
    /\ isCurrentlyOnNoInternet' = TRUE
    /\ stack' = Pushed(1, "noInternet")
    /\ UNCHANGED <<locationOn, listeners>>
    /\ Record(isCurrentlyOnNoInternet)

\* Mutation: the flag is not looked at.
FlagIgnored == TRUE
FlagSet == isCurrentlyOnNoInternet

\* wifi or mobile: either of them after none, or one after the other.  Nothing
\* keeps Navigator.pop from taking the last route away; with none left it throws,
\* and nothing changes.
NetworkFound ==
    /\ stack # <<>>
    /\ isCurrentlyOnNoInternet' = FALSE
    /\ stack' = IF FlagSet THEN Popped(1) ELSE stack
    /\ UNCHANGED <<locationOn, listeners>>
    /\ Record(FALSE)

------------------------------------------------------------------------------
(* The location service.                                                   *)

LocationLost ==
    /\ Len(stack) < MaxDepth
    /\ locationOn /\ locationOn' = FALSE
    /\ stack' = Pushed(listeners, "locationPermission")
    /\ UNCHANGED <<isCurrentlyOnNoInternet, listeners>>
    /\ Record(FALSE)

\* Every listener in turn: canPop, then pop.
\* Mutation: one of them pops for all.
PopOnce == IF Len(stack) > 1 THEN Popped(1) ELSE stack
PopEach ==
    CASE Len(stack) > listeners -> Popped(listeners)
      [] stack = <<>>           -> stack
      [] OTHER                  -> SubSeq(stack, 1, 1)

LocationFound ==
    /\ ~locationOn /\ locationOn' = TRUE
    /\ stack' = PopEach
    /\ UNCHANGED <<isCurrentlyOnNoInternet, listeners>>
    /\ Record(FALSE)

------------------------------------------------------------------------------
(* Everything else that moves the stack.                                   *)

Move == UNCHANGED <<isCurrentlyOnNoInternet, locationOn>> /\ Record(TRUE)

\* A screen of the app, or LocationPermissionScreen because getCurrentUserLocation
\* has failed.
Open ==
    /\ Len(stack) < MaxDepth
    /\ \E kind \in {"app", "locationPermission"} : stack' = Pushed(1, kind)
    /\ UNCHANGED listeners
    /\ Move

\* A home screen on top, or in place of all ("allow", or an answer that brings it).
OpenHome ==
    /\ listeners < MaxListeners /\ listeners' = listeners + 1
    /\ \/ Len(stack) < MaxDepth /\ stack' = Pushed(1, "app")
       \/ stack' = <<"app">>
    /\ Move

\* Another screen in place of all.
Replace ==
    /\ stack' = <<"app">>
    /\ UNCHANGED listeners
    /\ Move

Back ==
    /\ Len(stack) > 1
    /\ stack' = Popped(1)
    /\ UNCHANGED listeners
    /\ Move

Next ==
    \/ NetworkLost \/ NetworkFound \/ LocationLost \/ LocationFound
    \/ Open \/ OpenHome \/ Replace \/ Back

Spec == Init /\ [][Next]_vars

(***************************************************************************)
(* Properties.                                                             *)
(***************************************************************************)

\* When the network and the location service are both back, after outages that
\* overlap in any way, the screens are those there were before, unless something
\* else moved the stack meanwhile or the network was reported lost twice.  In
\* between the wrong screen may be on top: each pop takes the last that was
\* pushed, whichever outage it tells of.
OutagesLeaveNothing ==
    [][~Settled /\ Settled' /\ ~disturbed /\ base # <<>> => stack' = base]_vars

\* The last route is popped, and the app shows nothing, only when something else
\* moved the stack in the outage, or nothing was there before.
EmptiedByOutage == [][stack' = <<>> => disturbed \/ base = <<>>]_vars

=============================================================================
