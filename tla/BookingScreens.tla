--------------------------- MODULE BookingScreens ---------------------------
(***************************************************************************)
(* What the booking screens promise: each is opened as an empty form or    *)
(* for a ride in progress, then in place of all others; a form takes an    *)
(* order that no other screen has, and never gives one back.  RideBooking  *)
(* implements it.                                                          *)
(***************************************************************************)
CONSTANTS
    Panels,     \* booking screens, used again once closed
    Orders,     \* orders
    Absent      \* none of them

VARIABLES
    open,       \* the screens the rider can come to
    holds       \* the order each of them is for, Absent for a form

vars == <<open, holds>>

Init == open = {} /\ holds = [p \in Panels |-> Absent]

Open(p) ==
    /\ p \in Panels \ open /\ open' = open \cup {p}
    /\ UNCHANGED holds

Book(p, o) ==
    /\ p \in open /\ \A q \in open \ {p} : holds[q] # o
    /\ holds' = [holds EXCEPT ![p] = o]
    /\ UNCHANGED open

Resume(p, o) ==
    /\ p \in Panels \ open /\ open' = {p}
    /\ holds' = [q \in Panels |-> IF q = p THEN o ELSE Absent]

Close ==
    /\ open' \in SUBSET open
    /\ holds' = [p \in Panels |-> IF p \in open' THEN holds[p] ELSE Absent]

Next ==
    \/ \E p \in Panels : Open(p) \/ \E o \in Orders : Book(p, o) \/ Resume(p, o)
    \/ Close

Spec == Init /\ [][Next]_vars

\* No two screens are for the same order.
OneEach ==
    \A p, q \in open : holds[p] # Absent /\ holds[p] = holds[q] => p = q

=============================================================================
