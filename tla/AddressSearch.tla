---------------------------- MODULE AddressSearch ----------------------------
(***************************************************************************)
(* The search sheet (screens/RiderWidget.dart) over the map screen, where  *)
(* the rider chooses the two ends of a ride: what its two text fields say, *)
(* and the positions that go with them, which are the global variables     *)
(* polylineSource and polylineDestination of main.dart.                    *)
(*                                                                         *)
(* A place is chosen from the list of answers to a search, and its details *)
(* are then asked for, or on a map above the sheet.  Both take a while, in *)
(* which the focus may move; when both fields have a text a booking form   *)
(* is launched with the texts and the positions of that moment.  The       *)
(* device's own position, asked for by the screen below and by each form   *)
(* that closes, is written to polylineSource whenever it comes.            *)
(*                                                                         *)
(* Left out: which field a list belongs to (there is one list, replaced by *)
(* each answer, whichever search it answers) and the labels.               *)
(***************************************************************************)
EXTENDS Naturals

CONSTANTS
    Places,       \* addresses a search or the map can give, with their positions
    Taps,         \* the requests for a place's details that can be in flight
    MaxSearches   \* bound: searches in flight

ASSUME SearchBoundAssumption == MaxSearches \in Nat
ASSUME PlacesAssumption ==
    Places \cap {"blank", "typed", "device", "zero", "idle"} = {}

VARIABLES
    homeTitle,         \* sourceLocationTitle of the screen below: the device's address
    title,             \* widget.title, which is read anew when the sheet is rebuilt
    source,            \* the text of sourceLocation
    destination,       \* the text of destinationLocation
    mLocation,         \* the source last chosen here
    focus,             \* the field whose FocusNode has the focus
    from, to,          \* polylineSource, polylineDestination
    list,              \* listAddress
    searches,          \* searches in flight
    taps,              \* requests for the details of a place in flight
    map,               \* the field for which GoogleMapScreen is open
    forms,             \* booking forms above the sheet, and above the map
    form,              \* what the last one was launched with
    locating           \* a closed form waits for the device's position

fields == <<title, source, destination, mLocation, focus>>
above == <<map, forms, form>>
requests == <<list, searches, taps>>
vars == <<homeTitle, fields, from, to, requests, above, locating>>

\* A text is empty ("blank"), typed by the rider, the device's address or a place's.
Texts == {"blank", "typed", "device"} \cup Places
Positions == {"zero", "device"} \cup Places
Fields == {"source", "destination"}
NoForm == [by |-> "none", source |-> "blank", destination |-> "blank",
           from |-> "zero", to |-> "zero"]
Forms == [by : Fields \cup {"none"}, source : Texts, destination : Texts,
          from : Positions, to : Positions]

TypeOK ==
    /\ homeTitle \in {"blank", "device"} /\ title \in {"blank", "device"}
    /\ source \in Texts /\ destination \in Texts
    /\ mLocation \in {"blank"} \cup Places
    /\ focus \in Fields \cup {"none"}
    /\ from \in Positions /\ to \in Positions
    /\ list \subseteq Places
    /\ searches \in 0 .. MaxSearches
    /\ taps \in [Taps -> Places \cup {"idle"}]
    /\ map \in Fields \cup {"none"}
    /\ forms \in Nat
    /\ form \in Forms
    /\ locating \in BOOLEAN

Idle == [t \in Taps |-> "idle"]

Init ==
    /\ homeTitle \in {"blank", "device"} /\ title = homeTitle
    /\ source = title /\ destination = "blank" /\ mLocation = "blank" /\ focus = "none"
    /\ from = (IF homeTitle = "blank" THEN "zero" ELSE "device") /\ to = "zero"
    /\ list = {} /\ searches = 0 /\ taps = Idle
    /\ map = "none" /\ forms = 0 /\ form = NoForm
    /\ locating = FALSE

OnTop == map = "none" /\ forms = 0

------------------------------------------------------------------------------
(* The fields.                                                             *)

\* The listeners of the FocusNodes: the source is emptied to be typed anew, and
\* put back when the rider goes to the destination.
\* Mutation: it is left as it is.
SourceUnderFocusKept(f) == IF f = "source" THEN "blank" ELSE source
SourceUnderFocus(f) ==
    IF f = "source" THEN "blank" ELSE IF mLocation # "blank" THEN mLocation ELSE title

\* By a tap, by autofocus, or when what lay above the sheet is closed.
Focus(f) ==
    /\ OnTop /\ focus # f
    /\ focus' = f
    /\ source' = SourceUnderFocus(f)
    /\ UNCHANGED <<homeTitle, title, destination, mLocation, from, to, requests, above,
                   locating>>

\* The sheet is covered, or the keyboard is put away.
Blur ==
    /\ focus # "none" /\ focus' = "none"
    /\ UNCHANGED <<homeTitle, title, source, destination, mLocation, from, to, requests, above,
                   locating>>

\* onChanged.  Fewer than three letters clear the list, more of them search;
\* nothing at all does neither.
Type(f) ==
    /\ OnTop /\ focus = f
    /\ \E text \in {"blank", "typed"} :
          /\ source' = IF f = "source" THEN text ELSE source
          /\ destination' = IF f = "destination" THEN text ELSE destination
          /\ \/ text = "blank" /\ UNCHANGED <<list, searches>>
             \/ text # "blank" /\ list' = {} /\ UNCHANGED searches
             \/ /\ text # "blank" /\ searches < MaxSearches
                /\ searches' = searches + 1 /\ UNCHANGED list
    /\ UNCHANGED <<homeTitle, title, mLocation, focus, from, to, taps, above, locating>>

\* An answer is the list, however old; after a failure the list stays.
SearchAnswer ==
    /\ searches > 0 /\ searches' = searches - 1
    /\ list' \in SUBSET Places
    /\ UNCHANGED <<homeTitle, fields, from, to, taps, above, locating>>

------------------------------------------------------------------------------
(* Choosing a place.                                                       *)

Launch(by, s, d, p, q) ==
    /\ forms' = forms + 1
    /\ form' = [by |-> by, source |-> s, destination |-> d, from |-> p, to |-> q]

Cleared == source' = "blank" /\ destination' = "blank"

\* A place becomes the source: with a destination that makes a form, for which
\* both texts are taken out of the fields.  A destination likewise.
\* Mutations: the form is launched before the position is assigned; the texts
\* are left in the fields.
ChooseLate(f, p) ==
    IF f = "source"
      THEN /\ mLocation' = p /\ from' = p /\ UNCHANGED to
           /\ IF destination # "blank"
                THEN Cleared /\ Launch(f, p, destination, from, to)
                ELSE source' = p /\ UNCHANGED <<destination, forms, form>>
      ELSE /\ to' = p /\ UNCHANGED <<mLocation, from>>
           /\ IF source # "blank"
                THEN Cleared /\ Launch(f, source, p, from, to)
                ELSE destination' = p /\ UNCHANGED <<source, forms, form>>
ChooseAndKeep(f, p) ==
    IF f = "source"
      THEN /\ mLocation' = p /\ from' = p /\ source' = p /\ UNCHANGED <<to, destination>>
           /\ IF destination # "blank" THEN Launch(f, p, destination, p, to)
                                  ELSE UNCHANGED <<forms, form>>
      ELSE /\ to' = p /\ destination' = p /\ UNCHANGED <<mLocation, from, source>>
           /\ IF source # "blank" THEN Launch(f, source, p, from, p)
                             ELSE UNCHANGED <<forms, form>>
Choose(f, p) ==
    IF f = "source"
      THEN /\ mLocation' = p /\ from' = p /\ UNCHANGED to
           /\ IF destination # "blank"
                THEN Cleared /\ Launch(f, p, destination, p, to)
                ELSE source' = p /\ UNCHANGED <<destination, forms, form>>
      ELSE /\ to' = p /\ UNCHANGED <<mLocation, from>>
           /\ IF source # "blank"
                THEN Cleared /\ Launch(f, source, p, from, p)
                ELSE destination' = p /\ UNCHANGED <<source, forms, form>>

Tap(t, p) ==
    /\ OnTop /\ p \in list
    /\ taps[t] = "idle" /\ taps' = [taps EXCEPT ![t] = p]
    /\ UNCHANGED <<homeTitle, fields, from, to, list, searches, above, locating>>

\* The details come: the place goes to the field that has the focus by then.
Details(t) ==
    /\ taps[t] # "idle" /\ taps' = [taps EXCEPT ![t] = "idle"]
    /\ IF focus \in Fields THEN Choose(focus, taps[t])
       ELSE UNCHANGED <<source, destination, mLocation, from, to, forms, form>>
    /\ list' = {}
    /\ UNCHANGED <<homeTitle, title, focus, searches, map, locating>>

DetailsFail(t) ==
    /\ taps[t] # "idle" /\ taps' = [taps EXCEPT ![t] = "idle"]
    /\ UNCHANGED <<homeTitle, fields, from, to, list, searches, above, locating>>

\* "Choose on map" is for the field that has the focus when it is tapped.
OpenMap ==
    /\ OnTop /\ focus \in Fields
    /\ map' = focus
    /\ UNCHANGED <<homeTitle, fields, from, to, requests, forms, form, locating>>

PickOnMap(p) ==
    /\ map \in Fields /\ forms = 0
    /\ map' = "none"
    /\ Choose(map, p)
    /\ UNCHANGED <<homeTitle, title, focus, requests, locating>>

\* Back from the map: its null result is no PickResult, so the handler ends there.
CloseMap ==
    /\ map \in Fields /\ forms = 0
    /\ map' = "none"
    /\ UNCHANGED <<homeTitle, fields, from, to, requests, forms, form, locating>>

------------------------------------------------------------------------------
(* The screens around the sheet.                                           *)

\* The form's dispose asks for the device's position.
CloseForm ==
    /\ forms > 0 /\ forms' = forms - 1
    /\ locating' = TRUE
    /\ UNCHANGED <<homeTitle, fields, from, to, requests, map, form>>

FormLocated ==
    /\ locating /\ locating' = FALSE
    /\ from' = "device"
    /\ UNCHANGED <<homeTitle, fields, to, requests, above>>

\* The screen below finds where the device is: at its start, and each time the
\* rider turns the location service on.
HomeLocated ==
    /\ homeTitle' = "device" /\ from' = "device"
    /\ UNCHANGED <<fields, to, requests, above, locating>>

Rebuild ==
    /\ title' = homeTitle
    /\ UNCHANGED <<homeTitle, source, destination, mLocation, focus, from, to, requests, above,
                   locating>>

\* The sheet is closed, with all that is above it, and opened again.  Answers for
\* the old one find neither of its fields in focus.
Reopen ==
    /\ title' = homeTitle
    /\ source' = homeTitle /\ destination' = "blank" /\ mLocation' = "blank" /\ focus' = "none"
    /\ list' = {} /\ searches' = 0 /\ taps' = Idle
    /\ map' = "none" /\ forms' = 0
    /\ locating' = (locating \/ forms > 0)
    /\ UNCHANGED <<homeTitle, from, to, form>>

Next ==
    \/ \E f \in Fields : Focus(f) \/ Type(f)
    \/ Blur \/ SearchAnswer
    \/ \E t \in Taps : Details(t) \/ DetailsFail(t) \/ \E p \in Places : Tap(t, p)
    \/ OpenMap \/ CloseMap
    \/ \E p \in Places : PickOnMap(p)
    \/ CloseForm \/ FormLocated \/ HomeLocated \/ Rebuild \/ Reopen

Spec == Init /\ [][Next]_vars

(***************************************************************************)
(* Properties.                                                             *)
(***************************************************************************)

\* A form for a destination that was chosen has that place's position.  One for
\* a source that was chosen has its position too, or the device's, if that came
\* after the choice (dispose of a form, or the screen below).
FormAgrees ==
    /\ form.destination \in Places => form.to = form.destination
    /\ form.source \in Places => form.from \in {form.source, "device"}

\* A form that the choice of a destination launches (lines 291-318 and 364-400)
\* has a source that was chosen, or the device's address: never what the rider
\* was typing there when the focus moved.  The converse does not hold.
SourceIsWhole == form.by = "destination" => form.source # "typed"

\* However many places are tapped before the first is answered, and with the map
\* open or not, no form is launched above a form.
NoTwoForms == forms <= 1

=============================================================================
