------------------------ MODULE AddressSearch_proofs ------------------------
(* Proofs about the search sheet, for any set of places and any number of taps
   and searches under way. *)
EXTENDS AddressSearch, TLAPS

\* A chosen text and the position of its field go together.
Agree ==
    /\ source \in Places => source = mLocation
    /\ mLocation \in Places => from \in {mLocation, "device"}
    /\ destination \in Places => to = destination

\* While the destination is being chosen, the source is not half typed.
Whole == focus = "destination" \/ map = "destination" => source # "typed"

\* Under a form, the field that may still have the focus is the only one that
\* can get a text, so the other stays empty.
OneForm ==
    /\ forms \in {0, 1}
    /\ forms = 1 /\ focus = "source" => destination = "blank"
    /\ forms = 1 /\ focus = "destination" => source = "blank"

Inv == TypeOK /\ Agree /\ Whole /\ OneForm /\ FormAgrees /\ SourceIsWhole

LEMMA InitInv == Init => Inv
<1> SUFFICES ASSUME Init PROVE Inv
  OBVIOUS
<1>1. TypeOK
  <2>1. form \in Forms /\ taps \in [Taps -> Places \cup {"idle"}]
    BY DEF Init, NoForm, Forms, Texts, Positions, Idle
  <2>2. searches \in 0 .. MaxSearches /\ forms \in Nat
    BY SearchBoundAssumption DEF Init
  <2>3. from \in Positions /\ to \in Positions
    BY DEF Init, Positions
  <2>4. QED
    BY <2>1, <2>2, <2>3 DEF Init, TypeOK, Texts, Fields
<1>2. Agree /\ Whole /\ OneForm /\ FormAgrees /\ SourceIsWhole
  BY PlacesAssumption DEF Init, Agree, Whole, OneForm, FormAgrees, SourceIsWhole, NoForm
<1>3. QED
  BY <1>1, <1>2 DEF Inv

\* What choosing a place does to the fields, the positions and the form.
LEMMA ChooseTyped ==
    ASSUME TypeOK, NEW f \in Fields, NEW p \in Places, Choose(f, p)
    PROVE  /\ source' \in Texts /\ destination' \in Texts /\ mLocation' \in {"blank"} \cup Places
           /\ from' \in Positions /\ to' \in Positions
           /\ forms' \in Nat /\ form' \in Forms
<1>1. CASE f = "source"
  BY <1>1 DEF Choose, Launch, Cleared, TypeOK, Texts, Positions, Forms, Fields
<1>2. CASE f = "destination"
  BY <1>2 DEF Choose, Launch, Cleared, TypeOK, Texts, Positions, Forms, Fields
<1>3. QED
  BY <1>1, <1>2 DEF Fields

LEMMA ChooseAgrees ==
    ASSUME TypeOK, Agree, FormAgrees, NEW f \in Fields, NEW p \in Places, Choose(f, p)
    PROVE  Agree' /\ FormAgrees'
<1> USE PlacesAssumption DEF TypeOK, Agree, FormAgrees, Choose, Launch, Cleared
<1>1. CASE f = "source" /\ destination # "blank"
  BY <1>1
<1>2. CASE f = "source" /\ destination = "blank"
  BY <1>2
<1>3. CASE f = "destination" /\ source # "blank"
  BY <1>3
<1>4. CASE f = "destination" /\ source = "blank"
  BY <1>4
<1>5. QED
  BY <1>1, <1>2, <1>3, <1>4 DEF Fields

\* The source keeps from being half typed, and if the form is for a destination
\* the source it takes was not.
LEMMA ChooseWhole ==
    ASSUME TypeOK, SourceIsWhole, NEW f \in Fields, NEW p \in Places, Choose(f, p),
           f = "destination" => source # "typed"
    PROVE  SourceIsWhole' /\ source' \in {"blank", p, source}
<1> USE PlacesAssumption DEF TypeOK, SourceIsWhole, Choose, Launch, Cleared
<1>1. CASE f = "source"
  BY <1>1
<1>2. CASE f = "destination"
  BY <1>2
<1>3. QED
  BY <1>1, <1>2 DEF Fields

\* With the other field empty no form is launched.
LEMMA ChooseOne ==
    ASSUME NEW f \in Fields, NEW p \in Places, Choose(f, p), forms \in {0, 1},
           forms = 1 => IF f = "source" THEN destination = "blank" ELSE source = "blank"
    PROVE  \/ forms' = forms /\ (f = "source" => destination' = destination)
                             /\ (f = "destination" => source' = source)
           \/ forms' = 1 /\ source' = "blank" /\ destination' = "blank"
BY DEF Choose, Launch, Cleared, Fields

LEMMA NextKeepsInv == Inv /\ [Next]_vars => Inv'
<1> SUFFICES ASSUME Inv, [Next]_vars PROVE Inv'
  OBVIOUS
<1> USE DEF Inv
<1>1. ASSUME NEW f \in Fields, Focus(f) PROVE Inv'
  <2> USE <1>1 DEF Focus, OnTop, SourceUnderFocus, above, requests, Fields
  <2>1. TypeOK'
    BY DEF TypeOK, Texts
  <2>2. Agree' /\ Whole' /\ OneForm'
    BY PlacesAssumption DEF TypeOK, Agree, Whole, OneForm
  <2>3. FormAgrees' /\ SourceIsWhole'
    BY DEF FormAgrees, SourceIsWhole
  <2>4. QED
    BY <2>1, <2>2, <2>3
<1>2. ASSUME NEW f \in Fields, Type(f) PROVE Inv'
  <2> USE <1>2 DEF Type, OnTop, above, Fields
  <2>1. TypeOK'
    BY SearchBoundAssumption DEF TypeOK, Texts
  <2>2. Agree' /\ Whole' /\ OneForm'
    BY PlacesAssumption DEF TypeOK, Agree, Whole, OneForm
  <2>3. FormAgrees' /\ SourceIsWhole'
    BY DEF FormAgrees, SourceIsWhole
  <2>4. QED
    BY <2>1, <2>2, <2>3
<1>3. CASE Blur
  BY <1>3 DEF Blur, TypeOK, Agree, Whole, OneForm, FormAgrees, SourceIsWhole, requests, above
<1>4. CASE SearchAnswer
  <2>1. searches' \in 0 .. MaxSearches /\ list' \subseteq Places
    BY <1>4, SearchBoundAssumption DEF SearchAnswer, TypeOK
  <2>2. QED
    BY <1>4, <2>1 DEF SearchAnswer, TypeOK, Agree, Whole, OneForm, FormAgrees, SourceIsWhole,
                      fields, above
<1>5. ASSUME NEW t \in Taps, Details(t) PROVE Inv'
  <2> USE <1>5 DEF Details
  <2>1. taps[t] \in Places /\ taps' \in [Taps -> Places \cup {"idle"}]
    BY DEF TypeOK
  <2>2. CASE focus \in Fields
    <3>1. Choose(focus, taps[t])
      BY <2>2
    <3>2. TypeOK'
      <4>1. /\ source' \in Texts /\ destination' \in Texts /\ mLocation' \in {"blank"} \cup Places
            /\ from' \in Positions /\ to' \in Positions
            /\ forms' \in Nat /\ form' \in Forms
        BY <2>1, <2>2, <3>1, ChooseTyped
      <4>2. QED
        BY <2>1, <4>1 DEF TypeOK
    <3>3. Agree' /\ FormAgrees'
      BY <2>1, <2>2, <3>1, ChooseAgrees
    <3>4. Whole' /\ SourceIsWhole'
      BY <2>1, <2>2, <3>1, ChooseWhole, PlacesAssumption DEF Whole
    <3>5. OneForm'
      <4>1. \/ forms' = forms /\ (focus = "source" => destination' = destination)
                              /\ (focus = "destination" => source' = source)
            \/ forms' = 1 /\ source' = "blank" /\ destination' = "blank"
        BY <2>1, <2>2, <3>1, ChooseOne DEF OneForm, Fields
      <4>2. QED
        BY <4>1 DEF OneForm
    <3>6. QED
      BY <3>2, <3>3, <3>4, <3>5
  <2>3. CASE focus \notin Fields
    BY <2>1, <2>3 DEF TypeOK, Agree, Whole, OneForm, FormAgrees, SourceIsWhole
  <2>4. QED
    BY <2>2, <2>3
<1>6. ASSUME NEW t \in Taps, DetailsFail(t) \/ \E p \in Places : Tap(t, p) PROVE Inv'
  <2>1. taps' \in [Taps -> Places \cup {"idle"}]
    BY <1>6 DEF DetailsFail, Tap, TypeOK
  <2>2. UNCHANGED <<homeTitle, fields, from, to, list, searches, above, locating>>
    BY <1>6 DEF DetailsFail, Tap
  <2>3. QED
    BY <2>1, <2>2 DEF TypeOK, Agree, Whole, OneForm, FormAgrees, SourceIsWhole, fields, above
<1>7. CASE OpenMap
  BY <1>7 DEF OpenMap, OnTop, TypeOK, Agree, Whole, OneForm, FormAgrees, SourceIsWhole, fields,
              requests
<1>8. CASE CloseMap
  BY <1>8 DEF CloseMap, TypeOK, Agree, Whole, OneForm, FormAgrees, SourceIsWhole, fields,
              requests
<1>9. ASSUME NEW p \in Places, PickOnMap(p) PROVE Inv'
  <2> USE <1>9 DEF PickOnMap
  <2>1. TypeOK'
    <3>1. /\ source' \in Texts /\ destination' \in Texts /\ mLocation' \in {"blank"} \cup Places
          /\ from' \in Positions /\ to' \in Positions
          /\ forms' \in Nat /\ form' \in Forms
      BY ChooseTyped
    <3>2. QED
      BY <3>1 DEF TypeOK, requests
  <2>2. Agree' /\ FormAgrees'
    BY ChooseAgrees
  <2>3. Whole' /\ SourceIsWhole'
    BY ChooseWhole, PlacesAssumption DEF Whole, Fields
  <2>4. OneForm'
    BY ChooseOne DEF OneForm
  <2>5. QED
    BY <2>1, <2>2, <2>3, <2>4
<1>10. CASE CloseForm
  BY <1>10 DEF CloseForm, TypeOK, Agree, Whole, OneForm, FormAgrees, SourceIsWhole, fields,
               requests
<1>11. CASE FormLocated \/ HomeLocated
  <2>1. /\ from' = "device" /\ homeTitle' \in {homeTitle, "device"} /\ locating' \in {locating, FALSE}
        /\ UNCHANGED <<fields, to, requests, above>>
    BY <1>11 DEF FormLocated, HomeLocated
  <2>2. TypeOK'
    BY <2>1 DEF TypeOK, Positions, fields, requests, above
  <2>3. Agree' /\ Whole' /\ OneForm' /\ FormAgrees' /\ SourceIsWhole'
    BY <2>1 DEF Agree, Whole, OneForm, FormAgrees, SourceIsWhole, fields, above
  <2>4. QED
    BY <2>2, <2>3
<1>12. CASE Rebuild
  BY <1>12 DEF Rebuild, TypeOK, Agree, Whole, OneForm, FormAgrees, SourceIsWhole, requests, above
<1>13. CASE Reopen
  <2>1. TypeOK'
    BY <1>13, SearchBoundAssumption DEF Reopen, TypeOK, Texts, Idle
  <2>2. Agree' /\ Whole' /\ OneForm'
    BY <1>13, PlacesAssumption DEF Reopen, TypeOK, Agree, Whole, OneForm
  <2>3. FormAgrees' /\ SourceIsWhole'
    BY <1>13 DEF Reopen, FormAgrees, SourceIsWhole
  <2>4. QED
    BY <2>1, <2>2, <2>3
<1>14. CASE UNCHANGED vars
  BY <1>14 DEF vars, TypeOK, Agree, Whole, OneForm, FormAgrees, SourceIsWhole, fields, requests,
               above
<1>15. QED
  BY <1>1, <1>2, <1>3, <1>4, <1>5, <1>6, <1>7, <1>8, <1>9, <1>10, <1>11, <1>12, <1>13, <1>14
     DEF Next

\* Every variable of the sheet keeps its type.
THEOREM SearchTypes == Spec => []TypeOK
<1>1. Inv => TypeOK
  BY DEF Inv
<1>2. QED
  BY <1>1, InitInv, NextKeepsInv, PTL DEF Spec

\* The addresses a form is launched with and its positions are of the same places.
THEOREM FormsAgree == Spec => []FormAgrees
<1>1. Inv => FormAgrees
  BY DEF Inv
<1>2. QED
  BY <1>1, InitInv, NextKeepsInv, PTL DEF Spec

\* Choosing a destination never sends off a source that is half typed.
THEOREM SourcesAreWhole == Spec => []SourceIsWhole
<1>1. Inv => SourceIsWhole
  BY DEF Inv
<1>2. QED
  BY <1>1, InitInv, NextKeepsInv, PTL DEF Spec

\* No two forms lie above the sheet, however often the rider taps.
THEOREM FormsAreSingle == Spec => []NoTwoForms
<1>1. Inv => NoTwoForms
  BY DEF Inv, OneForm, NoTwoForms
<1>2. QED
  BY <1>1, InitInv, NextKeepsInv, PTL DEF Spec

=============================================================================
