----------------------- MODULE BookingWidgetRefinement -----------------------
(* The panel with its clock implements the panel without one: each step of
   BookingWidget is a step of WaitingPanel, or changes nothing that WaitingPanel
   sees (a second that passes, a tick that throws, or one that only counts). *)
EXTENDS BookingWidget_proofs

LEMMA AbsentIsNoSecond ==
    ASSUME NEW s \in Seconds PROVE s # Absent
BY SecondsAssumption, AbsentAssumption DEF Seconds

LEMMA SameCardinality ==
    ASSUME NEW S PROVE Abstract!Cardinality(S) = Cardinality(S)
BY DEF Cardinality, Abstract!Cardinality

\* What the screens see of a panel: it is mounted and counts.
Counting == [p \in Panels |-> mounted[p] /\ running[p]]

LEMMA CountingKept ==
    ASSUME UNCHANGED <<mounted, running>>
    PROVE  Counting' = Counting
BY DEF Counting

LEMMA SecondStutters ==
    ASSUME TypeOK, Second
    PROVE  UNCHANGED Abstract!vars
<1>1. (isTime' # Absent) = (isTime # Absent)
  <2>1. CASE isTime \in 1 .. timerMaxSeconds
    <3>1. isTime \in Seconds /\ isTime - 1 \in Seconds /\ isTime' = isTime - 1
      BY <2>1, SecondsAssumption DEF Second, Seconds
    <3>2. QED
      BY <3>1, AbsentIsNoSecond
  <2>2. CASE isTime \notin 1 .. timerMaxSeconds
    BY <2>2 DEF Second
  <2>3. QED
    BY <2>1, <2>2
<1>2. Counting' = Counting /\ UNCHANGED <<server, remaining, mounted, order, calls>>
  BY CountingKept DEF Second
<1>3. QED
  BY <1>1, <1>2 DEF Abstract!vars, Abstract!prefs, Abstract!panel, Counting

LEMMA MountRefines ==
    ASSUME TypeOK, NEW p \in Panels, NEW o \in Orders, Mount(p, o)
    PROVE  Abstract!Mount(p, o)
<1>1. timerMaxSeconds # Absent
  BY SecondsAssumption, AbsentAssumption
<1>2. CASE MountFirst(p, o)
  <2>1. Counting' = [Counting EXCEPT ![p] = TRUE]
    BY <1>2 DEF MountFirst, Fresh, Counting, TypeOK
  <2>2. QED
    BY <1>1, <1>2, <2>1
       DEF Mount, MountFirst, WriteBoth, Fresh, Abstract!Mount, Counting
<1>3. CASE MountResumed(p, o)
  <2>1. Counting' = [Counting EXCEPT ![p] = TRUE]
    BY <1>3 DEF MountResumed, Fresh, Counting, TypeOK
  <2>2. QED
    BY <1>3, <2>1
       DEF Mount, MountResumed, Fresh, prefs, Abstract!Mount, Abstract!prefs, Counting
<1>4. CASE MountExpired(p, o)
  <2>1. Counting' = [Counting EXCEPT ![p] = FALSE]
    BY <1>4 DEF MountExpired, Fresh, Counting, TypeOK
  <2>2. QED
    BY <1>4, <2>1 DEF Mount, MountExpired, Fresh, Abstract!Mount, Counting
<1>5. QED
  BY <1>2, <1>3, <1>4 DEF Mount

LEMMA RebindRefines ==
    ASSUME NEW p \in Panels, NEW o \in Orders, Rebind(p, o)
    PROVE  Abstract!Rebind(p, o)
<1>1. Counting' = Counting
  BY CountingKept DEF Rebind
<1>2. QED
  BY <1>1 DEF Rebind, prefs, Abstract!Rebind, Abstract!prefs, Counting

LEMMA UnmountRefines ==
    ASSUME TypeOK, NEW gone \in SUBSET Panels, Unmount(gone)
    PROVE  Abstract!Unmount(gone)
<1>1. mounted' = [p \in Panels |-> mounted[p] /\ p \notin gone]
  BY DEF Unmount, Clear, TypeOK
<1>2. Counting' = [p \in Panels |-> Counting[p] /\ p \notin gone]
  BY <1>1 DEF Unmount, Counting
<1>3. QED
  BY <1>1, <1>2 DEF Unmount, Clear, Orphaned, prefs, Abstract!Unmount,
                    Abstract!Orphaned, Abstract!prefs, Counting

\* Only a tick that sends something is seen; the one that sends the automatic
\* cancellation is also the one that stops the count.
LEMMA TickRefines ==
    ASSUME TypeOK, NEW p \in Panels, Tick(p)
    PROVE  Abstract!Tick(p) \/ UNCHANGED Abstract!vars
<1>1. UNCHANGED <<server, isTime, remaining, mounted, order>>
  BY DEF Tick, prefs
<1>2. CASE UNCHANGED <<running, calls>>
  BY <1>1, <1>2, CountingKept
     DEF Abstract!vars, Abstract!prefs, Abstract!panel, Counting
<1>3. CASE TickRuns(p)
  <2>1. mounted[p] /\ running[p]
    BY <1>3 DEF TickRuns, Tick
  <2>2. CASE Sends(p) = {}
    <3>1. ~TimeUp(p)
      BY <2>2 DEF Sends
    <3>2. running' = running /\ calls' = calls
      BY <1>3, <2>1, <2>2, <3>1 DEF TickRuns, RunsOn, TypeOK
    <3>3. QED
      BY <1>2, <3>2
  <2>3. CASE Sends(p) # {}
    <3> DEFINE sent == (IF Polls(p) THEN {"poll"} ELSE {})
                         \cup (IF TimeUp(p) THEN {"auto"} ELSE {})
    <3>1. sent \in (SUBSET {"poll", "auto"}) \ {{}}
      BY <2>3 DEF Sends
    <3>2. Sends(p) = {Abstract!New(p, kind) : kind \in sent}
      <4>1. \A kind : New(p, kind) = Abstract!New(p, kind)
        BY <2>1 DEF New, Abstract!New
      <4>2. Sends(p) = {New(p, kind) : kind \in sent}
        BY DEF Sends
      <4>3. QED
        BY <4>1, <4>2
    <3>3. "poll" \in sent => remaining
      BY <1>3 DEF TickRuns
    <3>4. Counting' = [Counting EXCEPT ![p] = "auto" \notin sent]
      <4>1. ("auto" \notin sent) = RunsOn(p)
        BY DEF RunsOn
      <4>2. running' = [running EXCEPT ![p] = RunsOn(p)]
        BY <1>3 DEF TickRuns
      <4>3. Counting' = [Counting EXCEPT ![p] = RunsOn(p)]
        <5> RunsOn(p) \in BOOLEAN
          BY DEF RunsOn, TimeUp
        <5> HIDE DEF RunsOn
        <5> QED
          BY <1>1, <2>1, <4>2 DEF Counting, TypeOK
      <4>4. QED
        BY <4>1, <4>3
    <3>5. Counting[p]
      BY <2>1 DEF Counting
    <3>6. Cardinality(calls) < MaxCalls /\ calls' = calls \cup Sends(p)
      BY <1>3, <2>3 DEF TickRuns
    <3> HIDE DEF sent
    <3>7. \E sent_ \in (SUBSET {"poll", "auto"}) \ {{}} :
            /\ "poll" \in sent_ => remaining
            /\ calls' = calls \cup {Abstract!New(p, kind) : kind \in sent_}
            /\ Counting' = [Counting EXCEPT ![p] = "auto" \notin sent_]
      BY <3>1, <3>2, <3>3, <3>4, <3>6
    <3>8. QED
      BY <1>1, <2>1, <3>5, <3>6, <3>7, SameCardinality DEF Abstract!Tick, Abstract!prefs, Counting
  <2>4. QED
    BY <2>2, <2>3
<1>4. QED
  BY <1>2, <1>3, <1>1 DEF Tick, TickUnmounted, TickThrows
LEMMA RemoveBothRefines ==
    ASSUME NEW cond \in BOOLEAN, RemoveBoth(cond)
    PROVE  Abstract!RemoveBoth(cond)
BY DEF RemoveBoth, Abstract!RemoveBoth

LEMMA PanelKept ==
    ASSUME UNCHANGED panel
    PROVE  UNCHANGED Abstract!panel
BY CountingKept DEF panel, Abstract!panel, Counting

LEMMA CancelRefines ==
    ASSUME NEW o \in Orders, Cancel(o)
    PROVE  Abstract!Cancel(o)
BY RemoveBothRefines, PanelKept, SameCardinality DEF Cancel, Request, Abstract!Cancel, Abstract!Request

LEMMA AnswerRefines ==
    ASSUME NEW c \in calls, Answer(c)
    PROVE  Abstract!Answer(c)
<1>1. CASE PollAnswer(c)
  <2>1. Abstract!RemoveBoth(c.reply = "canceled")
    BY <1>1, RemoveBothRefines DEF PollAnswer
  <2>2. QED
    BY <1>1, <2>1, PanelKept
       DEF PollAnswer, Answered, Abstract!PollAnswer, Abstract!Answered, Abstract!Answer
<1>2. CASE AutoAnswer(c)
  <2>1. Abstract!RemoveBoth(c.from = "mounted")
    BY <1>2, RemoveBothRefines DEF AutoAnswer
  <2>2. QED
    BY <1>2, <2>1, PanelKept
       DEF AutoAnswer, Answered, Abstract!AutoAnswer, Abstract!Answered, Abstract!Answer
<1>3. CASE RiderAnswer(c)
  BY <1>3, PanelKept DEF RiderAnswer, Answered, prefs, Abstract!RiderAnswer,
                         Abstract!Answered, Abstract!Answer, Abstract!prefs
<1>4. CASE Fail(c)
  BY <1>4, PanelKept DEF Fail, Gone, prefs, Abstract!Fail, Abstract!Gone,
                         Abstract!Answer, Abstract!prefs
<1>5. QED
  BY <1>1, <1>2, <1>3, <1>4 DEF Answer

LEMMA BackendRefines ==
    ASSUME Backend
    PROVE  Abstract!Backend
<1>1. ASSUME NEW o \in Orders, Place(o) PROVE Abstract!Place(o)
  BY <1>1, PanelKept DEF Place, prefs, Abstract!Place, Abstract!prefs
<1>2. ASSUME NEW o \in Orders, Withdraw(o) PROVE Abstract!Withdraw(o)
  BY <1>2, PanelKept
     DEF Withdraw, prefs, Active, Abstract!Withdraw, Abstract!prefs, Abstract!Active
<1>3. ASSUME NEW o \in Orders, NEW s \in Status, Progress(o, s) PROVE Abstract!Progress(o, s)
  BY <1>3, PanelKept
     DEF Progress, prefs, Active, Abstract!Progress, Abstract!prefs, Abstract!Active
<1>4. ASSUME NEW c \in calls, Serve(c) PROVE Abstract!Serve(c)
  <2>1. After(c) = Abstract!After(c)
    BY DEF After, Active, Abstract!After, Abstract!Active
  <2>2. QED
    BY <1>4, <2>1, PanelKept DEF Serve, prefs, Abstract!Serve, Abstract!prefs
<1>5. Status = Abstract!Status
  BY DEF Status, Abstract!Status
<1>6. QED
  BY <1>1, <1>2, <1>3, <1>4, <1>5 DEF Backend, Abstract!Backend

LEMMA DropRefines ==
    ASSUME DropIsTime
    PROVE  Abstract!DropIsTime
BY PanelKept DEF DropIsTime, Abstract!DropIsTime

LEMMA EndRefines ==
    ASSUME NEW sent, EndProcess(sent)
    PROVE  Abstract!EndProcess(sent)
<1>1. Counting' = [p \in Panels |-> FALSE]
  BY DEF EndProcess, Counting
<1>2. QED
  BY <1>1 DEF EndProcess, Gone, Abstract!EndProcess, Abstract!Gone, Counting

LEMMA RestartRefines ==
    ASSUME Restart
    PROVE  Abstract!Restart
BY EndRefines DEF Restart, prefs, Abstract!Restart, Abstract!prefs

LEMMA KillRefines ==
    ASSUME Kill
    PROVE  Abstract!Kill
<1>1. ASSUME NEW o \in Orders, CutWrite(o) PROVE Abstract!CutWrite(o)
  <2>1. timerMaxSeconds # Absent
    BY SecondsAssumption, AbsentAssumption
  <2>2. QED
    BY <1>1, <2>1, EndRefines DEF CutWrite, Abstract!CutWrite
<1>2. ASSUME NEW o \in Orders, CutCancel(o) PROVE Abstract!CutCancel(o)
  <2>1. PICK sent \in SUBSET {Request(o)} :
          /\ EndProcess(sent)
          /\ HalfRemoved \/ (sent # {} /\ UNCHANGED <<prefs, owner, torn>>)
    BY <1>2 DEF CutCancel
  <2>2. Request(o) = Abstract!Request(o)
    BY DEF Request, Abstract!Request
  <2>3. Abstract!EndProcess(sent)
    BY <2>1, EndRefines
  <2>4. Abstract!HalfRemoved \/ (sent # {} /\ UNCHANGED Abstract!prefs)
    BY <2>1 DEF HalfRemoved, prefs, Abstract!HalfRemoved, Abstract!prefs
  <2>5. QED
    BY <1>2, <2>2, <2>3, <2>4, SameCardinality DEF CutCancel, Abstract!CutCancel
<1>3. ASSUME NEW c \in calls, CutRemoval(c) PROVE Abstract!CutRemoval(c)
  BY <1>3, EndRefines
     DEF CutRemoval, Answered, HalfRemoved,
         Abstract!CutRemoval, Abstract!Answered, Abstract!HalfRemoved
<1>4. QED
  BY <1>1, <1>2, <1>3 DEF Kill, Abstract!Kill

\* The panel with its clock (BookingWidget.dart:62-192) does what the screens
\* around it rely on: it writes, keeps and removes the preferences as
\* WaitingPanel says, counts only while it is mounted, and sends nothing else
\* than polls and one automatic cancellation per count.
THEOREM PanelImplements == Spec => Implements
<1>1. Init => Abstract!Init
  <2> SUFFICES ASSUME Init PROVE Abstract!Init
    OBVIOUS
  <2>1. Counting = [p \in Panels |-> FALSE]
    BY DEF Init, Counting
  <2>2. QED
    BY <2>1 DEF Init, Abstract!Init, Counting
<1>2. TypeOK /\ [Next]_vars => [Abstract!Next]_(Abstract!vars)
  <2> SUFFICES ASSUME TypeOK, [Next]_vars
               PROVE  Abstract!Next \/ UNCHANGED Abstract!vars
    OBVIOUS
  <2>1. CASE Second
    BY <2>1, SecondStutters
  <2>2. ASSUME NEW p \in Panels, Tick(p) PROVE Abstract!Next \/ UNCHANGED Abstract!vars
    BY <2>2, TickRefines DEF Abstract!Next, Abstract!PanelStep
  <2>3. ASSUME NEW p \in Panels, NEW o \in Orders, Mount(p, o) \/ Rebind(p, o)
        PROVE  Abstract!Next
    BY <2>3, MountRefines, RebindRefines DEF Abstract!Next, Abstract!PanelStep
  <2>4. ASSUME NEW o \in Orders, Cancel(o) PROVE Abstract!Next
    BY <2>4, CancelRefines DEF Abstract!Next, Abstract!PanelStep
  <2>5. ASSUME NEW gone \in SUBSET Panels, Unmount(gone) PROVE Abstract!Next
    BY <2>5, UnmountRefines DEF Abstract!Next
  <2>6. ASSUME NEW c \in calls, Answer(c) PROVE Abstract!Next
    BY <2>6, AnswerRefines DEF Abstract!Next
  <2>7. CASE Backend \/ DropIsTime \/ Restart \/ Kill
    BY <2>7, BackendRefines, DropRefines, RestartRefines, KillRefines DEF Abstract!Next
  <2>8. CASE UNCHANGED vars
    BY <2>8, PanelKept DEF vars, prefs, Abstract!vars, Abstract!prefs
  <2>9. QED
    BY <2>1, <2>2, <2>3, <2>4, <2>5, <2>6, <2>7, <2>8 DEF Next, PanelStep
<1>3. QED
  BY <1>1, <1>2, TypeCorrect, PTL DEF Spec, Implements, Abstract!Spec

=============================================================================
