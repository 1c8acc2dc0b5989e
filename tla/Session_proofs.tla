--------------------------- MODULE Session_proofs ---------------------------
(***************************************************************************)
(* The safety properties of Session, for any set of calls.  They are       *)
(* inductive together with Unovertaken.                                    *)
(***************************************************************************)
EXTENDS Session, TLAPS

(***************************************************************************)
(* Why FlagHasToken holds: a login that no logout has overtaken still has  *)
(* the token it wrote, and the flag once it has set it.                    *)
(***************************************************************************)
Unovertaken ==
  ~overtaken => \A c \in Calls : /\ Midway(c) => token
                                 /\ call[c].at = "flag" => isLoggedIn

SessionInv ==
  TypeOK /\ NoGhostToken /\ FlagHasToken /\ HomeIsLoggedIn /\ Unovertaken

-----------------------------------------------------------------------------

(* Replacing one call by another, or changing some of its fields, gives calls. *)
LEMMA OneCall ==
  ASSUME TypeOK, NEW c \in Calls, NEW v \in Call
  PROVE  [call EXCEPT ![c] = v] \in [Calls -> Call]
BY DEF TypeOK

(* The records the handlers build are calls (Call in Session). *)
LEMMA CallRecords ==
  ASSUME TypeOK, NEW c \in Calls
  PROVE  /\ Idle \in Call
         /\ \A a \in {"free", "sent", "login", "token", "flag", "leave"} :
              /\ [call[c] EXCEPT !.at = a] \in Call
              /\ [Idle EXCEPT !.at = a] \in Call
              /\ [Idle EXCEPT !.at = a, !.view = "here"] \in Call
              /\ [call[c] EXCEPT !.at = a, !.refused = TRUE] \in Call
         /\ [call[c] EXCEPT !.refused = TRUE] \in Call
         /\ \A v \in {"here", "leaving", "gone"} : [call[c] EXCEPT !.view = v] \in Call
BY DEF TypeOK, Call, Idle

(* A logout leaves calls behind, and all of them but its own where they were. *)
LEMMA SweptCalls ==
  ASSUME TypeOK, NEW c \in Calls
  PROVE  /\ Swept(c) \in [Calls -> Call]
         /\ Swept(c)[c] = Idle
         /\ \A d \in Calls \ {c} : Swept(c)[d].at = call[d].at
<1>1. Swept(c) \in [Calls -> Call]
  BY CallRecords DEF TypeOK, Swept
<1>2. ASSUME NEW d \in Calls \ {c} PROVE Swept(c)[d].at = call[d].at
  <2>1. call[d] \in Call
    BY DEF TypeOK
  <2>2. [call[d] EXCEPT !.view = "leaving"].at = call[d].at
    BY <2>1 DEF Call
  <2> QED BY <2>2 DEF Swept
<1> QED BY <1>1, <1>2 DEF Swept

(* logout and logOutSuccess restore everything at once: without flag and token *)
(* there is nothing left to go wrong, but for the logins they have overtaken. *)
LEMMA LogOutIsSafe ==
  ASSUME SessionInv, NEW c \in Calls, LogOut(c)
  PROVE  SessionInv'
<1> USE DEF SessionInv
<1>1. TypeOK'
  BY SweptCalls DEF TypeOK, LogOut
<1>2. NoGhostToken' /\ FlagHasToken' /\ HomeIsLoggedIn'
  BY DEF LogOut, NoGhostToken, FlagHasToken, HomeIsLoggedIn
<1>3. Unovertaken'
  <2> SUFFICES ASSUME ~overtaken', NEW d \in Calls
               PROVE  /\ Midway(d)' => token'
                      /\ (call[d].at = "flag")' => isLoggedIn'
    BY DEF Unovertaken
  <2>1. CASE d = c
    BY <2>1, SweptCalls DEF LogOut, Idle, Midway
  <2>2. CASE d # c
    <3>1. ~Midway(d) /\ call'[d].at = call[d].at
      BY <2>2, SweptCalls DEF LogOut
    <3> QED BY <3>1 DEF Midway
  <2> QED BY <2>1, <2>2
<1> QED BY <1>1, <1>2, <1>3

(* A step that moves one call to a place outside the middle of a login, *)
(* from a place where it had written no token, and leaves the session alone. *)
LEMMA QuietMove ==
  ASSUME SessionInv, NEW c \in Calls, NEW v \in Call,
         call' = [call EXCEPT ![c] = v],
         v.at = call[c].at \/ (v.at \notin {"token", "flag"} /\ call[c].at # "token"),
         UNCHANGED <<isLoggedIn, token, overtaken, cut, halved>>,
         screen' \in {"splash", "auth", "home"}, overAuth' \in BOOLEAN, awake' \in BOOLEAN,
         screen' = "home" /\ ~isLoggedIn => overtaken
  PROVE  SessionInv'
<1> USE DEF SessionInv
<1>0. \A d \in Calls : call'[d] = IF d = c THEN v ELSE call[d]
  BY DEF TypeOK
<1>1. TypeOK'
  BY OneCall DEF TypeOK
<1>2. NoGhostToken'
  BY <1>0 DEF NoGhostToken
<1>3. FlagHasToken' /\ HomeIsLoggedIn'
  BY DEF FlagHasToken, HomeIsLoggedIn
<1>4. Unovertaken'
  BY <1>0 DEF Unovertaken, Midway
<1> QED BY <1>1, <1>2, <1>3, <1>4

-----------------------------------------------------------------------------

LEMMA SessionInit == Init => SessionInv
<1> SUFFICES ASSUME Init PROVE SessionInv
  OBVIOUS
<1>1. \A c \in Calls : call[c].at = "free"
  BY DEF Init, Idle
<1>2. TypeOK
  BY DEF Init, TypeOK, Call, Idle
<1>3. NoGhostToken /\ FlagHasToken /\ HomeIsLoggedIn
  BY DEF Init, NoGhostToken, FlagHasToken, HomeIsLoggedIn
<1>4. Unovertaken
  BY <1>1 DEF Unovertaken, Midway
<1> QED BY <1>2, <1>3, <1>4 DEF SessionInv

LEMMA SessionStep == SessionInv /\ [Next]_vars => SessionInv'
<1> SUFFICES ASSUME SessionInv, [Next]_vars PROVE SessionInv'
  OBVIOUS
<1> USE DEF SessionInv
<1>u. ASSUME UNCHANGED vars PROVE SessionInv'
  BY <1>u DEF vars, TypeOK, NoGhostToken, FlagHasToken, HomeIsLoggedIn, Unovertaken, Midway
<1>1. ASSUME LeaveSplash PROVE SessionInv'
  BY <1>1 DEF LeaveSplash, TypeOK, NoGhostToken, FlagHasToken, HomeIsLoggedIn,
              Unovertaken, Midway
<1>2. ASSUME Back PROVE SessionInv'
  BY <1>2 DEF Back, TypeOK, NoGhostToken, FlagHasToken, HomeIsLoggedIn, Unovertaken, Midway
<1>3. ASSUME Restart \/ CutLogOut PROVE SessionInv'
  <2>1. /\ call' = [c \in Calls |-> Idle] /\ \A c \in Calls : call'[c].at = "free"
        /\ screen' = "splash" /\ overAuth' = FALSE /\ awake' = FALSE
        /\ UNCHANGED <<isLoggedIn, overtaken>>
    BY <1>3 DEF Restart, CutLogOut, Idle
  <2>2. TypeOK'
    <3>1. {token', cut', halved'} \subseteq BOOLEAN
      BY <1>3 DEF Restart, CutLogOut, TypeOK
    <3>2. call' \in [Calls -> Call]
      BY <2>1 DEF Idle, Call
    <3> QED BY <2>1, <3>1, <3>2 DEF TypeOK
  <2>3. NoGhostToken' /\ FlagHasToken' /\ HomeIsLoggedIn'
    <3>1. CASE Restart
      BY <3>1 DEF Restart, NoGhostToken, FlagHasToken, HomeIsLoggedIn
    <3>2. CASE CutLogOut
      <4>1. token' = FALSE /\ halved' = (halved \/ isLoggedIn)
        BY <3>2 DEF CutLogOut
      <4>2. CASE isLoggedIn
        <5>1. halved'
          BY <4>1, <4>2, Zenon
        <5> QED BY <2>1, <4>1, <4>2, <5>1 DEF NoGhostToken, FlagHasToken, HomeIsLoggedIn
      <4>3. CASE ~isLoggedIn
        BY <2>1, <4>1, <4>3 DEF NoGhostToken, FlagHasToken, HomeIsLoggedIn
      <4> QED BY <4>2, <4>3
    <3> QED BY <1>3, <3>1, <3>2
  <2>4. Unovertaken'
    BY <2>1 DEF Unovertaken, Midway
  <2> QED BY <2>2, <2>3, <2>4
<1>4. ASSUME NEW c \in Calls, Unmount(c) PROVE SessionInv'
  <2>1. call' = [call EXCEPT ![c] = [call[c] EXCEPT !.view = "gone"]]
    BY <1>4 DEF Unmount
  <2>2. [call[c] EXCEPT !.view = "gone"].at = call[c].at
    BY DEF TypeOK, Call
  <2> QED BY <1>4, <2>1, <2>2, CallRecords, QuietMove
          DEF Unmount, TypeOK, HomeIsLoggedIn
<1>5. ASSUME NEW c \in Calls, TapLogOut(c) PROVE SessionInv'
  <2>0. \A d \in Calls : call'[d].at = IF d = c THEN "leave" ELSE call[d].at
    BY <1>5 DEF TapLogOut, TypeOK, Idle
  <2>1. TypeOK'
    BY <1>5, OneCall, CallRecords DEF TapLogOut, TypeOK
  <2>2. NoGhostToken' /\ HomeIsLoggedIn'
    BY <1>5 DEF TapLogOut, NoGhostToken, HomeIsLoggedIn
  <2>3. FlagHasToken'
    BY <1>5 DEF TapLogOut, FlagHasToken, HomeIsLoggedIn
  <2>4. Unovertaken'
    BY <1>5, <2>0 DEF TapLogOut, Unovertaken, Midway
  <2> QED BY <2>1, <2>2, <2>3, <2>4
<1>6. ASSUME NEW c \in Calls, TapSignIn(c) PROVE SessionInv'
  <2>1. [Idle EXCEPT !.at = "login", !.view = "here"].at = "login"
    BY DEF Idle
  <2> QED BY <1>6, <2>1, CallRecords, QuietMove DEF TapSignIn, TypeOK
<1>7. ASSUME NEW c \in Calls, Ask(c) PROVE SessionInv'
  <2>1. [Idle EXCEPT !.at = "sent"].at = "sent"
    BY DEF Idle
  <2> QED BY <1>7, <2>1, CallRecords, QuietMove DEF Ask, TypeOK, HomeIsLoggedIn
<1>8. ASSUME NEW c \in Calls, Answered(c) PROVE SessionInv'
  <2>1. Idle.at = "free"
    BY DEF Idle
  <2> QED BY <1>8, <2>1, CallRecords, QuietMove DEF Answered, TypeOK, HomeIsLoggedIn
<1>9. ASSUME NEW c \in Calls, Refused(c) PROVE SessionInv'
  <2>1. call' = [call EXCEPT ![c] = [call[c] EXCEPT !.at = "login", !.refused = TRUE]]
    BY <1>9 DEF Refused
  <2>2. [call[c] EXCEPT !.at = "login", !.refused = TRUE].at = "login"
    BY DEF TypeOK, Call
  <2> QED BY <1>9, <2>1, <2>2, CallRecords, QuietMove DEF Refused, TypeOK, HomeIsLoggedIn
<1>10. ASSUME NEW c \in Calls, LoginRefused(c) PROVE SessionInv'
  <2>1. call' = [call EXCEPT ![c] = [call[c] EXCEPT !.refused = TRUE]]
    BY <1>10 DEF LoginRefused
  <2>2. [call[c] EXCEPT !.refused = TRUE].at = call[c].at
    BY DEF TypeOK, Call
  <2> QED BY <1>10, <2>1, <2>2, CallRecords, QuietMove
          DEF LoginRefused, TypeOK, HomeIsLoggedIn
<1>11. ASSUME NEW c \in Calls, LoginAccepted(c) PROVE SessionInv'
  <2>0. \A d \in Calls : call'[d].at = IF d = c THEN "token" ELSE call[d].at
    BY <1>11 DEF LoginAccepted, TypeOK, Call
  <2>1. TypeOK'
    <3>1. call' = [call EXCEPT ![c] = [call[c] EXCEPT !.at = "token"]]
      BY <1>11 DEF LoginAccepted
    <3> QED BY <1>11, <3>1, OneCall, CallRecords DEF LoginAccepted, TypeOK
  <2>2. NoGhostToken' /\ FlagHasToken' /\ HomeIsLoggedIn'
    BY <1>11, <2>0 DEF LoginAccepted, NoGhostToken, FlagHasToken, HomeIsLoggedIn
  <2>3. Unovertaken'
    BY <1>11, <2>0 DEF LoginAccepted, Unovertaken, Midway
  <2> QED BY <2>1, <2>2, <2>3
<1>12. ASSUME NEW c \in Calls, LoginFails(c) PROVE SessionInv'
  <2>1. CASE LogOut(c)
    BY <2>1, LogOutIsSafe
  <2>2. CASE ~LogOut(c)
    <3>1. Idle.at = "free"
      BY DEF Idle
    <3> QED BY <1>12, <2>2, <3>1, CallRecords, QuietMove
            DEF LoginFails, TypeOK, HomeIsLoggedIn
  <2> QED BY <2>1, <2>2
<1>13. ASSUME NEW c \in Calls, SetLoggedIn(c) PROVE SessionInv'
  <2>0. \A d \in Calls : call'[d].at = IF d = c THEN "flag" ELSE call[d].at
    BY <1>13 DEF SetLoggedIn, TypeOK, Call
  <2>1. TypeOK'
    <3>1. call' = [call EXCEPT ![c] = [call[c] EXCEPT !.at = "flag"]]
      BY <1>13 DEF SetLoggedIn
    <3> QED BY <1>13, <3>1, OneCall, CallRecords DEF SetLoggedIn, TypeOK
  <2>2. NoGhostToken' /\ HomeIsLoggedIn'
    BY <1>13 DEF SetLoggedIn, NoGhostToken, HomeIsLoggedIn
  <2>3. FlagHasToken'
    BY <1>13 DEF SetLoggedIn, FlagHasToken, Unovertaken, Midway
  <2>4. Unovertaken'
    BY <1>13, <2>0 DEF SetLoggedIn, Unovertaken, Midway
  <2> QED BY <2>1, <2>2, <2>3, <2>4
<1>14. ASSUME NEW c \in Calls, Enter(c) PROVE SessionInv'
  <2>1. Idle.at = "free"
    BY DEF Idle
  <2>2. ~isLoggedIn => overtaken
    BY <1>14 DEF Enter, Unovertaken
  <2>3. /\ screen' \in {"splash", "auth", "home"}
        /\ overAuth' \in BOOLEAN /\ awake' \in BOOLEAN
    BY <1>14 DEF Enter, TypeOK
  <2> QED BY <1>14, <2>1, <2>2, <2>3, CallRecords, QuietMove DEF Enter
<1>15. ASSUME NEW c \in Calls, RefusedThenLoggedIn(c) \/ Leave(c) PROVE SessionInv'
  BY <1>15, LogOutIsSafe DEF RefusedThenLoggedIn, Leave
<1> QED BY <1>u, <1>1, <1>2, <1>3, <1>4, <1>5, <1>6, <1>7, <1>8, <1>9, <1>10, <1>11,
           <1>12, <1>13, <1>14, <1>15 DEF Next, Settle, Proceed

LEMMA SessionSafe == Spec => []SessionInv
BY SessionInit, SessionStep, PTL DEF Spec

-----------------------------------------------------------------------------

(* The types of the session: flag, token, screen and the calls under way. *)
THEOREM SessionTypeCorrect == Spec => []TypeOK
<1>1. SessionInv => TypeOK
  BY DEF SessionInv
<1> QED BY <1>1, SessionSafe, PTL

(* A token without the flag belongs to a login about to set it, or to one the *)
(* end of the process cut off (logInApi, logOutSuccess).                      *)
THEOREM TokensDoNotLinger == Spec => []NoGhostToken
<1>1. SessionInv => NoGhostToken
  BY DEF SessionInv
<1> QED BY <1>1, SessionSafe, PTL

(* The flag without a token (buildHeaderTokens sends "Bearer null") takes a *)
(* logout in the middle of a login, or a process that ends in one.         *)
THEOREM FlagsHaveTokens == Spec => []FlagHasToken
<1>1. SessionInv => FlagHasToken
  BY DEF SessionInv
<1> QED BY <1>1, SessionSafe, PTL

(* A home screen for somebody who is logged out takes a logout in a login. *)
THEOREM HomesAreLoggedIn == Spec => []HomeIsLoggedIn
<1>1. SessionInv => HomeIsLoggedIn
  BY DEF SessionInv
<1> QED BY <1>1, SessionSafe, PTL

-----------------------------------------------------------------------------

(***************************************************************************)
(* Why RefusedEndsLoggedOut holds: only a login is waited for by a handler *)
(* of a 401, so that no other call can take the debt away.                 *)
(***************************************************************************)
OnlyLoginsOwe ==
  \A c \in Calls : call[c].refused => call[c].at \in {"login", "token", "flag"}

(* A logout leaves every other call's debt as it was. *)
LEMMA SweptDebts ==
  ASSUME TypeOK, NEW c \in Calls, NEW d \in Calls \ {c}
  PROVE  Swept(c)[d].refused = call[d].refused
<1>1. call[d] \in Call
  BY DEF TypeOK
<1>2. [call[d] EXCEPT !.view = "leaving"].refused = call[d].refused
  BY <1>1 DEF Call
<1> QED BY <1>2 DEF Swept

LEMMA LogOutKeepsDebts ==
  ASSUME TypeOK, OnlyLoginsOwe, NEW c \in Calls, LogOut(c)
  PROVE  OnlyLoginsOwe'
<1> SUFFICES ASSUME NEW d \in Calls, call'[d].refused
             PROVE  call'[d].at \in {"login", "token", "flag"}
  BY DEF OnlyLoginsOwe
<1>1. d # c
  BY SweptCalls DEF LogOut, Idle
<1> QED BY <1>1, SweptCalls, SweptDebts DEF LogOut, OnlyLoginsOwe

(* A step that gives one call a new place keeps the debts with the logins, if *)
(* the call owes nothing there or is a login there.                          *)
LEMMA MoveKeepsDebts ==
  ASSUME TypeOK, OnlyLoginsOwe, NEW c \in Calls, NEW v \in Call,
         call' = [call EXCEPT ![c] = v],
         v.refused => v.at \in {"login", "token", "flag"}
  PROVE  OnlyLoginsOwe'
BY DEF TypeOK, OnlyLoginsOwe

LEMMA DebtStep ==
  ASSUME TypeOK, OnlyLoginsOwe, [Next]_vars
  PROVE  OnlyLoginsOwe'
<1>u. ASSUME UNCHANGED call PROVE OnlyLoginsOwe'
  BY <1>u DEF OnlyLoginsOwe
<1>l. ASSUME NEW c \in Calls, LogOut(c) PROVE OnlyLoginsOwe'
  BY <1>l, LogOutKeepsDebts
<1>i. Idle \in Call /\ ~Idle.refused
  BY DEF Call, Idle
<1>1. ASSUME Restart \/ CutLogOut PROVE OnlyLoginsOwe'
  BY <1>1 DEF Restart, CutLogOut, OnlyLoginsOwe, Idle
<1>2. ASSUME NEW c \in Calls, Unmount(c) PROVE OnlyLoginsOwe'
  <2> DEFINE v == [call[c] EXCEPT !.view = "gone"]
  <2>1. v \in Call /\ v.at = call[c].at /\ v.refused = call[c].refused
    BY DEF TypeOK, Call
  <2>2. call' = [call EXCEPT ![c] = v]
    BY <1>2 DEF Unmount
  <2> QED BY <2>1, <2>2, MoveKeepsDebts DEF OnlyLoginsOwe
<1>3. ASSUME NEW c \in Calls, TapLogOut(c) PROVE OnlyLoginsOwe'
  <2> DEFINE v == [Idle EXCEPT !.at = "leave"]
  <2>1. v \in Call /\ ~v.refused /\ call' = [call EXCEPT ![c] = v]
    BY <1>3, CallRecords DEF TapLogOut, Idle
  <2> QED BY <2>1, MoveKeepsDebts
<1>4. ASSUME NEW c \in Calls, TapSignIn(c) PROVE OnlyLoginsOwe'
  <2> DEFINE v == [Idle EXCEPT !.at = "login", !.view = "here"]
  <2>1. v \in Call /\ ~v.refused /\ call' = [call EXCEPT ![c] = v]
    BY <1>4, CallRecords DEF TapSignIn, Idle
  <2> QED BY <2>1, MoveKeepsDebts
<1>5. ASSUME NEW c \in Calls, Ask(c) PROVE OnlyLoginsOwe'
  <2> DEFINE v == [Idle EXCEPT !.at = "sent"]
  <2>1. v \in Call /\ ~v.refused /\ call' = [call EXCEPT ![c] = v]
    BY <1>5, CallRecords DEF Ask, Idle
  <2> QED BY <2>1, MoveKeepsDebts
<1>6. ASSUME NEW c \in Calls, call' = [call EXCEPT ![c] = Idle] PROVE OnlyLoginsOwe'
  BY <1>6, <1>i, MoveKeepsDebts
<1>7. ASSUME NEW c \in Calls, Refused(c) PROVE OnlyLoginsOwe'
  <2> DEFINE v == [call[c] EXCEPT !.at = "login", !.refused = TRUE]
  <2>1. v \in Call /\ v.at = "login"
    BY DEF TypeOK, Call
  <2>2. call' = [call EXCEPT ![c] = v]
    BY <1>7 DEF Refused
  <2> QED BY <2>1, <2>2, MoveKeepsDebts
<1>8. ASSUME NEW c \in Calls, LoginRefused(c) PROVE OnlyLoginsOwe'
  <2> DEFINE v == [call[c] EXCEPT !.refused = TRUE]
  <2>1. v \in Call /\ v.at = "login"
    BY <1>8 DEF TypeOK, Call, LoginRefused
  <2>2. call' = [call EXCEPT ![c] = v]
    BY <1>8 DEF LoginRefused
  <2> QED BY <2>1, <2>2, MoveKeepsDebts
<1>9. ASSUME NEW c \in Calls, LoginAccepted(c) PROVE OnlyLoginsOwe'
  <2> DEFINE v == [call[c] EXCEPT !.at = "token"]
  <2>1. v \in Call /\ v.at = "token"
    BY DEF TypeOK, Call
  <2>2. call' = [call EXCEPT ![c] = v]
    BY <1>9 DEF LoginAccepted
  <2> QED BY <2>1, <2>2, MoveKeepsDebts
<1>10. ASSUME NEW c \in Calls, SetLoggedIn(c) PROVE OnlyLoginsOwe'
  <2> DEFINE v == [call[c] EXCEPT !.at = "flag"]
  <2>1. v \in Call /\ v.at = "flag"
    BY DEF TypeOK, Call
  <2>2. call' = [call EXCEPT ![c] = v]
    BY <1>10 DEF SetLoggedIn
  <2> QED BY <2>1, <2>2, MoveKeepsDebts
<1> QED BY <1>u, <1>l, <1>1, <1>2, <1>3, <1>4, <1>5, <1>6, <1>7, <1>8, <1>9, <1>10
        DEF Next, vars, LeaveSplash, Back, Settle, Proceed, Answered, Enter, LoginFails,
            RefusedThenLoggedIn, Leave

(* A step that does not log out keeps the debt, or ends the process. *)
LEMMA DebtsAreSettled ==
  ASSUME TypeOK, OnlyLoginsOwe, [Next]_vars,
         NEW d \in Calls, call[d].refused, ~call'[d].refused
  PROVE  \/ ~isLoggedIn' /\ ~token' /\ screen' = "auth"
         \/ screen' = "splash"
<1> DEFINE Goal == \/ ~isLoggedIn' /\ ~token' /\ screen' = "auth"
                   \/ screen' = "splash"
<1>0. call[d] \in Call /\ call[d].at \in {"login", "token", "flag"}
  BY DEF TypeOK, OnlyLoginsOwe
<1>l. ASSUME NEW c \in Calls, LogOut(c) PROVE Goal
  BY <1>l DEF LogOut
<1>u. ASSUME UNCHANGED call PROVE FALSE
  BY <1>u
<1>1. ASSUME Restart \/ CutLogOut PROVE Goal
  BY <1>1 DEF Restart, CutLogOut
<1>2. ASSUME NEW c \in Calls, Unmount(c) \/ LoginAccepted(c) \/ SetLoggedIn(c)
      PROVE FALSE
  BY <1>0, <1>2 DEF Unmount, LoginAccepted, SetLoggedIn, TypeOK, Call
<1>3. ASSUME NEW c \in Calls, Refused(c) \/ LoginRefused(c) PROVE FALSE
  BY <1>0, <1>3 DEF Refused, LoginRefused, TypeOK, Call
<1>4. ASSUME NEW c \in Calls, TapLogOut(c) \/ TapSignIn(c) \/ Ask(c) \/ Answered(c)
      PROVE FALSE
  <2>1. c # d /\ call'[d] = call[d]
    BY <1>0, <1>4 DEF TapLogOut, TapSignIn, Ask, Answered, TypeOK
  <2> QED BY <2>1
<1>5. ASSUME NEW c \in Calls, Enter(c) PROVE FALSE
  <2>1. c # d /\ call'[d] = call[d]
    BY <1>0, <1>5 DEF Enter, TypeOK
  <2> QED BY <2>1
<1>6. ASSUME NEW c \in Calls, LoginFails(c) PROVE Goal
  <2>1. CASE LogOut(c)
    BY <2>1, <1>l
  <2>2. CASE ~LogOut(c)
    <3>1. c # d /\ call'[d] = call[d]
      BY <1>0, <1>6, <2>2 DEF LoginFails, TypeOK
    <3> QED BY <3>1
  <2> QED BY <2>1, <2>2
<1> QED BY <1>u, <1>l, <1>1, <1>2, <1>3, <1>4, <1>5, <1>6
        DEF Next, vars, LeaveSplash, Back, Settle, Proceed, RefusedThenLoggedIn, Leave

(* A handler of a 401 is done with its login only by a logout, or with the  *)
(* process (handleResponse): what RefusedSessionEnds rests on besides time. *)
THEOREM RefusedHandlersLogOut == Spec => RefusedEndsLoggedOut
<1>1. Init => OnlyLoginsOwe
  BY DEF Init, OnlyLoginsOwe, Idle
<1>2. TypeOK /\ OnlyLoginsOwe /\ [Next]_vars => OnlyLoginsOwe'
  BY DebtStep
<1>3. SessionInv => TypeOK
  BY DEF SessionInv
<1>4. TypeOK /\ OnlyLoginsOwe /\ [Next]_vars =>
        [\A c \in Calls : call[c].refused /\ ~call'[c].refused =>
           \/ ~isLoggedIn' /\ ~token' /\ screen' = "auth"
           \/ screen' = "splash"]_vars
  BY DebtsAreSettled
<1> QED BY <1>1, <1>2, <1>3, <1>4, SessionSafe, PTL DEF Spec, RefusedEndsLoggedOut
=============================================================================
