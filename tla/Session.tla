------------------------------ MODULE Session ------------------------------
(***************************************************************************)
(* Who is logged in: the flag isLoggedIn of AppStore.dart and the token    *)
(* preference of RestApis.dart, under logins, logouts and requests refused *)
(* with 401 that run at the same time.                                     *)
(*                                                                         *)
(* Dart runs one handler at a time, but a login is a row of awaits: it     *)
(* writes the token, then the other preferences one by one, then the flag. *)
(* Whatever else has been waiting for an answer may go on in between: the  *)
(* logout of a request that was refused, or another login.  Preferences    *)
(* are in memory at once; they reach the disk in the order in which they   *)
(* were set, so that a process that ends in a logout, which awaits none of *)
(* them, may leave the token removed and the flag not.                     *)
(*                                                                         *)
(* Calls are the asynchronous calls that can be under way: a request of    *)
(* the signed-in part of the app, the Sign In button (or Sign Up: the code *)
(* is the same), the logout entry of the drawer.                           *)
(***************************************************************************)

CONSTANT Calls

VARIABLES
  isLoggedIn,   \* appStore.isLoggedIn and the preference IS_LOGGED_IN
  token,        \* whether the preference TOKEN is present
  screen,       \* what the Navigator shows: "splash", "auth", "home"
  overAuth,     \* whether the home screen lies over a sign-in screen
  awake,        \* whether this process has shown a home screen, whose timers
                \* and subscriptions go on asking the backend for ever
  call,         \* the calls under way
  overtaken,    \* history: a logout ran in the middle of a login
  cut,          \* history: the process ended in the middle of a login
  halved        \* history: or in the middle of a logout

vars == <<isLoggedIn, token, screen, overAuth, awake, call, overtaken, cut, halved>>

(***************************************************************************)
(* at: where the call is.  "sent", a request awaits its answer; "login", a *)
(*     login does; "token", it has written TOKEN and writes the profile;   *)
(*     "flag", it has set isLoggedIn and writes the rest; "leave", the     *)
(*     drawer's entry sleeps before it logs out.                           *)
(* refused: a handler of a 401 waits for this login, and will log out.     *)
(* view: what became of the screen whose button was pressed.               *)
(***************************************************************************)
Call == [at : {"free", "sent", "login", "token", "flag", "leave"},
         refused : BOOLEAN, view : {"here", "leaving", "gone"}]

Idle == [at |-> "free", refused |-> FALSE, view |-> "gone"]

TypeOK ==
  /\ isLoggedIn \in BOOLEAN /\ token \in BOOLEAN
  /\ screen \in {"splash", "auth", "home"}
  /\ overAuth \in BOOLEAN /\ awake \in BOOLEAN
  /\ call \in [Calls -> Call]
  /\ {overtaken, cut, halved} \subseteq BOOLEAN

Init ==
  /\ isLoggedIn = FALSE /\ token = FALSE
  /\ screen = "splash" /\ overAuth = FALSE /\ awake = FALSE
  /\ call = [c \in Calls |-> Idle]
  /\ overtaken = FALSE /\ cut = FALSE /\ halved = FALSE

\* In the middle of a login: past its first write, not done.
Midway(c) == call[c].at \in {"token", "flag"}

-----------------------------------------------------------------------------
(* Screens *)

\* SplashScreen.init, after its three seconds and the location.
LeaveSplash ==
  /\ screen = "splash"
  /\ screen' = IF isLoggedIn THEN "home" ELSE "auth"
  /\ awake' = isLoggedIn
  /\ UNCHANGED <<isLoggedIn, token, overAuth, call, overtaken, cut, halved>>

\* The back button takes a home screen off the sign-in screen under it.
Back ==
  /\ screen = "home" /\ overAuth
  /\ screen' = "auth" /\ overAuth' = FALSE
  /\ UNCHANGED <<isLoggedIn, token, awake, call, overtaken, cut, halved>>

\* The transition of a logout ends and the screens it replaced are disposed of.
Unmount(c) ==
  /\ call[c].view = "leaving"
  /\ call' = [call EXCEPT ![c].view = "gone"]
  /\ UNCHANGED <<isLoggedIn, token, screen, overAuth, awake, overtaken, cut, halved>>

\* The process ends and is started again.  Preferences stay, calls are lost.
Restart ==
  /\ screen # "splash"
  /\ screen' = "splash" /\ overAuth' = FALSE /\ awake' = FALSE
  /\ call' = [c \in Calls |-> Idle]
  /\ cut' = (cut \/ \E c \in Calls : call[c].at = "token")
  /\ UNCHANGED <<isLoggedIn, token, overtaken, halved>>

-----------------------------------------------------------------------------
(* Logging out *)

\* The calls after c has logged out: c is done, every screen is replaced.
Swept(c) ==
  [d \in Calls |->
     IF d = c THEN Idle
     ELSE IF call[d].view = "here" THEN [call[d] EXCEPT !.view = "leaving"]
     ELSE call[d]]

\* Mutant: the token is left behind.
LogOutKeepsToken(c) ==
  /\ isLoggedIn' = FALSE /\ token' = token
  /\ screen' = "auth" /\ overAuth' = FALSE
  /\ call' = Swept(c)
  /\ overtaken' = (\E d \in Calls \ {c} : Midway(d))
  /\ cut' = FALSE /\ halved' = FALSE
  /\ UNCHANGED awake

\* Mutant: the sign-in screen is not launched.
LogOutStays(c) ==
  /\ isLoggedIn' = FALSE /\ token' = FALSE
  /\ call' = Swept(c)
  /\ overtaken' = (\E d \in Calls \ {c} : Midway(d))
  /\ cut' = FALSE /\ halved' = FALSE
  /\ UNCHANGED <<screen, overAuth, awake>>

\* logout and logOutSuccess: no await before the new screen is launched.
LogOut(c) ==
  /\ isLoggedIn' = FALSE /\ token' = FALSE
  /\ screen' = "auth" /\ overAuth' = FALSE
  /\ call' = Swept(c)
  /\ overtaken' = (\E d \in Calls \ {c} : Midway(d))
  /\ cut' = FALSE /\ halved' = FALSE
  /\ UNCHANGED awake

\* A call whose next step may be logout: the drawer's, or a handler's of a 401.
LogsOut(c) ==
  call[c].at = "leave" \/ (call[c].refused /\ call[c].at \in {"login", "flag"})

\* The process ends in logOutSuccess, after the removal of TOKEN and before
\* setLoggedIn(false) has reached the disk; it is started again.
CutLogOut ==
  /\ \E c \in Calls : LogsOut(c)
  /\ token' = FALSE /\ halved' = (halved \/ isLoggedIn)
  /\ screen' = "splash" /\ overAuth' = FALSE /\ awake' = FALSE
  /\ call' = [c \in Calls |-> Idle]
  /\ cut' = FALSE
  /\ UNCHANGED <<isLoggedIn, overtaken>>

\* The drawer's entry first declares the app logged in, then sleeps.
TapLogOut(c) ==
  /\ screen = "home" /\ call[c].at = "free"
  /\ isLoggedIn' = TRUE
  /\ call' = [call EXCEPT ![c] = [Idle EXCEPT !.at = "leave"]]
  /\ UNCHANGED <<token, screen, overAuth, awake, overtaken, cut, halved>>

Leave(c) == call[c].at = "leave" /\ LogOut(c)

-----------------------------------------------------------------------------
(* Logging in *)

\* The Sign In button.
TapSignIn(c) ==
  /\ screen = "auth" /\ call[c].at = "free"
  /\ call' = [call EXCEPT ![c] = [Idle EXCEPT !.at = "login", !.view = "here"]]
  /\ UNCHANGED <<isLoggedIn, token, screen, overAuth, awake, overtaken, cut, halved>>

\* Mutant: the flag is set with the token, the token is written later.
LoginAcceptedFlagFirst(c) ==
  /\ call[c].at = "login"
  /\ isLoggedIn' = TRUE
  /\ call' = [call EXCEPT ![c].at = "token"]
  /\ UNCHANGED <<token, screen, overAuth, awake, overtaken, cut, halved>>

\* The login is accepted: the token is the first preference to be written.
LoginAccepted(c) ==
  /\ call[c].at = "login"
  /\ token' = TRUE /\ halved' = FALSE
  /\ call' = [call EXCEPT ![c].at = "token"]
  /\ UNCHANGED <<isLoggedIn, screen, overAuth, awake, overtaken, cut>>

\* The profile is written; then setLoggedIn(true).
SetLoggedIn(c) ==
  /\ call[c].at = "token"
  /\ isLoggedIn' = TRUE
  /\ call' = [call EXCEPT ![c].at = "flag"]
  /\ cut' = FALSE
  /\ UNCHANGED <<token, screen, overAuth, awake, overtaken, halved>>

\* The rest is written, and a sign-in screen that still has its context
\* launches the home screen over itself.  It stays where it is if the answer
\* did not have status 1, or if the screen has been closed in the meantime.
Enter(c) ==
  /\ call[c].at = "flag" /\ ~call[c].refused
  /\ call' = [call EXCEPT ![c] = Idle]
  /\ \/ /\ call[c].view # "gone"
        /\ screen' = "home" /\ overAuth' = TRUE /\ awake' = TRUE
     \/ UNCHANGED <<screen, overAuth, awake>>
  /\ UNCHANGED <<isLoggedIn, token, overtaken, cut, halved>>

\* Mutant: a login that succeeds after a 401 is taken for a new session.
RefusedThenLoggedInStays(c) ==
  /\ call[c].at = "flag" /\ call[c].refused
  /\ call' = [call EXCEPT ![c] = Idle]
  /\ UNCHANGED <<isLoggedIn, token, screen, overAuth, awake, overtaken, cut, halved>>

\* The login after a 401 succeeded: its handler logs out all the same.
RefusedThenLoggedIn(c) == call[c].at = "flag" /\ call[c].refused /\ LogOut(c)

\* The login fails: no answer within 20 seconds, no network, status 0 or no
\* data.  A sign-in screen shows a toast; a handler of a 401 logs out.
LoginFails(c) ==
  /\ call[c].at = "login"
  /\ \/ call[c].refused /\ LogOut(c)
     \/ /\ ~call[c].refused
        /\ call' = [call EXCEPT ![c] = Idle]
        /\ UNCHANGED <<isLoggedIn, token, screen, overAuth, awake, overtaken, cut, halved>>

\* logInApi gives its own answer to handleResponse: a 401 whose body is not
\* a refusal with status 0 is handled like that of any request, by one more
\* login, if the app counts as logged in.  If not, it is LoginFails.  The
\* handlers nested in this way all log out in a row, without an await between.
LoginRefused(c) ==
  /\ call[c].at = "login" /\ isLoggedIn
  /\ call' = [call EXCEPT ![c].refused = TRUE]
  /\ UNCHANGED <<isLoggedIn, token, screen, overAuth, awake, overtaken, cut, halved>>

-----------------------------------------------------------------------------
(* Requests *)

\* A home screen, one of its timers or a screen opened from it asks something.
Ask(c) ==
  /\ awake /\ call[c].at = "free"
  /\ call' = [call EXCEPT ![c] = [Idle EXCEPT !.at = "sent"]]
  /\ UNCHANGED <<isLoggedIn, token, screen, overAuth, awake, overtaken, cut, halved>>

\* The answer is used, or there is none, or none that is a refusal.
Answered(c) ==
  /\ call[c].at = "sent"
  /\ call' = [call EXCEPT ![c] = Idle]
  /\ UNCHANGED <<isLoggedIn, token, screen, overAuth, awake, overtaken, cut, halved>>

\* handleResponse meets a 401, which the backend may send at any time whatever
\* token it was sent: logged in, the app tries a login with what the preferences
\* hold; logged out, it throws, and that is Answered.
Refused(c) ==
  /\ call[c].at = "sent" /\ isLoggedIn
  /\ call' = [call EXCEPT ![c].at = "login", ![c].refused = TRUE]
  /\ UNCHANGED <<isLoggedIn, token, screen, overAuth, awake, overtaken, cut, halved>>

-----------------------------------------------------------------------------
\* What the code does next once its awaits return.
Proceed(c) == SetLoggedIn(c) \/ Enter(c) \/ RefusedThenLoggedIn(c) \/ Leave(c)

\* A login that gets an answer, or none in 20 seconds.
Settle(c) == LoginAccepted(c) \/ LoginFails(c)

Next ==
  \/ LeaveSplash \/ Back \/ Restart \/ CutLogOut
  \/ \E c \in Calls :
       \/ Unmount(c) \/ TapLogOut(c) \/ TapSignIn(c)
       \/ Ask(c) \/ Answered(c) \/ Refused(c) \/ LoginRefused(c)
       \/ Settle(c) \/ Proceed(c)

\* The event loop serves what is ready, and a login is not refused with a 401
\* that invites another login for ever.
Fairness == \A c \in Calls : WF_vars(Proceed(c)) /\ SF_vars(Settle(c))

Spec == Init /\ [][Next]_vars

FairSpec == Spec /\ Fairness

-----------------------------------------------------------------------------
(***************************************************************************)
(* A token outlives its session only where a login is about to declare the *)
(* next one, or was cut off there by the end of the process: however       *)
(* logins and logouts interleave (RestApis.dart, logInApi and              *)
(* logOutSuccess), nothing else leaves a token without the flag.           *)
(***************************************************************************)
NoGhostToken ==
  token /\ ~isLoggedIn => cut \/ \E c \in Calls : call[c].at = "token"

(***************************************************************************)
(* The app counts as logged in without a token, and sends "Bearer null"    *)
(* (NetworkUtils.dart, buildHeaderTokens), only after a logout ran in the  *)
(* middle of a login, or the process ended in the middle of a logout:      *)
(* neither any other restart, nor the drawer's setLoggedIn(true) nor any   *)
(* number of logins at once brings that about.                             *)
(***************************************************************************)
FlagHasToken == isLoggedIn /\ ~token => overtaken \/ halved

(***************************************************************************)
(* A home screen is shown to somebody who is logged out only after a       *)
(* logout ran in the middle of a login whose sign-in screen then launched  *)
(* it (SignInScreen.dart, logIn).                                          *)
(***************************************************************************)
HomeIsLoggedIn == screen = "home" /\ ~isLoggedIn => overtaken

(***************************************************************************)
(* Once a request has been refused with 401 by a backend that ended the    *)
(* session, the app is logged out some time, whatever becomes of the login *)
(* it tries first (NetworkUtils.dart, handleResponse), unless it is closed *)
(* before.                                                                 *)
(***************************************************************************)
RefusedSessionEnds ==
  \A c \in Calls :
    (call[c].at = "login" /\ call[c].refused) ~> (~isLoggedIn \/ screen = "splash")

(***************************************************************************)
(* What makes that so, step by step: a handler of a 401 that waits for a   *)
(* login is done with it only by a logout, whichever way the login went    *)
(* and whatever another logout or login did meanwhile (NetworkUtils.dart,  *)
(* handleResponse; RestApis.dart, logout), or with the process.            *)
(***************************************************************************)
RefusedEndsLoggedOut ==
  [][\A c \in Calls : call[c].refused /\ ~call'[c].refused =>
       \/ ~isLoggedIn' /\ ~token' /\ screen' = "auth"
       \/ screen' = "splash"]_vars
=============================================================================
