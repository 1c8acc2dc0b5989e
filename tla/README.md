# Vensemart Logistics: TLA+ models of booking, following and paying for a ride

The repository is the rider's app of a delivery service, written in Flutter
(`src/lib`, 32 800 lines of Dart, a third of them language tables, models and
generated code). The backend and the driver's app are not in the repository;
they appear here as an environment. `src/ios` and `src/android` hold vendored
pods (gRPC, BoringSSL, Firestore: 1.2 million lines of C and C++) and platform
glue; none of it is this program's logic and none is modelled. Whatever share of
the repository the models cover is a share of `src/lib`.

Dart runs everything in one isolate: a handler is atomic between two `await`s,
and what makes this app hard is not threads but what happens *between* those
points: timers, answers of HTTP requests in any order, preferences that survive
the process, `State` objects that are unmounted while their timers and requests
live on, and a `Navigator` that several of them push to and pop from.

## 1. Inventory

Paths are under `src/lib`. "Hard" names the behaviours that tests hardly reach.

| part | state | operations | talks to | hard | correct when |
|---|---|---|---|---|---|
| waiting panel `components/BookingWidget.dart` | `duration`, `currentSeconds`, `count`, `timer`; preferences `IS_TIME`, `REMAINING_TIME` | `init`, one tick a second (poll every 20, automatic cancellation at the end), `cancelRequest`, `dispose` | `update-order-request`, preferences, Navigator, its screen (`onRideAccepted`) | restarts, remounts, timers of dead States, preferences shared by all panels, late and lost answers | a wait is neither cut short nor endless, one cancellation, polls go on as long as the wait does, unless a kill or a cancellation took their preference |
| booking screen `screens/NewEstimateRideListWidget.dart` | `isBooking`, `widget.isCurrentRequest`, `rideRequestId`, `rideRequest`, `driverData`, `timer` | `init` (again after the wallet), `getCurrentRequest`, `saveBookingData`, `build`, `dispose` | `current-ride-request`, `save-order-request`, both panels, wallet | answers out of order, double taps, `init` that runs twice | an order once booked is watched, with its own id |
| accepted ride `components/RideAcceptWidget.dart` | `userData`, periodic timers nobody holds | `init`, `cancelRequest`, completion | `user_detail`, `update-order-request`, its screen | timers that are never cancelled, none for a picked-up ride | the screen follows the ride |
| cancel dialog `components/CancelOrderDialog.dart` | reason | submit | its panel, Navigator | outlives its panel | cancels the order it was opened for |
| home `screens/WhatToDeliver.dart` | `servicesListData`, location stream | `initState`, `getCurrentRequest`, location on and off | `current-ride-request`, Navigator | each one ever pushed still acts | a ride in progress is resumed, once |
| map `screens/DashBoardScreen.dart`, pushed by the delivery form | `sourceLocationTitle`, location stream | as home, and the search sheet | `current-ride-request`, Geolocator, search sheet | the same handlers as home, a second time | as home |
| Navigator `utils/Extensions/app_common.dart` | stack of routes | `launchScreen`, `pop` | all screens | removed routes live on for a transition | |
| HTTP `network/NetworkUtils.dart`, `RestApis.dart` | none | `buildHttpResponse`, `handleResponse` | backend, session | 20 s timeout after which the backend may still act, answers dropped offline, 401 | |
| session `store/AppStore.dart`, `RestApis.dart`, `screens/SignInScreen.dart`, `SignUpScreen.dart` | `isLoggedIn`, token and profile preferences | login, sign-up, logout, login again after a 401 | HTTP, preferences, Navigator | preferences written one by one across awaits; several 401s at once; a 401 for the login itself | logged in means there is a token; a refused session ends at the sign-in screen |
| connectivity `main.dart`, `screens/NoInternetScreen.dart`, `LocationPermissionScreen.dart` | `isCurrentlyOnNoInternet`, subscription | push and pop of `NoInternetScreen` | Navigator, the location streams of the home screens | pops whatever is on top | the screens there were before come back |
| `LiveStream` `utils/Extensions/LiveStream.dart` | map of streams to value and callbacks | `emit`, `on`, `getValue`, `dispose`, `disposeAllKeys` | language screens | none that can happen (section 6) | |
| address search `screens/RiderWidget.dart`, `GoogleMapScreen.dart` | list, two texts, focus; globals `polylineSource`, `polylineDestination` | type, choose from the list or on the map, launch of the booking form | Google Places, Geolocator, booking form | answers out of order, focus moved meanwhile, a position that comes late | a form has the positions of its texts |
| wallet and payment `screens/WalletScreen.dart`, `PaymentScreen.dart` | amount, checkout dialog; the booking form's `mTotalAmount`, `mRideTotalAmount` | top-up, wallet orders | Paystack's plugin, `save-wallet`, booking form | payment done and credit lost, an answer that pops another screen, stale balances | money paid is credited once at most and not lost on the way; orders fit the balance |
| lists (`CreateTabScreen`, history, notifications) | pages, current page | scroll, refresh | backend | none: only one page is ever asked for (section 6) | |
| profile, settings, reviews, complaints, chat, drawer, models, language tables | forms and data | one request each | backend | none worth a model | |

`PROJECT.json` lists every component with its status and, under `hazards`, the
40 places where something could go wrong, each with the properties that would
show it.

## 2. Modules

```
WaitingPanel            what the panel promises, without its clock
  ^ refined by              ^ extended by
BookingWidget           RideBooking      screens, dialogs, Navigator, current-ride-request
  |                        |
BookingWidget_proofs    RideBooking_proofs
  |
BookingWidgetRefinement
MCBookingWidget         MCRideBooking    small instances for TLC

BookingScreens          what the booking screens promise        <- RideBooking
Ledger                  what topping up promises                <- WalletTopUp

RideTracking            one screen, its ride and the next: what RideBooking leaves out of its timers
AddressSearch           from the map screen to the form that RideBooking's OpenForm opens
WalletTopUp             payments, and the form's money
Outages                 network and location service on the Navigator's stack
Session                 login, logout and 401
  each with <name>_proofs and MC<name>
```

The last five stand on their own: they share code with RideBooking (the booking
form's `init`, `launchScreen`) but ask other questions of it, for which most of
RideBooking's state is irrelevant. Each repeats of its neighbours just the moves
that can disturb it (`Replace`, `Restart`, `OpenForm`, `CloseForm`), with no guard.

**BookingWidget** is the waiting panel with its clock, translated from
`BookingWidget.dart`. `MountFirst`, `MountResumed` and `MountExpired` are the three
branches of `init` (lines 71 to 87). `Tick` is the timer's callback (93 to 159):
`TickUnmounted` when the `mounted` test of `setState` stops it, `TickThrows` when
the parse of line 99 finds no number, `TickRuns` otherwise, with its poll and its
automatic cancellation in the same step. `PollAnswer`, `AutoAnswer` and `RiderAnswer`
are the three `then` blocks, `Fail` their `catchError`. `Second` is one second of
wall-clock time; a running timer becomes `due` and fires at any later time, so that
a tick can come late, as Dart's periodic timers do: `timer.tick` (`elapsed`) counts the
seconds that have passed, not the calls. Preferences are shared and survive
`Restart`; `State` objects are the elements of `Panels`. `IS_TIME` is kept as the
seconds left to it, so time needs no horizon; `Left` is the one or two values
`inSeconds` can give for it. Of `REMAINING_TIME` only the presence is kept.
The two are written and removed by calls of their own that nobody awaits, in memory
at once and on the disk one after the other. A handler that does both is one step,
and the kill in its middle one of its own, which leaves what had reached the disk:
`CutWrite` (between lines 74 and 76), `CutRemoval` (110 to 112, 150 to 151) and
`CutCancel` (233 to 234). The variables `age`, `owner`, `borrowed`, `asked` and `torn` are
history, read by properties only.

The module is open: when panels are mounted and given ids is left to the
environment. The backend serves requests in any order (`Serve`), a request
that timed out may still be served (`Gone`), orders are accepted, withdrawn and
completed at any time.

**WaitingPanel** is the same panel for its neighbours: a counting panel may at
any time poll, or send its one cancellation; the clock is gone and the
preferences are two flags; its kills are BookingWidget's. The parts of both modules that
do not touch the clock are the same code and map to the same lines.

**RideBooking** extends WaitingPanel by what the build methods, the home screen, the
dialogs and RideAcceptWidget do. The stack of routes is a sequence of records; a
booking screen's `State` is identified with the panel it shows, since it shows at
most one. The important moves: `OpenForm` (from the address search), `BookNow` and
`SaveAnswer` (`saveBookingData`), `Loaded` (`init` after its awaits, run again when the
wallet closes: `Back`), `ServeQuery`, `ScreenAnswer` and `HomeAnswer` (the two
`getCurrentRequest`), `BuildPanel`, `RebuildPanel` and `BuildRide` (`build` lines 766 to
832), `ReadDriver` and `Track` (RideAcceptWidget's `init` and its timers),
`SubmitDialog`, `SubmitRideDialog`, `CompleteRide` and their answers, `Dispose` (routes
that `pushAndRemoveUntil` removed live until the transition ends: `Left`), `RideRestart`
(with `RideKill` where a panel is built, a dialog submitted or an answer handled). A
dialog reads its widget's order when it is submitted: `Reread` gives the open ones the
order their widget is rebuilt with.

**BookingScreens** is what all of that promises of the booking screens, on one page:
the screens the rider can come to and the order of each. A screen opens as an
empty form (`Open`) or for a ride in progress and then in place of all others
(`Resume`); it takes an order no other screen has (`Book`), keeps it, and goes (`Close`).
RideBooking implements it with `open` the screens on the stack, those that slide away
excluded, and `holds` their `rideRequestId`.

**Session** is the flag `isLoggedIn`, the preference TOKEN and the calls that change
them. A login is a row of awaits: `LoginAccepted` writes the token, `SetLoggedIn` the
flag, `Enter` (sign-in and sign-up) launches the home screen. A request that is
`Refused` with 401 becomes a login itself; whether that succeeds
(`RefusedThenLoggedIn`) or not (`LoginFails`) it ends in `LogOut`, which is one step, as
`logOutSuccess` awaits nothing; `CutLogOut` is the kill in its middle, when the removal of
the token has reached the disk and that of the flag has not. `LoginRefused` is the recursion of `handleResponse`
through `logInApi`. `TapLogOut` and `Leave` are the drawer's entry, which sets the flag to
true and sleeps before it logs out. A sign-in screen that a logout has replaced
still has its context until the transition ends (`Unmount`), and can still launch
home. `Restart` keeps preferences and nothing else. `overtaken`, `cut` and `halved` are
history.

**RideTracking** takes one booked screen after its order is saved and keeps what
`getCurrentRequest` does to its timers. `Answer` is the `then` block (183 to 211):
`ShownAfter` the assignment to `rideRequest`, `LocationTimer` the periodic timer it
starts or cancels; `held` is the field `timer`, `lost` the timers whose handle the next
answer overwrote. `ReadDriver` is RideAcceptWidget's `init`, with the timer it starts
for the status of that moment and nobody cancels (`askTimers`); `ReadOrphan` the same
for a card that has left the tree while it waited (`DropCard`). `LocationTick` is
`getUserDetailLocation`, `Dispose` cancels the timer that is held. The ride itself
(`Progress`, `Vanish`) may skip stages between two looks at it. `OrderAgain` is the rider's
next order, placed from another screen: the timers of the old card, which go on asking
for the old screen, are told of that one from then on, and the old screen takes it
beside the driver it still has (`driver` is never taken back, as `driverData` is not).

**AddressSearch** is RiderWidget: `Focus` runs the two listeners (which empty the source,
or put it back), `Type` is `onChanged`, `SearchAnswer` replaces the list whatever it was
searched for, `Tap` and `Details` are the two halves of a choice, `OpenMap` and
`PickOnMap` those of the other. `Choose` is the code the four of them repeat: assign
text and position of the field, launch the form if both texts are there, clear both.
`polylineSource` (`from`) is a global that a closed form's `dispose` (`FormLocated`) and the
screens below (`HomeLocated`) write too.

**Outages** has the Navigator's stack with three kinds of routes, `NetworkLost` and
`NetworkFound` (the two branches of main.dart 115 to 131), `LocationLost` and
`LocationFound` (locationPermission, run by every home or map screen ever shown, as no
subscription is cancelled: `listeners`), and everything else that moves the stack.
`base` and `disturbed` are history.

**WalletTopUp** has PaymentScreen's handlers: `Pay` starts a checkout, `Charge` is the
plugin's, `Confirm` and `Abandon` its two results, `Serve`, `Fail`, `Lost` and `Answer` what
becomes of the request that credits the wallet. `Answer` pops the route on top if the
PaymentScreen is still mounted (`view` is "here", or "leaving" until `Unmount`). What
Outages does to the stack is done here too: `Notify` pushes a notice over whatever is
there, `OutageOver` pops whatever is there (main.dart 124, WhatToDeliver 202), and a
checkout that pops itself (`Confirm`, `Abandon`) pops the notice over it instead. `Pop` is
Navigator.pop with what hangs on it: a checkout without a result has failed, a
wallet that closes over a form runs the form's `init` (`FormInit`). The form asks for its
balance (`Tell`, `Told`) and price (`Priced`) and orders by `Book`, with the test of lines
402 to 405 (`Refused`).

**Ledger** is what is left of a payment when screens, dialogs and requests are taken
away: `Charge`, then `Credit`, each once, and an account that `Credit` adds to and
`Spend` takes from. WalletTopUp implements it with the backend's `balance` as the account; a
`Serve` of a `save-wallet` is `Credit`, everything the app does beside is a stutter.

## 3. What is checked

| run | instance | properties | states |
|---|---|---|---|
| countdown_two | 2 orders, 2 panels, wait 2 s, poll on every tick, 1 request in flight | `TypeOK`, `PrefsPaired`, `DeafOnlyAfterCancel`, `AutoStopsTimer`, `DisposedPanelIsSilent` | all, with symmetry |
| countdown_wait | 2 orders, 1 panel, wait 4 s, poll every 2 s | `NotEarly` | all |
| countdown_one | 1 order, 1 panel, wait 4 s, poll every 2 s, 2 requests | `WaitEnds`, `Implements` | all, no symmetry |
| ride_booking | 1 screen, 1 order, 2 questions in flight, stack of 3 | `BookedStaysBooked`, `RideHasDriver` | 4.1 million |
| ride_twice | 1 screen, 2 orders, 2 questions, stack of 3 | `RideTypeOK` | 1.5 million, with symmetry |
| ride_screens | 2 screens, 1 order, 1 question, stack of 4 | `OneScreenPerOrder`, `RoutesLive`, `PanelsHoused`, `KeepsPromise` | 0.7 million, with symmetry |
| session | 3 calls of any kind | `NoGhostToken`, `FlagHasToken`, `HomeIsLoggedIn`, `RefusedSessionEnds`, `RefusedEndsLoggedOut` | 52 000, all |
| ride_tracking | 2 questions in flight, timers told apart up to 1 | `PositionFollowed`, `CompletionShown`, `PositionLetGo`, `CompletionKept` | 174 000, all |
| address_search | 2 places, 2 taps and 1 search in flight | `FormAgrees`, `SourceIsWhole`, `NoTwoForms` | 1.2 million, with symmetry |
| outages | stack of 6 when pushed to, 2 listening home screens | `OutagesLeaveNothing`, `EmptiedByOutage` | 2.3 million |
| wallet | 2 payments of 1, a balance of 1, a fare of 2, 1 balance and 1 price on their way, notices on a stack of 6 | `CreditedOnce`, `ChargedIsKept`, `KeepsLedger` | 1.5 million, with symmetry |
| wallet_orders | the same, but 2 balances and 2 prices, and notices on a stack of 3 | `FundedOrders` | 2.1 million, with symmetry |

* `PrefsPaired`: `IS_TIME` is set without `REMAINING_TIME` only after a kill between two
  writes or two removals, and until a pair is next written or removed whole (`torn`).
  The two are written in one place but removed in four, one of which removes only
  `IS_TIME`; were it the other, a resumed wait would throw at its first poll without any
  kill.
* `DeafOnlyAfterCancel`: a panel that counts without `REMAINING_TIME` (it throws at every
  poll and never cancels) exists only after some cancellation or such a kill. That such
  panels *do* exist is a consequence of the code: another order's cancellation is
  enough, and so is a kill between lines 74 and 76, 111 and 112, 150 and 151, or 233
  and 234.
* `AutoStopsTimer`, `DisposedPanelIsSilent`: one cancellation per panel; the timer of a
  disposed panel runs and does nothing.
* `NotEarly`: the automatic cancellation comes no more than the second that `inSeconds`
  drops before the ten minutes, through restarts and remounts, except in a panel
  that took over a time left by another order (`borrowed`).
* `WaitEnds`: a wait ends, by a driver, a cancellation, the panel's disappearance or
  the loss of `REMAINING_TIME`; the last disjunct says what the code does when its one
  cancellation fails: nothing more.
* `Implements`: BookingWidget refines WaitingPanel under the mapping
  `isTime <- isTime # Absent`, `counting <- mounted /\ running`.
* `BookedStaysBooked`, `OneScreenPerOrder`, and in `RideTypeOK` the conjunct that a
  booked screen has an order: the booking screen's promises under all interleavings
  of its answers, the wallet, the home screens and the dialogs.
* `KeepsPromise`: RideBooking implements BookingScreens, step by step: not only are there
  never two screens for an order, there is no step, however many answers and dying
  screens it involves, in which a screen's order goes back to none or changes into one
  another screen has, or in which a ride is resumed beside other screens.
* `RoutesLive`: a wallet or a dialog on the stack has the booking screen it was opened
  from: what it calls when it closes is still there. It depends on what is disposed
  of when: all that `pushAndRemoveUntil` removes, nothing that is only covered.
* `PanelsHoused`: a waiting panel is in the tree under a booked screen only, and a
  request counted as a mounted panel's has such a panel to act on.
* `RideHasDriver`: RideAcceptWidget, which asks for the driver of the ride it is given, is
  shown only for an order that a driver has accepted, although the answer on display
  may be of any age.
* `NoGhostToken`: no interleaving of logins and logouts leaves a token to somebody who
  is logged out; only the end of the process in the middle of a login does.
* `FlagHasToken`, `HomeIsLoggedIn`: a rider who counts as logged in but has no token, and
  one who sees the home screen but is logged out, come about by a logout (of a
  request refused with 401, say) in the middle of a login; the first also by the end of
  the process in the middle of a logout (`halved`), and by nothing else. That both *do*
  come about is a consequence of the code; the second is stuck, since a refusal is
  ignored when logged out.
* `RefusedSessionEnds`: a handler of a 401 ends in a logout, whatever becomes of its
  login. Whose session that is, is another matter: the rider may have begun a
  new one. `RefusedEndsLoggedOut` is its safety part: no step ends such a handler but a
  logout that leaves neither flag nor token nor any screen but the sign-in, or the
  end of the process.
* `PositionFollowed`: an open screen holds a timer for the driver's position exactly
  while it shows a ride under way with a driver, in whatever order the answers
  come; `getUserDetailLocation` must not cancel it when a lost timer ticks.
* `CompletionShown`, `PositionLetGo`: once a ride is completed for good and a card has
  started its timer, the screen ends up showing it completed, although older answers
  may take it back for a while, and the app ends up no longer asking where the
  driver is. The lost timers run for ever; what silences them is the status they look
  at, and what has that updated, also after the screen is gone, is a timer nobody
  cancels. Without that premise (a ride picked up before the card has read its
  driver) neither holds in the code.
* `CompletionKept`: once the completed ride is shown and no older answer is on its way,
  nothing but the rider's next order undoes that or begins to ask for the position
  again: neither the backend when it forgets the ride, nor the asking timers, nor the
  lost ones. What the next order does is a consequence of the code: the old screen,
  disposed of or not, is told of it by the timers nobody cancelled, shows it with the
  old driver, and asks for that driver's position for as long as it is under way.
* `FormAgrees`: a booking form for places that were chosen has their positions, through
  lists, map, late details and forms that close; the device's position may have
  replaced the source's, if it came later. `SourceIsWhole`: when it is the destination
  that launches the form, the source is not what the rider was still typing; that
  hangs on the listener that puts the source back. For the converse there is no
  such listener, and it does not hold. `NoTwoForms`: two taps, one form.
* `OutagesLeaveNothing`: outages that overlap in any way leave the stack as it was,
  though each pop takes the wrong screen. `EmptiedByOutage`: the app is left without a
  route only if something else moved the stack meanwhile; that this can happen (the
  rider goes back from NoInternetScreen) is a consequence of the code.
* `CreditedOnce`: no lost, late or repeated answer credits a payment twice.
  `ChargedIsKept`: what a rider has paid is asked for, except after a replacement of
  all screens, a restart, another payment's answer, which pops the dialog, or the end
  of an outage, which pops it if no notice is left above it. The rider's going back,
  failed requests and checkouts that end under a notice do not cost a payment.
  `FundedOrders`: no order of answers lets a wallet order through that the account
  never could have paid since its form was opened. `KeepsLedger`: WalletTopUp implements
  Ledger.

Consequences of the code that the money's properties leave room for, and that a
reader of the code should know: the end of an outage can take the checkout of a card
that has been charged, whose credit is then never asked for (the rider has closed the
notice, or a home screen hears of the service's return and not of its loss); the
credit that fails is never asked for again; an answer that comes while PaymentScreen slides away pops the wallet or the form
below; a price that is not there yet, or never comes, is sent as 0; two orders
from one form are both let through by the same balance; a balance equal to the
fare is refused.

**Bounds.** `timerMaxSeconds` and `PollEvery` are the code's 600 and 20 scaled down: what
matters is that the wait holds several polls or one, that polls and the end of
the wait coincide or not (2 and 1, 4 and 2), and that there are values of
`IS_TIME` strictly between 0 and the maximum; the proofs hold for all values.
`MaxCalls`, `MaxQueries`, `MaxLeaves` bound requests in flight when one more is sent and
`MaxDepth` the stack; two orders are what it takes for one order's preferences to
meet another's panel, two panels for a dead one to meet a living one, and a
stack of four for a home screen and a resumed screen over a booking screen and
its dialog. `Underway` stands for the statuses of a ride that has a driver; one is
enough for the panel, which treats them alike, and none where the properties are
about the wait alone. Session needs no bounds; three calls are a login, a logout
that overtakes it, and one more of either. In RideTracking two questions are what it
takes for an older answer to come last, and a timer more or less makes no
difference to any guard, which only ask for one. In AddressSearch two places are the two
ends, two taps two choices whose answers meet. In Outages six routes hold
three screens of each of two listeners' making, or both kinds over two of the app; what
is found there is proved for every depth. In WalletTopUp the fare is what the
opening balance and one payment make together, so that the test's boundary is met, and
two payments are what it takes for one's answer to pop the other's dialog. A stack of
six (in wallet) holds home, form, wallet, payment and checkout with two notices over
it, or a form's payment with a notice below its checkout; the orders do not depend
on notices, so wallet_orders, where two balances and two prices overtake each other,
has them over three routes at most.

**Fairness.** countdown_one: timers fire and clocks run (the Dart event loop),
the backend serves a request, answers are handled. Nothing is assumed of
the rider, the drivers or the network; `Fail` is never forced and never excluded.
session: awaits return, and each login is settled some time (strong fairness of
`Settle`): the 20 seconds' timeout sees to it unless the backend answers it with a 401
that makes the app try again, for ever, which is excluded. ride_tracking: timers
fire (weak fairness of `TimerAsks`); a question that is asked again and again is
served again and again, and not every answer is dropped (strong fairness of `Serve` and
`Answer`: `Fail` may take any of them away, but not all of them for ever, or the phone is
off line for good); a request for the driver's position is answered or fails
within its 20 seconds (`Located`). Nothing is assumed of the ride.

**Deadlock** is checked in all runs but ride_tracking, where the ride may be over, the
screen gone and no timer left, and the app has nothing more to do with it.

**Mutants.** Each property has a mutant, an operator kept next to the one it would
replace (`CountKept`, `RemoveOne`, `TimeUpEarly`, `BookedOnlyHere`, `ResumeOnTop`, ...): a
plausible slip in the code that TLC finds to violate the property.

## 4. What is proved

For every set of orders and panels, every length of the wait and every interval
of the polls (assumptions: the two lengths are positive, `Absent` is none of the
values it stands beside, the statuses of a ride under way are not those of one
that is not):

| theorem | module | states |
|---|---|---|
| `TypeCorrect`, `PrefsArePaired`, `DeafnessNeedsACancel`, `OneAutoCancelPerPanel`, `SilenceAfterDispose`, `NoEarlyCancel` | BookingWidget_proofs | the safety properties of countdown_two and countdown_wait |
| `PanelImplements` | BookingWidgetRefinement | `Spec => Implements` |
| `RideTypeCorrect`, `BookedForGood`, `OneScreen`, `RoutesAlwaysLive`, `PanelsAlwaysHoused`, `RideAlwaysHasDriver` | RideBooking_proofs | the safety properties of the three ride runs |
| `ScreensKeepPromise`, `PromiseIsOneEach` | RideBooking_proofs | `RideSpec => KeepsPromise`, and what BookingScreens itself guarantees |
| `SessionTypeCorrect`, `TokensDoNotLinger`, `FlagsHaveTokens`, `HomesAreLoggedIn`, `RefusedHandlersLogOut` | Session_proofs | the types and the safety properties of session, for any number of calls |
| `TrackingTypes`, `TimerFollowsRide`, `CompletionIsKept` | RideTracking_proofs | types, `PositionFollowed` and `CompletionKept`, for any number of questions and orders |
| `SearchTypes`, `FormsAgree`, `SourcesAreWhole`, `FormsAreSingle` | AddressSearch_proofs | types and the properties of address_search, for any places and any number of taps |
| `OutageTypes`, `OutagesOver`, `EmptiedOnlyDisturbed` | Outages_proofs | types and the properties of outages, for any depth and any number of listeners |
| `WalletTypes`, `PaymentsCreditOnce`, `ChargesAreKept`, `OrdersAreFunded` | WalletTopUp_proofs | types and the properties of wallet and wallet_orders, for any payments, amounts, prices and notices |
| `WalletKeepsLedger`, `LedgerBacked` | WalletTopUp_proofs | `Spec => KeepsLedger`, and what Ledger itself guarantees |
| `PanelInside` | RideBooking_proofs | `RideSpec => Spec` of WaitingPanel: what is known of the panel holds inside the app |

The arguments. `TypeOK` is inductive once `PollEvery` bounds `count`: a tick that gets
past the parse resets it, one that throws leaves it at the bound. `PrefsPaired` needs
`TypeOK` only, and `torn`: each kill sets it if it leaves `IS_TIME` alone, and only what
writes or removes both resets it. `DeafOnlyAfterCancel` needs `PrefsPaired` (a panel that
resumes is deaf only if the pair is torn) and `CancelsKnown`: an answer "canceled" is about
an order that stays cancelled. `AutoStopsTimer` needs `FromMounted`: a request marked as
sent by a mounted panel has one, so that a panel mounted anew in the same slot is
not taken for its sender. `NotEarly` is the deepest: `Waits` says that the seconds a
counting panel has left make up, with its order's age, a whole wait but one
second, and `Owned` that `IS_TIME` lies a whole wait after its owner was placed, so that
a panel that resumes inherits it. The refinement maps `Second` to a stutter, and a tick to the abstract tick or to a stutter when it sends
nothing.

In RideBooking the invariant `AppInv` strengthens the types by: a mounted panel
has an order, `isBooking` implies `isCurrentRequest` implies an id, a status on the screen
or in an answer comes with its order, and an unanswered booking's screen still
exists. `OneScreen` adds `Placed` (an order that appears anywhere has been placed and
cannot be placed again) and `SavesAlone` (no other screen has the order of an
unanswered booking); without the latter `SaveAnswer` could create the second
screen. A home screen that resumes replaces the whole stack, which is why it may
do so over any screen.

`RoutesLive` is inductive only with `OpenOnStack` (a screen on the stack is open) and
`Seated`: below a wallet or a dialog, on the same stack, lies its booking screen. A pop
takes the top alone, `NewTask` everything, so nothing takes the seat without the sitter;
and `Dispose` takes only what is on no stack. `PanelsHoused` is `Housed` and `CallsListen`:
`BuildPanel` asks for `isBooking`, which only another run of `init` could take back, and
`AppInv` says it does not; `Dispose` unmounts panel and screen together.
`RideHasDriver` needs `AnswersDriven`, the same of the answers on their way, and the lemma
`DriverForGood`: an order that was accepted never waits for a driver again.

The refinement of BookingScreens takes four lemmas: `ResumePromised`, `OpenPromised` and
`BookPromised` for the three steps that bring a screen or an order on the stack, the last
from `SavesAlone`; and `ClosePromised`, that every other step of the app, whichever it is,
only takes screens away and leaves the orders of the others alone. The answer to a
booking whose screen has left the stack meanwhile is such a step: nobody sees its
order. `PromiseIsOneEach` is then a fact about one page of specification, and with the
refinement a second way to `OneScreen`.

In Session the three invariants are inductive together with `Unovertaken`: while no
logout has overtaken a login, one past its first write has the token and one past
`setLoggedIn` the flag. `FlagHasToken` and `HomeIsLoggedIn` need each other: the drawer sets
the flag on whatever home screen is there, and so relies on that screen being
logged in or explained. `RefusedEndsLoggedOut` follows from `OnlyLoginsOwe`: a call that is
waited for by a handler of a 401 is a login, so that the steps of requests and of
the drawer cannot be its end.

`PositionFollowed` is inductive with the types: the tick of a lost timer cancels the
held one only for a completed ride, for which none is held. `CompletionKept` is an
invariant from some state on: `Settled` says that the ride is shown completed and that
no answer under way tells anything older; the backend, which serves what it knows,
can then add none before there is another order. That `Settled` comes about is
the part of `CompletionShown` that needs fairness.

In AddressSearch `Agree` extends `FormAgrees` to the fields: a text that is a place has
its position, or the device's for the source, and a source that is a place is
`mLocation`. `Whole` says that while the destination has the focus, or the map is open
for it, the source is not half typed: the listener has put it back. `OneForm` says
that under a form the field that may still have the focus is the only one that can
get a text, so that the other stays empty and no second form is launched.

In Outages `Layered` says that, while nothing has disturbed it, the stack begins with
`base` and is longer by as many screens as the outages that last have raised: one for
the network, one per listener for the location service. Which of them lie where is
left open; each end of an outage takes away as many as its beginning brought.

In WalletTopUp `Counted` ties a payment's stage to its credits and to the charge (a
payment that is new or in its checkout is not charged, one that waits is not credited);
`OneDialog` says that at most one payment has its checkout, and that there is then a
checkout on the stack with nothing but notices above it: what pops anything else does
not touch it, and all that the rider's going back can take is a notice. `FormKnows` says that every balance the form was
told, or will be, is at most `most`, and `AccountSafe` that so is the account's. The
refinement of Ledger is by cases on the step: only `Charge`, `Serve` and what spends
change what Ledger sees; `Counted` says that the first's payment has not been
charged, and the second's has been charged and not credited. `LedgerBacked` strengthens
`Backed` to `Balanced`, which counts the credited instead of the charged, and uses
the library's facts about cardinality.

Only model-checked: `WaitEnds`, `RefusedSessionEnds`, `CompletionShown` and `PositionLetGo`
(liveness under fairness, which the prover does not handle). Of all but the first the
part that is not liveness is proved: `RefusedEndsLoggedOut` says by what a refused
session ends, `CompletionKept` that a completed ride stays shown and its driver unasked
for until the next order; that it comes to that is TLC's. The end of a wait (`WaitEnds`) has no such part worth
a theorem: one guard, `RunsOn`, stops the timer.

## 5. Where the models simplify

* A request for a booking is taken to reach the backend when it is sent; one that
  arrives later, or whose answer is lost, is an order placed without an answer
  (`Place`). A current-ride-request that fails is as if not made: its only effect
  is a log line.
* `SharedPreferences` is its in-memory map, which changes at once and reaches the disk in
  the order of the calls. A kill finds at most the pair that is just being written or
  removed, or the logout, half done: that earlier writes may still be outstanding then
  is left out, and so is a file that keeps a later write and not an earlier one. Of a
  logout the token and the flag are the two that may be parted; the rest of the profile
  is not kept.
* The fields of an unmounted panel are cleared; nothing reads them again. Its timer
  and its requests live on. A dead panel's slot may be reused while its last
  answers are under way.
* In RideBooking the map screen and the search sheet are one with the home screen
  below them; opening a form asks for the current ride once more, as the map screen
  does. The screens pushed for location permission and lost connectivity are left
  out there; their pops are `Back`, which may happen at any time.
* RideTracking counts timers up to a bound and tells no further; that a timer ticks
  every ten seconds is left out. The rider's next order may be placed as soon as the
  ride is completed or forgotten, while the old screen is still open or not; only its
  status is told, and the screen on which it was placed is not modelled. It starts when an order is saved or a ride resumed;
  the question a form asks before its booking finds no ride to show.
* AddressSearch takes an address and its position to be one thing (`Places`); two
  addresses with one position are not told apart by the code either. A search answer is
  any list. What the sheet's answers do after it is closed reaches no field.
* Outages does not tell the app's screens apart, and lets the service's status and the
  network change one at a time.
* WalletTopUp leaves out the sheet in which the amount is typed (every payment adds
  `Amount`), the toasts, and WalletScreen's display. Its home stands for home, map and
  search sheet, its notice for NoInternetScreen and LocationPermissionScreen. That an
  outage ends only after it began is left out: which subscription hears of what is
  Outages' affair. The fields of a form that is gone are cleared.
* RideAcceptWidget's details answer, in WaitingPanel and BookingWidget, is `DropIsTime`:
  it may come whenever some order has left "new". In RideBooking it is also part of
  `ReadDriver`, which starts the timer for the status shown when the details are
  answered.
* Session keeps of the preferences of a login only the first, TOKEN, and the flag;
  the profile is written between them. The backend may refuse any request at any
  time; what it makes of the old token when it grants a new one is left open.
* The backend knows at most the statuses of `utils/Constants.dart` 175 to 189; two of
  them (`INPROGRESS`, `IN_PROGRESS`) are the same string.

## 6. Not modelled, and what could follow

Done, in this order: BookingWidget, its proofs, WaitingPanel and the refinement,
RideBooking, Session, RideTracking, AddressSearch, Outages, WalletTopUp, each with its
proofs. Not modelled:

* **LiveStream**: an event bus whose removing operations nothing calls, whose listeners
  are never removed but call a guarded `setState`, and whose values nothing reads in
  a way an order of events could spoil.
* **Lists** (ride history, notifications, emergency contacts, wallet history): the
  pagination of `CreateTabScreen` and `WalletScreen` is commented out, so that one page is
  all that is ever asked for; the list of `EmergencyContactScreen` is not displayed;
  nothing launches `NotificationScreen`.
* **Withdrawal, bank details, reviews after a ride, chat**: nothing launches them.
* **Profile, settings, complaints, alerts, passwords**: one request per form, whose
  answer closes it; the shared part (failure, 401) is the HTTP layer's.
  `ChangePasswordScreen` writes the new password to the preferences before the backend
  has agreed to it; the only reader is the login after a 401, which Session lets
  succeed or fail and which ends in a logout either way. An account that is deleted
  stays logged in until its next request is refused, which is Session's `Refused`.
* **Balance shown by WalletScreen**: an older answer may overwrite a newer one until the
  next visit; nothing reads it but the rider.
* **Order in the search list**: `SearchAnswer` applies answers as they come, as the code
  does; a property of freshness would not hold and none is stated anywhere.
* **Map, markers, routes, services, fares by vehicle**: drawing, and the backend's data.
* **Models, language tables, formatting, Firebase and platform code**: generated,
  tabular or not this program's.

What could follow: a composition of Outages with RideBooking, in which the screens
popped by an outage are told apart (RideBooking's `Back` allows all of them already),
and one of WalletTopUp with RideBooking for orders placed twice from one form.
