----------------------------- MODULE AuthSession -----------------------------
(***************************************************************************)
(* The session of the single-page application: the pair of tokens in the   *)
(* local storage, which all tabs of a browser share, the login form, the   *)
(* guards of the router, and the job of every tab that renews the tokens.  *)
(*                                                                         *)
(* JavaScript runs to completion, so an action is one callback: a click, a *)
(* timer, an answer of the server, a guard.  Whatever the code awaits is a *)
(* call in flight, which the server serves and the network may lose.  A    *)
(* navigation is pending until its guard runs, which reads the storage     *)
(* anew; what the guard decides and the page that follows are one turn.    *)
(***************************************************************************)
EXTENDS Naturals, FiniteSets

CONSTANTS
    Tab,         \* tabs of one browser
    User,        \* people who know a password
    Grant,       \* pairs of tokens; one that nobody holds may be granted again
    Slot,        \* bounds the calls that are in flight at once
    None,
    MaxFaults    \* bounds lost calls, restarts of the API, reloads and navigations

ASSUME NoneAssumption == None \notin Tab \cup User \cup Grant
ASSUME BoundsAssumption == MaxFaults \in Nat

VARIABLES
    access,      \* storage: the grant whose access token is stored
    refresh,     \* storage: the grant whose refresh token is stored
    grants,      \* what server and clock know of the grants in use
    call,        \* calls in flight
    page,        \* what a tab shows
    route,       \* where a tab is going; the latest navigation counts
    armed,       \* pending timeouts of a tab's renewal job
    identity,    \* the user a tab's IdentityService tells
    faults

storage == <<access, refresh>>
tabs == <<page, route, armed, identity>>
vars == <<storage, grants, call, tabs, faults>>

\* An access token lives five minutes, the refresh token an hour after that,
\* and it can be used once (IdentityServerStaticConfig, environment.auth).
Age == {"fresh", "expired", "dead"}
Granted == [user : User, usable : BOOLEAN, age : Age]

\* "timer": the scheduled renewal; "guard": the one NotAuthenticatedGuard
\* awaits.
Kind == {"login", "timer", "guard"}
Call == [tab : Tab, kind : Kind, token : Grant \cup {None}, user : User \cup {None},
         answer : {"none", "ok", "refused"}, grant : Grant \cup {None}]

ASSUME NoRecordAssumption == None \notin Call \cup Granted

Page == {"starting", "login", "admin"}

\* "account" and "admin": the guard of that route is still to run; "guard":
\* NotAuthenticatedGuard awaits its renewal.
Route == {"none", "account", "admin", "guard"}

\* The URL a tab is opened with.
Opened == {"account", "admin"}

TypeOK ==
    /\ access \in Grant \cup {None}
    /\ refresh \in Grant \cup {None}
    /\ grants \in [Grant -> Granted \cup {None}]
    /\ call \in [Slot -> Call \cup {None}]
    /\ page \in [Tab -> Page]
    /\ route \in [Tab -> Route]
    /\ armed \in [Tab -> Nat]
    /\ identity \in [Tab -> User \cup {None}]
    /\ faults \in 0..MaxFaults

Init ==
    /\ access = None /\ refresh = None
    /\ grants = [g \in Grant |-> None]
    /\ call = [s \in Slot |-> None]
    /\ page = [t \in Tab |-> "starting"]
    /\ route \in [Tab -> Opened]
    /\ armed = [t \in Tab |-> 0]
    /\ identity = [t \in Tab |-> None]
    /\ faults = 0

Disturb == faults < MaxFaults /\ faults' = faults + 1

-----------------------------------------------------------------------------
(* Tokens *)

InFlight(s) == call[s] # None
Holds(s, g) == InFlight(s) /\ g \in {call[s].token, call[s].grant}
Held(g) == g \in {access, refresh} \/ \E s \in Slot : Holds(s, g)

\* What is known of a grant is dropped with its last holder.
Remember(known) == grants' = [g \in Grant |-> IF Held(g)' THEN known[g] ELSE None]

IsAccessTokenValid == access # None /\ grants[access].age = "fresh"
IsRefreshTokenValid == refresh # None /\ grants[refresh].age # "dead"

IsAuthenticated == IsAccessTokenValid
CanReauthenticate == IsRefreshTokenValid

StoredUser == IF access = None THEN None ELSE grants[access].user

\* The services that tell a user are made with the first page.
Tell(t, user) ==
    identity' = [identity EXCEPT ![t] = IF page[t] = "starting" THEN None ELSE user]

SetSecurityToken(t, g) ==
    /\ access' = g /\ refresh' = g
    /\ Tell(t, grants[g].user)

\* Mutant: The refresh token stays behind.
RemoveSecurityTokenHalf(t) ==
    /\ access' = None /\ UNCHANGED refresh
    /\ Tell(t, None)

RemoveSecurityToken(t) ==
    /\ access' = None /\ refresh' = None
    /\ Tell(t, None)

\* AuthenticationService.logOut; the server is not told.
DropSession(t) == RemoveSecurityToken(t) /\ Remember(grants)

-----------------------------------------------------------------------------
(* The renewal job of a tab, and calls *)

\* Mutant: clearTimeout is forgotten.
CancelScheduledJobForgotten(pending) == pending

\* Clears the timeout that was recorded last; one that ran already is no more.
CancelScheduledJob(pending) == IF pending > 0 THEN pending - 1 ELSE 0
ScheduleAsyncJob(t) == armed' = [armed EXCEPT ![t] = CancelScheduledJob(@) + 1]

\* Mutant: The guard asks for the wrong token before it schedules.
ScheduleTokenRenewalOfValid(t) ==
    IF IsAccessTokenValid THEN ScheduleAsyncJob(t) ELSE UNCHANGED armed

\* The error of an expired refresh token goes to nobody: no one subscribes.
ScheduleTokenRenewal(t) ==
    IF CanReauthenticate THEN ScheduleAsyncJob(t) ELSE UNCHANGED armed

Send(t, kind, token, user) ==
    /\ \E s \in Slot : ~InFlight(s)
    /\ LET s == CHOOSE s \in Slot : ~InFlight(s) IN
       call' = [call EXCEPT ![s] = [tab |-> t, kind |-> kind, token |-> token,
                                    user |-> user, answer |-> "none", grant |-> None]]

\* A renewal sends whatever is stored, also when nothing is.
Reauthenticate(t, kind) == Send(t, kind, refresh, None)

-----------------------------------------------------------------------------
(* Routes *)

Goto(t, r) == route' = [route EXCEPT ![t] = r]

\* The first page that is shown decodes the token that is stored by then.
Show(t, p) ==
    /\ page' = [page EXCEPT ![t] = p]
    /\ Goto(t, "none")
    /\ identity' = IF page[t] = "starting" THEN [identity EXCEPT ![t] = StoredUser]
                   ELSE identity

\* AuthenticatedGuard, of every route below admin.
EnterAdmin(t) ==
    /\ route[t] = "admin"
    /\ \/ /\ IsAuthenticated \/ CanReauthenticate
          /\ ScheduleTokenRenewal(t)
          /\ Show(t, "admin")
          /\ UNCHANGED <<storage, grants, call>>
       \/ /\ ~IsAuthenticated /\ ~CanReauthenticate
          /\ UNCHANGED <<call, page, armed>>
          /\ DropSession(t)
          /\ Goto(t, "account")

\* NotAuthenticatedGuard, of every route below account; it does not run when the
\* login page is there already.
EnterAccount(t) ==
    /\ route[t] = "account"
    /\ UNCHANGED <<storage, grants, armed>>
    /\ \/ /\ page[t] = "login" \/ (~IsAuthenticated /\ ~CanReauthenticate)
          /\ Show(t, "login")
          /\ UNCHANGED call
       \/ /\ page[t] # "login" /\ ~IsAuthenticated /\ CanReauthenticate
          /\ Reauthenticate(t, "guard")
          /\ Goto(t, "guard")
          /\ UNCHANGED <<page, identity>>
       \/ /\ page[t] # "login" /\ IsAuthenticated
          /\ Goto(t, "admin")
          /\ UNCHANGED <<call, page, identity>>

Guard(t) == (EnterAdmin(t) \/ EnterAccount(t)) /\ UNCHANGED faults

InFlightOf(t) == {s \in Slot : InFlight(s) /\ call[s].tab = t}

\* A tab is opened or reloaded.  Its timeouts are gone, and so are the answers
\* to its calls.  The server may have got a call all the same: all that nobody
\* waits for leaves is a refresh token that was used.
Reload(t) ==
    /\ Disturb
    /\ page' = [page EXCEPT ![t] = "starting"]
    /\ \E r \in Opened : Goto(t, r)
    /\ armed' = [armed EXCEPT ![t] = 0]
    /\ identity' = [identity EXCEPT ![t] = None]
    /\ UNCHANGED storage
    /\ call' = [s \in Slot |-> IF s \in InFlightOf(t) THEN None ELSE call[s]]
    /\ \E served \in SUBSET InFlightOf(t) :
          LET spent == {call[s].token : s \in served} IN
          Remember([g \in Grant |-> IF g \in spent
                                   THEN [grants[g] EXCEPT !.usable = FALSE]
                                   ELSE grants[g]])

\* A link, or Back and Forward, on any page and also while a guard waits, whose
\* renewal goes on.
Navigate(t) ==
    /\ Disturb
    /\ \E r \in Opened : Goto(t, r)
    /\ UNCHANGED <<storage, grants, call, page, armed, identity>>

\* The renewal job is not cancelled.
LogOut(t) ==
    /\ page[t] = "admin"
    /\ UNCHANGED <<call, page, armed, faults>>
    /\ DropSession(t)
    /\ Goto(t, "account")

\* The indicator of the login form (AsyncProgressTracker.executeAsync).
LoginRuns(t) == \E s \in InFlightOf(t) : call[s].kind = "login"

SubmitLogin(t, u) ==
    /\ page[t] = "login"
    /\ ~LoginRuns(t)
    /\ Send(t, "login", None, u)
    /\ UNCHANGED <<storage, grants, tabs, faults>>

\* Half a minute before a token expires, which may be due already; a computer
\* that slept may be late.  So the timeout comes at any time.
TimerFires(t) ==
    /\ armed[t] > 0
    /\ armed' = [armed EXCEPT ![t] = @ - 1]
    /\ Reauthenticate(t, "timer")
    /\ UNCHANGED <<storage, grants, page, route, identity, faults>>

-----------------------------------------------------------------------------
(* Answers *)

Answered(s, kind, answer) ==
    /\ InFlight(s) /\ call[s].kind = kind /\ call[s].answer = answer
    /\ call' = [call EXCEPT ![s] = None]
    /\ UNCHANGED faults

\* Login and guard go on to the console, whatever the tab does by now.
StoreAndLeave(t, g) ==
    /\ SetSecurityToken(t, g)
    /\ Goto(t, "admin")
    /\ UNCHANGED <<page, armed>>

LoginSucceeds(s) ==
    /\ Answered(s, "login", "ok")
    /\ StoreAndLeave(call[s].tab, call[s].grant)
    /\ Remember(grants)

\* The promise is rejected before the form can tell "invalidCredentials".
LoginFails(s) ==
    /\ Answered(s, "login", "refused")
    /\ UNCHANGED <<storage, grants, tabs>>

GuardSucceeds(s) ==
    /\ Answered(s, "guard", "ok")
    /\ StoreAndLeave(call[s].tab, call[s].grant)
    /\ Remember(grants)

\* Mutant: The job runs once instead of scheduling itself again.
RenewalSucceedsOnce(s) ==
    /\ Answered(s, "timer", "ok")
    /\ SetSecurityToken(call[s].tab, call[s].grant)
    /\ UNCHANGED <<armed, page, route>>
    /\ Remember(grants)

RenewalSucceeds(s) ==
    /\ Answered(s, "timer", "ok")
    /\ SetSecurityToken(call[s].tab, call[s].grant)
    /\ ScheduleAsyncJob(call[s].tab)
    /\ UNCHANGED <<page, route>>
    /\ Remember(grants)

\* Mutant: A failed renewal does not navigate.
RenewalFailsInPlace(s) ==
    /\ Answered(s, "timer", "refused") \/ Answered(s, "guard", "refused")
    /\ RemoveSecurityToken(call[s].tab)
    /\ UNCHANGED <<page, route, armed>>
    /\ Remember(grants)

\* Mutant: It navigates to a route that is not there.
RenewalFailsElsewhere(s) ==
    /\ Answered(s, "timer", "refused") \/ Answered(s, "guard", "refused")
    /\ RemoveSecurityToken(call[s].tab)
    /\ Goto(call[s].tab, "login")
    /\ UNCHANGED <<page, armed>>
    /\ Remember(grants)

\* Whatever went wrong, the tokens are removed, also those that another tab
\* stored meanwhile; then the tab goes to the account route.  map(null) throws,
\* so the job is not scheduled again.
RenewalFails(s) ==
    /\ Answered(s, "timer", "refused") \/ Answered(s, "guard", "refused")
    /\ RemoveSecurityToken(call[s].tab)
    /\ Goto(call[s].tab, "account")
    /\ UNCHANGED <<page, armed>>
    /\ Remember(grants)

Receive(s) ==
    \/ LoginSucceeds(s) \/ LoginFails(s)
    \/ GuardSucceeds(s) \/ RenewalSucceeds(s) \/ RenewalFails(s)

-----------------------------------------------------------------------------
(* The token endpoint, the network and the clock *)

Unserved(s) == InFlight(s) /\ call[s].answer = "none"
IsUsable(g) == g # None /\ grants[g].usable /\ grants[g].age # "dead"
Spent(g) == IF g = None THEN grants ELSE [grants EXCEPT ![g].usable = FALSE]

\* With the answer the server is done with the token of the request.
Answer(s, answer, g) ==
    call' = [call EXCEPT ![s].answer = answer, ![s].grant = g,
                         ![s].token = None, ![s].user = None]

GrantTokens(s, u) ==
    /\ \E g \in Grant : ~Held(g)
    /\ UNCHANGED <<storage, tabs, faults>>
    /\ LET g == CHOOSE g \in Grant : ~Held(g) IN
       /\ Answer(s, "ok", g)
       /\ Remember([Spent(call[s].token) EXCEPT
                       ![g] = [user |-> u, usable |-> TRUE, age |-> "fresh"]])

Refuse(s) ==
    /\ Answer(s, "refused", None)
    /\ UNCHANGED <<storage, tabs, faults>>
    /\ Remember(grants)

ServeLogin(s) ==
    /\ Unserved(s) /\ call[s].kind = "login"
    /\ GrantTokens(s, call[s].user) \/ Refuse(s)

ServeRenewal(s) ==
    /\ Unserved(s) /\ call[s].kind # "login"
    /\ IF IsUsable(call[s].token)
       THEN GrantTokens(s, grants[call[s].token].user)
       ELSE Refuse(s)

Serve(s) == ServeLogin(s) \/ ServeRenewal(s)

\* A request or its answer is lost: the tab sees an error either way.
Lose(s) ==
    /\ Disturb
    /\ InFlight(s) /\ call[s].answer # "refused"
    /\ Answer(s, "refused", None)
    /\ UNCHANGED <<storage, tabs>>
    /\ Remember(grants)

\* The API keeps refresh tokens in its memory.
RestartApi ==
    /\ Disturb
    /\ grants' = [g \in Grant |->
                    IF grants[g] = None THEN None ELSE [grants[g] EXCEPT !.usable = FALSE]]
    /\ UNCHANGED <<storage, call, tabs>>

\* The tab counts the life of a refresh token from the answer on: an answer is
\* assumed to take less than a token lives.
Older(g, from, to) ==
    /\ grants[g] # None /\ grants[g].age = from
    /\ \A s \in Slot : InFlight(s) => call[s].grant # g
    /\ grants' = [grants EXCEPT ![g].age = to]
    /\ UNCHANGED <<storage, call, tabs, faults>>

Expire(g) == Older(g, "fresh", "expired")
Die(g) == Older(g, "expired", "dead")

-----------------------------------------------------------------------------
Use(t) == Reload(t) \/ Navigate(t) \/ LogOut(t) \/ \E u \in User : SubmitLogin(t, u)

Next ==
    \/ \E t \in Tab : Use(t) \/ Guard(t) \/ TimerFires(t)
    \/ \E s \in Slot : Receive(s) \/ Serve(s) \/ Lose(s)
    \/ \E g \in Grant : Expire(g) \/ Die(g)
    \/ RestartApi

\* The event loop runs guards, timeouts and callbacks, and a call that is not lost is
\* served; what users, the clock and the network do is up to them.  (Strong,
\* because a callback only ever waits for a free Slot, a bound of the model.)
Fairness ==
    /\ \A t \in Tab : SF_vars(Guard(t)) /\ SF_vars(TimerFires(t))
    /\ \A s \in Slot : WF_vars(Receive(s)) /\ WF_vars(Serve(s))

Spec == Init /\ [][Next]_vars /\ Fairness
-----------------------------------------------------------------------------
(* Properties *)

\* Every route and every answer schedules the job anew, and a timeout that was
\* not recorded can never be cleared: a tab has one pending renewal at most,
\* whatever is in flight while it is scheduled (SchedulerService.timers).
OneRenewalTimer == \A t \in Tab : armed[t] <= 1

ConsoleTabsRenew ==
    \A t \in Tab : page[t] = "admin" =>
        \/ armed[t] > 0
        \/ \E s \in InFlightOf(t) : call[s].kind = "timer"
        \/ route[t] # "none"

GuardingTabsWait ==
    \A t \in Tab : route[t] = "guard" => \E s \in InFlightOf(t) : call[s].kind = "guard"

\* A console renews its tokens: its timeout is pending or its renewal under way,
\* or a guard is still to run in that tab, also after answers that overtook each
\* other, reloads, and logouts and logins of another tab
\* (AuthenticationSchedulerService).  A tab that waits at NotAuthenticatedGuard has
\* a renewal that the guard awaits under way, whatever other renewals are answered
\* before it.
TabsRenew == ConsoleTabsRenew /\ GuardingTabsWait

\* Logged out, and nothing in flight that could bring tokens back: every call is
\* a renewal without a token.
Quiet ==
    /\ access = None
    /\ \A s \in Slot : InFlight(s) =>
          /\ call[s].kind # "login"
          /\ call[s].token = None /\ call[s].grant = None

\* A logout with nothing in flight lasts until somebody logs in: no timer that
\* was left armed, no reload and no guard brings a session back (logOut).
QuietLogoutsLast ==
    [][Quiet => Quiet' \/ \E t \in Tab, u \in User : SubmitLogin(t, u)]_vars

\* An access token that expires under a console is replaced, or the console is
\* left, unless the refresh token dies first (the renewal job).
ExpiredAccessIsRenewedOrDropped ==
    \A t \in Tab : (page[t] = "admin" /\ access # None /\ ~IsAccessTokenValid)
        ~> (IsAccessTokenValid \/ page[t] # "admin" \/ access = None)

\* From some time on no tab drops the session, if there is one.  (Reloads and
\* navigations, which could keep a guard from deciding, end with MaxFaults.)
SessionLasts == <>[][access # None => access' # None]_access

\* A tab shows what its storage calls for: no guard is to run any more, and a
\* console tells a user.
Settled(t) == route[t] = "none" /\ (page[t] = "admin" => identity[t] # None)

\* Every tab settles again and again while the session lasts: none is sent from
\* guard to guard for ever or waits for ever at a guard, though calls get lost, the
\* API forgets its refresh tokens and other tabs renew or drop the session in
\* between (the guards and the redirects of reauthenticate); and a tab that lost its
\* user and was let into the console with the tokens another tab stored tells a
\* user again, by the renewal AuthenticatedGuard scheduled, or leaves (IdentityService
\* hears of its own tab only).
TabsSettle == SessionLasts => \A t \in Tab : ~Settled(t) ~> Settled(t)
=============================================================================
