-------------------------- MODULE AuthSessionProofs --------------------------
(***************************************************************************)
(* Proofs about AuthSession, for any number of tabs, users and calls.      *)
(***************************************************************************)
EXTENDS AuthSession, TLAPS

\* Both tokens in the storage come from one answer.
OneGrantStored == access = refresh

\* What anyone holds is known to the server or its clock.
HeldIsKnown == \A g \in Grant : Held(g) => grants[g] # None

\* A login that was not served tells the user, an answer that grants tokens has
\* them.
CallsAreComplete ==
    \A s \in Slot : InFlight(s) =>
        /\ call[s].kind = "login" /\ call[s].answer = "none" => call[s].user # None
        /\ call[s].answer = "ok" => call[s].grant # None

TimerCall(s, t) == InFlight(s) /\ call[s].tab = t /\ call[s].kind = "timer"

ConsolesRenew ==
    \A t \in Tab : page[t] = "admin" =>
        armed[t] > 0 \/ (\E s \in Slot : TimerCall(s, t)) \/ route[t] # "none"

TokensInv == OneGrantStored /\ HeldIsKnown /\ CallsAreComplete
TabsInv == OneRenewalTimer /\ ConsolesRenew

Inv == TypeOK /\ TokensInv /\ TabsInv

-----------------------------------------------------------------------------
\* At first no tokens, no calls and no consoles.
LEMMA InitInv == Init => Inv
<1> SUFFICES ASSUME Init PROVE Inv
    OBVIOUS
<1> USE DEF Init
<1>1. TypeOK
  BY BoundsAssumption DEF TypeOK, Page, Route, Opened
<1>2. TokensInv
  BY NoneAssumption DEF TokensInv, OneGrantStored, HeldIsKnown, CallsAreComplete, Held, Holds, InFlight
<1>3. TabsInv
  BY DEF TabsInv, OneRenewalTimer, ConsolesRenew
<1> QED
  BY <1>1, <1>2, <1>3 DEF Inv

\* The storage has a known grant, and its user, unless it is empty.
LEMMA StoredIsKnown ==
    ASSUME Inv
    PROVE  /\ access # None => access \in Grant /\ grants[access] \in Granted
           /\ IsAuthenticated => CanReauthenticate
           /\ StoredUser \in User \cup {None}
<1>1. access # None => access \in Grant /\ grants[access] \in Granted
  BY DEF Inv, TypeOK, TokensInv, HeldIsKnown, Held
<1>2. access = refresh
  BY DEF Inv, TokensInv, OneGrantStored
<1> QED
  BY <1>1, <1>2 DEF IsAuthenticated, CanReauthenticate, IsAccessTokenValid, IsRefreshTokenValid,
      StoredUser, Granted

-----------------------------------------------------------------------------
(* Calls *)

\* A call that is sent takes a free slot and leaves the other calls alone.
LEMMA SendAddsOne ==
    ASSUME Inv, NEW t \in Tab, NEW kind \in Kind, NEW token \in Grant \cup {None},
           NEW user \in User \cup {None}, Send(t, kind, token, user)
    PROVE  /\ call' \in [Slot -> Call \cup {None}]
           /\ \E s \in Slot :
                 /\ ~InFlight(s)
                 /\ call'[s] = [tab |-> t, kind |-> kind, token |-> token, user |-> user,
                                answer |-> "none", grant |-> None]
                 /\ call'[s] \in Call
                 /\ \A r \in Slot \ {s} : call'[r] = call[r]
<1> DEFINE s == CHOOSE s \in Slot : ~InFlight(s)
           new == [tab |-> t, kind |-> kind, token |-> token, user |-> user,
                   answer |-> "none", grant |-> None]
<1>1. s \in Slot /\ ~InFlight(s)
  BY DEF Send
<1>2. call' = [call EXCEPT ![s] = new]
  BY DEF Send
<1>3. new \in Call
  BY DEF Call
<1>4. call \in [Slot -> Call \cup {None}]
  BY DEF Inv, TypeOK
<1> HIDE DEF s, new
<1>5. call' \in [Slot -> Call \cup {None}] /\ call'[s] = new
      /\ \A r \in Slot \ {s} : call'[r] = call[r]
  BY <1>1, <1>2, <1>3, <1>4
<1> QED
  BY <1>1, <1>3, <1>5 DEF new

\* A callback takes its answer and leaves the other calls alone.
LEMMA AnsweredTakesOne ==
    ASSUME Inv, NEW s \in Slot, NEW kind, NEW answer, Answered(s, kind, answer)
    PROVE  /\ call[s] \in Call /\ call[s] # None
           /\ call[s].kind = kind /\ call[s].answer = answer
           /\ call' \in [Slot -> Call \cup {None}]
           /\ call'[s] = None
           /\ \A r \in Slot \ {s} : call'[r] = call[r]
           /\ UNCHANGED faults
  BY DEF Inv, TypeOK, Answered, InFlight

\* An answer is added to its call, which gives up what was sent.
LEMMA AnswerAdds ==
    ASSUME Inv, NEW s \in Slot, InFlight(s), NEW answer \in {"none", "ok", "refused"},
           NEW g \in Grant \cup {None}, Answer(s, answer, g)
    PROVE  /\ call[s] \in Call
           /\ call' \in [Slot -> Call \cup {None}]
           /\ call'[s] \in Call
           /\ call'[s].tab = call[s].tab /\ call'[s].kind = call[s].kind
           /\ call'[s].answer = answer /\ call'[s].grant = g
           /\ call'[s].token = None
           /\ \A r \in Slot \ {s} : call'[r] = call[r]
<1> DEFINE new == [call[s] EXCEPT !.answer = answer, !.grant = g, !.token = None, !.user = None]
<1>1. call \in [Slot -> Call \cup {None}] /\ call[s] \in Call
  BY DEF Inv, TypeOK, InFlight
<1>2. /\ new \in Call
      /\ new.tab = call[s].tab /\ new.kind = call[s].kind
      /\ new.answer = answer /\ new.grant = g /\ new.token = None
  BY <1>1 DEF Call
<1>3. call' = [call EXCEPT ![s] = new]
  BY <1>1 DEF Answer
<1> HIDE DEF new
<1> QED
  BY <1>1, <1>2, <1>3

-----------------------------------------------------------------------------
(* What a step does to the invariant *)

\* Nobody holds more than before, and nothing is forgotten of what is held.
LEMMA HeldStays ==
    ASSUME Inv, NEW s \in Slot,
           access' \in {access, None}, refresh' \in {refresh, None},
           \A r \in Slot \ {s} : call'[r] = call[r],
           call'[s] = None \/ (call'[s].token \in {refresh, None} /\ call'[s].grant = None)
    PROVE  \A g \in Grant : Held(g)' => Held(g)
  BY NoneAssumption DEF Held, Holds, InFlight

\* The grants of the storage stay known if nothing happens but new holders of
\* known grants.
LEMMA RememberKeeps ==
    ASSUME Inv, Remember(grants), \A g \in Grant : Held(g)' => Held(g)
    PROVE  /\ grants' \in [Grant -> Granted \cup {None}]
           /\ HeldIsKnown'
<1>1. grants \in [Grant -> Granted \cup {None}] /\ HeldIsKnown
  BY DEF Inv, TypeOK, TokensInv
<1>2. \A g \in Grant : grants'[g] = IF Held(g)' THEN grants[g] ELSE None
  BY DEF Remember
<1>3. grants' \in [Grant -> Granted \cup {None}]
  BY <1>1 DEF Remember
<1>4. HeldIsKnown'
  BY <1>1, <1>2 DEF HeldIsKnown
<1> QED
  BY <1>3, <1>4

\* A step that leaves the calls' tabs and kinds alone, and the tabs, keeps the
\* renewal jobs.
LEMMA TabsStay ==
    ASSUME Inv, UNCHANGED tabs,
           \A s \in Slot : InFlight(s) => /\ InFlight(s)'
                                          /\ call'[s].tab = call[s].tab
                                          /\ call'[s].kind = call[s].kind
    PROVE  TabsInv'
<1>1. OneRenewalTimer'
  BY DEF Inv, TabsInv, tabs, OneRenewalTimer
<1>2. ConsolesRenew'
  <2> SUFFICES ASSUME NEW t \in Tab, page[t] = "admin", ~(armed[t] > 0), route[t] = "none"
               PROVE  \E s \in Slot : TimerCall(s, t)'
      BY DEF ConsolesRenew, tabs
  <2>1. PICK s \in Slot : TimerCall(s, t)
    BY DEF Inv, TabsInv, ConsolesRenew
  <2> QED
    BY <2>1 DEF TimerCall
<1> QED
  BY <1>1, <1>2 DEF TabsInv

\* The job of a tab is scheduled anew: one timeout is pending.
LEMMA ScheduleArms ==
    ASSUME Inv, NEW t \in Tab, ScheduleAsyncJob(t)
    PROVE  armed' = [armed EXCEPT ![t] = 1] /\ armed' \in [Tab -> Nat]
<1>1. armed \in [Tab -> Nat] /\ armed[t] <= 1 /\ armed[t] \in Nat
  BY DEF Inv, TypeOK, TabsInv, OneRenewalTimer
<1>2. CancelScheduledJob(armed[t]) = 0
  BY <1>1 DEF CancelScheduledJob
<1> QED
  BY <1>1, <1>2 DEF ScheduleAsyncJob

\* A tab that renews, or is on its way, takes no timer and no call of others.
LEMMA OneTabMoves ==
    ASSUME Inv, NEW t \in Tab,
           \A u \in Tab \ {t} : page'[u] = page[u] /\ route'[u] = route[u] /\ armed'[u] = armed[u],
           armed'[t] \in {0, 1, armed[t]},
           page'[t] # "admin" \/ armed'[t] = 1 \/ route'[t] # "none",
           \A s \in Slot : InFlight(s) /\ call[s].tab # t => call'[s] = call[s]
    PROVE  TabsInv'
<1>1. OneRenewalTimer /\ ConsolesRenew
  BY DEF Inv, TabsInv
<1>2. OneRenewalTimer'
  BY <1>1 DEF OneRenewalTimer
<1>3. ConsolesRenew'
  <2> SUFFICES ASSUME NEW u \in Tab, page'[u] = "admin", ~(armed'[u] > 0), route'[u] = "none"
               PROVE  \E s \in Slot : TimerCall(s, u)'
      BY DEF ConsolesRenew
  <2>1. u # t /\ page[u] = "admin" /\ ~(armed[u] > 0) /\ route[u] = "none"
    OBVIOUS
  <2>2. PICK s \in Slot : TimerCall(s, u)
    BY <1>1, <2>1 DEF ConsolesRenew
  <2>3. call'[s] = call[s]
    BY <2>1, <2>2 DEF TimerCall
  <2> QED
    BY <2>2, <2>3 DEF TimerCall, InFlight
<1> QED
  BY <1>2, <1>3 DEF TabsInv

\* A tab goes somewhere: what it shows, and its job, stay.
LEMMA Goes ==
    ASSUME Inv, NEW t \in Tab, NEW r \in Route \ {"none"}, Goto(t, r), UNCHANGED <<page, armed>>,
           \A s \in Slot : InFlight(s) /\ call[s].tab # t => call'[s] = call[s]
    PROVE  TabsInv' /\ route' \in [Tab -> Route]
<1>1. route \in [Tab -> Route]
  BY DEF Inv, TypeOK
<1>2. route' \in [Tab -> Route] /\ route'[t] = r /\ \A u \in Tab \ {t} : route'[u] = route[u]
  BY <1>1 DEF Goto
<1> QED
  BY <1>2, OneTabMoves

\* A page is shown, the console with its renewal scheduled.
LEMMA Shows ==
    ASSUME Inv, NEW t \in Tab, NEW p \in Page, Show(t, p), UNCHANGED call,
           \/ p # "admin" /\ UNCHANGED armed
           \/ ScheduleAsyncJob(t)
    PROVE  /\ TabsInv'
           /\ page' \in [Tab -> Page] /\ route' \in [Tab -> Route] /\ armed' \in [Tab -> Nat]
           /\ identity' \in [Tab -> User \cup {None}]
<1>1. /\ page \in [Tab -> Page] /\ route \in [Tab -> Route] /\ armed \in [Tab -> Nat]
      /\ identity \in [Tab -> User \cup {None}]
  BY DEF Inv, TypeOK
<1>2. /\ page' = [page EXCEPT ![t] = p] /\ route' = [route EXCEPT ![t] = "none"]
      /\ page' \in [Tab -> Page] /\ route' \in [Tab -> Route]
  BY <1>1 DEF Show, Goto, Route
<1>3. identity' \in [Tab -> User \cup {None}]
  BY <1>1, StoredIsKnown DEF Show
<1>4. /\ armed' \in [Tab -> Nat]
      /\ armed' = armed \/ armed' = [armed EXCEPT ![t] = 1]
      /\ p = "admin" => armed' = [armed EXCEPT ![t] = 1]
  BY <1>1, ScheduleArms
<1>5. TabsInv'
  BY <1>1, <1>2, <1>4, OneTabMoves
<1> QED
  BY <1>2, <1>3, <1>4, <1>5

\* IdentityService tells a user or none.
LEMMA TellsSomeone ==
    ASSUME Inv, NEW t \in Tab, NEW user \in User \cup {None}, Tell(t, user)
    PROVE  identity' \in [Tab -> User \cup {None}]
  BY DEF Tell, Inv, TypeOK

\* Steps that touch neither tokens nor calls keep what is known of them.
LEMMA TokensStay ==
    ASSUME Inv, UNCHANGED <<storage, grants, call>>
    PROVE  /\ TokensInv'
           /\ access' \in Grant \cup {None} /\ refresh' \in Grant \cup {None}
           /\ grants' \in [Grant -> Granted \cup {None}]
           /\ call' \in [Slot -> Call \cup {None}]
  BY DEF Inv, TypeOK, TokensInv, OneGrantStored, HeldIsKnown, CallsAreComplete, Held, Holds, InFlight,
     storage

\* A session that is dropped forgets its grant, if nobody else holds it.
LEMMA DropKeepsTokens ==
    ASSUME Inv, access' = None, refresh' = None, Remember(grants),
           \A s \in Slot : call'[s] \in {call[s], None}
    PROVE  /\ OneGrantStored' /\ HeldIsKnown' /\ CallsAreComplete'
           /\ grants' \in [Grant -> Granted \cup {None}]
<1>1. \A g \in Grant : Held(g)' => Held(g)
  BY NoneAssumption DEF Held, Holds, InFlight
<1>2. HeldIsKnown' /\ grants' \in [Grant -> Granted \cup {None}]
  BY <1>1, RememberKeeps
<1>3. OneGrantStored'
  BY DEF OneGrantStored
<1>4. CallsAreComplete'
  BY DEF Inv, TokensInv, CallsAreComplete, InFlight
<1> QED
  BY <1>2, <1>3, <1>4

-----------------------------------------------------------------------------
(* Routes *)

\* A tab that only goes elsewhere.
LEMMA GoesInv ==
    ASSUME Inv, NEW t \in Tab, NEW r \in Route \ {"none"}, Goto(t, r),
           UNCHANGED <<storage, grants, call, page, armed, identity>>, faults' \in 0..MaxFaults
    PROVE  Inv'
<1>1. TabsInv' /\ route' \in [Tab -> Route]
  BY Goes
<1> QED
  BY <1>1, TokensStay DEF Inv, TypeOK

\* A tab that drops the session leaves what it shows.
LEMMA DropsInv ==
    ASSUME Inv, NEW t \in Tab, DropSession(t), Goto(t, "account"),
           UNCHANGED <<call, page, armed, faults>>
    PROVE  Inv'
<1>1. access' = None /\ refresh' = None /\ Remember(grants) /\ Tell(t, None)
  BY DEF DropSession, RemoveSecurityToken
<1>2. TabsInv' /\ route' \in [Tab -> Route]
  BY Goes DEF Route
<1>3. TokensInv' /\ grants' \in [Grant -> Granted \cup {None}]
  BY <1>1, DropKeepsTokens DEF TokensInv
<1>4. identity' \in [Tab -> User \cup {None}]
  BY <1>1, TellsSomeone
<1> QED
  BY <1>1, <1>2, <1>3, <1>4 DEF Inv, TypeOK

\* A console is entered with its renewal scheduled.
LEMMA EnterAdminInv ==
    ASSUME Inv, NEW t \in Tab, EnterAdmin(t), UNCHANGED faults PROVE Inv'
<1>1. CASE IsAuthenticated \/ CanReauthenticate
  <2>1. ScheduleAsyncJob(t) /\ Show(t, "admin") /\ UNCHANGED <<storage, grants, call>>
    BY <1>1, StoredIsKnown DEF EnterAdmin, ScheduleTokenRenewal
  <2>2. /\ TabsInv'
        /\ page' \in [Tab -> Page] /\ route' \in [Tab -> Route] /\ armed' \in [Tab -> Nat]
        /\ identity' \in [Tab -> User \cup {None}]
    BY <2>1, Shows DEF Page
  <2> QED
    BY <2>1, <2>2, TokensStay DEF Inv, TypeOK
<1>2. CASE ~IsAuthenticated /\ ~CanReauthenticate
  <2>1. DropSession(t) /\ Goto(t, "account") /\ UNCHANGED <<call, page, armed>>
    BY <1>2 DEF EnterAdmin
  <2> QED
    BY <2>1, DropsInv
<1> QED
  BY <1>1, <1>2

\* The login page, a renewal that the guard awaits, or the console.
LEMMA EnterAccountInv ==
    ASSUME Inv, NEW t \in Tab, EnterAccount(t), UNCHANGED faults PROVE Inv'
<1>1. CASE Show(t, "login") /\ UNCHANGED <<storage, grants, call, armed>>
  <2>1. /\ TabsInv'
        /\ page' \in [Tab -> Page] /\ route' \in [Tab -> Route] /\ armed' \in [Tab -> Nat]
        /\ identity' \in [Tab -> User \cup {None}]
    BY <1>1, Shows DEF Page
  <2> QED
    BY <1>1, <2>1, TokensStay DEF Inv, TypeOK
<1>2. CASE /\ Reauthenticate(t, "guard") /\ Goto(t, "guard")
           /\ UNCHANGED <<storage, grants, page, armed, identity>>
  <2>1. Send(t, "guard", refresh, None)
    BY <1>2 DEF Reauthenticate
  <2>2. refresh \in Grant \cup {None} /\ "guard" \in Kind
    BY DEF Inv, TypeOK, Kind
  <2>3. PICK s \in Slot :
          /\ ~InFlight(s)
          /\ call'[s] = [tab |-> t, kind |-> "guard", token |-> refresh, user |-> None,
                         answer |-> "none", grant |-> None]
          /\ \A r \in Slot \ {s} : call'[r] = call[r]
    BY <2>1, <2>2, SendAddsOne
  <2>4. call' \in [Slot -> Call \cup {None}]
    BY <2>1, <2>2, SendAddsOne
  <2>5. TabsInv' /\ route' \in [Tab -> Route]
    BY <1>2, <2>3, Goes DEF Route, InFlight
  <2>6. TokensInv'
    <3>1. \A g \in Grant : Held(g)' => Held(g)
      BY <1>2, <2>3, HeldStays DEF storage
    <3>2. OneGrantStored' /\ HeldIsKnown'
      BY <1>2, <3>1 DEF storage, Inv, TokensInv, OneGrantStored, HeldIsKnown
    <3>3. CallsAreComplete'
      BY <2>3 DEF Inv, TokensInv, CallsAreComplete, InFlight
    <3> QED
      BY <3>2, <3>3 DEF TokensInv
  <2> QED
    BY <1>2, <2>4, <2>5, <2>6 DEF Inv, TypeOK, storage
<1>3. CASE Goto(t, "admin") /\ UNCHANGED <<storage, grants, call, page, armed, identity>>
  <2>1. faults' \in 0..MaxFaults
    BY DEF Inv, TypeOK
  <2> QED
    BY <1>3, <2>1, GoesInv DEF Route
<1> QED
  BY <1>1, <1>2, <1>3 DEF EnterAccount

\* A guard decides, or users go elsewhere before it does.
LEMMA RouteInv == ASSUME Inv, NEW t \in Tab, Guard(t) \/ Navigate(t) PROVE Inv'
<1>1. CASE Guard(t)
  BY <1>1, EnterAdminInv, EnterAccountInv DEF Guard
<1>2. CASE Navigate(t)
  <2>1. PICK r \in Opened : Goto(t, r)
    BY <1>2 DEF Navigate
  <2>2. UNCHANGED <<storage, grants, call, page, armed, identity>> /\ faults' \in 0..MaxFaults
    BY <1>2, BoundsAssumption DEF Navigate, Disturb, Inv, TypeOK
  <2> QED
    BY <2>1, <2>2, GoesInv DEF Opened, Route
<1> QED
  BY <1>1, <1>2

\* No tokens, no user, and a tab that leaves.
LEMMA LogOutInv == ASSUME Inv, NEW t \in Tab, LogOut(t) PROVE Inv'
  BY DropsInv DEF LogOut

\* What a call of the tab used up is forgotten with it.
LEMMA ReloadInv == ASSUME Inv, NEW t \in Tab, Reload(t) PROVE Inv'
<1>1. PICK served \in SUBSET InFlightOf(t) :
        LET spent == {call[s].token : s \in served} IN
        Remember([g \in Grant |-> IF g \in spent THEN [grants[g] EXCEPT !.usable = FALSE]
                                  ELSE grants[g]])
  BY DEF Reload
<1> DEFINE known == [g \in Grant |-> IF g \in {call[s].token : s \in served}
                                     THEN [grants[g] EXCEPT !.usable = FALSE] ELSE grants[g]]
<1>2. /\ call' = [s \in Slot |-> IF s \in InFlightOf(t) THEN None ELSE call[s]]
      /\ UNCHANGED <<access, refresh>>
      /\ page' = [page EXCEPT ![t] = "starting"]
      /\ armed' = [armed EXCEPT ![t] = 0] /\ identity' = [identity EXCEPT ![t] = None]
      /\ faults' \in 0..MaxFaults
  BY BoundsAssumption DEF Reload, Disturb, storage, Inv, TypeOK
<1>3. /\ call' \in [Slot -> Call \cup {None}]
      /\ \A s \in Slot : call'[s] \in {call[s], None}
      /\ \A s \in Slot : InFlight(s) /\ call[s].tab # t => call'[s] = call[s]
  BY <1>2 DEF Inv, TypeOK, InFlightOf
<1>4. /\ TabsInv'
      /\ page' \in [Tab -> Page] /\ route' \in [Tab -> Route] /\ armed' \in [Tab -> Nat]
      /\ identity' \in [Tab -> User \cup {None}]
  <2>1. PICK r \in Route : Goto(t, r)
    BY DEF Reload, Opened, Route
  <2>2. /\ page \in [Tab -> Page] /\ route \in [Tab -> Route] /\ armed \in [Tab -> Nat]
        /\ identity \in [Tab -> User \cup {None}]
    BY DEF Inv, TypeOK
  <2>3. /\ page' \in [Tab -> Page] /\ route' \in [Tab -> Route] /\ armed' \in [Tab -> Nat]
        /\ identity' \in [Tab -> User \cup {None}]
        /\ \A u \in Tab \ {t} : page'[u] = page[u] /\ route'[u] = route[u] /\ armed'[u] = armed[u]
        /\ page'[t] = "starting" /\ armed'[t] = 0
    BY <1>2, <2>1, <2>2 DEF Goto, Page
  <2> QED
    BY <1>3, <2>3, OneTabMoves
<1>5. \A g \in Grant : Held(g)' => Held(g)
  BY <1>2, <1>3 DEF Held, Holds, InFlight
<1>6. \A g \in Grant : (\E s \in served : g = call[s].token) => grants[g] \in Granted
  <2> SUFFICES ASSUME NEW s \in served, call[s].token \in Grant
               PROVE  grants[call[s].token] \in Granted
      OBVIOUS
  <2>1. s \in Slot /\ InFlight(s)
    BY DEF InFlightOf
  <2>2. Held(call[s].token)
    BY <2>1 DEF Held, Holds
  <2> QED
    BY <2>2 DEF Inv, TypeOK, TokensInv, HeldIsKnown
<1>7. \A g \in Grant : /\ known[g] \in Granted \cup {None}
                       /\ grants[g] # None => known[g] # None
  BY <1>6, NoRecordAssumption DEF Inv, TypeOK, Granted
<1>8. \A g \in Grant : grants'[g] = IF Held(g)' THEN known[g] ELSE None
  BY <1>1 DEF Remember
<1>9. grants' \in [Grant -> Granted \cup {None}]
  BY <1>1, <1>7 DEF Remember
<1>10. TokensInv'
  <2>1. HeldIsKnown'
    BY <1>5, <1>7, <1>8 DEF Inv, TokensInv, HeldIsKnown
  <2>2. OneGrantStored' /\ CallsAreComplete'
    BY <1>2, <1>3 DEF Inv, TokensInv, OneGrantStored, CallsAreComplete, InFlight
  <2> QED
    BY <2>1, <2>2 DEF TokensInv
<1> QED
  BY <1>2, <1>3, <1>4, <1>9, <1>10 DEF Inv, TypeOK

-----------------------------------------------------------------------------
(* Calls and answers *)

\* A login in flight tells the user.
LEMMA SubmitLoginInv ==
    ASSUME Inv, NEW t \in Tab, NEW u \in User, SubmitLogin(t, u) PROVE Inv'
<1>1. Send(t, "login", None, u) /\ UNCHANGED <<storage, grants, tabs, faults>>
  BY DEF SubmitLogin
<1>2. "login" \in Kind
  BY DEF Kind
<1>3. call' \in [Slot -> Call \cup {None}]
  BY <1>1, <1>2, SendAddsOne
<1>4. PICK s \in Slot :
        /\ ~InFlight(s)
        /\ call'[s] = [tab |-> t, kind |-> "login", token |-> None, user |-> u,
                       answer |-> "none", grant |-> None]
        /\ \A r \in Slot \ {s} : call'[r] = call[r]
  BY <1>1, <1>2, SendAddsOne
<1>5. TabsInv'
  BY <1>1, <1>4, TabsStay DEF InFlight
<1>6. \A g \in Grant : Held(g)' => Held(g)
  BY <1>1, <1>4, HeldStays DEF storage
<1>7. TokensInv'
  <2>1. OneGrantStored' /\ HeldIsKnown'
    BY <1>1, <1>6 DEF Inv, TokensInv, OneGrantStored, HeldIsKnown, storage
  <2>2. CallsAreComplete'
    BY <1>4, NoneAssumption DEF Inv, TokensInv, CallsAreComplete, InFlight
  <2> QED
    BY <2>1, <2>2 DEF TokensInv
<1> QED
  BY <1>1, <1>3, <1>5, <1>7 DEF Inv, TypeOK, storage, tabs

\* The pending timeout becomes a call.
LEMMA TimerFiresInv == ASSUME Inv, NEW t \in Tab, TimerFires(t) PROVE Inv'
<1>1. /\ Send(t, "timer", refresh, None)
      /\ armed' = [armed EXCEPT ![t] = armed[t] - 1] /\ armed[t] > 0
      /\ UNCHANGED <<storage, grants, page, route, identity, faults>>
  BY DEF TimerFires, Reauthenticate
<1>2. "timer" \in Kind /\ refresh \in Grant \cup {None}
  BY DEF Kind, Inv, TypeOK
<1>3. call' \in [Slot -> Call \cup {None}]
  BY <1>1, <1>2, SendAddsOne
<1>4. PICK s \in Slot :
        /\ ~InFlight(s)
        /\ call'[s] = [tab |-> t, kind |-> "timer", token |-> refresh, user |-> None,
                       answer |-> "none", grant |-> None]
        /\ call'[s] \in Call
        /\ \A r \in Slot \ {s} : call'[r] = call[r]
  BY <1>1, <1>2, SendAddsOne
<1>5. armed \in [Tab -> Nat] /\ armed' \in [Tab -> Nat] /\ OneRenewalTimer'
  BY <1>1 DEF Inv, TypeOK, TabsInv, OneRenewalTimer
<1>6. ConsolesRenew'
  <2> SUFFICES ASSUME NEW u \in Tab, page[u] = "admin", ~(armed'[u] > 0), route[u] = "none"
               PROVE  \E r \in Slot : TimerCall(r, u)'
      BY <1>1 DEF ConsolesRenew
  <2>1. CASE u = t
    BY <2>1, <1>4, NoRecordAssumption DEF TimerCall, InFlight
  <2>2. CASE u # t
    <3>1. ~(armed[u] > 0)
      BY <1>1, <1>5, <2>2
    <3>2. PICK r \in Slot : TimerCall(r, u)
      BY <3>1 DEF Inv, TabsInv, ConsolesRenew
    <3> QED
      BY <3>2, <1>4 DEF TimerCall, InFlight
  <2> QED
    BY <2>1, <2>2
<1>7. \A g \in Grant : Held(g)' => Held(g)
  BY <1>1, <1>4, HeldStays DEF storage
<1>8. TokensInv'
  BY <1>1, <1>4, <1>7 DEF Inv, TokensInv, OneGrantStored, HeldIsKnown, CallsAreComplete, InFlight, storage
<1> QED
  BY <1>1, <1>3, <1>5, <1>6, <1>8 DEF Inv, TypeOK, TabsInv, storage

\* Tokens that came with an answer are stored and their user told; the tab goes
\* to the console, or schedules its renewal where it is.
LEMMA StoreInv ==
    ASSUME Inv, NEW s \in Slot, NEW kind, Answered(s, kind, "ok"),
           SetSecurityToken(call[s].tab, call[s].grant), Remember(grants), UNCHANGED page,
           \/ Goto(call[s].tab, "admin") /\ UNCHANGED armed
           \/ ScheduleAsyncJob(call[s].tab) /\ UNCHANGED route
    PROVE  Inv'
<1>1. /\ call[s] \in Call /\ call[s] # None /\ call[s].answer = "ok"
      /\ call' \in [Slot -> Call \cup {None}]
      /\ call'[s] = None
      /\ \A r \in Slot \ {s} : call'[r] = call[r]
      /\ UNCHANGED faults
  BY AnsweredTakesOne
<1>2. call[s].tab \in Tab /\ call[s].grant \in Grant
  BY <1>1 DEF Inv, TokensInv, CallsAreComplete, InFlight, Call
<1>3. grants[call[s].grant] \in Granted
  <2>1. Held(call[s].grant)
    BY <1>1 DEF Held, Holds, InFlight
  <2> QED
    BY <1>2, <2>1 DEF Inv, TypeOK, TokensInv, HeldIsKnown
<1>4. /\ access' = call[s].grant /\ refresh' = call[s].grant
      /\ Tell(call[s].tab, grants[call[s].grant].user)
      /\ grants[call[s].grant].user \in User \cup {None}
  BY <1>3 DEF SetSecurityToken, Granted
<1>5. \A r \in Slot : InFlight(r) /\ call[r].tab # call[s].tab => call'[r] = call[r]
  BY <1>1
<1>6. TabsInv' /\ route' \in [Tab -> Route] /\ armed' \in [Tab -> Nat]
  <2>1. route \in [Tab -> Route] /\ armed \in [Tab -> Nat]
    BY DEF Inv, TypeOK
  <2>2. CASE Goto(call[s].tab, "admin") /\ UNCHANGED armed
    BY <1>2, <1>5, <2>1, <2>2, Goes DEF Route
  <2>3. CASE ScheduleAsyncJob(call[s].tab) /\ UNCHANGED route
    <3>1. armed' = [armed EXCEPT ![call[s].tab] = 1] /\ armed' \in [Tab -> Nat]
      BY <1>2, <2>3, ScheduleArms
    <3>2. TabsInv'
      BY <1>2, <1>5, <2>1, <2>3, <3>1, OneTabMoves
    <3> QED
      BY <2>1, <2>3, <3>1, <3>2
  <2> QED
    BY <2>2, <2>3
<1>7. \A g \in Grant : Held(g)' => Held(g)
  BY <1>1, <1>4 DEF Held, Holds, InFlight
<1>8. HeldIsKnown' /\ grants' \in [Grant -> Granted \cup {None}]
  BY <1>7, RememberKeeps
<1>9. OneGrantStored' /\ CallsAreComplete'
  BY <1>1, <1>4 DEF Inv, TokensInv, OneGrantStored, CallsAreComplete, InFlight
<1>10. identity' \in [Tab -> User \cup {None}]
  BY <1>2, <1>4, TellsSomeone
<1> QED
  BY <1>1, <1>2, <1>4, <1>6, <1>8, <1>9, <1>10 DEF Inv, TypeOK, TokensInv

\* A refused login changes no token.
LEMMA LoginFailsInv == ASSUME Inv, NEW s \in Slot, LoginFails(s) PROVE Inv'
<1>1. Answered(s, "login", "refused") /\ UNCHANGED <<storage, grants, tabs>>
  BY DEF LoginFails
<1>2. /\ call[s].kind = "login"
      /\ call' \in [Slot -> Call \cup {None}]
      /\ call'[s] = None
      /\ \A r \in Slot \ {s} : call'[r] = call[r]
      /\ UNCHANGED faults
  BY <1>1, AnsweredTakesOne
<1>3. OneRenewalTimer'
  BY <1>1 DEF Inv, TabsInv, OneRenewalTimer, tabs
<1>4. ConsolesRenew'
  <2> SUFFICES ASSUME NEW t \in Tab, page[t] = "admin", ~(armed[t] > 0), route[t] = "none"
               PROVE  \E r \in Slot : TimerCall(r, t)'
      BY <1>1 DEF ConsolesRenew, tabs
  <2>1. PICK r \in Slot : TimerCall(r, t)
    BY DEF Inv, TabsInv, ConsolesRenew
  <2>2. r # s
    BY <1>2, <2>1 DEF TimerCall
  <2> QED
    BY <1>2, <2>1, <2>2 DEF TimerCall, InFlight
<1>5. \A g \in Grant : Held(g)' => Held(g)
  BY <1>1, <1>2 DEF Held, Holds, InFlight, storage
<1>6. TokensInv'
  BY <1>1, <1>2, <1>5 DEF Inv, TokensInv, OneGrantStored, HeldIsKnown, CallsAreComplete, InFlight, storage
<1> QED
  BY <1>1, <1>2, <1>3, <1>4, <1>6 DEF Inv, TypeOK, TabsInv, storage, tabs

\* A refused renewal drops the tokens and leaves for the account route.
LEMMA RenewalFailsInv == ASSUME Inv, NEW s \in Slot, RenewalFails(s) PROVE Inv'
<1>1. PICK kind \in {"timer", "guard"} : Answered(s, kind, "refused")
  BY DEF RenewalFails
<1>2. /\ call[s] \in Call
      /\ call' \in [Slot -> Call \cup {None}]
      /\ call'[s] = None
      /\ \A r \in Slot \ {s} : call'[r] = call[r]
      /\ UNCHANGED faults
  BY <1>1, AnsweredTakesOne
<1>3. /\ access' = None /\ refresh' = None /\ Remember(grants)
      /\ Tell(call[s].tab, None)
      /\ Goto(call[s].tab, "account") /\ UNCHANGED <<page, armed>>
  BY DEF RenewalFails, RemoveSecurityToken
<1>4. /\ call[s].tab \in Tab
      /\ \A r \in Slot : InFlight(r) /\ call[r].tab # call[s].tab => call'[r] = call[r]
      /\ \A r \in Slot : call'[r] \in {call[r], None}
  BY <1>2 DEF Call
<1>5. TabsInv' /\ route' \in [Tab -> Route]
  BY <1>3, <1>4, Goes DEF Route
<1>6. TokensInv' /\ grants' \in [Grant -> Granted \cup {None}]
  BY <1>3, <1>4, DropKeepsTokens DEF TokensInv
<1>7. identity' \in [Tab -> User \cup {None}]
  BY <1>3, <1>4, TellsSomeone
<1> QED
  BY <1>2, <1>3, <1>5, <1>6, <1>7 DEF Inv, TypeOK

\* Every answer.
LEMMA ReceiveInv == ASSUME Inv, NEW s \in Slot, Receive(s) PROVE Inv'
<1>1. CASE LoginSucceeds(s)
  BY <1>1, StoreInv DEF LoginSucceeds, StoreAndLeave
<1>2. CASE GuardSucceeds(s)
  BY <1>2, StoreInv DEF GuardSucceeds, StoreAndLeave
<1>3. CASE RenewalSucceeds(s)
  BY <1>3, StoreInv DEF RenewalSucceeds
<1>4. CASE LoginFails(s) \/ RenewalFails(s)
  BY <1>4, LoginFailsInv, RenewalFailsInv
<1> QED
  BY <1>1, <1>2, <1>3, <1>4 DEF Receive

-----------------------------------------------------------------------------
(* The token endpoint, the network and the clock *)

\* A call that is refused, or lost, holds nothing any more.
LEMMA RefusedInv ==
    ASSUME Inv, NEW s \in Slot, InFlight(s), Answer(s, "refused", None), Remember(grants),
           UNCHANGED <<storage, tabs>>, faults' \in 0..MaxFaults
    PROVE  Inv'
<1>1. /\ call' \in [Slot -> Call \cup {None}]
      /\ call'[s] \in Call
      /\ call'[s].tab = call[s].tab /\ call'[s].kind = call[s].kind
      /\ call'[s].answer = "refused" /\ call'[s].grant = None /\ call'[s].token = None
      /\ \A r \in Slot \ {s} : call'[r] = call[r]
  BY AnswerAdds
<1>2. TabsInv'
  BY <1>1, TabsStay, NoRecordAssumption DEF InFlight
<1>3. \A g \in Grant : Held(g)' => Held(g)
  BY <1>1, HeldStays DEF storage
<1>4. HeldIsKnown' /\ grants' \in [Grant -> Granted \cup {None}]
  BY <1>3, RememberKeeps
<1>5. OneGrantStored' /\ CallsAreComplete'
  BY <1>1 DEF Inv, TokensInv, OneGrantStored, CallsAreComplete, InFlight, storage
<1> QED
  BY <1>1, <1>2, <1>4, <1>5 DEF Inv, TypeOK, TokensInv, storage, tabs

\* A grant that nobody held goes to the call, whose own token is used up.
LEMMA GrantTokensInv ==
    ASSUME Inv, NEW s \in Slot, InFlight(s), NEW u \in User, GrantTokens(s, u) PROVE Inv'
<1> DEFINE g == CHOOSE g \in Grant : ~Held(g)
           known == [Spent(call[s].token) EXCEPT
                       ![g] = [user |-> u, usable |-> TRUE, age |-> "fresh"]]
<1>1. g \in Grant /\ ~Held(g)
  BY DEF GrantTokens
<1>2. Answer(s, "ok", g) /\ Remember(known) /\ UNCHANGED <<storage, tabs, faults>>
  BY DEF GrantTokens
<1>3. /\ call[s] \in Call
      /\ call' \in [Slot -> Call \cup {None}]
      /\ call'[s] \in Call
      /\ call'[s].tab = call[s].tab /\ call'[s].kind = call[s].kind
      /\ call'[s].answer = "ok" /\ call'[s].grant = g /\ call'[s].token = None
      /\ \A r \in Slot \ {s} : call'[r] = call[r]
  BY <1>1, <1>2, AnswerAdds
<1>4. /\ Spent(call[s].token) \in [Grant -> Granted \cup {None}]
      /\ \A h \in Grant : Held(h) => Spent(call[s].token)[h] # None
  <2>1. /\ grants \in [Grant -> Granted \cup {None}] /\ HeldIsKnown
        /\ call[s].token \in Grant \cup {None}
    BY <1>3 DEF Inv, TypeOK, TokensInv, Call
  <2>2. CASE call[s].token = None
    BY <2>1, <2>2 DEF Spent, HeldIsKnown
  <2>3. CASE call[s].token \in Grant
    <3>1. Held(call[s].token)
      BY <2>3 DEF Held, Holds
    <3>2. grants[call[s].token] \in Granted
      BY <2>1, <2>3, <3>1 DEF HeldIsKnown
    <3>3. [grants[call[s].token] EXCEPT !.usable = FALSE] \in Granted
      BY <3>2 DEF Granted
    <3>4. Spent(call[s].token)
            = [grants EXCEPT ![call[s].token] = [grants[call[s].token] EXCEPT !.usable = FALSE]]
      BY <2>1, <2>3, NoneAssumption DEF Spent
    <3> QED
      BY <2>1, <2>3, <3>3, <3>4, NoRecordAssumption DEF HeldIsKnown
  <2> QED
    BY <2>1, <2>2, <2>3
<1>5. [user |-> u, usable |-> TRUE, age |-> "fresh"] \in Granted
  BY DEF Granted, Age
<1> HIDE DEF g
<1>6. /\ known \in [Grant -> Granted \cup {None}]
      /\ known[g] # None
      /\ \A h \in Grant : Held(h) => known[h] # None
  BY <1>1, <1>4, <1>5, NoRecordAssumption
<1>7. \A h \in Grant : Held(h)' => Held(h) \/ h = g
  BY <1>2, <1>3, NoneAssumption DEF Held, Holds, InFlight, storage
<1> HIDE DEF known
<1>8. HeldIsKnown' /\ grants' \in [Grant -> Granted \cup {None}]
  BY <1>2, <1>6, <1>7 DEF Remember, HeldIsKnown
<1>9. TabsInv'
  BY <1>2, <1>3, TabsStay, NoRecordAssumption DEF InFlight
<1>10. OneGrantStored' /\ CallsAreComplete'
  BY <1>1, <1>2, <1>3, NoneAssumption
     DEF Inv, TokensInv, OneGrantStored, CallsAreComplete, InFlight, storage
<1> QED
  BY <1>2, <1>3, <1>8, <1>9, <1>10 DEF Inv, TypeOK, TokensInv, storage, tabs

\* Whatever the server does with a call.
LEMMA ServeInv == ASSUME Inv, NEW s \in Slot, Serve(s) PROVE Inv'
<1>1. InFlight(s) /\ call[s] \in Call
  BY DEF Serve, ServeLogin, ServeRenewal, Unserved, InFlight, Inv, TypeOK
<1>2. CASE Refuse(s)
  <2>1. /\ Answer(s, "refused", None) /\ Remember(grants)
        /\ UNCHANGED <<storage, tabs>> /\ faults' \in 0..MaxFaults
    BY <1>2 DEF Refuse, Inv, TypeOK
  <2> QED
    BY <1>1, <2>1, RefusedInv
<1>3. CASE ServeLogin(s) /\ ~Refuse(s)
  <2>1. GrantTokens(s, call[s].user)
    BY <1>3 DEF ServeLogin
  <2>2. CASE call[s].user \in User
    BY <1>1, <2>1, <2>2, GrantTokensInv
  <2>3. call[s].user # None
    BY <1>1, <1>3 DEF ServeLogin, Unserved, Inv, TokensInv, CallsAreComplete
  <2> QED
    BY <1>1, <2>2, <2>3 DEF Call
<1>4. CASE ServeRenewal(s) /\ ~Refuse(s)
  <2>1. IsUsable(call[s].token) /\ GrantTokens(s, grants[call[s].token].user)
    BY <1>4 DEF ServeRenewal
  <2>2. call[s].token \in Grant /\ Held(call[s].token)
    BY <1>1, <2>1 DEF IsUsable, Call, Held, Holds
  <2>3. grants[call[s].token].user \in User
    BY <2>2 DEF Inv, TypeOK, TokensInv, HeldIsKnown, Granted
  <2> QED
    BY <1>1, <2>1, <2>3, GrantTokensInv
<1> QED
  BY <1>2, <1>3, <1>4 DEF Serve

\* A lost call is a refused one.
LEMMA LoseInv == ASSUME Inv, NEW s \in Slot, Lose(s) PROVE Inv'
<1>1. faults' \in 0..MaxFaults
  BY BoundsAssumption DEF Lose, Disturb, Inv, TypeOK
<1> QED
  BY <1>1, RefusedInv DEF Lose

\* The clock and a restart of the API change what is known, not who holds it.
LEMMA ClockInv ==
    ASSUME Inv, (\E g \in Grant : Expire(g) \/ Die(g)) \/ RestartApi PROVE Inv'
<1>1. /\ UNCHANGED <<storage, call, tabs>>
      /\ faults' \in 0..MaxFaults
  BY BoundsAssumption DEF Expire, Die, Older, RestartApi, Disturb, Inv, TypeOK
<1>2. /\ grants' \in [Grant -> Granted \cup {None}]
      /\ \A g \in Grant : grants[g] # None => grants'[g] # None
  <2>1. grants \in [Grant -> Granted \cup {None}]
    BY DEF Inv, TypeOK
  <2>2. CASE RestartApi
    <3>1. \A g \in Grant : grants[g] # None => [grants[g] EXCEPT !.usable = FALSE] \in Granted
      BY <2>1 DEF Granted
    <3> QED
      BY <2>1, <2>2, <3>1, NoRecordAssumption DEF RestartApi
  <2>3. ASSUME NEW g \in Grant, Expire(g) \/ Die(g)
        PROVE  /\ grants' \in [Grant -> Granted \cup {None}]
               /\ \A h \in Grant : grants[h] # None => grants'[h] # None
    <3>1. PICK to \in Age : /\ grants[g] # None
                            /\ grants' = [grants EXCEPT ![g].age = to]
      BY <2>3 DEF Expire, Die, Older, Age
    <3>2. [grants[g] EXCEPT !.age = to] \in Granted
      BY <2>1, <3>1 DEF Granted
    <3>3. grants' = [grants EXCEPT ![g] = [grants[g] EXCEPT !.age = to]]
      BY <2>1, <3>1
    <3> QED
      BY <2>1, <3>2, <3>3, NoRecordAssumption
  <2> QED
    BY <2>2, <2>3
<1>3. \A g \in Grant : Held(g)' => Held(g)
  BY <1>1 DEF Held, Holds, InFlight, storage
<1>4. TokensInv'
  BY <1>1, <1>2, <1>3
     DEF Inv, TokensInv, OneGrantStored, HeldIsKnown, CallsAreComplete, InFlight, storage
<1>5. TabsInv'
  BY <1>1, TabsStay DEF InFlight
<1> QED
  BY <1>1, <1>2, <1>4, <1>5 DEF Inv, TypeOK, storage, tabs

-----------------------------------------------------------------------------
\* Every step keeps the invariant.
LEMMA NextInv == ASSUME Inv, [Next]_vars PROVE Inv'
<1>1. CASE UNCHANGED vars
  <2>1. UNCHANGED <<storage, grants, call>> /\ UNCHANGED tabs /\ UNCHANGED faults
    BY <1>1 DEF vars
  <2> QED
    BY <2>1, TokensStay, TabsStay DEF InFlight, Inv, TypeOK, tabs
<1>2. CASE \E t \in Tab : Use(t) \/ Guard(t) \/ TimerFires(t)
  BY <1>2, ReloadInv, RouteInv, LogOutInv, SubmitLoginInv, TimerFiresInv DEF Use
<1>3. CASE \E s \in Slot : Receive(s) \/ Serve(s) \/ Lose(s)
  BY <1>3, ReceiveInv, ServeInv, LoseInv
<1>4. CASE (\E g \in Grant : Expire(g) \/ Die(g)) \/ RestartApi
  BY <1>4, ClockInv
<1> QED
  BY <1>1, <1>2, <1>3, <1>4 DEF Next

\* The invariant holds always.
LEMMA AlwaysInv == Spec => []Inv
  BY InitInv, NextInv, PTL DEF Spec

\* The state has its types in every reachable state: every route that a tab
\* navigates to is a page (the guards, and the catchError of reauthenticate).
THEOREM TypeCorrect == Spec => []TypeOK
<1>1. Inv => TypeOK
  BY DEF Inv
<1> QED
  BY <1>1, AlwaysInv, PTL

\* A tab has one pending renewal at most, however many tabs and calls there are
\* (SchedulerService).
THEOREM OneTimer == Spec => []OneRenewalTimer
<1>1. Inv => OneRenewalTimer
  BY DEF Inv, TabsInv
<1> QED
  BY <1>1, AlwaysInv, PTL

-----------------------------------------------------------------------------
(* Logouts that last *)

\* After a quiet logout the guards find nothing.
LEMMA QuietHasNothing ==
    ASSUME Inv, Quiet
    PROVE  access = None /\ refresh = None /\ ~IsAuthenticated /\ ~CanReauthenticate
  BY DEF Inv, TokensInv, OneGrantStored, Quiet, IsAuthenticated, CanReauthenticate,
     IsAccessTokenValid, IsRefreshTokenValid

\* The calls in flight after a step are those of before, or ask for nothing.
LEMMA StaysQuiet ==
    ASSUME Quiet, access' = None,
           \A s \in Slot : InFlight(s)' =>
              \/ InFlight(s) /\ call'[s] = call[s]
              \/ call'[s].kind # "login" /\ call'[s].token = None /\ call'[s].grant = None
    PROVE  Quiet'
  BY DEF Quiet, InFlight

\* No route brings tokens back.
LEMMA QuietRoutes ==
    ASSUME Inv, Quiet, NEW t \in Tab, EnterAdmin(t) \/ EnterAccount(t) \/ Navigate(t)
    PROVE  Quiet'
<1>1. access = None /\ ~IsAuthenticated /\ ~CanReauthenticate
  BY QuietHasNothing
<1>2. access' = None /\ UNCHANGED call
  BY <1>1 DEF EnterAdmin, EnterAccount, Navigate, DropSession, RemoveSecurityToken, storage
<1> QED
  BY <1>2, StaysQuiet DEF InFlight

\* Neither a reload nor a logout nor a timeout brings tokens back.
LEMMA QuietUse ==
    ASSUME Inv, Quiet, NEW t \in Tab, Reload(t) \/ LogOut(t) \/ TimerFires(t) PROVE Quiet'
<1>1. CASE Reload(t)
  <2>1. access' = None
    BY <1>1, QuietHasNothing DEF Reload, storage
  <2>2. \A s \in Slot : call'[s] \in {call[s], None}
    BY <1>1 DEF Reload
  <2> QED
    BY <2>1, <2>2, StaysQuiet DEF InFlight
<1>2. CASE LogOut(t)
  BY <1>2, StaysQuiet DEF LogOut, DropSession, RemoveSecurityToken, InFlight
<1>3. CASE TimerFires(t)
  <2>1. /\ Send(t, "timer", refresh, None) /\ UNCHANGED storage
        /\ "timer" \in Kind /\ refresh \in Grant \cup {None}
    BY <1>3 DEF TimerFires, Reauthenticate, Kind, Inv, TypeOK
  <2>2. PICK s \in Slot :
          /\ call'[s] = [tab |-> t, kind |-> "timer", token |-> refresh, user |-> None,
                         answer |-> "none", grant |-> None]
          /\ \A r \in Slot \ {s} : call'[r] = call[r]
    BY <2>1, SendAddsOne
  <2>3. access' = None /\ refresh = None
    BY <2>1, QuietHasNothing DEF storage
  <2> QED
    BY <2>2, <2>3, StaysQuiet DEF InFlight
<1> QED
  BY <1>1, <1>2, <1>3

\* No call of a quiet state has tokens to bring.
LEMMA QuietReceive == ASSUME Inv, Quiet, NEW s \in Slot, Receive(s) PROVE Quiet'
<1>1. ~Answered(s, "login", "ok") /\ ~Answered(s, "login", "refused")
  BY DEF Quiet, Answered
<1>2. ~Answered(s, "guard", "ok") /\ ~Answered(s, "timer", "ok")
  BY DEF Quiet, Answered, Inv, TokensInv, CallsAreComplete
<1>3. RenewalFails(s)
  BY <1>1, <1>2 DEF Receive, LoginSucceeds, LoginFails, GuardSucceeds, RenewalSucceeds
<1>4. access' = None
  BY <1>3 DEF RenewalFails, RemoveSecurityToken
<1>5. PICK kind \in {"timer", "guard"} : Answered(s, kind, "refused")
  BY <1>3 DEF RenewalFails
<1>6. call'[s] = None /\ \A r \in Slot \ {s} : call'[r] = call[r]
  BY <1>5, AnsweredTakesOne
<1> QED
  BY <1>4, <1>6, StaysQuiet DEF InFlight

\* A renewal without a token is refused.
LEMMA QuietServe == ASSUME Inv, Quiet, NEW s \in Slot, Serve(s) \/ Lose(s) PROVE Quiet'
<1>1. InFlight(s) /\ call[s].kind # "login" /\ call[s].token = None
  BY DEF Serve, ServeLogin, ServeRenewal, Unserved, Lose, Quiet
<1>2. Answer(s, "refused", None) /\ UNCHANGED storage
  BY <1>1 DEF Serve, ServeLogin, ServeRenewal, IsUsable, Refuse, Lose
<1>3. /\ call'[s].kind = call[s].kind /\ call'[s].grant = None /\ call'[s].token = None
      /\ \A r \in Slot \ {s} : call'[r] = call[r]
  BY <1>1, <1>2, AnswerAdds
<1>4. access' = None
  BY <1>2, QuietHasNothing DEF storage
<1> QED
  BY <1>1, <1>3, <1>4, StaysQuiet DEF InFlight

\* No step but a login brings tokens back.
LEMMA QuietNext ==
    ASSUME Inv, Quiet, [Next]_vars, ~\E t \in Tab, u \in User : SubmitLogin(t, u)
    PROVE  Quiet'
<1>1. CASE \E t \in Tab : Use(t) \/ Guard(t) \/ TimerFires(t)
  BY <1>1, QuietRoutes, QuietUse DEF Use, Guard
<1>2. CASE \E s \in Slot : Receive(s) \/ Serve(s) \/ Lose(s)
  BY <1>2, QuietReceive, QuietServe
<1>3. CASE (\E g \in Grant : Expire(g) \/ Die(g)) \/ RestartApi \/ UNCHANGED vars
  <2>1. UNCHANGED <<access, call>>
    BY <1>3 DEF Expire, Die, Older, RestartApi, vars, storage
  <2> QED
    BY <2>1 DEF Quiet, InFlight
<1> QED
  BY <1>1, <1>2, <1>3 DEF Next

\* A logout with nothing in flight lasts until somebody logs in, whatever tabs
\* are open and whatever their timers still do (logOut).
THEOREM QuietLogoutsAreKept == Spec => QuietLogoutsLast
<1>1. Inv /\ [Next]_vars
        => [Quiet => Quiet' \/ \E t \in Tab, u \in User : SubmitLogin(t, u)]_vars
  BY QuietNext
<1> QED
  BY <1>1, AlwaysInv, PTL DEF Spec, QuietLogoutsLast
-----------------------------------------------------------------------------
(* Tabs at a guard *)

GuardCall(s, t) == InFlight(s) /\ call[s].tab = t /\ call[s].kind = "guard"

GuardsHaveCalls == \A t \in Tab : route[t] = "guard" => \E s \in Slot : GuardCall(s, t)

\* The tabs that stay at the guard keep their calls.
LEMMA GuardsStay ==
    ASSUME GuardsHaveCalls,
           \A t \in Tab : route'[t] = "guard" =>
              \/ \E s \in Slot : GuardCall(s, t)'
              \/ route[t] = "guard" /\ \A s \in Slot : GuardCall(s, t) => GuardCall(s, t)'
    PROVE  GuardsHaveCalls'
  BY DEF GuardsHaveCalls

\* A tab that goes elsewhere takes no call from other tabs.
LEMMA LeavesGuard ==
    ASSUME Inv, GuardsHaveCalls, NEW t \in Tab, NEW r \in Route \ {"guard"}, Goto(t, r),
           \A s \in Slot : InFlight(s) /\ call[s].tab # t => call'[s] = call[s]
    PROVE  GuardsHaveCalls'
<1>1. route \in [Tab -> Route]
  BY DEF Inv, TypeOK
<1>2. ASSUME NEW u \in Tab, route'[u] = "guard"
      PROVE  route[u] = "guard" /\ u # t
  BY <1>1, <1>2 DEF Goto
<1>3. ASSUME NEW u \in Tab, route'[u] = "guard", NEW s \in Slot, GuardCall(s, u)
      PROVE  GuardCall(s, u)'
  BY <1>2, <1>3 DEF GuardCall, InFlight
<1> QED
  BY <1>2, <1>3, GuardsStay

\* A call that is sent takes no slot of a guard.
LEMMA SendKeepsGuards ==
    ASSUME Inv, GuardsHaveCalls, UNCHANGED route, NEW t \in Tab, NEW kind \in Kind,
           NEW token \in Grant \cup {None}, NEW user \in User \cup {None},
           Send(t, kind, token, user)
    PROVE  GuardsHaveCalls'
<1>1. PICK s \in Slot : ~InFlight(s) /\ \A r \in Slot \ {s} : call'[r] = call[r]
  BY SendAddsOne
<1>2. ASSUME NEW u \in Tab, NEW r \in Slot, GuardCall(r, u) PROVE GuardCall(r, u)'
  BY <1>1, <1>2 DEF GuardCall, InFlight
<1> QED
  BY <1>2, GuardsStay

\* A guard that cannot decide asks for new tokens and waits.
LEMMA RoutesKeepGuards ==
    ASSUME Inv, GuardsHaveCalls, NEW t \in Tab, EnterAdmin(t) \/ EnterAccount(t) \/ Navigate(t)
    PROVE  GuardsHaveCalls'
<1>1. CASE UNCHANGED call /\ \E r \in Route \ {"guard"} : Goto(t, r)
  BY <1>1, LeavesGuard
<1>2. CASE Reauthenticate(t, "guard") /\ Goto(t, "guard")
  <2>1. /\ Send(t, "guard", refresh, None) /\ route \in [Tab -> Route]
        /\ refresh \in Grant \cup {None} /\ "guard" \in Kind
    BY <1>2 DEF Reauthenticate, Inv, TypeOK, Kind
  <2>2. PICK s \in Slot :
          /\ ~InFlight(s)
          /\ call'[s] = [tab |-> t, kind |-> "guard", token |-> refresh, user |-> None,
                         answer |-> "none", grant |-> None]
          /\ call'[s] \in Call
          /\ \A r \in Slot \ {s} : call'[r] = call[r]
    BY <2>1, SendAddsOne
  <2>3. GuardCall(s, t)'
    BY <2>2, NoRecordAssumption DEF GuardCall, InFlight
  <2>4. ASSUME NEW u \in Tab \ {t}, route'[u] = "guard" PROVE route[u] = "guard"
    BY <1>2, <2>1, <2>4 DEF Goto
  <2>5. ASSUME NEW u \in Tab, NEW r \in Slot, GuardCall(r, u) PROVE GuardCall(r, u)'
    BY <2>2, <2>5 DEF GuardCall, InFlight
  <2> QED
    BY <2>3, <2>4, <2>5, GuardsStay
<1> QED
  BY <1>1, <1>2 DEF EnterAdmin, EnterAccount, Navigate, Show, Route, Opened

\* Reloads, logouts, logins and timeouts.
LEMMA UseKeepsGuards ==
    ASSUME Inv, GuardsHaveCalls, NEW t \in Tab, Use(t) \/ Guard(t) \/ TimerFires(t)
    PROVE  GuardsHaveCalls'
<1>1. CASE Reload(t)
  <2>1. PICK r \in Route \ {"guard"} : Goto(t, r)
    BY <1>1 DEF Reload, Opened, Route
  <2>2. ASSUME NEW s \in Slot, InFlight(s), call[s].tab # t PROVE call'[s] = call[s]
    BY <1>1, <2>2 DEF Reload, InFlightOf
  <2> QED
    BY <2>1, <2>2, LeavesGuard
<1>2. CASE LogOut(t)
  BY <1>2, LeavesGuard DEF LogOut, Route
<1>3. CASE Navigate(t) \/ Guard(t)
  BY <1>3, RoutesKeepGuards DEF Guard
<1>4. ASSUME NEW u \in User, SubmitLogin(t, u) PROVE GuardsHaveCalls'
  BY <1>4, SendKeepsGuards DEF SubmitLogin, Kind, tabs
<1>5. CASE TimerFires(t)
  BY <1>5, SendKeepsGuards DEF TimerFires, Reauthenticate, Kind, Inv, TypeOK
<1> QED
  BY <1>1, <1>2, <1>3, <1>4, <1>5 DEF Use

\* The answer to a guard leaves it; other answers leave the guard's call alone.
LEMMA ReceiveKeepsGuards ==
    ASSUME Inv, GuardsHaveCalls, NEW s \in Slot, Receive(s) PROVE GuardsHaveCalls'
<1>1. PICK kind \in Kind, answer \in {"ok", "refused"} : Answered(s, kind, answer)
  BY DEF Receive, LoginSucceeds, LoginFails, GuardSucceeds, RenewalSucceeds, RenewalFails, Kind
<1>2. /\ call[s] \in Call /\ call[s].kind = kind
      /\ \A r \in Slot \ {s} : call'[r] = call[r]
  BY <1>1, AnsweredTakesOne
<1>3. CASE \E r \in {"admin", "account"} : Goto(call[s].tab, r)
  BY <1>2, <1>3, LeavesGuard DEF Call, Route
<1>4. CASE RenewalSucceeds(s) \/ LoginFails(s)
  <2>1. call[s].kind # "guard" /\ UNCHANGED route
    BY <1>4 DEF RenewalSucceeds, LoginFails, Answered, tabs
  <2>2. ASSUME NEW u \in Tab, NEW r \in Slot, GuardCall(r, u) PROVE GuardCall(r, u)'
    BY <1>2, <2>1, <2>2 DEF GuardCall, InFlight
  <2> QED
    BY <2>1, <2>2, GuardsStay
<1> QED
  BY <1>3, <1>4 DEF Receive, LoginSucceeds, GuardSucceeds, RenewalFails, StoreAndLeave

\* A call that is served or lost is still the guard's.
LEMMA ServeKeepsGuards ==
    ASSUME Inv, GuardsHaveCalls, NEW s \in Slot, Serve(s) \/ Lose(s) PROVE GuardsHaveCalls'
<1>1. /\ InFlight(s) /\ UNCHANGED route
      /\ \E answer \in {"ok", "refused"}, g \in Grant \cup {None} : Answer(s, answer, g)
  BY DEF Serve, ServeLogin, ServeRenewal, Unserved, GrantTokens, Refuse, Lose, tabs
<1>2. /\ call'[s] \in Call
      /\ call'[s].tab = call[s].tab /\ call'[s].kind = call[s].kind
      /\ \A r \in Slot \ {s} : call'[r] = call[r]
  BY <1>1, AnswerAdds
<1>3. ASSUME NEW u \in Tab, NEW r \in Slot, GuardCall(r, u) PROVE GuardCall(r, u)'
  BY <1>2, <1>3, NoRecordAssumption DEF GuardCall, InFlight
<1> QED
  BY <1>1, <1>3, GuardsStay

\* Every step keeps the calls of the tabs that wait.
LEMMA NextKeepsGuards ==
    ASSUME Inv, GuardsHaveCalls, [Next]_vars PROVE GuardsHaveCalls'
<1>1. CASE \E t \in Tab : Use(t) \/ Guard(t) \/ TimerFires(t)
  BY <1>1, UseKeepsGuards
<1>2. CASE \E s \in Slot : Receive(s) \/ Serve(s) \/ Lose(s)
  BY <1>2, ReceiveKeepsGuards, ServeKeepsGuards
<1>3. CASE (\E g \in Grant : Expire(g) \/ Die(g)) \/ RestartApi \/ UNCHANGED vars
  <2>1. UNCHANGED <<route, call>>
    BY <1>3 DEF Expire, Die, Older, RestartApi, vars, tabs
  <2> QED
    BY <2>1 DEF GuardsHaveCalls, GuardCall, InFlight
<1> QED
  BY <1>1, <1>2, <1>3 DEF Next

\* However many tabs and calls there are, a console with a refresh token has a timeout
\* pending or a renewal under way (AuthenticationSchedulerService), and a tab that waits
\* at a guard the renewal it waits for (NotAuthenticatedGuard).
THEOREM TabsAlwaysRenew == Spec => []TabsRenew
<1>1. Init => GuardsHaveCalls
  BY DEF Init, Opened, GuardsHaveCalls
<1>2. Inv /\ GuardsHaveCalls /\ [Next]_vars => GuardsHaveCalls'
  BY NextKeepsGuards
<1>3. Inv => ConsoleTabsRenew
  BY DEF Inv, TabsInv, ConsolesRenew, ConsoleTabsRenew, TimerCall, InFlightOf
<1>4. GuardsHaveCalls => GuardingTabsWait
  BY DEF GuardsHaveCalls, GuardCall, GuardingTabsWait, InFlightOf
<1>5. Inv /\ GuardsHaveCalls => TabsRenew
  BY <1>3, <1>4 DEF TabsRenew
<1> QED
  BY <1>1, <1>2, <1>5, AlwaysInv, PTL DEF Spec
=============================================================================
