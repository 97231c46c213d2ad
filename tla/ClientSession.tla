----------------------------- MODULE ClientSession -----------------------------
(***************************************************************************)
(* The session of a user, as the server keeps it and as one tab of the web *)
(* client believes it to be: logging in and out, the auto logout of idle   *)
(* users, the routes' gates, and the licences a user has to agree to.      *)
(*                                                                         *)
(* The tab is modelled in detail.  The other tabs of the browser share its *)
(* session, and act on the server only.  A time is written as the number   *)
(* of clock ticks that are left until it.                                  *)
(***************************************************************************)
EXTENDS Naturals, FiniteSets

CONSTANTS Licenses,
          Pings,      \* bound: the user_active requests of the tab in flight
          MaxInFlight, \* bound: the requests of the tab in flight, of any kind
          Limit,      \* AUTO_LOGOUT_SECONDS, in ticks
          WarningAt   \* AUTO_LOGOUT_WARNING_AT_SECONDS_LEFT, in ticks

ASSUME LimitAssumption == Limit \in Nat \ {0} /\ WarningAt \in 0..Limit

Forms == {"auth", "login", "logout", "patch"}
ASSUME PingsAssumption == Pings \cap Forms = {}

Requests == Forms \cup Pings

\* autoLogoutAt is null.
Never == Limit + 1

VARIABLES
    session,    \* server: is there a session, and how long until it is idle too long
    agreed,     \* server: the licences the user has agreed to
    requests,   \* the requests of the tab, at most one of each kind
    user,       \* store: data ("page" is the text of a page taken for a user),
                \* its accepted licences, and isLoading
    deadline,   \* store: the time left until autoLogoutAt
    route,
    checks,     \* the live check intervals (checkAutoLogoutIntervalId is set iff > 0)
    warnings,   \* the live warning intervals, and so the warning dialog
    listening,  \* isSendingUserActivePings and its input listeners
    throttled,  \* ~sendPing
    dialogs,    \* the other dialogs that are open
    draft,      \* Account's acceptedLicenses, while that page is mounted
    saved       \* Account's showSavedMessage

server == <<session, agreed>>
timers == <<checks, warnings, listening, throttled>>
account == <<draft, saved>>
tab == <<user, deadline, route, timers, dialogs, account>>
sessionVars == <<server, requests, tab>>

Request == [phase : {"idle", "sent", "answered", "failed"},
            body : {"", "page", "user"}, licenses : SUBSET Licenses, left : 0..Never]

Idle == [phase |-> "idle", body |-> "", licenses |-> {}, left |-> Never]
Sent(ls) == [Idle EXCEPT !.phase = "sent", !.licenses = ls]
Answer(body, ls, left) ==
    [phase |-> "answered", body |-> body, licenses |-> ls, left |-> left]

\* The requests rs and, within the bounds, a new one r.
Send(rs, r, ls) ==
    /\ rs[r].phase = "idle"
    /\ Cardinality({q \in Requests : rs[q].phase # "idle"}) < MaxInFlight
    /\ requests' = [rs EXCEPT ![r] = Sent(ls)]

\* The route /logout sends its request as it is mounted.
MountLogout == IF route = "logout" THEN UNCHANGED requests ELSE Send(requests, "logout", {})

NoUser == [data |-> "", accepted |-> {}, loading |-> FALSE]
NoSession == [live |-> FALSE, left |-> 0]
Active == [live |-> TRUE, left |-> Limit]

-------------------------------------------------------------------------------
(* The gates: where a route leads, given the user in the store. *)

HasAgreed(u) == u.data = "user" => u.accepted = Licenses

Gate(r, u) ==
    LET entered == IF r = "login" /\ (u.data # "" \/ u.loading) THEN "app" ELSE r IN
    IF entered \in {"app", "account"} /\ u.data = "" /\ ~u.loading THEN "login"
    ELSE IF entered = "app" /\ u.data # "" /\ ~HasAgreed(u) THEN "account"
    ELSE entered

Mounted(r, u) == r = "account" /\ u.data = "user"

\* The page that follows: its gate is passed, Account is mounted or unmounted.
Show(r, u) ==
    /\ user' = u
    /\ route' = Gate(r, u)
    /\ draft' = IF ~Mounted(Gate(r, u), u) THEN {}
                ELSE IF Mounted(route, user) THEN draft ELSE u.accepted
    /\ saved' = (saved /\ Mounted(Gate(r, u), u))

-------------------------------------------------------------------------------
(* The server *)

\* auto_logout: a session that has been idle too long is ended by the next
\* request, which is sent to the login page.
Expired == session.live /\ session.left = 0
LoggedIn == session.live /\ session.left > 0

ServeAuth ==
    /\ requests["auth"].phase = "sent"
    /\ session' = IF Expired THEN NoSession ELSE session
    /\ requests' = [requests EXCEPT !["auth"] =
            Answer(IF LoggedIn THEN "user" ELSE IF Expired THEN "page" ELSE "",
                   IF LoggedIn THEN agreed ELSE {}, Never)]
    /\ UNCHANGED <<agreed, tab>>

\* POST /auth logs out first, whatever the credentials.
ServeLogin(valid) ==
    /\ requests["login"].phase = "sent"
    /\ session' = IF valid /\ ~Expired THEN Active ELSE NoSession
    /\ requests' = [requests EXCEPT !["login"] =
            IF Expired THEN Answer("page", {}, Never)
            ELSE IF valid THEN Answer("user", agreed, Never)
            ELSE [Idle EXCEPT !.phase = "failed"]]
    /\ UNCHANGED <<agreed, tab>>

\* Without a session, the request is sent to the login page: a success too.
ServeLogout ==
    /\ requests["logout"].phase = "sent"
    /\ session' = NoSession
    /\ requests' = [requests EXCEPT !["logout"] = Answer("page", {}, Never)]
    /\ UNCHANGED <<agreed, tab>>

\* The whole map is sent: what it does not accept is withdrawn.
ServePatch ==
    /\ requests["patch"].phase = "sent"
    /\ session' = IF Expired THEN NoSession ELSE session
    /\ agreed' = IF LoggedIn THEN requests["patch"].licenses ELSE agreed
    /\ requests' = [requests EXCEPT !["patch"] =
            IF LoggedIn THEN Answer("user", agreed', Never)
            ELSE [Idle EXCEPT !.phase = "failed"]]
    /\ UNCHANGED tab

\* Mutant: the time is computed and not stored.
ServePingUnstored(p) ==
    /\ requests[p].phase = "sent"
    /\ session' = IF LoggedIn THEN session ELSE NoSession
    /\ requests' = [requests EXCEPT ![p] =
            IF LoggedIn THEN Answer("user", {}, Limit) ELSE Answer("page", {}, Never)]
    /\ UNCHANGED <<agreed, tab>>

\* The login page carries no time at all.
ServePing(p) ==
    /\ requests[p].phase = "sent"
    /\ session' = IF LoggedIn THEN Active ELSE NoSession
    /\ requests' = [requests EXCEPT ![p] =
            IF LoggedIn THEN Answer("user", {}, Limit) ELSE Answer("page", {}, Never)]
    /\ UNCHANGED <<agreed, tab>>

\* The connection is lost, before or after the server has acted.
Lose(r) ==
    /\ requests[r].phase \in {"sent", "answered"}
    /\ requests' = [requests EXCEPT ![r] = [Idle EXCEPT !.phase = "failed"]]
    /\ UNCHANGED <<server, tab>>

\* The other tabs.
OtherPing == /\ LoggedIn /\ session' = Active
             /\ UNCHANGED <<agreed, requests, tab>>
OtherLogout == /\ session.live /\ session' = NoSession
               /\ UNCHANGED <<agreed, requests, tab>>
OtherLogin == /\ ~session.live /\ session' = Active
              /\ UNCHANGED <<agreed, requests, tab>>
OtherAgree(l) == /\ LoggedIn /\ agreed' = agreed \cup {l}
                 /\ UNCHANGED <<session, requests, tab>>

Pass(left) == IF left \in 1..Limit THEN left - 1 ELSE left

Tick ==
    /\ session' = [session EXCEPT !.left = Pass(@)]
    /\ deadline' = Pass(deadline)
    /\ requests' = [r \in Requests |-> [requests[r] EXCEPT !.left = Pass(@)]]
    /\ UNCHANGED <<agreed, user, route, timers, dialogs, account>>

-------------------------------------------------------------------------------
(* Application: the timers of a tab *)

\* Mutant: an interval is started without looking at the id of the last one.
AnotherCheck == checks + 1

CheckStarted == IF checks > 0 THEN checks ELSE checks + 1
CheckStopped == IF checks > 0 THEN checks - 1 ELSE checks

\* startSendingUserActivePings, on the requests rs: a first ping is sent at once.
StartPings(rs) ==
    \/ listening /\ requests' = rs /\ UNCHANGED <<listening, throttled>>
    \/ /\ ~listening /\ listening' = TRUE /\ throttled' = FALSE
       /\ \E p \in Pings : Send(rs, p, {})

\* componentWillReceiveProps, when the data of the user is replaced by that of u
\* and the answer to the request r is dropped.
ReceiveUser(r, u) ==
    LET rs == [requests EXCEPT ![r] = Idle] IN
    IF u.data # ""
    THEN checks' = CheckStarted /\ StartPings(rs)
    ELSE /\ checks' = IF user.data # "" THEN CheckStopped ELSE checks
         /\ listening' = (listening /\ user.data = "")
         /\ requests' = rs /\ UNCHANGED throttled

\* The second a check comes due.
CheckAutoLogout ==
    /\ checks > 0 /\ deadline = 0
    /\ checks' = CheckStopped
    /\ listening' = FALSE
    /\ warnings' = 0
    /\ dialogs' = dialogs \cup {"autoLoggedOut"}
    /\ route' = "logout" /\ draft' = {} /\ saved' = FALSE
    /\ MountLogout
    /\ UNCHANGED <<server, user, deadline, throttled>>

CheckWarning ==
    /\ checks > 0 /\ deadline \in 1..WarningAt /\ warnings = 0
    /\ warnings' = warnings + 1
    /\ listening' = FALSE
    /\ UNCHANGED <<server, requests, user, deadline, route, checks, throttled, dialogs, account>>

StayLoggedIn ==
    /\ warnings > 0
    /\ warnings' = warnings - 1
    /\ StartPings(requests)
    /\ UNCHANGED <<server, user, deadline, route, checks, dialogs, account>>

\* A mouse move or a key, at most once a minute.
UserActiveInput(p) ==
    /\ listening /\ ~throttled
    /\ throttled' = TRUE
    /\ Send(requests, p, {})
    /\ UNCHANGED <<server, user, deadline, route, checks, warnings, listening, dialogs, account>>

AllowPing == /\ throttled /\ throttled' = FALSE
             /\ UNCHANGED <<server, requests, user, deadline, route, checks, warnings,
                            listening, dialogs, account>>

\* USER_ACTIVE: whichever answer comes last sets the times.
UserActive(p) ==
    /\ requests[p].phase = "answered"
    /\ deadline' = requests[p].left
    /\ requests' = [requests EXCEPT ![p] = Idle]
    /\ UNCHANGED <<server, user, route, timers, dialogs, account>>

UserActiveFails(p) ==
    /\ requests[p].phase = "failed"
    /\ requests' = [requests EXCEPT ![p] = Idle]
    /\ UNCHANGED <<server, tab>>

-------------------------------------------------------------------------------
(* Logging in and out *)

\* The page is loaded, which is a request too, and checkAuth asks for the user.
Load ==
    /\ session' = IF Expired THEN NoSession ELSE session
    /\ requests' = [r \in Requests |-> IF r = "auth" THEN Sent({}) ELSE Idle]
    /\ user' = [NoUser EXCEPT !.loading = TRUE]
    /\ deadline' = Never /\ route' = "app"
    /\ checks' = 0 /\ warnings' = 0 /\ listening' = FALSE /\ throttled' = FALSE
    /\ dialogs' = {} /\ draft' = {} /\ saved' = FALSE
    /\ UNCHANGED agreed

\* The form is shown when there is no user and no request for one.
Login ==
    /\ route = "login"
    /\ Send(requests, "login", {})
    /\ Show(route, [user EXCEPT !.loading = TRUE])
    /\ UNCHANGED <<server, deadline, timers, dialogs>>

\* USER_LOGGED_IN, or USER_LOGGED_OUT when the answer is empty or an error.
LoginAnswered(r) ==
    /\ r \in {"auth", "login"} /\ requests[r].phase \in {"answered", "failed"}
    /\ LET a == requests[r]
           u == [data |-> a.body, accepted |-> a.licenses, loading |-> FALSE] IN
       Show(route, u) /\ ReceiveUser(r, u)
    /\ UNCHANGED <<server, deadline, warnings, dialogs>>

LogoutClick ==
    /\ user.data # ""
    /\ dialogs' = dialogs \cup {"logout"}
    /\ UNCHANGED <<server, requests, user, deadline, route, timers, account>>

CloseDialog(d) ==
    /\ d \in dialogs
    /\ dialogs' = dialogs \ {d}
    /\ UNCHANGED <<server, requests, user, deadline, route, timers, account>>

LogoutConfirm ==
    /\ "logout" \in dialogs
    /\ dialogs' = dialogs \ {"logout"}
    /\ MountLogout
    /\ Show("logout", user)
    /\ UNCHANGED <<server, deadline, timers>>

\* USER_LOGGED_OUT leaves the times of the auto logout as they are.
LogoutAnswered ==
    /\ requests["logout"].phase = "answered"
    /\ Show("login", NoUser)
    /\ ReceiveUser("logout", NoUser)
    /\ UNCHANGED <<server, deadline, warnings, dialogs>>

\* The error is logged, and the page stays where it is.
LogoutFails ==
    /\ requests["logout"].phase = "failed"
    /\ requests' = [requests EXCEPT !["logout"] = Idle]
    /\ UNCHANGED <<server, tab>>

\* The menu, or the back button.
Navigate(r) ==
    /\ r # route
    /\ Show(r, user)
    /\ UNCHANGED <<server, requests, deadline, timers, dialogs>>

-------------------------------------------------------------------------------
(* Account: the licences *)

\* A licence the user has agreed to cannot be unchecked.
CanCheck(l) == Mounted(route, user) /\ l \notin user.accepted

Check(l) ==
    /\ CanCheck(l)
    /\ draft' = IF l \in draft THEN draft \ {l} ELSE draft \cup {l}
    /\ UNCHANGED <<server, requests, user, deadline, route, timers, dialogs, saved>>

CanCheckAll == Mounted(route, user) /\ user.accepted # Licenses

CheckAll ==
    /\ CanCheckAll
    /\ draft' = IF draft = Licenses THEN user.accepted ELSE Licenses
    /\ UNCHANGED <<server, requests, user, deadline, route, timers, dialogs, saved>>

CanSave == Mounted(route, user) /\ ~saved /\ draft # user.accepted

Save ==
    /\ CanSave
    /\ Send(requests, "patch", draft)
    /\ UNCHANGED <<server, tab>>

\* PATCHED_USER replaces the user, and that (re)starts the timers.
Patched ==
    /\ requests["patch"].phase = "answered"
    /\ LET u == [user EXCEPT !.data = "user", !.accepted = requests["patch"].licenses] IN
       /\ user' = u
       /\ route' = Gate(route, u)
       /\ draft' = IF Mounted(route, user) THEN draft
                   ELSE IF Mounted(Gate(route, u), u) THEN u.accepted ELSE {}
       /\ saved' = Mounted(route, user)
       /\ ReceiveUser("patch", u)
    /\ UNCHANGED <<server, deadline, warnings, dialogs>>

SavedForThreeSeconds ==
    /\ saved /\ saved' = FALSE
    /\ UNCHANGED <<server, requests, user, deadline, route, timers, dialogs, draft>>

PatchFails ==
    /\ requests["patch"].phase = "failed"
    /\ requests' = [requests EXCEPT !["patch"] = Idle]
    /\ UNCHANGED <<server, tab>>

-------------------------------------------------------------------------------
SessionInit ==
    /\ session \in {NoSession, Active}
    /\ agreed \in SUBSET Licenses
    /\ requests = [r \in Requests |-> IF r = "auth" THEN Sent({}) ELSE Idle]
    /\ user = [NoUser EXCEPT !.loading = TRUE]
    /\ deadline = Never /\ route = "app"
    /\ checks = 0 /\ warnings = 0 /\ listening = FALSE /\ throttled = FALSE
    /\ dialogs = {} /\ draft = {} /\ saved = FALSE

Server == \/ ServeAuth \/ (\E v \in BOOLEAN : ServeLogin(v)) \/ ServeLogout \/ ServePatch
          \/ \E p \in Pings : ServePing(p)

Others == OtherPing \/ OtherLogout \/ OtherLogin \/ \E l \in Licenses : OtherAgree(l)

Answered == \/ \E r \in {"auth", "login"} : LoginAnswered(r)
            \/ LogoutAnswered \/ LogoutFails \/ Patched \/ PatchFails
            \/ \E p \in Pings : UserActive(p) \/ UserActiveFails(p)

Timers == CheckAutoLogout \/ CheckWarning \/ AllowPing \/ SavedForThreeSeconds

Acts == \/ Load \/ Login \/ LogoutClick \/ LogoutConfirm \/ StayLoggedIn
        \/ \E d \in dialogs : CloseDialog(d)
        \/ \E r \in {"app", "account", "login"} : Navigate(r)
        \/ \E l \in Licenses : Check(l)
        \/ CheckAll \/ Save
        \/ \E p \in Pings : UserActiveInput(p)

SessionNext ==
    \/ Server \/ Others \/ Answered \/ Timers \/ Acts \/ Tick
    \/ \E r \in Requests : Lose(r)

SessionSpec == SessionInit /\ [][SessionNext]_sessionVars
-------------------------------------------------------------------------------
(* Properties *)

SessionTypeOK ==
    /\ session \in [live : BOOLEAN, left : 0..Limit]
    /\ agreed \subseteq Licenses
    /\ requests \in [Requests -> Request]
    /\ user \in [data : {"", "page", "user"}, accepted : SUBSET Licenses, loading : BOOLEAN]
    /\ deadline \in 0..Never
    /\ route \in {"login", "logout", "account", "app"}
    /\ checks \in 0..1 /\ warnings \in 0..1
    /\ listening \in BOOLEAN /\ throttled \in BOOLEAN
    /\ dialogs \subseteq {"autoLoggedOut", "logout"}
    /\ draft \subseteq Licenses /\ saved \in BOOLEAN

\* The tab never believes it has more time than the server will give it, whatever
\* the order of the answers and whatever other tabs do: as long as there is a
\* session, it is the tab that ends it and tells the user why.
DeadlineWithinSession ==
    session.live =>
        /\ deadline # Never => deadline <= session.left
        /\ \A p \in Pings : requests[p].left # Never => requests[p].left <= session.left
===============================================================================
