------------------------ MODULE SessionAndLibraryProofs ------------------------
(***************************************************************************)
(* The properties of ClientSession for every number of pings in flight,    *)
(* every limit and every set of licences, and those of LibraryPage for any *)
(* runs and queries and any number of pages.                               *)
(*                                                                         *)
(* The session.  DeadlineWithinSession is inductive once the times are     *)
(* known to be in their range.  Few actions touch a time at all; those     *)
(* that do not are dealt with by one lemma (NoMoreTime), which leaves the  *)
(* server's answer to a ping, its arrival, and the clock.                  *)
(*                                                                         *)
(* The library.  What is shown is the answer to a request that was made    *)
(* earlier, so what has to be known is what the requests in flight ask     *)
(* for, and which runs they bring: an open page has no request that was    *)
(* made of another state of it, and none that brings back what was         *)
(* deleted.                                                                *)
(***************************************************************************)
EXTENDS ClientSession, LibraryPage, FiniteSetTheorems, TLAPS

LEMMA RequestsTyped ==
    /\ Idle \in Request
    /\ [Idle EXCEPT !.phase = "failed"] \in Request
    /\ \A ls \in SUBSET Licenses : Sent(ls) \in Request
    /\ \A body \in {"", "page", "user"}, ls \in SUBSET Licenses, left \in 0..Never :
           Answer(body, ls, left) \in Request
<1>1. Never \in 0..Never
    BY LimitAssumption DEF Never
<1> QED
    BY <1>1 DEF Request, Idle, Sent, Answer

LEMMA FormsAreRequests ==
    /\ {"auth", "login", "logout", "patch"} \subseteq Requests
    /\ Pings \subseteq Requests
BY DEF Requests, Forms

LEMMA SessionsTyped ==
    /\ NoSession \in [live : BOOLEAN, left : 0..Limit]
    /\ Active \in [live : BOOLEAN, left : 0..Limit]
BY LimitAssumption DEF NoSession, Active

\* A new request leaves the others as they are.
LEMMA SendTyped ==
    ASSUME NEW rs \in [Requests -> Request], NEW r \in Requests, NEW ls \in SUBSET Licenses,
           Send(rs, r, ls)
    PROVE  requests' \in [Requests -> Request]
BY RequestsTyped DEF Send

Users == [data : {"", "page", "user"}, accepted : SUBSET Licenses, loading : BOOLEAN]

LEMMA ShowTyped ==
    ASSUME SessionTypeOK, NEW r \in {"login", "logout", "account", "app"}, NEW u \in Users,
           Show(r, u)
    PROVE  /\ user' \in Users
           /\ route' \in {"login", "logout", "account", "app"}
           /\ draft' \subseteq Licenses /\ saved' \in BOOLEAN
<1>1. Gate(r, u) \in {"login", "logout", "account", "app"}
    BY DEF Gate
<1>2. u.accepted \in SUBSET Licenses
    BY DEF Users
<1> QED
    BY <1>1, <1>2 DEF SessionTypeOK, Show

LEMMA StartPingsTyped ==
    ASSUME SessionTypeOK, NEW rs \in [Requests -> Request], StartPings(rs)
    PROVE  /\ requests' \in [Requests -> Request]
           /\ listening' \in BOOLEAN /\ throttled' \in BOOLEAN
<1>1. CASE listening /\ requests' = rs /\ UNCHANGED <<listening, throttled>>
    BY <1>1 DEF SessionTypeOK
<1>2. CASE listening' = TRUE /\ throttled' = FALSE /\ \E p \in Pings : Send(rs, p, {})
    BY <1>2, SendTyped, FormsAreRequests
<1> QED
    BY <1>1, <1>2 DEF StartPings

LEMMA MountLogoutTyped ==
    ASSUME SessionTypeOK, MountLogout
    PROVE  requests' \in [Requests -> Request]
<1>1. requests \in [Requests -> Request] /\ {} \in SUBSET Licenses /\ "logout" \in Requests
    BY FormsAreRequests DEF SessionTypeOK
<1>2. CASE requests' = requests
    BY <1>1, <1>2
<1>3. CASE Send(requests, "logout", {})
    BY <1>1, <1>3, SendTyped
<1> QED
    BY <1>2, <1>3 DEF MountLogout

LEMMA ReceiveUserTyped ==
    ASSUME SessionTypeOK, NEW r \in Requests, NEW u \in Users, ReceiveUser(r, u)
    PROVE  /\ requests' \in [Requests -> Request]
           /\ checks' \in 0..1
           /\ listening' \in BOOLEAN /\ throttled' \in BOOLEAN
<1> DEFINE rs == [requests EXCEPT ![r] = Idle]
<1>1. rs \in [Requests -> Request]
    BY RequestsTyped DEF SessionTypeOK
<1>2. checks \in 0..1
    BY DEF SessionTypeOK
<1>3. CheckStarted \in 0..1 /\ CheckStopped \in 0..1 /\ checks \in 0..1
    BY ONLY <1>2 DEF CheckStarted, CheckStopped
<1>4. CASE u.data # ""
    <2>1. checks' = CheckStarted /\ StartPings(rs)
        BY <1>4 DEF ReceiveUser
    <2> QED
        BY <2>1, <1>1, <1>3, StartPingsTyped
<1>5. CASE ~(u.data # "")
    <2>1. /\ checks' \in {CheckStopped, checks}
          /\ listening' = (listening /\ user.data = "")
          /\ requests' = rs /\ UNCHANGED throttled
        BY <1>5 DEF ReceiveUser
    <2>2. listening' \in BOOLEAN /\ throttled' \in BOOLEAN
        BY <2>1 DEF SessionTypeOK
    <2> QED
        BY <1>1, <1>3, <2>1, <2>2
<1> QED
    BY <1>4, <1>5

-------------------------------------------------------------------------------
(* Type correctness *)

LEMMA ServerTyped == SessionTypeOK /\ Server => SessionTypeOK'
<1> SUFFICES ASSUME SessionTypeOK, Server PROVE SessionTypeOK'
    OBVIOUS
<1>1. Never \in 0..Never /\ Limit \in 0..Never
    BY LimitAssumption DEF Never
<1> USE RequestsTyped, SessionsTyped, FormsAreRequests
<1>2. CASE ServeAuth
    <2>1. \E a \in Request : requests' = [requests EXCEPT !["auth"] = a]
        <3>1. agreed \in SUBSET Licenses /\ {} \in SUBSET Licenses
            BY DEF SessionTypeOK
        <3> QED
            BY <1>1, <1>2, <3>1 DEF ServeAuth
    <2>2. requests' \in [Requests -> Request]
        BY ONLY <2>1, SessionTypeOK DEF SessionTypeOK
    <2>3. session' \in {session, NoSession}
        BY <1>2 DEF ServeAuth
    <2> QED
        BY <1>2, <2>2, <2>3 DEF ServeAuth, SessionTypeOK, tab, timers, account
<1>3. ASSUME NEW v \in BOOLEAN, ServeLogin(v) PROVE SessionTypeOK'
    <2>1. requests' \in [Requests -> Request] /\ session' \in {Active, NoSession}
        BY <1>1, <1>3 DEF ServeLogin, SessionTypeOK
    <2> QED
        BY <1>3, <2>1 DEF ServeLogin, SessionTypeOK, tab, timers, account
<1>4. CASE ServeLogout
    <2>1. requests' \in [Requests -> Request] /\ session' = NoSession
        BY <1>1, <1>4 DEF ServeLogout, SessionTypeOK
    <2> QED
        BY <1>4, <2>1 DEF ServeLogout, SessionTypeOK, tab, timers, account
<1>5. CASE ServePatch
    <2>1. requests["patch"].licenses \in SUBSET Licenses
        BY DEF SessionTypeOK, Request
    <2>2. agreed' \in SUBSET Licenses /\ session' \in {session, NoSession}
        BY <1>5, <2>1 DEF ServePatch, SessionTypeOK
    <2>3. requests' \in [Requests -> Request]
        BY <1>1, <1>5, <2>2 DEF ServePatch, SessionTypeOK
    <2> QED
        BY <1>5, <2>2, <2>3 DEF ServePatch, SessionTypeOK, tab, timers, account
<1>6. ASSUME NEW p \in Pings, ServePing(p) PROVE SessionTypeOK'
    <2>1. requests' \in [Requests -> Request] /\ session' \in {Active, NoSession}
        BY <1>1, <1>6 DEF ServePing, SessionTypeOK
    <2> QED
        BY <1>6, <2>1 DEF ServePing, SessionTypeOK, tab, timers, account
<1> QED
    BY <1>2, <1>3, <1>4, <1>5, <1>6 DEF Server

LEMMA OthersTyped ==
    SessionTypeOK /\ (Others \/ Tick \/ \E r \in Requests : Lose(r)) => SessionTypeOK'
<1> SUFFICES ASSUME SessionTypeOK, Others \/ Tick \/ \E r \in Requests : Lose(r)
             PROVE  SessionTypeOK'
    OBVIOUS
<1> USE DEF tab, server, timers, account
<1>1. CASE OtherPing \/ OtherLogout \/ OtherLogin
    BY <1>1, SessionsTyped DEF OtherPing, OtherLogout, OtherLogin, SessionTypeOK
<1>2. ASSUME NEW l \in Licenses, OtherAgree(l) PROVE SessionTypeOK'
    BY <1>2 DEF OtherAgree, SessionTypeOK
<1>3. CASE Tick
    <2>1. \A left \in 0..Never : Pass(left) \in 0..Never
        BY LimitAssumption DEF Pass, Never
    <2>2. \A left \in 0..Limit : Pass(left) \in 0..Limit
        BY LimitAssumption DEF Pass
    <2>3. requests' \in [Requests -> Request]
        <3>1. requests' = [r \in Requests |-> [requests[r] EXCEPT !.left = Pass(@)]]
            BY <1>3 DEF Tick
        <3>2. ASSUME NEW q \in Request PROVE [q EXCEPT !.left = Pass(@)] \in Request
            BY <2>1 DEF Request
        <3>3. requests \in [Requests -> Request]
            BY DEF SessionTypeOK
        <3> QED
            BY ONLY <3>1, <3>2, <3>3
    <2>4. session' \in [live : BOOLEAN, left : 0..Limit] /\ deadline' \in 0..Never
        BY <1>3, <2>1, <2>2 DEF Tick, SessionTypeOK
    <2> QED
        BY <1>3, <2>3, <2>4 DEF Tick, SessionTypeOK
<1>4. ASSUME NEW r \in Requests, Lose(r) PROVE SessionTypeOK'
    <2>1. requests' \in [Requests -> Request]
        BY <1>4, RequestsTyped DEF Lose, SessionTypeOK
    <2> QED
        BY <1>4, <2>1 DEF Lose, SessionTypeOK
<1> QED
    BY <1>1, <1>2, <1>3, <1>4 DEF Others

LEMMA AnsweredTyped == SessionTypeOK /\ Answered => SessionTypeOK'
<1> SUFFICES ASSUME SessionTypeOK, Answered PROVE SessionTypeOK'
    OBVIOUS
<1> USE FormsAreRequests DEF tab, server, timers, account
<1>1. ASSUME NEW r \in {"auth", "login"}, LoginAnswered(r) PROVE SessionTypeOK'
    <2> DEFINE u == [data |-> requests[r].body, accepted |-> requests[r].licenses,
                     loading |-> FALSE]
    <2>1. u \in Users
        BY DEF SessionTypeOK, Users, Request
    <2>2. /\ Show(route, u) /\ ReceiveUser(r, u)
          /\ UNCHANGED <<server, deadline, warnings, dialogs>>
        BY <1>1 DEF LoginAnswered
    <2>3. route \in {"login", "logout", "account", "app"}
        BY DEF SessionTypeOK
    <2> QED
        BY <2>1, <2>2, <2>3, ShowTyped, ReceiveUserTyped DEF SessionTypeOK, Users
<1>2. CASE LogoutAnswered
    <2>1. NoUser \in Users
        BY DEF NoUser, Users
    <2> QED
        BY <1>2, <2>1, ShowTyped, ReceiveUserTyped DEF LogoutAnswered, SessionTypeOK, Users
<1>3. CASE LogoutFails \/ PatchFails
    <2>1. /\ \E r \in Requests : requests' = [requests EXCEPT ![r] = Idle]
          /\ UNCHANGED <<server, tab>>
        BY <1>3 DEF LogoutFails, PatchFails
    <2>2. requests' \in [Requests -> Request]
        BY <2>1, RequestsTyped DEF SessionTypeOK
    <2> QED
        BY <2>1, <2>2 DEF SessionTypeOK
<1>4. CASE Patched
    <2> DEFINE u == [user EXCEPT !.data = "user", !.accepted = requests["patch"].licenses]
    <2>1. requests["patch"].licenses \in SUBSET Licenses /\ user \in Users
        BY DEF SessionTypeOK, Request, Users
    <2>2. u \in Users
        BY <2>1 DEF Users
    <2>3. /\ user' = u /\ route' = Gate(route, u) /\ saved' = Mounted(route, user)
          /\ draft' = IF Mounted(route, user) THEN draft
                      ELSE IF Mounted(Gate(route, u), u) THEN u.accepted ELSE {}
          /\ ReceiveUser("patch", u)
          /\ UNCHANGED <<server, deadline, warnings, dialogs>>
        BY <1>4 DEF Patched
    <2>4. u.accepted \in SUBSET Licenses
        BY <2>2 DEF Users
    <2>5. route' \in {"login", "logout", "account", "app"} /\ saved' \in BOOLEAN
        BY <2>3 DEF SessionTypeOK, Gate, Mounted
    <2>6. /\ requests' \in [Requests -> Request] /\ checks' \in 0..1
          /\ listening' \in BOOLEAN /\ throttled' \in BOOLEAN
        BY <2>2, <2>3, ReceiveUserTyped
    <2>7. draft' \subseteq Licenses
        BY <2>3, <2>4 DEF SessionTypeOK
    <2> QED
        BY <2>2, <2>3, <2>5, <2>6, <2>7 DEF SessionTypeOK, Users
<1>5. ASSUME NEW p \in Pings, UserActive(p) \/ UserActiveFails(p) PROVE SessionTypeOK'
    <2>1. requests[p].left \in 0..Never
        BY DEF SessionTypeOK, Request
    <2>2. requests' = [requests EXCEPT ![p] = Idle]
        BY <1>5 DEF UserActive, UserActiveFails
    <2>3. requests' \in [Requests -> Request]
        BY <2>2, RequestsTyped DEF SessionTypeOK
    <2> QED
        BY <1>5, <2>1, <2>3 DEF UserActive, UserActiveFails, SessionTypeOK
<1> QED
    BY <1>1, <1>2, <1>3, <1>4, <1>5 DEF Answered

LEMMA TimersTyped == SessionTypeOK /\ Timers => SessionTypeOK'
<1> SUFFICES ASSUME SessionTypeOK, Timers PROVE SessionTypeOK'
    OBVIOUS
<1> USE FormsAreRequests DEF tab, server, timers, account
<1>1. CASE CheckAutoLogout
    <2>1. requests' \in [Requests -> Request]
        BY <1>1, MountLogoutTyped DEF CheckAutoLogout
    <2>2. checks' = CheckStopped /\ checks \in 0..1
        BY <1>1 DEF CheckAutoLogout, SessionTypeOK
    <2>3. checks' \in 0..1
        BY ONLY <2>2 DEF CheckStopped
    <2>4. warnings' \in 0..1
        BY <1>1 DEF CheckAutoLogout
    <2>5. /\ route' \in {"login", "logout", "account", "app"}
          /\ listening' \in BOOLEAN /\ throttled' \in BOOLEAN /\ saved' \in BOOLEAN
          /\ dialogs' \subseteq {"autoLoggedOut", "logout"} /\ draft' \subseteq Licenses
        BY <1>1 DEF CheckAutoLogout, SessionTypeOK
    <2>6. UNCHANGED <<server, user, deadline>>
        BY <1>1 DEF CheckAutoLogout
    <2> QED
        BY <2>1, <2>3, <2>4, <2>5, <2>6 DEF SessionTypeOK
<1>2. CASE CheckWarning
    <2>1. warnings = 0 /\ warnings' = warnings + 1
        BY <1>2 DEF CheckWarning
    <2>2. warnings' \in 0..1
        BY ONLY <2>1
    <2> QED
        BY <1>2, <2>2 DEF CheckWarning, SessionTypeOK
<1>3. CASE AllowPing \/ SavedForThreeSeconds
    BY <1>3 DEF AllowPing, SavedForThreeSeconds, SessionTypeOK
<1> QED
    BY <1>1, <1>2, <1>3 DEF Timers

LEMMA ActsTyped == SessionTypeOK /\ Acts => SessionTypeOK'
<1> SUFFICES ASSUME SessionTypeOK, Acts PROVE SessionTypeOK'
    OBVIOUS
<1> USE FormsAreRequests DEF tab, server, timers, account
<1>1. CASE Load
    <2>1. requests' \in [Requests -> Request] /\ session' \in {session, NoSession}
        BY <1>1, RequestsTyped DEF Load, SessionTypeOK
    <2>2. [NoUser EXCEPT !.loading = TRUE] \in Users
        BY DEF NoUser, Users
    <2>3. user' \in Users
        BY <1>1, <2>2 DEF Load
    <2>4. Never \in 0..Never
        BY LimitAssumption DEF Never
    <2>5. checks' \in 0..1 /\ warnings' \in 0..1
        BY <1>1 DEF Load
    <2>6. deadline' \in 0..Never /\ agreed' \subseteq Licenses
        BY <1>1, <2>4 DEF Load, SessionTypeOK
    <2>7. /\ route' \in {"login", "logout", "account", "app"}
          /\ listening' \in BOOLEAN /\ throttled' \in BOOLEAN /\ saved' \in BOOLEAN
          /\ dialogs' \subseteq {"autoLoggedOut", "logout"} /\ draft' \subseteq Licenses
        BY <1>1 DEF Load
    <2>8. session' \in [live : BOOLEAN, left : 0..Limit]
        BY <2>1, SessionsTyped DEF SessionTypeOK
    <2> QED
        BY <2>1, <2>3, <2>5, <2>6, <2>7, <2>8 DEF SessionTypeOK, Users
<1>2. CASE Login
    <2>1. [user EXCEPT !.loading = TRUE] \in Users
        BY DEF SessionTypeOK, Users
    <2>2. requests' \in [Requests -> Request]
        <3>1. /\ requests \in [Requests -> Request] /\ {} \in SUBSET Licenses
              /\ "login" \in Requests
            BY DEF SessionTypeOK
        <3> QED
            BY <1>2, <3>1, SendTyped DEF Login
    <2> QED
        BY <1>2, <2>1, <2>2, ShowTyped DEF Login, SessionTypeOK, Users
<1>3. CASE LogoutClick
    BY <1>3 DEF LogoutClick, SessionTypeOK
<1>4. CASE LogoutConfirm
    <2>1. requests' \in [Requests -> Request]
        BY <1>4, MountLogoutTyped DEF LogoutConfirm
    <2>2. user \in Users
        BY DEF SessionTypeOK, Users
    <2> QED
        BY <1>4, <2>1, <2>2, ShowTyped DEF LogoutConfirm, SessionTypeOK, Users
<1>5. CASE StayLoggedIn
    <2>1. warnings > 0 /\ warnings' = warnings - 1 /\ warnings \in 0..1
        BY <1>5 DEF StayLoggedIn, SessionTypeOK
    <2>3. warnings' \in 0..1
        BY ONLY <2>1
    <2>2. requests \in [Requests -> Request] /\ StartPings(requests)
        BY <1>5 DEF StayLoggedIn, SessionTypeOK
    <2> QED
        BY <1>5, <2>2, <2>3, StartPingsTyped DEF StayLoggedIn, SessionTypeOK
<1>6. ASSUME NEW d \in dialogs, CloseDialog(d) PROVE SessionTypeOK'
    BY <1>6 DEF CloseDialog, SessionTypeOK
<1>7. ASSUME NEW r \in {"app", "account", "login"}, Navigate(r) PROVE SessionTypeOK'
    <2>1. user \in Users
        BY DEF SessionTypeOK, Users
    <2> QED
        BY <1>7, <2>1, ShowTyped DEF Navigate, SessionTypeOK, Users
<1>8. CASE CheckAll \/ \E l \in Licenses : Check(l)
    <2>1. user.accepted \in SUBSET Licenses
        BY DEF SessionTypeOK
    <2> QED
        BY <1>8, <2>1 DEF CheckAll, Check, SessionTypeOK
<1>9. CASE Save
    <2>1. requests' \in [Requests -> Request]
        BY <1>9, SendTyped DEF Save, SessionTypeOK
    <2> QED
        BY <1>9, <2>1 DEF Save, SessionTypeOK
<1>10. ASSUME NEW p \in Pings, UserActiveInput(p) PROVE SessionTypeOK'
    <2>1. requests' \in [Requests -> Request]
        BY <1>10, SendTyped DEF UserActiveInput, SessionTypeOK
    <2> QED
        BY <1>10, <2>1 DEF UserActiveInput, SessionTypeOK
<1> QED
    BY <1>1, <1>2, <1>3, <1>4, <1>5, <1>6, <1>7, <1>8, <1>9, <1>10 DEF Acts

LEMMA InitTyped == SessionInit => SessionTypeOK
<1> SUFFICES ASSUME SessionInit PROVE SessionTypeOK
    OBVIOUS
<1>1. requests \in [Requests -> Request]
    BY RequestsTyped DEF SessionInit
<1>2. session \in [live : BOOLEAN, left : 0..Limit] /\ Never \in 0..Never
    BY SessionsTyped, LimitAssumption DEF SessionInit, Never
<1>3. [NoUser EXCEPT !.loading = TRUE] \in Users
    BY DEF NoUser, Users
<1>4. user \in Users
    BY <1>3 DEF SessionInit
<1>5. checks \in 0..1 /\ warnings \in 0..1
    BY DEF SessionInit
<1>6. deadline \in 0..Never /\ agreed \subseteq Licenses
    BY <1>2 DEF SessionInit
<1>7. /\ route \in {"login", "logout", "account", "app"}
      /\ listening \in BOOLEAN /\ throttled \in BOOLEAN /\ saved \in BOOLEAN
      /\ dialogs \subseteq {"autoLoggedOut", "logout"} /\ draft \subseteq Licenses
    BY DEF SessionInit
<1> QED
    BY <1>1, <1>2, <1>4, <1>5, <1>6, <1>7 DEF SessionTypeOK, Users

\* The session, the tab and its requests keep their types whatever the server, the
\* clock, the user and the other tabs do, in every order.
THEOREM SessionTypeCorrect == SessionSpec => []SessionTypeOK
<1>1. SessionTypeOK /\ [SessionNext]_sessionVars => SessionTypeOK'
    <2> SUFFICES ASSUME SessionTypeOK, [SessionNext]_sessionVars PROVE SessionTypeOK'
        OBVIOUS
    <2>1. CASE SessionNext
        BY <2>1, ServerTyped, OthersTyped, AnsweredTyped, TimersTyped, ActsTyped
          DEF SessionNext
    <2>2. CASE UNCHANGED sessionVars
        BY <2>2 DEF sessionVars, server, tab, timers, account, SessionTypeOK
    <2> QED
        BY <2>1, <2>2
<1> QED
    BY <1>1, InitTyped, PTL DEF SessionSpec
-------------------------------------------------------------------------------
(* The time the tab believes it has *)

Session == [live : BOOLEAN, left : 0..Limit]

LEMMA TimesTyped ==
    ASSUME SessionTypeOK
    PROVE  /\ session \in Session /\ deadline \in 0..Never
           /\ \A p \in Pings : requests[p].left \in 0..Never
BY FormsAreRequests DEF SessionTypeOK, Request, Session

\* A step that leaves the tab's times or forgets them keeps them within the session,
\* when the session goes on, ends or starts again.
LEMMA NoMoreTime ==
    ASSUME SessionTypeOK, DeadlineWithinSession,
           session' \in {session, NoSession, Active},
           deadline' \in {deadline, Never},
           \A p \in Pings : requests'[p].left \in {requests[p].left, Never}
    PROVE  DeadlineWithinSession'
<1>1. /\ session \in Session /\ deadline \in 0..Never
      /\ \A p \in Pings : requests[p].left \in 0..Never
    BY TimesTyped
<1>2. CASE session' = NoSession
    BY <1>2 DEF DeadlineWithinSession, NoSession
<1>3. CASE session' = Active
    <2>1. session'.left = Limit
        BY <1>3 DEF Active
    <2>2. \A t \in 0..Never : t # Never => t <= Limit
        BY LimitAssumption DEF Never
    <2> QED
        BY <1>1, <2>1, <2>2 DEF DeadlineWithinSession
<1>4. CASE session' = session
    BY <1>4 DEF DeadlineWithinSession
<1> QED
    BY <1>2, <1>3, <1>4

\* What is sent carries no time, and so does what is dropped.
LEMMA SendForgets ==
    ASSUME NEW rs \in [Requests -> Request], NEW r \in Requests, NEW ls, Send(rs, r, ls)
    PROVE  \A p \in Pings : requests'[p].left \in {rs[p].left, Never}
<1>1. Sent(ls).left = Never
    BY DEF Sent, Idle
<1> QED
    BY <1>1, FormsAreRequests DEF Send

LEMMA ReceiveUserForgets ==
    ASSUME SessionTypeOK, NEW r \in Requests, NEW u, ReceiveUser(r, u)
    PROVE  \A p \in Pings : requests'[p].left \in {requests[p].left, Never}
<1> DEFINE rs == [requests EXCEPT ![r] = Idle]
<1>1. rs \in [Requests -> Request]
    BY RequestsTyped DEF SessionTypeOK
<1>2. \A p \in Pings : rs[p].left \in {requests[p].left, Never}
    <2>1. Idle.left = Never
        BY DEF Idle
    <2> QED
        BY <2>1, FormsAreRequests DEF SessionTypeOK
<1>3. requests' = rs \/ \E p \in Pings : Send(rs, p, {})
    BY DEF ReceiveUser, StartPings
<1> QED
    BY <1>1, <1>2, <1>3, SendForgets, FormsAreRequests

LEMMA StartPingsForgets ==
    ASSUME SessionTypeOK, StartPings(requests)
    PROVE  \A p \in Pings : requests'[p].left \in {requests[p].left, Never}
<1>1. requests \in [Requests -> Request]
    BY DEF SessionTypeOK
<1>2. requests' = requests \/ \E p \in Pings : Send(requests, p, {})
    BY DEF StartPings
<1> QED
    BY <1>1, <1>2, SendForgets, FormsAreRequests

LEMMA ServerWithin ==
    SessionTypeOK /\ DeadlineWithinSession /\ Server => DeadlineWithinSession'
<1> SUFFICES ASSUME SessionTypeOK, DeadlineWithinSession, Server PROVE DeadlineWithinSession'
    OBVIOUS
<1> USE FormsAreRequests DEF tab
<1>1. requests \in [Requests -> Request] /\ Pings \cap Forms = {}
    BY PingsAssumption DEF SessionTypeOK
<1>2. CASE ServeAuth \/ (\E v \in BOOLEAN : ServeLogin(v)) \/ ServeLogout \/ ServePatch
    <2>1. session' \in {session, NoSession, Active} /\ deadline' = deadline
        BY <1>2 DEF ServeAuth, ServeLogin, ServeLogout, ServePatch
    <2>2. \A p \in Pings : requests'[p] = requests[p]
        <3>1. \A p \in Pings : p \notin {"auth", "login", "logout", "patch"}
            BY <1>1 DEF Forms
        <3> QED
            BY <1>1, <1>2, <3>1 DEF ServeAuth, ServeLogin, ServeLogout, ServePatch
    <2> QED
        BY <2>1, <2>2, NoMoreTime
<1>3. ASSUME NEW p \in Pings, ServePing(p) PROVE DeadlineWithinSession'
    <2>1. CASE LoggedIn
        <3>1. session' = Active /\ deadline' = deadline
              /\ requests' = [requests EXCEPT ![p] = Answer("user", {}, Limit)]
            BY <1>3, <2>1 DEF ServePing
        <3>2. Active.left = Limit /\ Answer("user", {}, Limit).left = Limit
            BY DEF Active, Answer
        <3>3. \A t \in 0..Never : t # Never => t <= Limit
            BY LimitAssumption DEF Never
        <3>4. Limit <= Limit
            BY LimitAssumption
        <3>5. \A q \in Pings : requests'[q].left \in {requests[q].left, Limit}
            BY <1>1, <3>1, <3>2
        <3> QED
            BY <3>1, <3>2, <3>3, <3>4, <3>5, TimesTyped DEF DeadlineWithinSession
    <2>2. CASE ~LoggedIn
        <3>1. session' = NoSession
            BY <1>3, <2>2 DEF ServePing
        <3> QED
            BY <3>1 DEF DeadlineWithinSession, NoSession
    <2> QED
        BY <2>1, <2>2
<1> QED
    BY <1>2, <1>3 DEF Server

LEMMA TickWithin == SessionTypeOK /\ DeadlineWithinSession /\ Tick => DeadlineWithinSession'
<1> SUFFICES ASSUME SessionTypeOK, DeadlineWithinSession, Tick PROVE DeadlineWithinSession'
    OBVIOUS
<1>1. \A t \in 0..Never, l \in 0..Limit :
          (t # Never => t <= l) => (Pass(t) # Never => Pass(t) <= Pass(l))
    BY LimitAssumption DEF Pass, Never
<1>2. /\ session'.live = session.live /\ session'.left = Pass(session.left)
      /\ session.left \in 0..Limit
    BY DEF Tick, SessionTypeOK
<1>3. deadline' = Pass(deadline) /\ \A p \in Pings : requests'[p].left = Pass(requests[p].left)
    <2>1. \A r \in Requests : requests[r] \in Request
        BY DEF SessionTypeOK
    <2>2. \A r \in Requests : requests'[r] = [requests[r] EXCEPT !.left = Pass(@)]
        BY DEF Tick
    <2> QED
        BY <2>1, <2>2, FormsAreRequests DEF Tick, Request
<1> QED
    BY <1>1, <1>2, <1>3, TimesTyped DEF DeadlineWithinSession

LEMMA AnsweredWithin ==
    SessionTypeOK /\ DeadlineWithinSession /\ Answered => DeadlineWithinSession'
<1> SUFFICES ASSUME SessionTypeOK, DeadlineWithinSession, Answered PROVE DeadlineWithinSession'
    OBVIOUS
<1> USE FormsAreRequests DEF tab, server
<1>1. requests \in [Requests -> Request] /\ Idle.left = Never
    BY DEF SessionTypeOK, Idle
<1>2. ASSUME NEW r \in {"auth", "login"}, LoginAnswered(r) PROVE DeadlineWithinSession'
    <2>1. session' = session /\ deadline' = deadline
        BY <1>2 DEF LoginAnswered
    <2>2. \A p \in Pings : requests'[p].left \in {requests[p].left, Never}
        BY <1>2, ReceiveUserForgets DEF LoginAnswered
    <2> QED
        BY <2>1, <2>2, NoMoreTime
<1>3. CASE LogoutAnswered \/ Patched
    <2>1. session' = session /\ deadline' = deadline
        BY <1>3 DEF LogoutAnswered, Patched
    <2>2. \A p \in Pings : requests'[p].left \in {requests[p].left, Never}
        BY <1>3, ReceiveUserForgets DEF LogoutAnswered, Patched
    <2> QED
        BY <2>1, <2>2, NoMoreTime
<1>4. CASE LogoutFails \/ PatchFails \/ \E p \in Pings : UserActiveFails(p)
    <2>1. session' = session /\ deadline' = deadline
        BY <1>4 DEF LogoutFails, PatchFails, UserActiveFails
    <2>2. \E r \in Requests : requests' = [requests EXCEPT ![r] = Idle]
        BY <1>4 DEF LogoutFails, PatchFails, UserActiveFails
    <2>3. \A p \in Pings : requests'[p].left \in {requests[p].left, Never}
        BY <1>1, <2>2
    <2> QED
        BY <2>1, <2>3, NoMoreTime
<1>5. ASSUME NEW p \in Pings, UserActive(p) PROVE DeadlineWithinSession'
    <2>1. session' = session /\ deadline' = requests[p].left
          /\ requests' = [requests EXCEPT ![p] = Idle]
        BY <1>5 DEF UserActive
    <2>2. \A q \in Pings : requests'[q].left \in {requests[q].left, Never}
        BY <1>1, <2>1
    <2> QED
        BY <2>1, <2>2 DEF DeadlineWithinSession
<1> QED
    BY <1>2, <1>3, <1>4, <1>5 DEF Answered

LEMMA RestWithin ==
    (/\ SessionTypeOK /\ DeadlineWithinSession
     /\ Others \/ Timers \/ Acts \/ \E r \in Requests : Lose(r))
        => DeadlineWithinSession'
<1> SUFFICES ASSUME SessionTypeOK, DeadlineWithinSession,
                    Others \/ Timers \/ Acts \/ \E r \in Requests : Lose(r)
             PROVE  DeadlineWithinSession'
    OBVIOUS
<1> USE FormsAreRequests DEF tab, server
<1>1. requests \in [Requests -> Request] /\ Idle.left = Never
    BY DEF SessionTypeOK, Idle
<1>2. CASE Others
    <2>1. /\ session' \in {session, NoSession, Active}
          /\ deadline' = deadline /\ requests' = requests
        BY <1>2 DEF Others, OtherPing, OtherLogout, OtherLogin, OtherAgree
    <2> QED
        BY <2>1, NoMoreTime
<1>3. ASSUME NEW r \in Requests, Lose(r) PROVE DeadlineWithinSession'
    <2>1. session' = session /\ deadline' = deadline
          /\ requests' = [requests EXCEPT ![r] = [Idle EXCEPT !.phase = "failed"]]
        BY <1>3 DEF Lose
    <2>2. [Idle EXCEPT !.phase = "failed"].left = Never
        BY DEF Idle
    <2>3. \A p \in Pings : requests'[p].left \in {requests[p].left, Never}
        BY <1>1, <2>1, <2>2
    <2> QED
        BY <2>1, <2>3, NoMoreTime
<1>4. CASE Load
    <2>1. session' \in {session, NoSession} /\ deadline' = Never
        BY <1>4 DEF Load
    <2>2. Sent({}).left = Never
        BY DEF Sent, Idle
    <2>3. \A p \in Pings : requests'[p].left = Never
        BY <1>1, <1>4, <2>2 DEF Load
    <2> QED
        BY <2>1, <2>3, NoMoreTime
<1>5. CASE \/ Timers \/ Login \/ LogoutClick \/ LogoutConfirm \/ StayLoggedIn
           \/ \E d \in dialogs : CloseDialog(d)
           \/ \E r \in {"app", "account", "login"} : Navigate(r)
           \/ \E l \in Licenses : Check(l)
           \/ CheckAll \/ Save
           \/ \E p \in Pings : UserActiveInput(p)
    <2>1. session' = session /\ deadline' = deadline
        BY <1>5 DEF Timers, CheckAutoLogout, CheckWarning, AllowPing, SavedForThreeSeconds,
                    Login, LogoutClick, LogoutConfirm, StayLoggedIn, CloseDialog, Navigate,
                    Check, CheckAll, Save, UserActiveInput
    <2>2. \/ requests' = requests
          \/ \E r \in Requests, ls \in SUBSET Licenses : Send(requests, r, ls)
          \/ StartPings(requests)
        <3>1. draft \in SUBSET Licenses /\ {} \in SUBSET Licenses
            BY DEF SessionTypeOK
        <3> QED
            BY <1>5, <3>1
            DEF Timers, CheckAutoLogout, CheckWarning, AllowPing, SavedForThreeSeconds,
                Login, LogoutClick, LogoutConfirm, StayLoggedIn, CloseDialog, Navigate,
                Check, CheckAll, Save, UserActiveInput, MountLogout
    <2>3. \A p \in Pings : requests'[p].left \in {requests[p].left, Never}
        BY <1>1, <2>2, SendForgets, StartPingsForgets
    <2> QED
        BY <2>1, <2>3, NoMoreTime
<1> QED
    BY <1>2, <1>3, <1>4, <1>5 DEF Acts

\* As long as there is a session, the tab's own deadline, and every one on its way to it,
\* comes no later than the end of that session.
THEOREM WithinSession == SessionSpec => []DeadlineWithinSession
<1>1. SessionInit => DeadlineWithinSession
    <2> SUFFICES ASSUME SessionInit PROVE DeadlineWithinSession
        OBVIOUS
    <2>1. Sent({}).left = Never /\ Idle.left = Never
        BY DEF Sent, Idle
    <2> QED
        BY <2>1, FormsAreRequests DEF SessionInit, DeadlineWithinSession
<1>2. SessionTypeOK /\ DeadlineWithinSession /\ [SessionNext]_sessionVars
        => DeadlineWithinSession'
    <2> SUFFICES ASSUME SessionTypeOK, DeadlineWithinSession, [SessionNext]_sessionVars
                 PROVE  DeadlineWithinSession'
        OBVIOUS
    <2>1. CASE SessionNext
        BY <2>1, ServerWithin, TickWithin, AnsweredWithin, RestWithin DEF SessionNext
    <2>2. CASE UNCHANGED sessionVars
        BY <2>2 DEF sessionVars, server, tab, DeadlineWithinSession
    <2> QED
        BY <2>1, <2>2
<1> QED
    BY <1>1, <1>2, SessionTypeCorrect, PTL DEF SessionSpec

-------------------------------------------------------------------------------
(***************************************************************************)
(* The library.                                                            *)
(***************************************************************************)

\* Asked for with what the page asks for now, but for boxes it shares with the drawer.
AsksForState(p) == /\ p.query = state.query /\ p.size = state.size
                   /\ shared \/ p.boxes = state.boxes

RequestsAskForState ==
    open => /\ request.phase # "none" => AsksForState(request.params)
            /\ fetched => AsksForState(got)

NothingConfirmedComes ==
    open => /\ request.phase # "none" => Items(request.data) \cap confirmed = {}
            /\ ~loading => Items(runs) \cap confirmed = {}

\* A deletion that is answered has taken place.
DeletionDone == deletion.phase = "answered" => deletion.run \in Runs \ alive

IInv == /\ TypeOK /\ red \subseteq Runs
        /\ RequestsAskForState /\ NothingConfirmedComes /\ DeletionDone

\* The parts of the types.
AliveOK == alive \subseteq Runs /\ confirmed \subseteq Runs \ alive
RequestOK == request \in [phase : {"none", "sent", "answered"}, params : Params, data : Lists]
DeletionOK == deletion \in [phase : {"none", "sent", "answered"}, run : Runs \cup {"none"}]
StoreOK == runs \in Lists /\ fetched \in BOOLEAN /\ got \in Params
PageOK == /\ open \in BOOLEAN /\ state \in Params /\ loading \in BOOLEAN
          /\ drawer \in BOOLEAN /\ shared \in BOOLEAN
MapOK == /\ view \in Views /\ selected \in Runs \cup {"none"} /\ popup \in BOOLEAN
         /\ red \subseteq {selected} /\ red \subseteq Runs
DialogOK == dialog \in Items(runs) \cup {"none"}

LEMMA Parts ==
    IInv <=> /\ AliveOK /\ RequestOK /\ DeletionOK /\ StoreOK /\ PageOK /\ MapOK /\ DialogOK
             /\ RequestsAskForState /\ NothingConfirmedComes /\ DeletionDone
BY DEF IInv, TypeOK, AliveOK, RequestOK, DeletionOK, StoreOK, PageOK, MapOK, DialogOK

LEMMA EmptyList == <<>> \in Lists /\ Items(<<>>) = {}
<1>1. Cardinality(Runs) \in Nat BY FS_CardinalityType, RunsAssumption
<1>2. 0 \in 0..Cardinality(Runs) BY <1>1
<1>3. <<>> \in [1..0 -> Runs] OBVIOUS
<1>4. DOMAIN <<>> = {} OBVIOUS
<1>5. <<>> \in UNION {[1..n -> Runs] : n \in 0..Cardinality(Runs)} BY <1>2, <1>3
<1> QED BY <1>4, <1>5 DEF Lists, Items

LEMMA ItemsAreRuns == ASSUME NEW l \in Lists PROVE Items(l) \subseteq Runs
BY DEF Lists, Items

-------------------------------------------------------------------------------
(* What the steps are made of *)

LEMMA TurnTyped ==
    ASSUME MapOK, NEW v \in Views, TurnTo(v) PROVE MapOK'
BY DEF MapOK, TurnTo, NewMap

LEMMA NewMapTyped == ASSUME MapOK, NewMap, view' = view PROVE MapOK'
BY DEF MapOK, NewMap

LEMMA DrawRunsTyped ==
    ASSUME MapOK, NEW l, DrawRuns(l), UNCHANGED <<view, selected, popup>> PROVE MapOK'
BY DEF MapOK, DrawRuns

LEMMA KeepDialogTyped == KeepDialog => DialogOK'
BY DEF KeepDialog, DialogOK

LEMMA MakeRunRequestTyped ==
    ASSUME IInv, NEW s \in Params, MakeRunRequest(s)
    PROVE  /\ RequestOK' /\ fetched' = FALSE
           /\ request'.params = s /\ request'.data = <<>>
BY EmptyList DEF MakeRunRequest, RequestOK

\* A request has just been made of the state.
LEMMA FreshRequest ==
    ASSUME request'.params = state', request'.data = <<>>, fetched' = FALSE,
           loading' \/ Items(runs') \cap confirmed' = {} \/ ~open'
    PROVE  RequestsAskForState' /\ NothingConfirmedComes'
BY EmptyList DEF RequestsAskForState, NothingConfirmedComes, AsksForState

LEMMA AskPreserves ==
    ASSUME IInv, NEW s \in Params, Ask(s), drawer' \in BOOLEAN, shared' \in BOOLEAN
    PROVE  IInv'
<1> USE DEF Ask, map
<1>1. RequestOK' /\ fetched' = FALSE /\ request'.params = s /\ request'.data = <<>>
  BY MakeRunRequestTyped
<1>a. MapOK' /\ DialogOK' BY Parts DEF MapOK, DialogOK
<1>2. AliveOK' /\ DeletionOK' /\ DeletionDone' BY Parts DEF AliveOK, DeletionOK, DeletionDone
<1>3. StoreOK' BY <1>1, Parts DEF StoreOK
<1>4. PageOK' BY <1>1, Parts DEF PageOK
<1>5. RequestsAskForState' /\ NothingConfirmedComes' BY <1>1, FreshRequest
<1> QED BY <1>1, <1>a, <1>2, <1>3, <1>4, <1>5, Parts, PTL

\* Steps that leave the requests, the store and what is asked for alone.
LEMMA AsideKeeps ==
    ASSUME IInv, UNCHANGED <<request, store, confirmed, open, state, loading, shared>>
    PROVE  RequestOK' /\ StoreOK' /\ RequestsAskForState' /\ NothingConfirmedComes'
<1> USE DEF store
<1>1. RequestOK' /\ StoreOK' BY Parts DEF RequestOK, StoreOK
<1>2. RequestsAskForState' BY Parts DEF RequestsAskForState, AsksForState
<1>3. NothingConfirmedComes' BY Parts DEF NothingConfirmedComes
<1> QED BY <1>1, <1>2, <1>3

-------------------------------------------------------------------------------
(* The map and its dialog *)

LEMMA ClickPreserves ==
    ASSUME IInv, NEW r \in Runs, Click(r) PROVE IInv'
<1> USE DEF Click, page, filter, store
<1>1. RequestOK' /\ StoreOK' /\ RequestsAskForState' /\ NothingConfirmedComes' BY AsideKeeps
<1>2. AliveOK' /\ DeletionOK' /\ DeletionDone' BY Parts DEF AliveOK, DeletionOK, DeletionDone
<1>3. PageOK' BY Parts DEF PageOK
<1>4. DialogOK' BY Parts DEF DialogOK
<1>5. MapOK'
  <2>0. MapOK /\ "none" \notin Runs BY Parts, RunsAssumption
  <2>1. CASE selected = r BY <2>0, <2>1 DEF MapOK
  <2>2. CASE selected \in Items(runs) \ {r}
    <3>1. selected # r /\ selected # "none" BY <2>0, <2>2, ItemsAreRuns, Parts DEF StoreOK
    <3>2. selected' = r /\ popup' = TRUE /\ red' = (red \ {selected}) \cup {r} BY <2>2, <3>1
    <3> QED BY <2>0, <3>2 DEF MapOK
  <2>3. CASE selected # r /\ selected \notin Items(runs) \ {r} /\ selected = "none"
    <3>1. selected' = r /\ popup' = TRUE /\ red' = red \cup {r} BY <2>3
    <3>2. red = {} BY <2>0, <2>3 DEF MapOK
    <3> QED BY <2>0, <3>1, <3>2 DEF MapOK
  <2>4. CASE selected # r /\ selected \notin Items(runs) \ {r} /\ selected # "none"
    <3>1. popup' = FALSE /\ UNCHANGED <<selected, red>> BY <2>4
    <3> QED BY <2>0, <3>1 DEF MapOK
  <2> QED BY <2>1, <2>2, <2>3, <2>4
<1> QED BY <1>1, <1>2, <1>3, <1>4, <1>5, Parts, PTL

LEMMA ClosePopupPreserves == ASSUME IInv, ClosePopup PROVE IInv'
<1>1. selected \in Runs BY ItemsAreRuns, Parts DEF ClosePopup, PopupShown, StoreOK
<1> QED BY <1>1, ClickPreserves DEF ClosePopup

\* The delete dialog, and the deletion up to its answer.
LEMMA DialogsPreserve ==
    ASSUME IInv, (\E r \in Runs : MapItem(r) \/ GridItem(r) \/ TableItem(r))
                 \/ HideDeleteDialog \/ HandleDelete
    PROVE  IInv'
<1>0. UNCHANGED <<alive, request, store, confirmed, page, filter, view, selected, popup, red>>
  BY DEF MapItem, GridItem, TableItem, ShowDeleteDialog, HideDeleteDialog, HandleDelete
<1> USE <1>0 DEF store, page, filter
<1>1. RequestOK' /\ StoreOK' /\ RequestsAskForState' /\ NothingConfirmedComes' BY AsideKeeps
<1>2. AliveOK' BY Parts DEF AliveOK
<1>3. PageOK' /\ MapOK' BY Parts DEF PageOK, MapOK
<1>4. dialog \in Runs \cup {"none"} BY ItemsAreRuns, Parts DEF DialogOK, StoreOK
<1>5. CASE HandleDelete
  <2>1. dialog' = "none" /\ deletion' = [phase |-> "sent", run |-> dialog]
    BY <1>5 DEF HandleDelete
  <2>2. DialogOK' /\ DeletionOK' /\ DeletionDone'
    BY <1>4, <2>1 DEF DialogOK, DeletionOK, DeletionDone
  <2> QED BY <1>1, <1>2, <1>3, <2>2, Parts, PTL
<1>6. CASE (\E r \in Runs : MapItem(r) \/ GridItem(r) \/ TableItem(r)) \/ HideDeleteDialog
  <2>1. deletion' = deletion /\ dialog' \in Items(runs) \cup {"none"}
    BY <1>6 DEF MapItem, GridItem, TableItem, ShowDeleteDialog, HideDeleteDialog
  <2>2. DialogOK' BY <2>1 DEF DialogOK
  <2>3. DeletionOK' /\ DeletionDone' BY <2>1, Parts DEF DeletionOK, DeletionDone
  <2> QED BY <1>1, <1>2, <1>3, <2>2, <2>3, Parts, PTL
<1> QED BY <1>5, <1>6

-------------------------------------------------------------------------------
(* Answers *)

\* Requests and runs of the server.
LEMMA ServePreserves ==
    ASSUME IInv, ServeRuns \/ ServeDelete \/ \E r \in Runs : Vanish(r)
    PROVE  IInv'
<1>0. UNCHANGED <<store, confirmed, page, filter, map>>
  BY DEF ServeRuns, ServeDelete, Vanish
<1> USE <1>0 DEF store, page, filter, map
<1>1. StoreOK' /\ PageOK' /\ MapOK' /\ DialogOK' BY Parts DEF StoreOK, PageOK, MapOK, DialogOK
<1>2. CASE ServeRuns
  <2>1. PICK l \in Lists : /\ Items(l) \subseteq alive
                           /\ request' = [request EXCEPT !.phase = "answered", !.data = l]
    BY <1>2 DEF ServeRuns
  <2>2. request.phase = "sent" /\ alive' = alive /\ deletion' = deletion BY <1>2 DEF ServeRuns
  <2>3. RequestOK /\ AliveOK BY Parts
  <2>4. RequestOK' /\ request'.params = request.params /\ request'.data = l
    BY <2>1, <2>3 DEF RequestOK
  <2>5. RequestsAskForState'
    BY <2>2, <2>4, Parts DEF RequestsAskForState, AsksForState
  <2>6. Items(request'.data) \cap confirmed = {} BY <2>1, <2>3, <2>4 DEF AliveOK
  <2>7. NothingConfirmedComes' BY <2>6, Parts DEF NothingConfirmedComes
  <2>8. AliveOK' /\ DeletionOK' /\ DeletionDone'
    BY <2>2, Parts DEF AliveOK, DeletionOK, DeletionDone
  <2> QED BY <1>1, <2>4, <2>5, <2>7, <2>8, Parts, PTL
<1>3. CASE ServeDelete \/ \E r \in Runs : Vanish(r)
  <2>1. request' = request BY <1>3 DEF ServeDelete, Vanish
  <2>2. RequestOK' /\ RequestsAskForState' /\ NothingConfirmedComes' BY <2>1, AsideKeeps
  <2>3. CASE ServeDelete
    <3>1. /\ deletion.run \in alive /\ alive' = alive \ {deletion.run}
          /\ deletion' = [deletion EXCEPT !.phase = "answered"]
      BY <2>3 DEF ServeDelete
    <3>2. AliveOK' BY <3>1, Parts DEF AliveOK
    <3>3. DeletionOK' /\ deletion'.run = deletion.run BY <3>1, Parts DEF DeletionOK
    <3>4. DeletionDone' BY <3>1, <3>3, Parts DEF DeletionDone, AliveOK
    <3> QED BY <1>1, <2>2, <3>2, <3>3, <3>4, Parts, PTL
  <2>4. CASE \E r \in Runs : Vanish(r)
    <3>1. alive' \subseteq alive /\ deletion' = deletion BY <2>4 DEF Vanish
    <3>2. AliveOK' /\ DeletionOK' /\ DeletionDone'
      BY <3>1, Parts DEF AliveOK, DeletionOK, DeletionDone
    <3> QED BY <1>1, <2>2, <3>2, Parts, PTL
  <2> QED BY <1>3, <2>3, <2>4
<1> QED BY <1>2, <1>3

LEMMA ReceivedRunsPreserves == ASSUME IInv, ReceivedRuns PROVE IInv'
<1> USE DEF ReceivedRuns, filter
<1>0. request.params \in Params /\ request.data \in Lists BY Parts DEF RequestOK
<1>1. AliveOK' /\ DeletionOK' /\ DeletionDone' BY Parts DEF AliveOK, DeletionOK, DeletionDone
<1>2. StoreOK' BY <1>0 DEF StoreOK
<1>3. RequestOK' /\ request'.phase = "none" BY <1>0, EmptyList DEF RequestOK, NoRequest
<1>4. MapOK' BY DrawRunsTyped, Parts
<1>5. DialogOK' BY KeepDialogTyped
<1>6. PageOK' BY <1>4, Parts DEF PageOK
<1>7. RequestsAskForState'
  <2>1. open => AsksForState(request.params) BY Parts DEF RequestsAskForState
  <2> QED BY <1>3, <2>1 DEF RequestsAskForState, AsksForState
<1>8. NothingConfirmedComes'
  <2>1. open => Items(request.data) \cap confirmed = {} BY Parts DEF NothingConfirmedComes
  <2> QED BY <1>3, <2>1 DEF NothingConfirmedComes
<1> QED BY <1>1, <1>2, <1>3, <1>4, <1>5, <1>6, <1>7, <1>8, Parts, PTL

LEMMA FetchRunsErrorPreserves == ASSUME IInv, FetchRunsError PROVE IInv'
<1> USE DEF FetchRunsError, filter
<1>1. AliveOK' /\ DeletionOK' /\ DeletionDone' BY Parts DEF AliveOK, DeletionOK, DeletionDone
<1>2. StoreOK' BY EmptyList, Parts DEF StoreOK
<1>3. RequestOK' /\ request'.phase = "none"
  <2>1. got \in Params BY Parts DEF StoreOK
  <2> QED BY <2>1, EmptyList DEF RequestOK, NoRequest
<1>4. MapOK' BY DrawRunsTyped, Parts
<1>5. DialogOK' BY KeepDialogTyped
<1>6. PageOK' BY <1>4, Parts DEF PageOK
<1>7. RequestsAskForState' BY <1>3 DEF RequestsAskForState
<1>8. NothingConfirmedComes' BY <1>3, EmptyList DEF NothingConfirmedComes
<1> QED BY <1>1, <1>2, <1>3, <1>4, <1>5, <1>6, <1>7, <1>8, Parts, PTL

LEMMA UnansweredPreserves == ASSUME IInv, Unanswered PROVE IInv'
<1> USE DEF Unanswered, store, page, filter, map
<1>1. AliveOK' /\ DeletionOK' /\ DeletionDone' BY Parts DEF AliveOK, DeletionOK, DeletionDone
<1>2. StoreOK' /\ MapOK' /\ DialogOK' BY Parts DEF StoreOK, MapOK, DialogOK
<1>3. RequestOK' /\ request'.phase = "none"
  <2>1. got \in Params BY Parts DEF StoreOK
  <2> QED BY <2>1, EmptyList DEF RequestOK, NoRequest
<1>4. PageOK' BY Parts DEF PageOK
<1>5. RequestsAskForState' BY <1>3, Parts DEF RequestsAskForState, AsksForState
<1>6. NothingConfirmedComes' BY <1>3, Parts DEF NothingConfirmedComes
<1> QED BY <1>1, <1>2, <1>3, <1>4, <1>5, <1>6, Parts, PTL

LEMMA DeleteFailsPreserves == ASSUME IInv, DeleteFails PROVE IInv'
<1> USE DEF DeleteFails, store, page, filter, map
<1>1. RequestOK' /\ StoreOK' /\ RequestsAskForState' /\ NothingConfirmedComes' BY AsideKeeps
<1>2. AliveOK' /\ DeletionOK' /\ DeletionDone'
  BY Parts DEF AliveOK, DeletionOK, DeletionDone, NoDeletion
<1>3. PageOK' /\ MapOK' /\ DialogOK' BY Parts DEF PageOK, MapOK, DialogOK
<1> QED BY <1>1, <1>2, <1>3, Parts, PTL

\* The only step by which a run that may be shown, or come, is confirmed as deleted.
LEMMA DeletedPreserves == ASSUME IInv, Deleted PROVE IInv'
<1> USE DEF Deleted, filter
<1>0. state \in Params BY Parts DEF PageOK
<1>a. MapOK' /\ DialogOK' BY Parts DEF MapOK, DialogOK, map
<1>1. AliveOK' BY Parts DEF AliveOK, DeletionDone
<1>2. DeletionOK' /\ DeletionDone' BY DEF DeletionOK, DeletionDone, NoDeletion
<1>3. CASE open
  <2>1. MakeRunRequest(state) /\ loading' = TRUE BY <1>3
  <2>2. RequestOK' /\ fetched' = FALSE /\ request'.params = state /\ request'.data = <<>>
    BY <1>0, <2>1, MakeRunRequestTyped
  <2>3. StoreOK' BY <2>2, Parts DEF StoreOK
  <2>4. PageOK' BY <2>1, <2>2, Parts DEF PageOK
  <2>5. RequestsAskForState' /\ NothingConfirmedComes' BY <2>1, <2>2, FreshRequest
  <2> QED BY <1>a, <1>1, <1>2, <2>2, <2>3, <2>4, <2>5, Parts, PTL
<1>4. CASE ~open
  <2>1. UNCHANGED <<request, fetched, loading>> BY <1>4
  <2>2. RequestOK' /\ StoreOK' BY <2>1, Parts DEF RequestOK, StoreOK
  <2>3. PageOK' BY <2>1, Parts DEF PageOK
  <2>5. RequestsAskForState' /\ NothingConfirmedComes'
    BY <1>4 DEF RequestsAskForState, NothingConfirmedComes
  <2> QED BY <1>a, <1>1, <1>2, <2>2, <2>3, <2>5, Parts, PTL
<1> QED BY <1>3, <1>4

-------------------------------------------------------------------------------
(* The page *)

LEMMA PollPreserves == ASSUME IInv, Poll PROVE IInv'
<1> USE DEF Poll, page, filter, map
<1>0. state \in Params BY Parts DEF PageOK
<1>1. RequestOK' /\ fetched' = FALSE /\ request'.params = state /\ request'.data = <<>>
  BY <1>0, MakeRunRequestTyped
<1>a. MapOK' /\ DialogOK' BY Parts DEF MapOK, DialogOK
<1>2. AliveOK' /\ DeletionOK' /\ DeletionDone' BY Parts DEF AliveOK, DeletionOK, DeletionDone
<1>3. StoreOK' BY <1>1, Parts DEF StoreOK
<1>4. PageOK' BY <1>1, Parts DEF PageOK
<1>5. loading \/ Items(runs) \cap confirmed = {} BY Parts DEF NothingConfirmedComes
<1>6. RequestsAskForState' /\ NothingConfirmedComes' BY <1>1, <1>5, FreshRequest
<1> QED BY <1>1, <1>a, <1>2, <1>3, <1>4, <1>6, Parts, PTL

LEMMA VisitPreserves == ASSUME IInv, Visit PROVE IInv'
<1> USE DEF Visit
<1>0. state' \in Params
  <2>1. 1 \in 1..MaxPages BY BoundsAssumption
  <2> QED BY <2>1 DEF Params
<1>1. AliveOK' /\ DeletionOK' /\ DeletionDone' BY Parts DEF AliveOK, DeletionOK, DeletionDone
<1>2. StoreOK' BY Parts DEF StoreOK
<1>3. RequestOK' BY <1>0, EmptyList DEF RequestOK
<1>4. PageOK' BY <1>0 DEF PageOK
<1>5. MapOK' BY NewMapTyped, Parts
<1>6. DialogOK' BY Parts DEF DialogOK
<1>7. RequestsAskForState' /\ NothingConfirmedComes' BY FreshRequest
<1> QED BY <1>1, <1>2, <1>3, <1>4, <1>5, <1>6, <1>7, Parts, PTL

LEMMA LeavePreserves == ASSUME IInv, Leave PROVE IInv'
<1> USE DEF Leave
<1>1. AliveOK' /\ DeletionOK' /\ DeletionDone' BY Parts DEF AliveOK, DeletionOK, DeletionDone
<1>2. RequestOK' /\ StoreOK' BY Parts DEF RequestOK, StoreOK
<1>3. PageOK' BY Parts DEF PageOK
<1>4. MapOK' BY NewMapTyped, Parts
<1>5. DialogOK' BY DEF DialogOK
<1>6. RequestsAskForState' /\ NothingConfirmedComes'
  BY DEF RequestsAskForState, NothingConfirmedComes
<1> QED BY <1>1, <1>2, <1>3, <1>4, <1>5, <1>6, Parts, PTL

\* What the user may ask for next.
LEMMA NextParams ==
    ASSUME state \in Params
    PROVE  /\ \A q \in Queries : [state EXCEPT !.query = q] \in Params
           /\ \A b \in BOOLEAN : [state EXCEPT !.boxes = b] \in Params
BY DEF Params

LEMMA ParamsAsked ==
    ASSUME IInv,
           \/ \E q \in Queries :
                  \/ Search(q) \/ HandleOwnerFilter(q) \/ OnDrawEnd(q) \/ SetMapView(q)
                  \/ HandleUp(q) \/ HandleCancel(q) \/ HandleGeoJSONUpload(q)
                  \/ CheckForSearchUpdate(q) \/ HandleSortChange(q)
           \/ HandleFilterApply \/ HandleFilterClear
    PROVE  IInv'
<1>0. /\ state \in Params /\ drawer \in BOOLEAN /\ shared \in BOOLEAN BY Parts DEF PageOK
<1>1. CASE \E q \in Queries :
          \/ Search(q) \/ HandleOwnerFilter(q) \/ OnDrawEnd(q) \/ SetMapView(q)
          \/ HandleUp(q) \/ HandleCancel(q) \/ HandleGeoJSONUpload(q)
          \/ CheckForSearchUpdate(q) \/ HandleSortChange(q)
  <2>1. PICK q \in Queries : Ask([state EXCEPT !.query = q]) /\ UNCHANGED filter
    BY <1>1 DEF Search, HandleOwnerFilter, OnDrawEnd, SetMapView, HandleUp, HandleCancel,
                HandleGeoJSONUpload, CheckForSearchUpdate, HandleSortChange,
                HandleSpatialFilter
  <2> QED BY <1>0, <2>1, NextParams, AskPreserves DEF filter
<1>2. CASE HandleFilterApply \/ HandleFilterClear
  <2>1. PICK b \in BOOLEAN : Ask([state EXCEPT !.boxes = b])
    BY <1>0, <1>2 DEF HandleFilterApply, HandleFilterClear
  <2>2. drawer' \in BOOLEAN /\ shared' \in BOOLEAN
    BY <1>0, <1>2 DEF HandleFilterApply, HandleFilterClear
  <2> QED BY <1>0, <2>1, <2>2, NextParams, AskPreserves
<1> QED BY <1>1, <1>2

LEMMA PagingPreserves == ASSUME IInv, LoadMore \/ LoadLess PROVE IInv'
<1>0. state \in Params /\ drawer \in BOOLEAN /\ shared \in BOOLEAN BY Parts DEF PageOK
<1>1. state.size \in 1..MaxPages BY <1>0 DEF Params
<1>2. ASSUME NEW n \in 1..MaxPages PROVE [state EXCEPT !.size = n] \in Params
  BY <1>0, <1>2 DEF Params
<1>3. CASE LoadMore
  <2>1. /\ state.size < MaxPages /\ UNCHANGED filter
        /\ Ask([state EXCEPT !.size = state.size + 1])
    BY <1>0, <1>3 DEF LoadMore
  <2>2. state.size + 1 \in 1..MaxPages BY ONLY <1>1, <2>1, BoundsAssumption
  <2> QED BY <1>0, <1>2, <2>1, <2>2, AskPreserves DEF filter
<1>4. CASE LoadLess
  <2>1. state.size > 1 /\ Ask([state EXCEPT !.size = state.size - 1]) /\ UNCHANGED filter
    BY <1>0, <1>4 DEF LoadLess
  <2>2. state.size - 1 \in 1..MaxPages BY ONLY <1>1, <2>1, BoundsAssumption
  <2> QED BY <1>0, <1>2, <2>1, <2>2, AskPreserves DEF filter
<1> QED BY <1>3, <1>4

\* The drawer changes what the page asks for only where both hold the same objects.
LEMMA ToggleBoxPreserves == ASSUME IInv, ToggleBox PROVE IInv'
<1> USE DEF ToggleBox, store, map
<1>0. state \in Params BY Parts DEF PageOK
<1>1. AliveOK' /\ DeletionOK' /\ DeletionDone' BY Parts DEF AliveOK, DeletionOK, DeletionDone
<1>2. RequestOK' /\ StoreOK' BY Parts DEF RequestOK, StoreOK
<1>3. MapOK' /\ DialogOK' BY Parts DEF MapOK, DialogOK
<1>4. state' \in Params BY <1>0, NextParams
<1>5. PageOK' BY <1>4, Parts DEF PageOK
<1>6. /\ state'.query = state.query /\ state'.size = state.size
      /\ shared \/ state' = state
  BY <1>0 DEF Params
<1>7. RequestsAskForState' BY <1>6, Parts DEF RequestsAskForState, AsksForState
<1>8. NothingConfirmedComes' BY Parts DEF NothingConfirmedComes
<1> QED BY <1>1, <1>2, <1>3, <1>5, <1>7, <1>8, Parts, PTL

LEMMA ChangeViewPreserves == ASSUME IInv, NEW v \in Views, ChangeView(v) PROVE IInv'
<1> USE DEF ChangeView, store, page, filter
<1>1. RequestOK' /\ StoreOK' /\ RequestsAskForState' /\ NothingConfirmedComes' BY AsideKeeps
<1>2. AliveOK' /\ DeletionOK' /\ DeletionDone' BY Parts DEF AliveOK, DeletionOK, DeletionDone
<1>3. PageOK' /\ DialogOK' BY Parts DEF PageOK, DialogOK
<1>4. MapOK' BY TurnTyped, Parts
<1> QED BY <1>1, <1>2, <1>3, <1>4, Parts, PTL

-------------------------------------------------------------------------------
(* The theorems *)

LEMMA InitIInv == ASSUME Init PROVE IInv
<1> USE DEF Init
<1>1. state \in Params /\ got \in Params OBVIOUS
<1>2. AliveOK /\ DeletionOK /\ DeletionDone
  BY DEF AliveOK, DeletionOK, DeletionDone, NoDeletion
<1>3. StoreOK BY <1>1, EmptyList DEF StoreOK
<1>4. RequestOK BY <1>1, EmptyList DEF RequestOK, NoRequest
<1>5. PageOK BY <1>1 DEF PageOK
<1>6. MapOK BY DEF MapOK, Views
<1>7. DialogOK BY DEF DialogOK
<1>8. RequestsAskForState /\ NothingConfirmedComes
  BY DEF RequestsAskForState, NothingConfirmedComes
<1> QED BY <1>2, <1>3, <1>4, <1>5, <1>6, <1>7, <1>8, Parts

LEMMA StutterPreserves == ASSUME IInv, UNCHANGED vars PROVE IInv'
<1> USE DEF vars, store, page, filter, map
<1>1. RequestOK' /\ StoreOK' /\ RequestsAskForState' /\ NothingConfirmedComes' BY AsideKeeps
<1>2. AliveOK' /\ DeletionOK' /\ DeletionDone' BY Parts DEF AliveOK, DeletionOK, DeletionDone
<1>3. PageOK' /\ MapOK' /\ DialogOK' BY Parts DEF PageOK, MapOK, DialogOK
<1> QED BY <1>1, <1>2, <1>3, Parts, PTL

LEMMA StepIInv == ASSUME IInv, [Next]_vars PROVE IInv'
<1>1. CASE Poll \/ Visit \/ Leave BY <1>1, PollPreserves, VisitPreserves, LeavePreserves
<1>2. CASE ServeRuns \/ ServeDelete \/ \E r \in Runs : Vanish(r) BY <1>2, ServePreserves
<1>3. CASE ReceivedRuns \/ FetchRunsError \/ Unanswered
  BY <1>3, ReceivedRunsPreserves, FetchRunsErrorPreserves, UnansweredPreserves
<1>4. CASE \E q \in Queries :
          \/ Search(q) \/ HandleOwnerFilter(q) \/ OnDrawEnd(q) \/ SetMapView(q)
          \/ HandleUp(q) \/ HandleCancel(q) \/ HandleGeoJSONUpload(q)
          \/ CheckForSearchUpdate(q) \/ HandleSortChange(q)
  BY <1>4, ParamsAsked
<1>5. CASE HandleFilterApply \/ HandleFilterClear
  BY <1>5, ParamsAsked
<1>6. CASE HandleStatusChange \/ HandleProvidersChange
  BY <1>6, ToggleBoxPreserves DEF HandleStatusChange, HandleProvidersChange
<1>7. CASE LoadMore \/ LoadLess BY <1>7, PagingPreserves
<1>8. CASE \E v \in Views : ChangeView(v) BY <1>8, ChangeViewPreserves
<1>9. CASE (\E r \in Runs : Click(r)) \/ ClosePopup
  BY <1>9, ClickPreserves, ClosePopupPreserves
<1>10. CASE \/ \E r \in Runs : MapItem(r) \/ GridItem(r) \/ TableItem(r)
            \/ HideDeleteDialog \/ HandleDelete
  BY <1>10, DialogsPreserve
<1>11. CASE Deleted \/ DeleteFails BY <1>11, DeletedPreserves, DeleteFailsPreserves
<1>12. CASE UNCHANGED vars BY <1>12, StutterPreserves
<1> QED BY <1>1, <1>2, <1>3, <1>4, <1>5, <1>6, <1>7, <1>8, <1>9, <1>10, <1>11, <1>12 DEF Next

LEMMA Inductive == Spec => []IInv
BY InitIInv, StepIInv, PTL DEF Spec

\* Every state has the types the handlers rely on; what is drawn as selected is the
\* selection, and a delete dialog belongs to a run in the list.
THEOREM TypeCorrect == Spec => []TypeOK
<1>1. IInv => TypeOK BY DEF IInv
<1> QED BY <1>1, Inductive, PTL

\* A list shown without a spinner answers what the page asks for now, in whatever order
\* requests were made, cancelled and answered.
THEOREM AnswersState == Spec => []ListAnswersState
<1>1. IInv => ListAnswersState
  <2> SUFFICES ASSUME IInv, open, fetched PROVE /\ [got EXCEPT !.boxes = state.boxes] = state
                                                /\ ~shared => got = state
    BY DEF ListAnswersState
  <2>1. AsksForState(got) /\ got \in Params /\ state \in Params
    BY Parts DEF RequestsAskForState, StoreOK, PageOK
  <2> QED BY <2>1 DEF AsksForState, Params
<1> QED BY <1>1, Inductive, PTL

\* A run whose deletion has been confirmed to the page is not shown by it again,
\* although lists that were asked for before are still on their way.
THEOREM GoneForGood == Spec => []DeletedIsGone
<1>1. IInv => DeletedIsGone BY Parts DEF NothingConfirmedComes, DeletedIsGone
<1> QED BY <1>1, Inductive, PTL
===============================================================================
