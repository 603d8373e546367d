---------------------------- MODULE AuthSessions ----------------------------
(***************************************************************************)
(* The administrator's sessions: the refresh sessions of the admin service *)
(* (crates/rust_admin/src/auth) and the web application's API client       *)
(* (apps/web/src/api/client.ts, hooks/useAuth.ts) in the tabs of one       *)
(* browser, which share its cookies.                                       *)
(*                                                                         *)
(* A message is its sender's record: it is sent with the cookies of the     *)
(* moment and served, or gets lost; then its answer is on the way until it *)
(* is taken or lost.  Sending and serving are one step: what happens       *)
(* between the two (a rotation, an expiry) could as well have been served  *)
(* before the cookies were read, because they change with the answer only. *)
(* Tokens are the numbers of their sessions, 0 is no token.  A CSRF token  *)
(* is compared with the cookie it was read from, so only its presence      *)
(* matters.  Lifetimes end at any moment, and with them cookies.           *)
(***************************************************************************)
EXTENDS Naturals, FiniteSets

CONSTANTS
  Tab,             \* tabs with the application
  Request,         \* API requests under way at a time
  Work,            \* what each may be: a tab and a kind of request
  MaxSessions,     \* refresh sessions that are issued (bound)
  MaxTransient,    \* TRANSIENT_RETRY_DELAYS_MS.length
  None

ASSUME AuthAssumption ==
  /\ MaxSessions \in Nat /\ MaxTransient \in Nat
  /\ None \notin Tab \cup Request /\ Tab \cap Request = {}

Session == 1..MaxSessions
Kind == {"read", "write", "quote"}

ASSUME WorkAssumption == Work \in [Request -> SUBSET [tab : Tab, kind : Kind]]

VARIABLES
  session,   \* admin_refresh_sessions: state, the login it descends from, and the tab
             \* it was rotated for unless that answer was lost (history)
  issued,    \* sessions issued so far
  jar,       \* the cookies: access, refresh and CSRF
  promise,   \* refreshPromise of each tab: the refresh it stands for
  refresh,   \* refresh requests, by the tab or the API request that started them
  login,     \* the login or logout under way, one at a time (bound)
  api        \* API requests; executed counts what a write has done

vars == <<session, issued, jar, promise, refresh, login, api>>

-----------------------------------------------------------------------------

NoCookies == [access |-> FALSE, refresh |-> 0, csrf |-> FALSE]
NoMessage == [answer |-> "none", token |-> 0]
NoApi == [step |-> "none", tab |-> None, kind |-> "read", authRetry |-> FALSE, transient |-> 0,
          answer |-> "ok", executed |-> 0, waits |-> None]

Active(s) == s # 0 /\ session[s].state = "active"

\* auth_success_headers: what the browser keeps of an answer.
SuccessCookies(s) == [access |-> TRUE, refresh |-> s, csrf |-> TRUE]

-----------------------------------------------------------------------------
\* The admin service.

\* create_refresh_session and the second half of rotate_refresh_session.
Issue(table, root) ==
  /\ issued < MaxSessions
  /\ issued' = issued + 1
  /\ session' = [table EXCEPT ![issued + 1] = [state |-> "active", login |-> root, by |-> None]]

\* rotate_refresh_session without the check of revoked_at, and with it: BEGIN
\* IMMEDIATE makes the check and both writes one step.
RotatesAny(s) == s # 0
Rotates(s) == Active(s)

\* refresh with token s on behalf of tab t: it is never served, or the session is
\* rotated and the new token is the answer, or the token is refused.
ServeRefresh(s, t, answer) ==
  \/ answer = [NoMessage EXCEPT !.answer = "lost"] /\ UNCHANGED <<session, issued>>
  \/ /\ Rotates(s)
     /\ Issue([session EXCEPT ![s].state = "ended", ![s].by = t], session[s].login)
     /\ answer = [answer |-> "ok", token |-> issued + 1]
  \/ ~Rotates(s) /\ answer = [answer |-> "refused", token |-> s] /\ UNCHANGED <<session, issued>>

\* require_admin and require_csrf.
RequireAdmin == jar.access
RequireCsrf == jar.csrf

\* authenticate_request and the handler: 401 without a valid access token, 403
\* without the CSRF cookie of a write, or the handler runs; it may run and fail.
\* A request may get lost on its way.
Served(a) ==
  LET Answer(answer) == [a EXCEPT !.step = "served", !.answer = answer]
      done == IF a.kind = "write" THEN a.executed + 1 ELSE 0
  IN  {Answer("lost")} \cup
      CASE ~RequireAdmin -> {Answer("401")}
        [] RequireAdmin /\ a.kind # "read" /\ ~RequireCsrf -> {Answer("403")}
        [] OTHER -> {[Answer(answer) EXCEPT !.executed = done] : answer \in {"ok", "5xx"}}

-----------------------------------------------------------------------------
\* The API client.

\* A request of the application: the request interceptor adds the CSRF header.
Start(q, w) ==
  /\ api[q] = NoApi
  /\ \E a \in Served([NoApi EXCEPT !.tab = w.tab, !.kind = w.kind]) : api' = [api EXCEPT ![q] = a]
  /\ UNCHANGED <<session, issued, jar, promise, refresh, login>>

\* sharedRefresh, when every caller has a refresh of its own.
JoinedAlone(k, t) == k

\* sharedRefresh: the refresh under way in the tab, or the caller's own.
Joined(k, t) == IF promise[t] # None THEN promise[t] ELSE k

\* performRefreshAdmin starts unless the caller joined one.
SharedRefresh(k, t) ==
  LET j == Joined(k, t) IN
  /\ promise' = [promise EXCEPT ![t] = j]
  /\ \/ j = promise[t] /\ UNCHANGED <<session, issued, refresh>>
     \/ /\ j # promise[t]
        /\ \E answer \in [answer : {"lost", "ok", "refused"}, token : 0..MaxSessions] :
             /\ ServeRefresh(jar.refresh, t, answer)
             /\ refresh' = [refresh EXCEPT ![j] = answer]

\* canRetryTransient, without the check of the method.
CanRetryAny(a) == a.answer \in {"5xx", "lost"} /\ a.transient < MaxTransient

\* canRetryTransient: reads and the upload quote.
CanRetryTransient(a) ==
  a.answer \in {"5xx", "lost"} /\ a.transient < MaxTransient /\ a.kind \in {"read", "quote"}

\* The response interceptor: a 401 that asks for a refresh.
Refreshes(a) == a.answer = "401" /\ ~a.authRetry

\* The response interceptor.
Respond(q) ==
  LET a == api[q] IN
  /\ a.step = "served"
  /\ \/ /\ Refreshes(a)
        /\ SharedRefresh(q, a.tab)
        /\ api' = [api EXCEPT ![q] = [a EXCEPT !.step = "refresh", !.answer = "ok",
                                               !.authRetry = TRUE, !.waits = Joined(q, a.tab)]]
     \/ /\ CanRetryTransient(a)
        /\ api' = [api EXCEPT ![q] = [a EXCEPT !.step = "again", !.answer = "ok",
                                               !.transient = @ + 1]]
        /\ UNCHANGED <<session, issued, promise, refresh>>
     \/ /\ ~Refreshes(a) /\ ~CanRetryTransient(a)
        /\ api' = [api EXCEPT ![q] = NoApi]
        /\ UNCHANGED <<session, issued, promise, refresh>>
  /\ UNCHANGED <<jar, login>>

\* api.request(config), after the delay of a transient retry or a refresh.
SendAgain(q) ==
  /\ api[q].step = "again"
  /\ \E a \in Served(api[q]) : api' = [api EXCEPT ![q] = a]
  /\ UNCHANGED <<session, issued, jar, promise, refresh, login>>

\* The answer gets lost, or comes after the client's timeout.
LoseAnswer(q) ==
  /\ api[q].step = "served" /\ api[q].answer # "lost"
  /\ api' = [api EXCEPT ![q].answer = "lost"]
  /\ UNCHANGED <<session, issued, jar, promise, refresh, login>>

\* performRefreshAdmin succeeds: the promise is cleared and those who wait for it
\* send their requests again.
TakeRefresh(k, t) ==
  /\ promise[t] = k /\ refresh[k].answer = "ok"
  /\ jar' = SuccessCookies(refresh[k].token)
  /\ promise' = [promise EXCEPT ![t] = None]
  /\ refresh' = [refresh EXCEPT ![k] = NoMessage]
  /\ api' = [q \in Request |->
               IF api[q].step = "refresh" /\ api[q].waits = k
               THEN [api[q] EXCEPT !.step = "again", !.waits = None] ELSE api[q]]
  /\ UNCHANGED <<session, issued, login>>

\* performRefreshAdmin fails, because it is refused or its answer is lost: those
\* who wait for it are rejected.
FailRefresh(k, t) ==
  /\ promise[t] = k /\ refresh[k].answer # "none"
  /\ session' = IF refresh[k].answer = "ok"
                THEN [s \in Session |-> IF session[s].login = session[refresh[k].token].login
                                        THEN [session[s] EXCEPT !.by = None] ELSE session[s]]
                ELSE session
  /\ promise' = [promise EXCEPT ![t] = None]
  /\ refresh' = [refresh EXCEPT ![k] = NoMessage]
  /\ api' = [q \in Request |->
               IF api[q].step = "refresh" /\ api[q].waits = k THEN NoApi ELSE api[q]]
  /\ UNCHANGED <<issued, jar, login>>

\* useAuth: the application is loaded while there is a CSRF cookie.
Restore(t) ==
  /\ jar.csrf /\ promise[t] = None
  /\ SharedRefresh(t, t)
  /\ UNCHANGED <<jar, login, api>>

\* loginAdmin with valid credentials.
Login ==
  /\ login = NoMessage
  /\ Issue(session, issued + 1)
  /\ login' = [answer |-> "ok", token |-> issued + 1]
  /\ UNCHANGED <<jar, promise, refresh, api>>

\* logoutAdmin; logout: require_csrf, then revoke_refresh_session.
Logout ==
  /\ login = NoMessage
  /\ login' = [NoMessage EXCEPT !.answer = IF RequireCsrf THEN "out" ELSE "refused"]
  /\ session' = IF RequireCsrf /\ Active(jar.refresh)
                THEN [session EXCEPT ![jar.refresh].state = "ended"] ELSE session
  /\ UNCHANGED <<issued, jar, promise, refresh, api>>

\* The cookies of the answer: expired_auth_cookie_headers for a logout, none when
\* it was refused.
TakeLogin ==
  /\ login # NoMessage
  /\ jar' = CASE login.answer = "ok" -> SuccessCookies(login.token)
              [] login.answer = "out" -> NoCookies
              [] OTHER -> jar
  /\ login' = NoMessage
  /\ UNCHANGED <<session, issued, promise, refresh, api>>

\* No answer; useAuth ignores what becomes of a logout.
LoseLogin ==
  /\ login # NoMessage
  /\ login' = NoMessage
  /\ UNCHANGED <<session, issued, jar, promise, refresh, api>>

-----------------------------------------------------------------------------
\* Time.

\* The access token in the cookies expires.
ExpireAccess ==
  /\ jar.access
  /\ jar' = [jar EXCEPT !.access = FALSE]
  /\ UNCHANGED <<session, issued, promise, refresh, login, api>>

\* A refresh session expires, with its cookie and the CSRF cookie.
ExpireSession(s) ==
  /\ Active(s)
  /\ session' = [session EXCEPT ![s].state = "ended"]
  /\ jar' = IF jar.refresh = s THEN NoCookies ELSE jar
  /\ UNCHANGED <<issued, promise, refresh, login, api>>

Init ==
  /\ session = [s \in Session |-> [state |-> "none", login |-> 0, by |-> None]]
  /\ issued = 0
  /\ jar = NoCookies
  /\ promise = [t \in Tab |-> None]
  /\ refresh = [k \in Tab \cup Request |-> NoMessage]
  /\ login = NoMessage
  /\ api = [q \in Request |-> NoApi]

RequestStep(q) == Respond(q) \/ SendAgain(q) \/ LoseAnswer(q)
RefreshStep(t) == \E k \in Tab \cup Request : TakeRefresh(k, t) \/ FailRefresh(k, t)

Next ==
  \/ \E q \in Request : (\E w \in Work[q] : Start(q, w)) \/ RequestStep(q)
  \/ \E t \in Tab : RefreshStep(t) \/ Restore(t)
  \/ Login \/ Logout \/ TakeLogin \/ LoseLogin
  \/ \E s \in Session : ExpireSession(s)
  \/ ExpireAccess

Spec == Init /\ [][Next]_vars

-----------------------------------------------------------------------------

\* A login never has two active sessions (rotate_refresh_session), however its
\* token is used by several tabs at once, repeated late or carried by a logout.
OneActivePerLogin ==
  \A r, s \in Session :
    Active(r) /\ Active(s) /\ session[r].login = session[s].login => r = s

\* A tab does not sign itself out: when its refresh is refused, the token expired,
\* was revoked by a logout or rotated for another tab, or the browser never got
\* the answer to the tab's own rotation (sharedRefresh).
NoSelfLogout ==
  \A t \in Tab :
    promise[t] # None /\ refresh[promise[t]].answer = "refused" /\ refresh[promise[t]].token # 0
      => session[refresh[promise[t]].token].by # t

\* What a write does is done once, although answers are lost and the client sends
\* requests again after a refresh or a transient error (canRetryTransient).
WritesOnce == \A q \in Request : api[q].kind = "write" => api[q].executed <= 1

=============================================================================
