------------------------- MODULE AuthSessionsProofs -------------------------
(***************************************************************************)
(* Proofs about AuthSessions, for any number of tabs, requests, sessions   *)
(* and retries: a login has one active session, a write is done once, and  *)
(* no tab signs itself out.                                                *)
(***************************************************************************)
EXTENDS AuthSessions, TLAPS

Token == 0..MaxSessions
Message == [answer : {"none", "ok", "out", "refused", "lost"}, token : Token]
SessionRow == [state : {"none", "active", "ended"}, login : Token, by : Tab \cup {None}]
ApiRequest == [step : {"none", "served", "refresh", "again"}, tab : Tab \cup {None}, kind : Kind,
               authRetry : BOOLEAN, transient : Nat,
               answer : {"ok", "401", "403", "5xx", "lost"}, executed : Nat,
               waits : Tab \cup Request \cup {None}]

\* Sessions, cookies and messages.
Types ==
  /\ session \in [Session -> SessionRow]
  /\ issued \in Token
  /\ jar \in [access : BOOLEAN, refresh : Token, csrf : BOOLEAN]
  /\ promise \in [Tab -> Tab \cup Request \cup {None}]
  /\ refresh \in [Tab \cup Request -> Message]
  /\ login \in Message
  /\ api \in [Request -> ApiRequest]

\* Numbers above `issued` are unused, and a session descends from a login at or
\* below it: the next login starts a family of its own.
Numbered ==
  \A s \in Session :
    /\ session[s].state = "none" <=> s > issued
    /\ session[s].login <= issued

\* A request belongs to a tab, and a write that will be sent again has not been
\* executed.
ApiOK(a) ==
  /\ a \in ApiRequest
  /\ a.step # "none" => a.tab \in Tab
  /\ a.kind = "write" =>
       /\ a.executed <= 1
       /\ a.step \in {"refresh", "again"} \/ a.answer = "401" => a.executed = 0

IInv == Types /\ Numbered /\ OneActivePerLogin /\ \A q \in Request : ApiOK(api[q])

-----------------------------------------------------------------------------
\* The table of sessions.

\* What every step keeps true of the sessions, apart from the types of the rest.
SessionsOK ==
  /\ session \in [Session -> SessionRow]
  /\ issued \in Token
  /\ Numbered
  /\ OneActivePerLogin

\* A new login is a family of its own, with one active session.
LEMMA IssueLogin ==
  ASSUME SessionsOK, Issue(session, issued + 1)
  PROVE  SessionsOK' /\ issued + 1 \in Token
<1> USE AuthAssumption DEF Session, Token
<1>1. issued + 1 \in Session
  BY DEF SessionsOK, Issue
<1>2. session' \in [Session -> SessionRow] /\ issued' \in Token
  BY <1>1 DEF SessionsOK, Issue, SessionRow
<1>3. Numbered'
  BY <1>1, <1>2 DEF SessionsOK, Numbered, Issue, SessionRow
<1>4. OneActivePerLogin'
  BY <1>1, <1>2 DEF SessionsOK, Numbered, OneActivePerLogin, Active, Issue, SessionRow
<1> QED BY <1>1, <1>2, <1>3, <1>4 DEF SessionsOK

\* rotate_refresh_session replaces the active session of the family by another.
LEMMA RotateSession ==
  ASSUME SessionsOK, NEW s \in Token, NEW t \in Tab \cup {None}, Active(s),
         Issue([session EXCEPT ![s].state = "ended", ![s].by = t], session[s].login)
  PROVE  SessionsOK' /\ issued + 1 \in Token
<1> USE AuthAssumption DEF Session, Token
<1>1. s \in Session /\ issued + 1 \in Session /\ s <= issued
  BY DEF SessionsOK, Issue, Active, Numbered
<1> DEFINE table == [session EXCEPT ![s].state = "ended", ![s].by = t]
<1>2. table \in [Session -> SessionRow]
  BY <1>1 DEF SessionsOK, SessionRow
<1>3. session' = [table EXCEPT ![issued + 1] =
                    [state |-> "active", login |-> session[s].login, by |-> None]]
      /\ issued' = issued + 1
  BY DEF Issue
<1>4. \A r \in Session :
        /\ r # issued + 1 => /\ session'[r].login = session[r].login
                             /\ session'[r].state = IF r = s THEN "ended" ELSE session[r].state
        /\ r = issued + 1 => session'[r].login = session[s].login /\ session'[r].state = "active"
  BY <1>1, <1>2, <1>3 DEF SessionsOK, SessionRow
<1>5. session' \in [Session -> SessionRow] /\ issued' \in Token
  BY <1>1, <1>2, <1>3 DEF SessionsOK, SessionRow
<1>6. Numbered'
  <2>1. \A r \in Session : session[r].login \in Token
    BY DEF SessionsOK, SessionRow
  <2>2. ASSUME NEW r \in Session
        PROVE  (session'[r].state = "none" <=> r > issued') /\ session'[r].login <= issued'
    <3>1. CASE r = issued + 1
      BY <1>1, <1>3, <1>4, <2>1, <3>1 DEF SessionsOK, Numbered
    <3>2. CASE r # issued + 1 /\ r # s
      BY <1>1, <1>3, <1>4, <2>1, <3>2 DEF SessionsOK, Numbered
    <3>3. CASE r # issued + 1 /\ r = s
      BY <1>1, <1>3, <1>4, <2>1, <3>3 DEF SessionsOK, Numbered
    <3> QED BY <3>1, <3>2, <3>3
  <2> QED BY <2>2 DEF Numbered
<1>7. OneActivePerLogin'
  BY <1>1, <1>3, <1>4 DEF SessionsOK, Numbered, OneActivePerLogin, Active
<1> QED BY <1>1, <1>5, <1>6, <1>7 DEF SessionsOK

\* A session that ends leaves the others alone.
LEMMA EndSession ==
  ASSUME SessionsOK, NEW s \in Session, Active(s),
         session' = [session EXCEPT ![s].state = "ended"], UNCHANGED issued
  PROVE  SessionsOK'
<1> USE AuthAssumption DEF Session, Token
<1>1. session' \in [Session -> SessionRow]
  BY DEF SessionsOK, SessionRow
<1>2. \A r \in Session : /\ session'[r].login = session[r].login
                         /\ session'[r].state = IF r = s THEN "ended" ELSE session[r].state
  BY DEF SessionsOK, SessionRow
<1>3. Numbered'
  BY <1>2 DEF SessionsOK, Numbered, Active
<1>4. OneActivePerLogin'
  BY <1>2 DEF SessionsOK, OneActivePerLogin, Active
<1> QED BY <1>1, <1>3, <1>4 DEF SessionsOK

\* Only state and login of the rows matter.
LEMMA SameSessions ==
  ASSUME SessionsOK, session' \in [Session -> SessionRow], UNCHANGED issued,
         \A s \in Session : /\ session'[s].state = session[s].state
                            /\ session'[s].login = session[s].login
  PROVE  SessionsOK'
BY DEF SessionsOK, Numbered, OneActivePerLogin, Active, Session

\* A refresh with a token of the browser.
LEMMA ServeRefreshOK ==
  ASSUME SessionsOK, NEW s \in Token, NEW t \in Tab \cup {None}, NEW answer,
         ServeRefresh(s, t, answer)
  PROVE  SessionsOK' /\ answer \in Message
<1> USE AuthAssumption DEF NoMessage, Message
<1>1. CASE answer = [NoMessage EXCEPT !.answer = "lost"] /\ UNCHANGED <<session, issued>>
  <2>1. SessionsOK'
    BY <1>1 DEF SessionsOK, Numbered, OneActivePerLogin, Active
  <2> QED BY <1>1, <2>1 DEF Token
<1>2. CASE /\ Rotates(s)
           /\ Issue([session EXCEPT ![s].state = "ended", ![s].by = t], session[s].login)
           /\ answer = [answer |-> "ok", token |-> issued + 1]
  BY <1>2, RotateSession DEF Rotates
<1>3. CASE ~Rotates(s) /\ answer = [answer |-> "refused", token |-> s] /\ UNCHANGED <<session, issued>>
  <2>1. SessionsOK'
    BY <1>3 DEF SessionsOK, Numbered, OneActivePerLogin, Active
  <2> QED BY <1>3, <2>1
<1> QED BY <1>1, <1>2, <1>3 DEF ServeRefresh

\* sharedRefresh, for a tab or a request of one.
LEMMA SharedRefreshOK ==
  ASSUME IInv, NEW k \in Tab \cup Request, NEW t \in Tab \cup {None}, SharedRefresh(k, t)
  PROVE  /\ SessionsOK'
         /\ promise' \in [Tab -> Tab \cup Request \cup {None}]
         /\ refresh' \in [Tab \cup Request -> Message]
<1>1. SessionsOK /\ jar.refresh \in Token
  BY DEF IInv, Types, SessionsOK
<1>2. promise' \in [Tab -> Tab \cup Request \cup {None}]
  BY DEF SharedRefresh, Joined, IInv, Types
<1>3. CASE UNCHANGED <<session, issued, refresh>>
  <2>1. SessionsOK'
    BY <1>1, <1>3 DEF SessionsOK, Numbered, OneActivePerLogin, Active
  <2> QED BY <1>2, <1>3, <2>1 DEF IInv, Types
<1>4. CASE \E answer \in [answer : {"lost", "ok", "refused"}, token : 0..MaxSessions] :
             /\ ServeRefresh(jar.refresh, t, answer)
             /\ refresh' = [refresh EXCEPT ![Joined(k, t)] = answer]
  <2>1. PICK answer : /\ ServeRefresh(jar.refresh, t, answer)
                      /\ refresh' = [refresh EXCEPT ![Joined(k, t)] = answer]
    BY <1>4
  <2>2. SessionsOK' /\ answer \in Message
    BY <1>1, <2>1, ServeRefreshOK
  <2> QED BY <1>2, <2>1, <2>2 DEF IInv, Types
<1> QED BY <1>3, <1>4 DEF SharedRefresh

-----------------------------------------------------------------------------
\* The API requests.

\* A request that was not executed may be served.
LEMMA ServedOK ==
  ASSUME NEW a, ApiOK(a), a.tab \in Tab, a.executed = 0 \/ a.kind # "write", NEW b \in Served(a)
  PROVE  ApiOK(b)
<1>1. PICK n \in Nat, r \in {"ok", "401", "403", "5xx", "lost"} :
        /\ b = [a EXCEPT !.step = "served", !.answer = r, !.executed = n]
        /\ a.kind = "write" => n <= 1 /\ (r = "401" => n = 0)
  <2>1. a \in ApiRequest /\ a.executed \in Nat
    BY DEF ApiOK, ApiRequest
  <2> DEFINE Answer(r) == [a EXCEPT !.step = "served", !.answer = r]
             done == IF a.kind = "write" THEN a.executed + 1 ELSE 0
  <2>2. \A r : Answer(r) = [a EXCEPT !.step = "served", !.answer = r, !.executed = a.executed]
    BY <2>1 DEF ApiRequest
  <2>3. \A r : [Answer(r) EXCEPT !.executed = done]
                 = [a EXCEPT !.step = "served", !.answer = r, !.executed = done]
    BY <2>1 DEF ApiRequest
  <2>4. \/ b \in {Answer("lost"), Answer("401"), Answer("403")}
        \/ \E r \in {"ok", "5xx"} : b = [Answer(r) EXCEPT !.executed = done]
    BY DEF Served
  <2>5. CASE b \in {Answer("lost"), Answer("401"), Answer("403")}
    <3>1. PICK r \in {"lost", "401", "403"} : b = Answer(r)
      BY <2>5
    <3>2. b = [a EXCEPT !.step = "served", !.answer = r, !.executed = a.executed]
      BY <2>2, <3>1
    <3>3. a.kind = "write" => a.executed <= 1 /\ (r = "401" => a.executed = 0)
      OBVIOUS
    <3> HIDE DEF Answer, done
    <3> QED BY <2>1, <3>2, <3>3
  <2>6. CASE \E r \in {"ok", "5xx"} : b = [Answer(r) EXCEPT !.executed = done]
    <3>1. PICK r \in {"ok", "5xx"} : b = [Answer(r) EXCEPT !.executed = done]
      BY <2>6
    <3>2. b = [a EXCEPT !.step = "served", !.answer = r, !.executed = done]
      BY <2>3, <3>1
    <3>3. done \in Nat /\ (a.kind = "write" => done <= 1) /\ r # "401"
      BY <2>1
    <3> QED BY <3>2, <3>3
  <2> QED BY <2>4, <2>5, <2>6
<1>2. b \in ApiRequest /\ b.kind = a.kind /\ b.tab = a.tab /\ b.step = "served" /\ b.answer = r /\ b.executed = n
  BY <1>1 DEF ApiOK, ApiRequest
<1> QED BY <1>1, <1>2 DEF ApiOK

\* The parts of the invariant, put together.
LEMMA Combined ==
  ASSUME SessionsOK, \A q \in Request : ApiOK(api[q]), api = [q \in Request |-> api[q]],
         jar \in [access : BOOLEAN, refresh : Token, csrf : BOOLEAN],
         promise \in [Tab -> Tab \cup Request \cup {None}],
         refresh \in [Tab \cup Request -> Message], login \in Message
  PROVE  IInv
<1>1. api \in [Request -> ApiRequest]
  BY DEF ApiOK
<1> QED BY <1>1 DEF IInv, Types, SessionsOK

\* Conversely, the parts that a step works with.
LEMMA Parts ==
  ASSUME IInv
  PROVE  SessionsOK /\ (\A q \in Request : ApiOK(api[q])) /\ api = [q \in Request |-> api[q]]
<1>1. \A q \in Request : api[q] \in ApiRequest
  BY DEF IInv, Types
<1>2. api = [q \in Request |-> api[q]]
  BY DEF IInv, Types
<1> QED BY <1>1, <1>2 DEF IInv, Types, SessionsOK

\* One request changes.
LEMMA ApiChanged ==
  ASSUME IInv, NEW q \in Request, NEW a, ApiOK(a), api' = [api EXCEPT ![q] = a]
  PROVE  (\A p \in Request : ApiOK(api'[p])) /\ api' = [p \in Request |-> api'[p]]
<1>1. \A p \in Request : ApiOK(api[p])
  BY Parts
<1>2. \A p \in Request : api'[p] = IF p = q THEN a ELSE api[p]
  BY DEF IInv, Types
<1>3. api' = [p \in Request |-> api'[p]]
  BY DEF IInv, Types
<1> QED BY <1>1, <1>2, <1>3

\* A request that is not under way meets its invariant.
LEMMA NoApiOK == ApiOK(NoApi)
BY DEF ApiOK, NoApi, ApiRequest, Kind

-----------------------------------------------------------------------------

\* No session has been issued and no request sent.
LEMMA InitIInv == Init => IInv
<1> SUFFICES ASSUME Init PROVE IInv
  OBVIOUS
<1> USE AuthAssumption
<1>1. SessionsOK
  BY DEF Init, SessionsOK, SessionRow, Session, Token, Numbered, OneActivePerLogin, Active
<1>2. /\ jar \in [access : BOOLEAN, refresh : Token, csrf : BOOLEAN]
      /\ promise \in [Tab -> Tab \cup Request \cup {None}]
      /\ refresh \in [Tab \cup Request -> Message]
      /\ login \in Message
  BY DEF Init, NoCookies, NoMessage, Token, Message
<1>3. (\A q \in Request : ApiOK(api[q])) /\ api = [q \in Request |-> api[q]]
  BY NoApiOK DEF Init
<1> QED BY <1>1, <1>2, <1>3, Combined

\* Every step keeps the invariant.
LEMMA NextIInv == IInv /\ [Next]_vars => IInv'
<1> SUFFICES ASSUME IInv, [Next]_vars PROVE IInv'
  OBVIOUS
<1> USE AuthAssumption
<1> DEFINE ApisOK == (\A q \in Request : ApiOK(api[q])) /\ api = [q \in Request |-> api[q]]
           RestOK == /\ jar \in [access : BOOLEAN, refresh : Token, csrf : BOOLEAN]
                     /\ promise \in [Tab -> Tab \cup Request \cup {None}]
                     /\ refresh \in [Tab \cup Request -> Message]
                     /\ login \in Message
<1>c. SessionsOK' /\ ApisOK' /\ RestOK' => IInv'
  <2> SUFFICES ASSUME SessionsOK', ApisOK', RestOK' PROVE IInv'
    OBVIOUS
  <2>1. api' \in [Request -> ApiRequest]
    BY DEF ApiOK
  <2> QED BY <2>1 DEF IInv, Types, SessionsOK
<1>p. SessionsOK /\ ApisOK
  BY Parts
<1>r. RestOK
  BY DEF IInv, Types
<1>s. UNCHANGED <<session, issued>> => SessionsOK'
  BY <1>p DEF SessionsOK, Numbered, OneActivePerLogin, Active
<1>u. UNCHANGED api => ApisOK'
  BY <1>p
<1>t. 0 \in Token
  BY DEF Token
<1>1. ASSUME NEW q \in Request, NEW w \in Work[q], Start(q, w) PROVE IInv'
  <2>1. w \in [tab : Tab, kind : Kind]
    BY <1>1, WorkAssumption
  <2> DEFINE a == [NoApi EXCEPT !.tab = w.tab, !.kind = w.kind]
  <2>2. ApiOK(a) /\ a.executed = 0 /\ a.tab \in Tab
    <3>1. /\ NoApi \in ApiRequest
          /\ NoApi.step = "none" /\ NoApi.answer = "ok" /\ NoApi.executed = 0
      BY NoApiOK DEF NoApi, ApiOK
    <3>2. w.tab \in Tab /\ w.kind \in Kind
      BY <2>1
    <3>3. /\ a \in ApiRequest /\ a.tab = w.tab
          /\ a.step = "none" /\ a.answer = "ok" /\ a.executed = 0
      BY <3>1, <3>2 DEF ApiRequest
    <3> QED BY <3>2, <3>3 DEF ApiOK
  <2>3. PICK b \in Served(a) : api' = [api EXCEPT ![q] = b]
    BY <1>1 DEF Start
  <2> HIDE DEF a
  <2>4. ApiOK(b)
    BY <2>2, ServedOK
  <2>5. ApisOK'
    BY <2>3, <2>4, ApiChanged
  <2> QED BY <1>1, <1>c, <1>r, <1>s, <2>5 DEF Start
<1>2. ASSUME NEW q \in Request, Respond(q) PROVE IInv'
  <2> DEFINE a == api[q]
  <2>1. ApiOK(a) /\ a \in ApiRequest
    BY <1>p DEF ApiOK
  <2>2. CASE /\ Refreshes(a)
             /\ SharedRefresh(q, a.tab)
             /\ api' = [api EXCEPT ![q] = [a EXCEPT !.step = "refresh", !.answer = "ok",
                                               !.authRetry = TRUE, !.waits = Joined(q, a.tab)]]
    <3>0. a.tab \in Tab /\ Joined(q, a.tab) \in Tab \cup Request \cup {None}
      BY <1>2, <1>r, <2>1 DEF Respond, ApiOK, Joined
    <3>1. SessionsOK' /\ promise' \in [Tab -> Tab \cup Request \cup {None}]
            /\ refresh' \in [Tab \cup Request -> Message]
      BY <2>2, <3>0, SharedRefreshOK
    <3>2. ApiOK([a EXCEPT !.step = "refresh", !.answer = "ok",
                          !.authRetry = TRUE, !.waits = Joined(q, a.tab)])
      BY <2>1, <2>2, <3>0 DEF ApiOK, ApiRequest, Refreshes
    <3>3. ApisOK'
      BY <2>2, <3>2, ApiChanged
    <3> QED BY <1>2, <1>c, <1>r, <3>1, <3>3 DEF Respond
  <2>3. CASE /\ CanRetryTransient(a)
             /\ api' = [api EXCEPT ![q] = [a EXCEPT !.step = "again", !.answer = "ok",
                                                    !.transient = @ + 1]]
             /\ UNCHANGED <<session, issued, promise, refresh>>
    <3>1. ApiOK([a EXCEPT !.step = "again", !.answer = "ok", !.transient = @ + 1])
      <4> DEFINE b == [a EXCEPT !.step = "again", !.answer = "ok", !.transient = @ + 1]
      <4>1. b \in ApiRequest
        <5>1. a.transient + 1 \in Nat
          BY <2>1 DEF ApiRequest
        <5>2. \A n \in Nat : [a EXCEPT !.step = "again", !.answer = "ok", !.transient = n] \in ApiRequest
          BY <2>1 DEF ApiRequest
        <5> QED BY <5>1, <5>2
      <4>2. b.kind = a.kind /\ b.tab = a.tab /\ b.step = "again" /\ b.kind # "write" /\ a.tab \in Tab
        BY <1>2, <2>1, <2>3 DEF ApiOK, ApiRequest, CanRetryTransient, Respond
      <4> QED BY <4>1, <4>2 DEF ApiOK
    <3>2. ApisOK'
      BY <2>3, <3>1, ApiChanged
    <3> QED BY <1>2, <1>c, <1>r, <1>s, <2>3, <3>2 DEF Respond
  <2>4. CASE /\ api' = [api EXCEPT ![q] = NoApi]
             /\ UNCHANGED <<session, issued, promise, refresh>>
    <3>1. ApisOK'
      BY <2>4, NoApiOK, ApiChanged
    <3> QED BY <1>2, <1>c, <1>r, <1>s, <2>4, <3>1 DEF Respond
  <2> QED BY <1>2, <2>2, <2>3, <2>4 DEF Respond
<1>3. ASSUME NEW q \in Request, SendAgain(q) PROVE IInv'
  <2>1. ApiOK(api[q]) /\ api[q].tab \in Tab /\ (api[q].executed = 0 \/ api[q].kind # "write")
    BY <1>3, <1>p DEF SendAgain, ApiOK
  <2>2. PICK b \in Served(api[q]) : api' = [api EXCEPT ![q] = b]
    BY <1>3 DEF SendAgain
  <2>3. ApiOK(b)
    BY <2>1, ServedOK
  <2>4. ApisOK'
    BY <2>2, <2>3, ApiChanged
  <2> QED BY <1>3, <1>c, <1>r, <1>s, <2>4 DEF SendAgain
<1>4. ASSUME NEW q \in Request, LoseAnswer(q) PROVE IInv'
  <2>1. ApiOK([api[q] EXCEPT !.answer = "lost"])
    BY <1>4, <1>p DEF LoseAnswer, ApiOK, ApiRequest
  <2>2. api' = [api EXCEPT ![q] = [api[q] EXCEPT !.answer = "lost"]]
    BY <1>4 DEF LoseAnswer
  <2>3. ApisOK'
    BY <2>1, <2>2, ApiChanged
  <2> QED BY <1>4, <1>c, <1>r, <1>s, <2>3 DEF LoseAnswer
<1>5. ASSUME NEW t \in Tab, NEW k \in Tab \cup Request, TakeRefresh(k, t) PROVE IInv'
  <2>1. refresh[k] \in Message
    BY <1>r
  <2>2. RestOK'
    BY <1>5, <1>r, <1>t, <2>1 DEF TakeRefresh, SuccessCookies, NoMessage, Message
  <2>3. \A q \in Request : ApiOK(api'[q])
    <3> SUFFICES ASSUME NEW q \in Request PROVE ApiOK(api'[q])
      OBVIOUS
    <3>1. ApiOK(api[q])
      BY <1>p
    <3>2. CASE api'[q] = api[q]
      BY <3>1, <3>2
    <3>3. CASE api[q].step = "refresh" /\ api'[q] = [api[q] EXCEPT !.step = "again", !.waits = None]
      BY <3>1, <3>3 DEF ApiOK, ApiRequest
    <3> QED BY <1>5, <3>2, <3>3 DEF TakeRefresh
  <2>4. ApisOK'
    BY <1>5, <2>3 DEF TakeRefresh
  <2> QED BY <1>5, <1>c, <1>s, <2>2, <2>4 DEF TakeRefresh
<1>6. ASSUME NEW t \in Tab, NEW k \in Tab \cup Request, FailRefresh(k, t) PROVE IInv'
  <2>1. RestOK'
    BY <1>6, <1>r, <1>t DEF FailRefresh, NoMessage, Message
  <2>2. \A q \in Request : ApiOK(api'[q])
    BY <1>6, <1>p, NoApiOK DEF FailRefresh
  <2>3. ApisOK'
    BY <1>6, <2>2 DEF FailRefresh
  <2>4. SessionsOK'
    <3>1. CASE session' = session
      BY <1>6, <1>s, <3>1 DEF FailRefresh
    <3>2. CASE session' = [s \in Session |->
                 IF session[s].login = session[refresh[k].token].login
                 THEN [session[s] EXCEPT !.by = None] ELSE session[s]]
      <4>1. session \in [Session -> SessionRow]
        BY <1>p DEF SessionsOK
      <4>2. session' \in [Session -> SessionRow]
        BY <3>2, <4>1 DEF SessionRow
      <4>3. \A s \in Session : /\ session'[s].state = session[s].state
                               /\ session'[s].login = session[s].login
        BY <3>2, <4>1 DEF SessionRow
      <4> QED BY <1>6, <1>p, <4>2, <4>3, SameSessions DEF FailRefresh
    <3> QED BY <1>6, <3>1, <3>2 DEF FailRefresh
  <2> QED BY <1>c, <2>1, <2>3, <2>4
<1>7. ASSUME NEW t \in Tab, Restore(t) PROVE IInv'
  <2>1. SessionsOK' /\ promise' \in [Tab -> Tab \cup Request \cup {None}]
          /\ refresh' \in [Tab \cup Request -> Message]
    BY <1>7, SharedRefreshOK DEF Restore
  <2> QED BY <1>7, <1>c, <1>r, <1>u, <2>1 DEF Restore
<1>8. ASSUME Login PROVE IInv'
  <2>1. SessionsOK' /\ issued + 1 \in Token
    BY <1>8, <1>p, IssueLogin DEF Login
  <2>2. RestOK'
    BY <1>8, <1>r, <2>1 DEF Login, Message
  <2> QED BY <1>8, <1>c, <1>u, <2>1, <2>2 DEF Login
<1>9. ASSUME Logout PROVE IInv'
  <2>1. login' \in Message
    BY <1>9, <1>t DEF Logout, NoMessage, Message
  <2>2. SessionsOK'
    <3>1. CASE RequireCsrf /\ Active(jar.refresh)
      <4>1. jar.refresh \in Session
        BY <1>r, <3>1 DEF Active, Token, Session
      <4> QED BY <1>9, <1>p, <3>1, <4>1, EndSession DEF Logout
    <3>2. CASE ~(RequireCsrf /\ Active(jar.refresh))
      BY <1>9, <1>s, <3>2 DEF Logout
    <3> QED BY <3>1, <3>2
  <2> QED BY <1>9, <1>c, <1>r, <1>u, <2>1, <2>2 DEF Logout
<1>10. ASSUME TakeLogin PROVE IInv'
  <2>1. RestOK'
    BY <1>10, <1>r, <1>t DEF TakeLogin, NoMessage, Message, SuccessCookies, NoCookies
  <2> QED BY <1>10, <1>c, <1>s, <1>u, <2>1 DEF TakeLogin
<1>11. ASSUME LoseLogin PROVE IInv'
  <2>1. RestOK'
    BY <1>11, <1>r, <1>t DEF LoseLogin, NoMessage, Message
  <2> QED BY <1>11, <1>c, <1>s, <1>u, <2>1 DEF LoseLogin
<1>12. ASSUME NEW s \in Session, ExpireSession(s) PROVE IInv'
  <2>1. SessionsOK'
    BY <1>12, <1>p, EndSession DEF ExpireSession
  <2>2. RestOK'
    BY <1>12, <1>r, <1>t DEF ExpireSession, NoCookies
  <2> QED BY <1>12, <1>c, <1>u, <2>1, <2>2 DEF ExpireSession
<1>13. ASSUME ExpireAccess PROVE IInv'
  <2>1. RestOK'
    BY <1>13, <1>r DEF ExpireAccess
  <2> QED BY <1>13, <1>c, <1>s, <1>u, <2>1 DEF ExpireAccess
<1>14. ASSUME UNCHANGED vars PROVE IInv'
  BY <1>14, <1>c, <1>r, <1>s, <1>u DEF vars
<1> QED
  BY <1>1, <1>2, <1>3, <1>4, <1>5, <1>6, <1>7, <1>8, <1>9, <1>10, <1>11, <1>12, <1>13, <1>14
     DEF Next, RequestStep, RefreshStep

\* The table of refresh sessions (auth/sessions.rs), whatever tabs, late answers and
\* logouts do: a login never has two active sessions.
THEOREM LoginHasOneActiveSession == Spec => []OneActivePerLogin
<1>1. IInv => OneActivePerLogin
  BY DEF IInv
<1> QED BY <1>1, InitIInv, NextIInv, PTL DEF Spec

\* The API client (client.ts): the retries after a refresh or a transient error never
\* repeat a write whose handler ran.
THEOREM WritesAreDoneOnce == Spec => []WritesOnce
<1>1. IInv => WritesOnce
  BY DEF IInv, ApiOK, WritesOnce
<1> QED BY <1>1, InitIInv, NextIInv, PTL DEF Spec

-----------------------------------------------------------------------------
\* Why no tab signs itself out: what is true of the promises, of the tokens on their way
\* and of the token in the cookies.

\* The refresh a tab waits for is its own or that of one of its requests, which waits too.
OwnPromise == \A t \in Tab :
  promise[t] \notin {None, t} =>
    /\ promise[t] \in Request
    /\ api[promise[t]].step = "refresh" /\ api[promise[t]].waits = promise[t]
    /\ api[promise[t]].tab = t

\* A token that no answer has brought yet is not the browser's, and was not rotated.
Unseen(s) == s \in 1..issued /\ s # jar.refresh /\ session[s].by = None

\* Every answer on its way brings an unseen token of its own.
OnTheWay ==
  /\ login.answer = "ok" => Unseen(login.token)
  /\ \A k \in Tab \cup Request : refresh[k].answer = "ok" =>
       /\ Unseen(refresh[k].token)
       /\ login.answer = "ok" => login.token # refresh[k].token
       /\ \A j \in Tab \cup Request :
            refresh[j].answer = "ok" /\ refresh[j].token = refresh[k].token => j = k

\* When the browser's token was rotated for a tab, the answer is on its way to that tab.
JarOK ==
  /\ jar.refresh <= issued /\ \A k \in Tab \cup Request : refresh[k].token <= issued
  /\ \A t \in Tab :
       jar.refresh # 0 /\ session[jar.refresh].by = t =>
         /\ promise[t] # None /\ refresh[promise[t]].answer = "ok"
         /\ session[refresh[promise[t]].token].login = session[jar.refresh].login

AnswersOK == OnTheWay /\ JarOK /\ NoSelfLogout
SelfInv == IInv /\ OwnPromise /\ AnswersOK

\* A session that was issued.
LEMMA IssuedIsSession == ASSUME IInv PROVE \A s \in 1..issued : s \in Session
  BY AuthAssumption DEF IInv, Types, Token, Session

\* No refresh starts or ends: at most the browser's tokens or an answer to a login go away.
LEMMA QuietAnswers ==
  ASSUME SelfInv, UNCHANGED <<issued, promise, refresh>>, jar'.refresh \in {0, jar.refresh},
         login' = login \/ login'.answer # "ok",
         \A s \in Session : session'[s].by = session[s].by /\ session'[s].login = session[s].login
  PROVE  AnswersOK'
<1>1. \A s \in 1..issued : session'[s].by = session[s].by /\ session'[s].login = session[s].login
  BY IssuedIsSession DEF SelfInv
<1>2. \A s : Unseen(s) => Unseen(s)'
  <2>1. \A s \in 1..issued : s # 0
    OBVIOUS
  <2> QED BY <1>1, <2>1 DEF Unseen
<1>3. OnTheWay'
  BY <1>2 DEF SelfInv, AnswersOK, OnTheWay
<1>4. issued \in Nat /\ jar.refresh \in Nat
  BY AuthAssumption DEF SelfInv, IInv, Types, Token
<1>5. JarOK'
  <2>1. jar.refresh <= issued /\ \A k \in Tab \cup Request : refresh[k].token <= issued
    BY DEF SelfInv, AnswersOK, JarOK
  <2>2. ASSUME NEW t \in Tab, jar'.refresh # 0, session'[jar'.refresh].by = t
        PROVE  /\ promise[t] # None /\ refresh[promise[t]].answer = "ok"
               /\ session'[refresh[promise[t]].token].login = session'[jar'.refresh].login
    <3>1. jar'.refresh = jar.refresh /\ jar.refresh \in 1..issued
      BY <1>4, <2>1, <2>2
    <3>2. /\ promise[t] # None /\ refresh[promise[t]].answer = "ok"
          /\ session[refresh[promise[t]].token].login = session[jar.refresh].login
      BY <1>1, <2>2, <3>1 DEF SelfInv, AnswersOK, JarOK
    <3>3. promise[t] \in Tab \cup Request
      BY <3>2 DEF SelfInv, IInv, Types
    <3>4. refresh[promise[t]].token \in 1..issued
      BY <3>2, <3>3 DEF SelfInv, AnswersOK, OnTheWay, Unseen
    <3> QED BY <1>1, <3>1, <3>2, <3>4
  <2> QED BY <1>4, <2>1, <2>2 DEF JarOK
<1>6. NoSelfLogout'
  <2> SUFFICES ASSUME NEW t \in Tab, promise[t] # None, refresh[promise[t]].answer = "refused",
                      refresh[promise[t]].token # 0
               PROVE  session'[refresh[promise[t]].token].by # t
    BY DEF NoSelfLogout
  <2>1. refresh[promise[t]].token \in Session
    BY AuthAssumption DEF SelfInv, IInv, Types, Message, Token, Session
  <2> QED BY <2>1 DEF SelfInv, AnswersOK, NoSelfLogout
<1> QED BY <1>3, <1>5, <1>6 DEF AnswersOK

\* What rotate_refresh_session does to the table.
LEMMA Rotated ==
  ASSUME IInv, NEW s \in Token, NEW t \in Tab, Active(s),
         Issue([session EXCEPT ![s].state = "ended", ![s].by = t], session[s].login)
  PROVE  /\ s \in 1..issued /\ issued' = issued + 1
         /\ \A r \in 1..issued : /\ session'[r].login = session[r].login
                                 /\ session'[r].by = IF r = s THEN t ELSE session[r].by
         /\ session'[issued + 1].login = session[s].login /\ session'[issued + 1].by = None
<1> USE AuthAssumption DEF Session, Token
<1>1. s \in Session /\ s <= issued /\ issued + 1 \in Session
  BY DEF IInv, Types, Issue, Active, Numbered
<1> DEFINE table == [session EXCEPT ![s].state = "ended", ![s].by = t]
<1>2. /\ table \in [Session -> SessionRow]
      /\ \A r \in Session : /\ table[r].login = session[r].login
                            /\ table[r].by = IF r = s THEN t ELSE session[r].by
  BY <1>1 DEF IInv, Types, SessionRow
<1>3. /\ issued' = issued + 1
      /\ session' = [table EXCEPT ![issued + 1] =
                       [state |-> "active", login |-> session[s].login, by |-> None]]
  BY DEF Issue
<1> HIDE DEF table
<1>4. /\ \A r \in Session : r # issued + 1 => session'[r] = table[r]
      /\ session'[issued + 1].login = session[s].login /\ session'[issued + 1].by = None
  BY <1>1, <1>2, <1>3
<1>5. \A r \in 1..issued : r \in Session /\ r # issued + 1
  BY DEF IInv, Types
<1> QED BY <1>1, <1>2, <1>3, <1>4, <1>5

\* sharedRefresh: the token that is refused or rotated is the browser's, and nobody waits
\* for the refresh that starts.
LEMMA SharedRefreshAnswers ==
  ASSUME SelfInv, NEW k \in Tab \cup Request, NEW t \in Tab, \A u \in Tab : promise[u] # k,
         SharedRefresh(k, t), UNCHANGED <<jar, login>>
  PROVE  AnswersOK'
<1> DEFINE s == jar.refresh
<1>1. /\ issued \in Nat /\ s \in Nat /\ s \in Token /\ s <= issued
      /\ None \notin Tab /\ k # None
  BY AuthAssumption DEF SelfInv, IInv, Types, Token, AnswersOK, JarOK
<1>2. CASE promise[t] # None
  <2>1. promise' = [promise EXCEPT ![t] = promise[t]] /\ UNCHANGED <<session, issued, refresh>>
    BY <1>2 DEF SharedRefresh, Joined
  <2>2. promise' = promise
    BY <2>1 DEF SelfInv, IInv, Types
  <2> QED BY <2>1, <2>2, QuietAnswers
<1>3. CASE promise[t] = None
  <2>1. PICK answer \in [answer : {"lost", "ok", "refused"}, token : 0..MaxSessions] :
          /\ ServeRefresh(s, t, answer)
          /\ refresh' = [refresh EXCEPT ![k] = answer]
    BY <1>1, <1>3 DEF SharedRefresh, Joined
  <2>2. promise' = [promise EXCEPT ![t] = k]
    BY <1>3 DEF SharedRefresh, Joined
  <2>3. /\ promise'[t] = k /\ refresh'[k] = answer
        /\ \A j \in Tab \cup Request : j # k => refresh'[j] = refresh[j]
        /\ \A u \in Tab : u # t => promise'[u] = promise[u] /\ promise'[u] # k
    BY <2>1, <2>2 DEF SelfInv, IInv, Types
  <2>4. /\ \A u \in Tab : promise[u] # None => promise[u] \in Tab \cup Request
        /\ \A j \in Tab \cup Request : refresh[j].token \in Token
    BY DEF SelfInv, IInv, Types, Message
  <2>5. ~(s # 0 /\ session[s].by = t)
    BY <1>3 DEF SelfInv, AnswersOK, JarOK
  <2>6. CASE answer.answer # "ok"
    <3>1. /\ UNCHANGED <<session, issued>>
          /\ answer.answer = "refused" => answer.token = s
          /\ answer.token \in {0, s} /\ answer.token <= issued
      BY <1>1, <2>1, <2>6 DEF ServeRefresh, NoMessage
    <3>2. \A r : Unseen(r) <=> Unseen(r)'
      BY <3>1 DEF Unseen
    <3>3. OnTheWay'
      BY <2>3, <2>6, <3>1, <3>2 DEF SelfInv, AnswersOK, OnTheWay
    <3>4. JarOK'
      BY <2>3, <2>4, <2>5, <3>1 DEF SelfInv, AnswersOK, JarOK
    <3>5. NoSelfLogout'
      BY <2>3, <2>4, <2>5, <3>1 DEF SelfInv, AnswersOK, NoSelfLogout
    <3> QED BY <3>3, <3>4, <3>5 DEF AnswersOK
  <2>7. CASE answer.answer = "ok"
    <3>1. /\ Active(s) /\ answer.token = issued + 1
          /\ Issue([session EXCEPT ![s].state = "ended", ![s].by = t], session[s].login)
      BY <2>1, <2>7 DEF ServeRefresh, NoMessage, Rotates
    <3>2. /\ s \in 1..issued /\ issued' = issued + 1
          /\ \A r \in 1..issued : /\ session'[r].login = session[r].login
                                  /\ session'[r].by = IF r = s THEN t ELSE session[r].by
          /\ session'[issued + 1].login = session[s].login /\ session'[issued + 1].by = None
      BY <1>1, <3>1, Rotated DEF SelfInv
    <3> HIDE DEF s
    <3> DEFINE UnseenNow(r) == r \in 1..issued' /\ r # s /\ session'[r].by = None
    <3>3. \A r : Unseen(r) => UnseenNow(r) /\ r # issued + 1
      BY <1>1, <3>2 DEF Unseen, s
    <3>4. UnseenNow(issued + 1)
      BY <1>1, <3>2 DEF s
    <3> HIDE DEF UnseenNow
    <3>5. OnTheWay'
      <4>1. ASSUME NEW j \in Tab \cup Request, refresh'[j].answer = "ok"
            PROVE  /\ UnseenNow(refresh'[j].token)
                   /\ login.answer = "ok" => login.token # refresh'[j].token
                   /\ \A i \in Tab \cup Request :
                        refresh'[i].answer = "ok" /\ refresh'[i].token = refresh'[j].token => i = j
        <5>1. CASE j = k
          <6>1. refresh'[j].token = issued + 1
            BY <2>3, <3>1, <5>1
          <6>2. ASSUME NEW i \in Tab \cup Request, i # k, refresh'[i].answer = "ok"
                PROVE  refresh'[i].token # issued + 1
            <7>1. refresh'[i] = refresh[i]
              BY <2>3, <6>2
            <7>2. Unseen(refresh[i].token)
              BY <6>2, <7>1 DEF SelfInv, AnswersOK, OnTheWay
            <7> QED BY <3>3, <7>1, <7>2
          <6>3. login.answer = "ok" => Unseen(login.token)
            BY DEF SelfInv, AnswersOK, OnTheWay
          <6> QED BY <3>3, <3>4, <5>1, <6>1, <6>2, <6>3
        <5>2. CASE j # k
          <6>1. refresh'[j] = refresh[j] /\ refresh'[k].token = issued + 1
            BY <2>3, <3>1, <5>2
          <6>2. Unseen(refresh[j].token)
            BY <4>1, <6>1 DEF SelfInv, AnswersOK, OnTheWay
          <6> QED BY <2>3, <3>3, <4>1, <6>1, <6>2 DEF SelfInv, AnswersOK, OnTheWay
        <5> QED BY <5>1, <5>2
      <4>2. login.answer = "ok" => UnseenNow(login.token)
        BY <3>3 DEF SelfInv, AnswersOK, OnTheWay
      <4> QED BY <4>1, <4>2 DEF OnTheWay, Unseen, UnseenNow, s
    <3>6. JarOK'
      <4>1. s <= issued' /\ \A j \in Tab \cup Request : refresh'[j].token <= issued'
        BY <1>1, <2>3, <2>4, <3>1, <3>2, AuthAssumption DEF SelfInv, AnswersOK, JarOK, Token
      <4>2. ASSUME NEW u \in Tab, session'[s].by = u
            PROVE  /\ promise'[u] # None /\ refresh'[promise'[u]].answer = "ok"
                   /\ session'[refresh'[promise'[u]].token].login = session'[s].login
        <5>1. u = t
          BY <3>2, <4>2
        <5> QED BY <1>1, <2>3, <2>7, <3>1, <3>2, <5>1
      <4> QED BY <4>1, <4>2 DEF JarOK, s
    <3>7. NoSelfLogout'
      <4> SUFFICES ASSUME NEW u \in Tab, promise'[u] # None,
                          refresh'[promise'[u]].answer = "refused",
                          refresh'[promise'[u]].token # 0
                   PROVE  session'[refresh'[promise'[u]].token].by # u
        BY DEF NoSelfLogout
      <4>1. u # t /\ promise'[u] = promise[u] /\ refresh'[promise[u]] = refresh[promise[u]]
        BY <2>3, <2>4, <2>7
      <4> DEFINE r == refresh[promise[u]].token
      <4>2. session[r].by # u /\ r # 0 /\ r \in Token /\ refresh[promise[u]].answer = "refused"
        BY <2>4, <4>1 DEF SelfInv, AnswersOK, NoSelfLogout
      <4> HIDE DEF r
      <4>3. r \in 1..issued
        BY <2>4, <4>1, <4>2, AuthAssumption DEF SelfInv, AnswersOK, JarOK, Token, r
      <4> QED BY <3>2, <4>1, <4>2, <4>3 DEF r
    <3> QED BY <3>5, <3>6, <3>7 DEF AnswersOK
  <2> QED BY <2>6, <2>7
<1> QED BY <1>2, <1>3

\* A refresh belongs to one tab.
LEMMA OneWaits ==
  ASSUME SelfInv, NEW t \in Tab, NEW u \in Tab, promise[t] # None, promise[u] = promise[t]
  PROVE  u = t
BY AuthAssumption DEF SelfInv, OwnPromise

\* performRefreshAdmin succeeds: the browser gets an unseen token.
LEMMA TakeRefreshAnswers ==
  ASSUME SelfInv, NEW t \in Tab, NEW k \in Tab \cup Request, TakeRefresh(k, t)
  PROVE  AnswersOK'
<1> DEFINE s == refresh[k].token
<1>1. /\ promise[t] = k /\ refresh[k].answer = "ok" /\ jar'.refresh = s
      /\ promise' = [promise EXCEPT ![t] = None] /\ refresh' = [refresh EXCEPT ![k] = NoMessage]
      /\ UNCHANGED <<session, issued, login>>
  BY DEF TakeRefresh, SuccessCookies
<1>2. Unseen(s) /\ s \in 1..issued /\ session[s].by = None
  BY <1>1 DEF SelfInv, AnswersOK, OnTheWay, Unseen
<1>3. /\ refresh'[k] = NoMessage
      /\ \A j \in Tab \cup Request : j # k => refresh'[j] = refresh[j]
      /\ \A u \in Tab : promise'[u] = IF u = t THEN None ELSE promise[u]
      /\ \A u \in Tab : promise[u] # None => promise[u] \in Tab \cup Request
  BY <1>1 DEF SelfInv, IInv, Types
<1>4. issued \in Nat /\ None \notin Tab
  BY AuthAssumption DEF SelfInv, IInv, Types, Token
<1> HIDE DEF s
<1>5. OnTheWay'
  <2>1. \A r : Unseen(r) /\ r # s => Unseen(r)'
    BY <1>1 DEF Unseen
  <2>2. login.answer = "ok" => Unseen(login.token)'
    BY <1>1, <2>1 DEF SelfInv, AnswersOK, OnTheWay, s
  <2>3. ASSUME NEW j \in Tab \cup Request, refresh'[j].answer = "ok"
        PROVE  /\ j # k /\ refresh'[j] = refresh[j] /\ Unseen(refresh[j].token)
               /\ refresh[j].token # s
    BY <1>1, <1>3, <2>3 DEF SelfInv, AnswersOK, OnTheWay, NoMessage, s
  <2>4. ASSUME NEW j \in Tab \cup Request, refresh'[j].answer = "ok"
        PROVE  /\ refresh'[j].token \in 1..issued /\ refresh'[j].token # s
               /\ session[refresh'[j].token].by = None
               /\ login.answer = "ok" => login.token # refresh'[j].token
               /\ \A i \in Tab \cup Request :
                    refresh'[i].answer = "ok" /\ refresh'[i].token = refresh'[j].token => i = j
    BY <2>3, <2>4 DEF SelfInv, AnswersOK, OnTheWay, Unseen
  <2> QED BY <1>1, <2>2, <2>4 DEF OnTheWay, Unseen
<1>6. JarOK'
  BY <1>1, <1>2, <1>3, <1>4 DEF SelfInv, AnswersOK, JarOK, NoMessage
<1>7. NoSelfLogout'
  <2> SUFFICES ASSUME NEW u \in Tab, promise'[u] # None, refresh'[promise'[u]].answer = "refused",
                      refresh'[promise'[u]].token # 0
               PROVE  session[refresh'[promise'[u]].token].by # u
    BY <1>1 DEF NoSelfLogout
  <2>1. promise'[u] = promise[u] /\ refresh'[promise[u]] = refresh[promise[u]]
    BY <1>3 DEF NoMessage
  <2> QED BY <2>1 DEF SelfInv, AnswersOK, NoSelfLogout
<1> QED BY <1>5, <1>6, <1>7 DEF AnswersOK

\* performRefreshAdmin fails: when an answer is lost, its family is marked, so that the tab
\* is not blamed for a refusal later.
LEMMA FailRefreshAnswers ==
  ASSUME SelfInv, NEW t \in Tab, NEW k \in Tab \cup Request, FailRefresh(k, t)
  PROVE  AnswersOK'
<1> DEFINE s == refresh[k].token
<1>1. /\ promise[t] = k /\ k # None
      /\ promise' = [promise EXCEPT ![t] = None] /\ refresh' = [refresh EXCEPT ![k] = NoMessage]
      /\ UNCHANGED <<issued, jar, login>>
  BY AuthAssumption DEF FailRefresh
<1>2. /\ refresh'[k] = NoMessage
      /\ \A j \in Tab \cup Request : j # k => refresh'[j] = refresh[j]
      /\ \A u \in Tab : promise'[u] = IF u = t THEN None ELSE promise[u]
      /\ \A u \in Tab : promise[u] # None => promise[u] \in Tab \cup Request
      /\ \A u \in Tab : u # t => promise[u] # k
  BY <1>1, OneWaits DEF SelfInv, IInv, Types
<1>3. /\ issued \in Nat /\ jar.refresh \in Nat /\ None \notin Tab
      /\ \A j \in Tab \cup Request : refresh[j].token \in Nat
  BY AuthAssumption DEF SelfInv, IInv, Types, Token, Message
<1>4. \A r \in 1..issued :
        /\ session'[r].login = session[r].login
        /\ session'[r].by \in {session[r].by, None}
        /\ refresh[k].answer = "ok" /\ session[r].login = session[s].login
             => session'[r].by = None
  <2>1. CASE refresh[k].answer = "ok"
    <3>1. \A r \in Session : session'[r] = IF session[r].login = session[s].login
                                           THEN [session[r] EXCEPT !.by = None] ELSE session[r]
      BY <2>1 DEF FailRefresh
    <3>2. \A r \in 1..issued : r \in Session /\ session[r] \in SessionRow
      BY IssuedIsSession DEF SelfInv, IInv, Types
    <3> HIDE DEF s
    <3> QED BY <3>1, <3>2 DEF SessionRow
  <2>2. CASE refresh[k].answer # "ok"
    BY <2>2 DEF FailRefresh
  <2> QED BY <2>1, <2>2
<1>5. \A r : Unseen(r) => r \in 1..issued /\ r # jar.refresh /\ session'[r].by = None
  BY <1>4 DEF Unseen
<1> HIDE DEF s
<1>6. OnTheWay'
  <2>1. ASSUME NEW j \in Tab \cup Request, refresh'[j].answer = "ok"
        PROVE  /\ refresh'[j] = refresh[j] /\ refresh[j].answer = "ok"
               /\ Unseen(refresh[j].token)
    BY <1>2, <2>1 DEF SelfInv, AnswersOK, OnTheWay, NoMessage
  <2>2. ASSUME NEW j \in Tab \cup Request, refresh'[j].answer = "ok"
        PROVE  /\ refresh'[j].token \in 1..issued /\ refresh'[j].token # jar.refresh
               /\ session'[refresh'[j].token].by = None
               /\ login.answer = "ok" => login.token # refresh'[j].token
               /\ \A i \in Tab \cup Request :
                    refresh'[i].answer = "ok" /\ refresh'[i].token = refresh'[j].token => i = j
    BY <1>5, <2>1, <2>2 DEF SelfInv, AnswersOK, OnTheWay
  <2>3. login.answer = "ok" =>
          login.token \in 1..issued /\ login.token # jar.refresh /\ session'[login.token].by = None
    BY <1>5 DEF SelfInv, AnswersOK, OnTheWay
  <2> QED BY <1>1, <2>2, <2>3 DEF OnTheWay, Unseen
<1>7. JarOK'
  <2>1. jar.refresh <= issued /\ \A j \in Tab \cup Request : refresh'[j].token <= issued
    BY <1>2, <1>3 DEF SelfInv, AnswersOK, JarOK, NoMessage
  <2>2. ASSUME NEW u \in Tab, jar.refresh # 0, session'[jar.refresh].by = u
        PROVE  /\ promise'[u] # None /\ refresh'[promise'[u]].answer = "ok"
               /\ session'[refresh'[promise'[u]].token].login = session'[jar.refresh].login
    <3>1. jar.refresh \in 1..issued /\ session[jar.refresh].by = u
      BY <1>3, <1>4, <2>1, <2>2
    <3>2. /\ promise[u] # None /\ refresh[promise[u]].answer = "ok"
          /\ session[refresh[promise[u]].token].login = session[jar.refresh].login
      BY <2>2, <3>1 DEF SelfInv, AnswersOK, JarOK
    <3>3. u # t
      BY <1>1, <1>3, <1>4, <2>2, <3>1, <3>2 DEF s
    <3>4. promise'[u] = promise[u] /\ refresh'[promise[u]] = refresh[promise[u]]
      BY <1>2, <3>2, <3>3
    <3>5. refresh[promise[u]].token \in 1..issued
      BY <1>2, <3>2 DEF SelfInv, AnswersOK, OnTheWay, Unseen
    <3> QED BY <1>4, <3>1, <3>2, <3>4, <3>5
  <2> QED BY <1>1, <2>1, <2>2 DEF JarOK
<1>8. NoSelfLogout'
  <2> SUFFICES ASSUME NEW u \in Tab, promise'[u] # None, refresh'[promise'[u]].answer = "refused",
                      refresh'[promise'[u]].token # 0
               PROVE  session'[refresh'[promise'[u]].token].by # u
    BY DEF NoSelfLogout
  <2>1. promise'[u] = promise[u] /\ promise[u] # None /\ refresh'[promise[u]] = refresh[promise[u]]
    BY <1>2 DEF NoMessage
  <2>2. refresh[promise[u]].token \in 1..issued
    BY <1>2, <1>3, <2>1 DEF SelfInv, AnswersOK, JarOK
  <2>3. session[refresh[promise[u]].token].by # u
    BY <2>1 DEF SelfInv, AnswersOK, NoSelfLogout
  <2> QED BY <1>3, <1>4, <2>1, <2>2, <2>3
<1> QED BY <1>6, <1>7, <1>8 DEF AnswersOK

\* loginAdmin: a new session, and an unseen token.
LEMMA LoginAnswers ==
  ASSUME SelfInv, Login
  PROVE  AnswersOK'
<1>1. /\ login.answer = "none" /\ login' = [answer |-> "ok", token |-> issued + 1]
      /\ issued < MaxSessions /\ issued' = issued + 1
      /\ session' = [session EXCEPT ![issued + 1] =
                       [state |-> "active", login |-> issued + 1, by |-> None]]
      /\ UNCHANGED <<jar, promise, refresh>>
  BY DEF Login, Issue, NoMessage
<1>2. /\ issued \in Nat /\ jar.refresh \in Nat /\ jar.refresh <= issued /\ issued + 1 \in Session
      /\ \A k \in Tab \cup Request : refresh[k].token \in Nat /\ refresh[k].token <= issued
      /\ \A t \in Tab : promise[t] # None => promise[t] \in Tab \cup Request
  BY <1>1, AuthAssumption DEF SelfInv, IInv, Types, Token, Message, Session, AnswersOK, JarOK
<1>3. /\ \A r \in 1..issued : session'[r] = session[r]
      /\ session'[issued + 1].by = None
  BY <1>1, <1>2, IssuedIsSession DEF SelfInv, IInv, Types
<1>4. OnTheWay'
  <2>1. \A r : Unseen(r) => Unseen(r)' /\ r # issued + 1
    BY <1>1, <1>2, <1>3 DEF Unseen
  <2>2. /\ login'.token \in 1..issued' /\ login'.token # jar'.refresh
        /\ session'[login'.token].by = None
    BY <1>1, <1>2, <1>3
  <2>3. \A k \in Tab \cup Request : refresh[k].answer = "ok" =>
          Unseen(refresh[k].token)' /\ login'.token # refresh[k].token
    BY <1>1, <2>1 DEF SelfInv, AnswersOK, OnTheWay
  <2>4. login'.answer = "ok" => Unseen(login.token)'
    BY <2>2 DEF Unseen
  <2> QED BY <1>1, <2>3, <2>4 DEF SelfInv, AnswersOK, OnTheWay
<1>5. JarOK'
  <2>1. \A k \in Tab \cup Request : refresh[k].answer = "ok" => refresh[k].token \in 1..issued
    BY DEF SelfInv, AnswersOK, OnTheWay, Unseen
  <2>2. jar.refresh # 0 => jar.refresh \in 1..issued
    BY <1>2
  <2> QED BY <1>1, <1>2, <1>3, <2>1, <2>2 DEF SelfInv, AnswersOK, JarOK
<1>6. NoSelfLogout'
  <2>1. \A k \in Tab \cup Request : refresh[k].token # 0 => refresh[k].token \in 1..issued
    BY <1>2
  <2> QED BY <1>1, <1>2, <1>3, <2>1 DEF SelfInv, AnswersOK, NoSelfLogout
<1> QED BY <1>4, <1>5, <1>6 DEF AnswersOK

\* The cookies of a login: an unseen token.
LEMMA TakeLoginAnswers ==
  ASSUME SelfInv, TakeLogin
  PROVE  AnswersOK'
<1>1. login'.answer = "none" /\ UNCHANGED <<session, issued, promise, refresh>>
  BY DEF TakeLogin, NoMessage
<1>2. CASE login.answer = "ok"
  <2> DEFINE s == login.token
  <2>1. jar'.refresh = s
    BY <1>2 DEF TakeLogin, SuccessCookies
  <2>2. s \in 1..issued /\ session[s].by = None
    BY <1>2 DEF SelfInv, AnswersOK, OnTheWay, Unseen
  <2>3. None \notin Tab /\ issued \in Nat
    BY AuthAssumption DEF SelfInv, IInv, Types, Token
  <2>4. OnTheWay'
    BY <1>1, <1>2, <2>1 DEF SelfInv, AnswersOK, OnTheWay, Unseen
  <2> HIDE DEF s
  <2>5. JarOK'
    BY <1>1, <2>1, <2>2, <2>3 DEF SelfInv, AnswersOK, JarOK
  <2>6. NoSelfLogout'
    BY <1>1 DEF SelfInv, AnswersOK, NoSelfLogout
  <2> QED BY <2>4, <2>5, <2>6 DEF AnswersOK
<1>3. CASE login.answer # "ok"
  <2>1. jar'.refresh \in {0, jar.refresh}
    BY <1>3 DEF TakeLogin, NoCookies
  <2> QED BY <1>1, <2>1, QuietAnswers
<1> QED BY <1>2, <1>3

\* Requests that wait for a refresh go on waiting.
LEMMA StillWaiting ==
  ASSUME SelfInv, UNCHANGED promise,
         \A q \in Request : api[q].step = "refresh" => api'[q] = api[q]
  PROVE  OwnPromise'
BY DEF SelfInv, OwnPromise

\* A refresh ends, for those who wait for it.
LEMMA RefreshEnds ==
  ASSUME SelfInv, NEW t \in Tab, NEW k \in Tab \cup Request, TakeRefresh(k, t) \/ FailRefresh(k, t)
  PROVE  OwnPromise'
<1>1. /\ promise[t] = k /\ k # None /\ promise' = [promise EXCEPT ![t] = None]
      /\ \A q \in Request : ~(api[q].step = "refresh" /\ api[q].waits = k) => api'[q] = api[q]
  BY AuthAssumption DEF TakeRefresh, FailRefresh
<1> SUFFICES ASSUME NEW u \in Tab, promise'[u] \notin {None, u}
             PROVE  /\ promise'[u] \in Request
                    /\ api'[promise'[u]].step = "refresh" /\ api'[promise'[u]].waits = promise'[u]
                    /\ api'[promise'[u]].tab = u
  BY DEF OwnPromise
<1>2. u # t /\ promise'[u] = promise[u] /\ promise[u] # k
  BY <1>1, OneWaits DEF SelfInv, IInv, Types
<1>3. /\ promise[u] \in Request
      /\ api[promise[u]].step = "refresh" /\ api[promise[u]].waits = promise[u]
      /\ api[promise[u]].tab = u
  BY <1>2 DEF SelfInv, OwnPromise
<1> QED BY <1>1, <1>2, <1>3

\* A request asks for a refresh.
LEMMA RequestRefreshes ==
  ASSUME SelfInv, NEW q \in Request, api[q].step = "served", SharedRefresh(q, api[q].tab),
         api' = [api EXCEPT ![q] = [api[q] EXCEPT !.step = "refresh", !.answer = "ok",
                                      !.authRetry = TRUE, !.waits = Joined(q, api[q].tab)]]
  PROVE  OwnPromise' /\ api[q].tab \in Tab /\ \A u \in Tab : promise[u] # q
<1> DEFINE t == api[q].tab
<1>1. t \in Tab /\ api[q] \in ApiRequest
  BY DEF SelfInv, IInv, ApiOK
<1>2. \A u \in Tab : promise[u] # q
  BY AuthAssumption DEF SelfInv, OwnPromise
<1>3. /\ api'[q].step = "refresh" /\ api'[q].waits = Joined(q, t) /\ api'[q].tab = t
      /\ \A p \in Request : p # q => api'[p] = api[p]
  BY <1>1 DEF SelfInv, IInv, Types, ApiRequest
<1>4. /\ \A u \in Tab : u # t => promise'[u] = promise[u]
      /\ promise'[t] = Joined(q, t)
  BY <1>1 DEF SharedRefresh, SelfInv, IInv, Types
<1> HIDE DEF t
<1>5. ASSUME NEW u \in Tab, promise'[u] \notin {None, u}
      PROVE  /\ promise'[u] \in Request
             /\ api'[promise'[u]].step = "refresh" /\ api'[promise'[u]].waits = promise'[u]
             /\ api'[promise'[u]].tab = u
  <2>1. CASE promise'[u] = promise[u]
    BY <1>2, <1>3, <1>5, <2>1 DEF SelfInv, OwnPromise
  <2>2. CASE promise'[u] # promise[u]
    <3>1. u = t /\ promise'[u] = q
      BY <1>1, <1>4, <2>2 DEF Joined
    <3> QED BY <1>3, <1>4, <3>1
  <2> QED BY <2>1, <2>2
<1>6. OwnPromise'
  BY <1>5 DEF OwnPromise
<1> QED BY <1>1, <1>2, <1>6 DEF t

\* useAuth asks for a refresh.
LEMMA RestoreKeeps ==
  ASSUME SelfInv, NEW t \in Tab, Restore(t)
  PROVE  OwnPromise' /\ AnswersOK'
<1>1. promise[t] = None /\ SharedRefresh(t, t) /\ UNCHANGED <<jar, login, api>>
  BY DEF Restore
<1>2. \A u \in Tab : promise[u] # t
  BY <1>1, AuthAssumption DEF SelfInv, OwnPromise
<1>3. AnswersOK'
  BY <1>1, <1>2, SharedRefreshAnswers
<1>4. promise' = [promise EXCEPT ![t] = t]
  BY <1>1 DEF SharedRefresh, Joined
<1>5. \A u \in Tab : u # t => promise'[u] = promise[u]
  BY <1>4 DEF SelfInv, IInv, Types
<1>6. promise'[t] = t
  BY <1>4 DEF SelfInv, IInv, Types
<1>7. OwnPromise'
  BY <1>1, <1>5, <1>6 DEF SelfInv, OwnPromise
<1> QED BY <1>3, <1>7

\* The response interceptor.
LEMMA RespondKeeps ==
  ASSUME SelfInv, NEW q \in Request, Respond(q)
  PROVE  OwnPromise' /\ AnswersOK'
<1>1. api[q].step = "served" /\ UNCHANGED <<jar, login>>
  BY DEF Respond
<1>2. CASE /\ Refreshes(api[q]) /\ SharedRefresh(q, api[q].tab)
           /\ api' = [api EXCEPT ![q] = [api[q] EXCEPT !.step = "refresh", !.answer = "ok",
                                           !.authRetry = TRUE, !.waits = Joined(q, api[q].tab)]]
  <2>1. OwnPromise' /\ api[q].tab \in Tab /\ \A u \in Tab : promise[u] # q
    BY <1>1, <1>2, RequestRefreshes
  <2> QED BY <1>1, <1>2, <2>1, SharedRefreshAnswers
<1>3. CASE /\ \E a : api' = [api EXCEPT ![q] = a]
           /\ UNCHANGED <<session, issued, promise, refresh>>
  <2>1. AnswersOK'
    BY <1>1, <1>3, QuietAnswers
  <2>2. \A p \in Request : api[p].step = "refresh" => api'[p] = api[p]
    BY <1>1, <1>3 DEF SelfInv, IInv, Types
  <2> QED BY <1>3, <2>1, <2>2, StillWaiting
<1> QED BY <1>2, <1>3 DEF Respond

\* No tab waits, and no answer is on its way.
LEMMA InitSelfInv == Init => SelfInv
<1> SUFFICES ASSUME Init PROVE SelfInv
  OBVIOUS
<1>1. /\ jar.refresh = 0 /\ issued = 0 /\ login.answer = "none"
      /\ \A t \in Tab : promise[t] = None
      /\ \A k \in Tab \cup Request : refresh[k].answer = "none" /\ refresh[k].token = 0
  BY DEF Init, NoCookies, NoMessage
<1> QED BY <1>1, InitIInv DEF SelfInv, OwnPromise, AnswersOK, OnTheWay, JarOK, NoSelfLogout

\* Every step keeps it.
LEMMA NextSelfInv == SelfInv /\ [Next]_vars => SelfInv'
<1> SUFFICES ASSUME SelfInv, [Next]_vars
             PROVE  OwnPromise' /\ AnswersOK'
  BY NextIInv DEF SelfInv
<1>1. ASSUME NEW q \in Request, (\E w \in Work[q] : Start(q, w)) \/ SendAgain(q) \/ LoseAnswer(q)
      PROVE  OwnPromise' /\ AnswersOK'
  <2>1. /\ UNCHANGED <<session, issued, jar, promise, refresh, login>>
        /\ api[q].step # "refresh"
    <3>1. CASE \E w \in Work[q] : Start(q, w)
      <4>1. UNCHANGED <<session, issued, jar, promise, refresh, login>> /\ api[q] = NoApi
        BY <3>1 DEF Start
      <4> QED BY <4>1 DEF NoApi
    <3>2. CASE SendAgain(q) \/ LoseAnswer(q)
      BY <3>2 DEF SendAgain, LoseAnswer
    <3> QED BY <1>1, <3>1, <3>2
  <2>2. \A p \in Request : api[p].step = "refresh" => api'[p] = api[p]
    <3>1. \A p \in Request : p # q => api'[p] = api[p]
      BY <1>1 DEF Start, SendAgain, LoseAnswer, SelfInv, IInv, Types
    <3> QED BY <2>1, <3>1
  <2> QED BY <2>1, <2>2, QuietAnswers, StillWaiting
<1>2. ASSUME NEW t \in Tab, RefreshStep(t)
      PROVE  OwnPromise' /\ AnswersOK'
  BY <1>2, RefreshEnds, TakeRefreshAnswers, FailRefreshAnswers DEF RefreshStep
<1>3. CASE Login
  BY <1>3, LoginAnswers, StillWaiting DEF Login
<1>4. CASE Logout
  <2>1. /\ UNCHANGED <<issued, jar, promise, refresh, api>> /\ login'.answer # "ok"
    BY <1>4 DEF Logout, NoMessage
  <2>2. \A s \in Session : session'[s].by = session[s].by /\ session'[s].login = session[s].login
    BY <1>4 DEF Logout, SelfInv, IInv, Types, SessionRow
  <2> QED BY <2>1, <2>2, QuietAnswers, StillWaiting
<1>5. CASE TakeLogin
  BY <1>5, TakeLoginAnswers, StillWaiting DEF TakeLogin
<1>6. CASE LoseLogin
  BY <1>6, QuietAnswers, StillWaiting DEF LoseLogin, NoMessage
<1>7. ASSUME NEW s \in Session, ExpireSession(s)
      PROVE  OwnPromise' /\ AnswersOK'
  <2>1. /\ UNCHANGED <<issued, promise, refresh, login, api>> /\ jar'.refresh \in {0, jar.refresh}
    BY <1>7 DEF ExpireSession, NoCookies
  <2>2. \A r \in Session : session'[r].by = session[r].by /\ session'[r].login = session[r].login
    BY <1>7 DEF ExpireSession, SelfInv, IInv, Types, SessionRow
  <2> QED BY <2>1, <2>2, QuietAnswers, StillWaiting
<1>8. CASE ExpireAccess
  <2>1. jar'.refresh = jar.refresh /\ UNCHANGED <<session, issued, promise, refresh, login, api>>
    BY <1>8 DEF ExpireAccess, SelfInv, IInv, Types
  <2> QED BY <2>1, QuietAnswers, StillWaiting
<1>9. CASE UNCHANGED vars
  BY <1>9, QuietAnswers, StillWaiting DEF vars
<1> QED
  BY <1>1, <1>2, <1>3, <1>4, <1>5, <1>6, <1>7, <1>8, <1>9, RestoreKeeps, RespondKeeps
     DEF Next, RequestStep

\* sharedRefresh and the rotation of rotate_refresh_session: a tab whose refresh is refused
\* did not cause that itself, unless the browser never got the answer to its rotation.
THEOREM NoTabEndsItsSession == Spec => []NoSelfLogout
<1>1. SelfInv => NoSelfLogout
  BY DEF SelfInv, AnswersOK
<1> QED BY <1>1, InitSelfInv, NextSelfInv, PTL DEF Spec
=============================================================================
