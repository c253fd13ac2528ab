---------------------------- MODULE AuthSessions ----------------------------
(***************************************************************************)
(* The sessions of one account: the rows of user_sessions on the server    *)
(* (modules/auth), and the pair of tokens kept by each browser and phone   *)
(* (web/lib/api/client.ts, mobile/lib/api/client.ts).                      *)
(*                                                                         *)
(* A store is the localStorage of a browser, shared by its tabs, or the    *)
(* secure store of a phone.  A page is one apiFetch at a time in a tab.    *)
(* A call is one HTTP request to /auth/refresh, /auth/logout or            *)
(* /auth/login with the handler that serves it: the handler goes on when   *)
(* the connection breaks.  The steps of a handler are its database and     *)
(* Redis accesses; nothing locks the session row between them.             *)
(* A token stands for its pair: refresh token, access token and row.       *)
(***************************************************************************)
EXTENDS Integers, FiniteSets

CONSTANTS
  Store,       \* browsers and phones
  Tab,         \* browser tabs, and one per phone
  Phone,       \* the tabs that are phones: no refresh is shared there
  StoreOf,     \* the store of each tab
  Page,        \* places in the code that can call apiFetch
  TabOf,       \* the tab of each page
  Call,        \* authentication requests that can be in progress
  MaxToken,    \* bound on tokens issued
  MaxExpiry,   \* bound on access tokens that expire
  MaxEvents,   \* bound on failures, lost answers, logins, logouts, ended sessions
  MaxRefresh,  \* refresh_rate_limit_max_attempts
  NoCall, NoTab

Token == 1 .. MaxToken
NoToken == 0

ASSUME ClientAssumption ==
  /\ Phone \subseteq Tab
  /\ StoreOf \in [Tab -> Store]
  /\ TabOf \in [Page -> Tab]
  /\ NoCall \notin Call /\ NoTab \notin Tab
ASSUME BoundAssumption ==
  /\ MaxToken \in Nat \ {0} /\ MaxExpiry \in Nat /\ MaxEvents \in Nat
  /\ MaxRefresh \in Nat \ {0}

VARIABLES
  last,      \* tokens issued so far
  row,       \* user_sessions row of each token
  origin,    \* the token of the login each token descends from
  active,    \* users.is_active
  attempts,  \* refresh_attempts counter of the account
  expired,   \* tokens whose access token has expired
  stored,    \* the pair each store holds
  page,      \* the apiFetch running in each page
  flight,    \* refreshInFlight of each tab
  call,      \* authentication requests
  events,    \* events so far
  ended,     \* history: tokens ended by the user or by time
  stranded,  \* history: tokens rotated by a call whose answer nobody got
  forked     \* history: logins two handlers rotated at the same time

server == <<last, row, origin, active, attempts>>
client == <<expired, stored, page, flight>>
history == <<ended, stranded, forked>>
vars == <<server, client, call, history, events>>

(* A row is dead once revoked_at is set or expires_at has passed.          *)
UserSession == {"none", "live", "dead"}
CallStep == {"free", "received", "checked", "counted", "revoked", "issued", "refused", "done"}

PageState == [pc : {"idle", "unauthorized", "waiting"}, call : Call \cup {NoCall}]
CallState == [pc : CallStep, kind : {"refresh", "logout", "login"},
              tok : 0 .. MaxToken, new : 0 .. MaxToken, tab : Tab \cup {NoTab}]

TypeOK ==
  /\ last \in 1 .. MaxToken
  /\ row \in [Token -> UserSession]
  /\ origin \in [Token -> 0 .. MaxToken]
  /\ active \in BOOLEAN
  /\ attempts \in Nat
  /\ expired \subseteq Token
  /\ stored \in [Store -> 0 .. MaxToken]
  /\ page \in [Page -> PageState]
  /\ flight \in [Tab -> Call \cup {NoCall}]
  /\ call \in [Call -> CallState]
  /\ events \in 0 .. MaxEvents
  /\ ended \subseteq Token
  /\ stranded \subseteq Token
  /\ forked \subseteq 0 .. MaxToken

Idle == [pc |-> "idle", call |-> NoCall]
Free == [pc |-> "free", kind |-> "refresh", tok |-> NoToken, new |-> NoToken, tab |-> NoTab]

(* One store is logged in; the others, if any, are empty.                  *)
Init ==
  /\ last = 1
  /\ row = [t \in Token |-> IF t = 1 THEN "live" ELSE "none"]
  /\ origin = [t \in Token |-> IF t = 1 THEN 1 ELSE 0]
  /\ active = TRUE
  /\ attempts = 0
  /\ expired = {}
  /\ \E s \in Store : stored = [x \in Store |-> IF x = s THEN 1 ELSE NoToken]
  /\ page = [p \in Page |-> Idle]
  /\ flight = [b \in Tab |-> NoCall]
  /\ call = [c \in Call |-> Free]
  /\ events = 0
  /\ ended = {} /\ stranded = {} /\ forked = {}

----------------------------------------------------------------------------
(* The client: apiFetch.                                                   *)

(* get_current_user: a JWT that has not expired, of an active account; the *)
(* session row is not looked at.                                           *)
Accepted(t) == t \notin expired /\ active

(* doFetch, up to the decision of the API to answer 401; a request it      *)
(* accepts changes nothing here, and one sent without a token ends with no *)
(* effect (NothingToRefresh).                                              *)
Fetch(p) ==
  LET t == stored[StoreOf[TabOf[p]]] IN
  /\ page[p].pc = "idle"
  /\ t # NoToken /\ ~Accepted(t)
  /\ page' = [page EXCEPT ![p].pc = "unauthorized"]
  /\ UNCHANGED <<server, expired, stored, flight, call, history, events>>

(* That answer is lost: apiFetch throws.                                   *)
Dropped(p) ==
  /\ page[p].pc = "unauthorized"
  /\ page' = [page EXCEPT ![p] = Idle]
  /\ UNCHANGED <<server, expired, stored, flight, call, history, events>>

(* 401 while another request of the tab is refreshing: share its promise.  *)
JoinFlight(p) ==
  LET b == TabOf[p] IN
  /\ page[p].pc = "unauthorized"
  /\ b \notin Phone /\ flight[b] # NoCall
  /\ page' = [page EXCEPT ![p].pc = "waiting", ![p].call = flight[b]]
  /\ UNCHANGED <<server, expired, stored, flight, call, history, events>>

Event == events < MaxEvents /\ events' = events + 1

(* Any free slot does: they are interchangeable.                           *)
Ask(c, kind, b) ==
  /\ call[c].pc = "free" /\ c = CHOOSE d \in Call : call[d].pc = "free"
  /\ call' = [call EXCEPT ![c] = [pc |-> "received", kind |-> kind,
                                  tok |-> stored[StoreOf[b]], new |-> NoToken, tab |-> b]]

(* requestRefresh with the refresh token stored now.                       *)
\* Faulty variant: the promise is not remembered.
WebRefreshUnshared(p, c) ==
  LET b == TabOf[p] IN
  /\ page[p].pc = "unauthorized"
  /\ b \notin Phone /\ flight[b] = NoCall
  /\ stored[StoreOf[b]] # NoToken
  /\ Ask(c, "refresh", b)
  /\ page' = [page EXCEPT ![p].pc = "waiting", ![p].call = c]
  /\ UNCHANGED <<server, expired, stored, flight, history, events>>

WebRefresh(p, c) ==
  LET b == TabOf[p] IN
  /\ page[p].pc = "unauthorized"
  /\ b \notin Phone /\ flight[b] = NoCall
  /\ stored[StoreOf[b]] # NoToken
  /\ Ask(c, "refresh", b)
  /\ flight' = [flight EXCEPT ![b] = c]
  /\ page' = [page EXCEPT ![p].pc = "waiting", ![p].call = c]
  /\ UNCHANGED <<server, expired, stored, history, events>>

(* On a phone every request that gets 401 refreshes on its own.            *)
PhoneRefresh(p, c) ==
  LET b == TabOf[p] IN
  /\ page[p].pc = "unauthorized"
  /\ b \in Phone
  /\ stored[StoreOf[b]] # NoToken
  /\ Ask(c, "refresh", b)
  /\ page' = [page EXCEPT ![p].pc = "waiting", ![p].call = c]
  /\ UNCHANGED <<server, expired, stored, flight, history, events>>

(* 401 and nothing stored: the session is over.                            *)
NothingToRefresh(p) ==
  LET b == TabOf[p] IN
  /\ page[p].pc = "unauthorized"
  /\ b \in Phone \/ flight[b] = NoCall
  /\ stored[StoreOf[b]] = NoToken
  /\ page' = [page EXCEPT ![p] = Idle]
  /\ UNCHANGED <<server, expired, stored, flight, call, history, events>>

(* Logout of a tab that holds tokens; login when it holds none.            *)
Logout(b, c) ==
  /\ stored[StoreOf[b]] # NoToken
  /\ Ask(c, "logout", b)
  /\ Event
  /\ UNCHANGED <<server, client, history>>

WebLogout(b, c) == b \notin Phone /\ Logout(b, c)
PhoneLogout(b, c) == b \in Phone /\ Logout(b, c)

Login(b, c) ==
  /\ stored[StoreOf[b]] = NoToken
  /\ Ask(c, "login", b)
  /\ Event
  /\ UNCHANGED <<server, client, history>>

WebLogin(b, c) == b \notin Phone /\ Login(b, c)
PhoneLogin(b, c) == b \in Phone /\ Login(b, c)

----------------------------------------------------------------------------
(* The server: one action per access to the database or to Redis.          *)

Step(c, from, to) == call[c].pc = from /\ call' = [call EXCEPT ![c].pc = to]

(* A handler between the read of its session row and the revocation.       *)
Holding == {"checked", "counted"}

(* _get_active_session, and the account for a refresh.                     *)
Check(c) ==
  LET t == call[c].tok IN
  /\ call[c].pc = "received" /\ call[c].kind \in {"refresh", "logout"}
  /\ row[t] = "live"
  /\ call[c].kind = "refresh" => active
  /\ Step(c, "received", IF call[c].kind = "refresh" THEN "checked" ELSE "counted")
  /\ forked' = IF \E d \in Call : /\ {call[c].kind, call[d].kind} = {"refresh"}
                                 /\ call[d].tok = t /\ call[d].pc \in Holding
               THEN forked \cup {origin[t]} ELSE forked
  /\ UNCHANGED <<server, client, ended, stranded, events>>

CheckFails(c) ==
  /\ call[c].pc = "received" /\ call[c].kind \in {"refresh", "logout"}
  /\ row[call[c].tok] # "live" \/ (call[c].kind = "refresh" /\ ~active)
  /\ Step(c, "received", "refused")
  /\ UNCHANGED <<server, client, history, events>>

(* ensure_refresh_not_rate_limited and register_refresh_attempt, whose own *)
(* interleavings RateLimiter shows.                                        *)
Limit(c) ==
  /\ attempts < MaxRefresh
  /\ Step(c, "checked", "counted")
  /\ attempts' = attempts + 1
  /\ UNCHANGED <<last, row, origin, active, client, history, events>>

\* Faulty variant: the refusal is not an answer.
LimitReachedUnanswered(c) ==
  /\ attempts >= MaxRefresh
  /\ Step(c, "checked", "limited")
  /\ UNCHANGED <<server, client, history, events>>

LimitReached(c) ==
  /\ attempts >= MaxRefresh
  /\ Step(c, "checked", "refused")
  /\ UNCHANGED <<server, client, history, events>>

(* The revocation commits on its own: revoked_at is written whatever       *)
(* happened to the row since it was read.                                  *)
\* Faulty variant: a refresh issues a new session and leaves the old one.
RevokeForgotten(c) ==
  /\ Step(c, "counted", IF call[c].kind = "refresh" THEN "revoked" ELSE "done")
  /\ UNCHANGED <<server, client, history, events>>

Revoke(c) ==
  LET t == call[c].tok IN
  /\ Step(c, "counted", IF call[c].kind = "refresh" THEN "revoked" ELSE "done")
  /\ row' = [row EXCEPT ![t] = "dead"]
  /\ IF call[c].kind = "logout"
     THEN ended' = ended \cup {t} /\ UNCHANGED stranded
     ELSE /\ UNCHANGED ended
          /\ stranded' = IF call[c].tab = NoTab THEN stranded \cup {t} ELSE stranded
  /\ UNCHANGED <<last, origin, active, attempts, client, forked, events>>

Insert(c, from) ==
  /\ call[c].pc = from
  /\ last < MaxToken
  /\ last' = last + 1
  /\ row' = [row EXCEPT ![last + 1] = "live"]
  /\ call' = [call EXCEPT ![c].pc = "issued", ![c].new = last + 1]

(* _issue_tokens, in a transaction of its own.                             *)
IssueAfterRefresh(c) ==
  /\ call[c].kind = "refresh"
  /\ Insert(c, "revoked")
  /\ origin' = [origin EXCEPT ![last + 1] = origin[call[c].tok]]
  /\ UNCHANGED <<active, attempts, client, history, events>>

(* authenticate, then _issue_tokens.                                       *)
IssueAfterLogin(c) ==
  /\ call[c].kind = "login"
  /\ active
  /\ Insert(c, "received")
  /\ origin' = [origin EXCEPT ![last + 1] = last + 1]
  /\ UNCHANGED <<active, attempts, client, history, events>>

AuthenticateFails(c) ==
  /\ call[c].kind = "login"
  /\ Step(c, "received", "refused")
  /\ UNCHANGED <<server, client, history, events>>

(* The process or the database fails under a handler: 500, or nothing; a   *)
(* committed revocation stays.                                             *)
Fail(c) ==
  /\ call[c].pc \in {"received", "checked", "counted", "revoked"}
  /\ call' = [call EXCEPT ![c].pc = "refused"]
  /\ stranded' = IF call[c].pc = "revoked" THEN stranded \cup {call[c].tok} ELSE stranded
  /\ Event
  /\ UNCHANGED <<server, client, ended, forked>>

(* A handler nobody waits for any more ends.                               *)
Ended == {"issued", "refused", "done"}
Finish(c) ==
  /\ call[c].pc \in Ended
  /\ call[c].tab = NoTab
  /\ call' = [call EXCEPT ![c] = Free]
  /\ UNCHANGED <<server, client, history, events>>

(* DELETE /auth/sessions/{id}: the user ends one session of the list.      *)
RevokeSession(t) ==
  /\ row[t] = "live"
  /\ row' = [row EXCEPT ![t] = "dead"]
  /\ ended' = ended \cup {t}
  /\ Event
  /\ UNCHANGED <<last, origin, active, attempts, client, call, stranded, forked>>

(* expires_at passes.                                                      *)
SessionExpires(t) ==
  /\ row[t] = "live"
  /\ row' = [row EXCEPT ![t] = "dead"]
  /\ ended' = ended \cup {t}
  /\ Event
  /\ UNCHANGED <<last, origin, active, attempts, client, call, stranded, forked>>

(* update_user switches the account off; it is not switched on again here. *)
Deactivate ==
  /\ active /\ active' = FALSE
  /\ Event
  /\ UNCHANGED <<last, row, origin, attempts, client, call, history>>

AccessExpires(t) ==
  /\ \E s \in Store : stored[s] = t
  /\ t \notin expired /\ Cardinality(expired) < MaxExpiry
  /\ expired' = expired \cup {t}
  /\ UNCHANGED <<server, stored, page, flight, call, history, events>>

(* The time to live of the counter of refreshes.                           *)
WindowLapses ==
  /\ attempts > 0 /\ attempts' = 0
  /\ UNCHANGED <<last, row, origin, active, client, call, history, events>>

----------------------------------------------------------------------------
(* Answers.                                                                *)

Waiting(c) == {p \in Page : page[p].call = c}
Continue(c) == page' = [p \in Page |-> IF p \in Waiting(c) THEN Idle ELSE page[p]]
\* Faulty variant: a refresh that ends leaves refreshInFlight set.
LandStuck(c) == UNCHANGED flight
Land(c) == flight' = [b \in Tab |-> IF flight[b] = c THEN NoCall ELSE flight[b]]

(* A refresh succeeded: setStoredTokens, and every waiting page sends its  *)
(* request once more; that second answer is final and changes nothing here.*)
\* Faulty variant: only the access token of the answer is kept.
RefreshedKeepsOld(c) ==
  LET s == StoreOf[call[c].tab] IN
  /\ call[c].pc = "issued" /\ call[c].kind = "refresh" /\ call[c].tab # NoTab
  /\ Land(c)
  /\ Continue(c)
  /\ call' = [call EXCEPT ![c] = Free]
  /\ UNCHANGED <<server, expired, stored, history, events>>

Refreshed(c) ==
  LET s == StoreOf[call[c].tab] IN
  /\ call[c].pc = "issued" /\ call[c].kind = "refresh" /\ call[c].tab # NoTab
  /\ stored' = [stored EXCEPT ![s] = call[c].new]
  /\ Land(c)
  /\ Continue(c)
  /\ call' = [call EXCEPT ![c] = Free]
  /\ UNCHANGED <<server, expired, history, events>>

(* Any other answer: clearStoredTokens and back to the login screen.       *)
RefreshRefused(c) ==
  LET s == StoreOf[call[c].tab] IN
  /\ call[c].pc = "refused" /\ call[c].kind = "refresh" /\ call[c].tab # NoTab
  /\ stored' = [stored EXCEPT ![s] = NoToken]
  /\ Land(c)
  /\ Continue(c)
  /\ call' = [call EXCEPT ![c] = Free]
  /\ UNCHANGED <<server, expired, history, events>>

LoggedIn(c) ==
  LET s == StoreOf[call[c].tab] IN
  /\ call[c].kind = "login" /\ call[c].tab # NoTab
  /\ call[c].pc \in {"issued", "refused"}
  /\ stored' = IF call[c].pc = "issued" THEN [stored EXCEPT ![s] = call[c].new] ELSE stored
  /\ call' = [call EXCEPT ![c] = Free]
  /\ UNCHANGED <<server, expired, page, flight, history, events>>

(* Whatever the answer to a logout, the store is emptied.                  *)
LoggedOut(c) ==
  LET s == StoreOf[call[c].tab] IN
  /\ call[c].kind = "logout" /\ call[c].tab # NoTab
  /\ call[c].pc \in {"done", "refused"}
  /\ stored' = [stored EXCEPT ![s] = NoToken]
  /\ call' = [call EXCEPT ![c] = Free]
  /\ UNCHANGED <<server, expired, page, flight, history, events>>

(* The connection breaks or times out, before or after the handler has     *)
(* done its work.  apiFetch throws and keeps the tokens; logout ignores it *)
(* and clears them.                                                        *)
AnswerLost(c) ==
  LET b == call[c].tab IN
  /\ call[c].pc # "free" /\ b # NoTab
  /\ \/ call[c].pc \notin Ended /\ call' = [call EXCEPT ![c].tab = NoTab]
     \/ call[c].pc \in Ended \cup {"received"} /\ call' = [call EXCEPT ![c] = Free]
  /\ stranded' = IF call[c].kind = "refresh" /\ call[c].pc \in {"revoked", "issued"}
                 THEN stranded \cup {call[c].tok} ELSE stranded
  /\ stored' = IF call[c].kind = "logout" THEN [stored EXCEPT ![StoreOf[b]] = NoToken] ELSE stored
  /\ Land(c)
  /\ Continue(c)
  /\ Event
  /\ UNCHANGED <<server, expired, ended, forked>>

(* The same answers, in a browser tab and on a phone.                      *)
WebTab(c) == call[c].tab \in Tab \ Phone
OnPhone(c) == call[c].tab \in Phone
WebRefreshed(c) == WebTab(c) /\ Refreshed(c)
PhoneRefreshed(c) == OnPhone(c) /\ Refreshed(c)
WebRefused(c) == WebTab(c) /\ RefreshRefused(c)
PhoneRefused(c) == OnPhone(c) /\ RefreshRefused(c)
WebLoggedIn(c) == WebTab(c) /\ LoggedIn(c)
PhoneLoggedIn(c) == OnPhone(c) /\ LoggedIn(c)
WebLoggedOut(c) == WebTab(c) /\ LoggedOut(c)
PhoneLoggedOut(c) == OnPhone(c) /\ LoggedOut(c)
WebAnswerLost(c) == WebTab(c) /\ AnswerLost(c)
PhoneTimeout(c) == OnPhone(c) /\ AnswerLost(c)

----------------------------------------------------------------------------
PageStep(p) ==
  \/ JoinFlight(p) \/ NothingToRefresh(p)
  \/ \E c \in Call : WebRefresh(p, c) \/ PhoneRefresh(p, c)

Handler(c) ==
  \/ Check(c) \/ CheckFails(c) \/ Limit(c) \/ LimitReached(c)
  \/ Revoke(c) \/ IssueAfterRefresh(c) \/ IssueAfterLogin(c)
  \/ AuthenticateFails(c) \/ Finish(c)

Answer(c) ==
  \/ WebRefreshed(c) \/ WebRefused(c) \/ WebLoggedIn(c) \/ WebLoggedOut(c)
  \/ PhoneRefreshed(c) \/ PhoneRefused(c) \/ PhoneLoggedIn(c) \/ PhoneLoggedOut(c)
  \/ WebAnswerLost(c) \/ PhoneTimeout(c)

Next ==
  \/ \E p \in Page : Fetch(p) \/ Dropped(p) \/ PageStep(p)
  \/ \E b \in Tab, c \in Call : \/ WebLogout(b, c) \/ WebLogin(b, c)
                               \/ PhoneLogout(b, c) \/ PhoneLogin(b, c)
  \/ \E c \in Call : Handler(c) \/ Answer(c) \/ Fail(c)
  \/ \E t \in Token : RevokeSession(t) \/ SessionExpires(t) \/ AccessExpires(t)
  \/ Deactivate \/ WindowLapses

Spec == Init /\ [][Next]_vars

----------------------------------------------------------------------------
(* The token a browser or phone holds can be used: it is dead only when    *)
(* the user or time ended it, when its own tab is about to learn the new   *)
(* one, or when the answer that carried the new one was lost.  Two tabs,   *)
(* two requests of a phone, a rate limit, a failed handler and a logout    *)
(* never leave a dead token behind by themselves.                          *)
BeingRotated(s, t) ==
  \E c \in Call : /\ call[c].kind = "refresh" /\ call[c].tok = t
                  /\ call[c].pc \in {"revoked", "issued"}
                  /\ call[c].tab # NoTab /\ StoreOf[call[c].tab] = s

StoredTokenUsable ==
  \A s \in Store : LET t == stored[s] IN
    t # NoToken /\ row[t] # "live" => t \in ended \cup stranded \/ BeingRotated(s, t)

(* Rotation: a login has at most one live session, through refreshes,      *)
(* lost answers and crashes, unless two handlers held the same token       *)
(* between its check and its revocation.                                   *)
OneLivePerLogin ==
  \A t, u \in Token :
    row[t] = "live" /\ row[u] = "live" /\ origin[t] = origin[u] /\ origin[t] \notin forked
      => t = u

(* Within one tab the single refresh in flight is real: no two calls of a  *)
(* browser tab present the same token.                                     *)
OneRefreshPerTab ==
  \A c, d \in Call :
    /\ call[c].pc # "free" /\ call[d].pc # "free"
    /\ call[c].kind = "refresh" /\ call[d].kind = "refresh"
    /\ call[c].tab = call[d].tab /\ call[c].tab \in Tab \ Phone
    => c = d

(* What waits, waits for something: the promise a tab shares is that of a  *)
(* call of the tab in progress, and so is the call each page waits for.    *)
(* However a refresh ends, it lets go of the promise and of every page.    *)
InProgress(c, b) == call[c].pc # "free" /\ call[c].kind = "refresh" /\ call[c].tab = b

WaitsForSomething ==
  /\ \A b \in Tab : flight[b] # NoCall => InProgress(flight[b], b)
  /\ \A p \in Page : page[p].pc = "waiting" => InProgress(page[p].call, TabOf[p])

(* The refresh a tab shares is one request, and everything that waits for  *)
(* it waits for a request in progress: nobody presents the token twice and *)
(* nobody waits for ever.                                                  *)
RefreshIsShared == OneRefreshPerTab /\ WaitsForSomething
=============================================================================
