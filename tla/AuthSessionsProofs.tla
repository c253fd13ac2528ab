------------------------- MODULE AuthSessionsProofs -------------------------
(***************************************************************************)
(* Sessions and tokens, for any browsers, phones, pages, requests and      *)
(* bounds.                                                                 *)
(*                                                                         *)
(* Two arguments carry the proofs.  A token that was issued is in one      *)
(* place: in the answer that carries it, then in one store, so the call    *)
(* that rotates it is a call of that store.  And a login has one heir: its *)
(* live token, or the handler between the revocation of that token and the *)
(* insertion of the next one.                                              *)
(***************************************************************************)
EXTENDS AuthSessions, TLAPS

\* What a call is about, at each of its steps.
CallsInOrder ==
  \A c \in Call : LET k == call[c] IN
    /\ k.pc = "free" => k = Free
    /\ k.kind # "login" /\ k.pc # "free" => k.tok \in 1 .. last
    /\ k.kind = "login" => k.tok = NoToken
    /\ k.pc \in {"checked", "revoked"} => k.kind = "refresh"
    /\ k.pc = "counted" => k.kind # "login"
    /\ k.pc = "issued" => k.kind # "logout" /\ k.new \in 1 .. last

\* Tokens are issued in order, and descend from tokens that came before.
TokensInOrder ==
  /\ \A t \in Token : /\ row[t] = "none" <=> t > last
                      /\ t <= last => origin[t] \in 1 .. t
  /\ \A s \in Store : stored[s] <= last

\* The promise of a tab is the one refresh of that tab, both ways.
FlightsAreCalls ==
  /\ \A b \in Tab : flight[b] # NoCall =>
       b \notin Phone /\ flight[b] \in Call /\ InProgress(flight[b], b)
  /\ \A c \in Call : call[c].tab \in Tab \ Phone /\ InProgress(c, call[c].tab) =>
       flight[call[c].tab] = c
  /\ \A p \in Page : page[p].pc = "waiting" =>
       page[p].call \in Call /\ InProgress(page[p].call, TabOf[p])

\* A token is in one store, and is presented from there.
OneStoreEach ==
  /\ \A s, z \in Store : stored[s] # NoToken /\ stored[s] = stored[z] => s = z
  /\ \A c \in Call, s \in Store :
       call[c].tok # NoToken /\ call[c].tab # NoTab /\ call[c].tok = stored[s]
         => StoreOf[call[c].tab] = s

\* A token still in its answer is nowhere else, and only the user or time can
\* have ended it.
NewsAreFresh ==
  \A c \in Call : call[c].pc = "issued" =>
    /\ \A s \in Store : stored[s] # call[c].new
    /\ \A d \in Call : call[d].tok # call[c].new
    /\ \A d \in Call : call[d].pc = "issued" /\ call[d].new = call[c].new => d = c
    /\ row[call[c].new] = "live" \/ call[c].new \in ended

\* A refresh that has read its session row and has not issued yet.
Claims(c) == call[c].kind = "refresh" /\ call[c].pc \in Holding \cup {"revoked"}
Claimed(t) == row[t] = "live" \/ \E c \in Call : Claims(c) /\ call[c].tok = t

\* A login that was not forked has one heir.
OneHeir ==
  /\ \A t, u \in Token :
       Claimed(t) /\ Claimed(u) /\ origin[t] = origin[u] /\ origin[t] \notin forked => t = u
  /\ \A c, d \in Call :
       /\ Claims(c) /\ Claims(d)
       /\ call[c].tok = call[d].tok /\ origin[call[c].tok] \notin forked
       => c = d
  /\ \A c \in Call : call[c].pc = "revoked" => row[call[c].tok] = "dead"

AuthOrder == TypeOK /\ CallsInOrder /\ TokensInOrder /\ FlightsAreCalls
AuthInv == AuthOrder /\ OneStoreEach /\ NewsAreFresh /\ OneHeir /\ StoredTokenUsable

-----------------------------------------------------------------------------
(* Types.                                                                  *)

\* A page that starts waiting for a call is still a page.
LEMMA WaitingPage ==
  ASSUME TypeOK, NEW p \in Page, NEW x \in Call \cup {NoCall}
  PROVE  [page EXCEPT ![p].pc = "waiting", ![p].call = x] \in [Page -> PageState]
<1>1. page \in [Page -> PageState]
  BY DEF TypeOK
<1>2. [page[p] EXCEPT !.pc = "waiting", !.call = x] \in PageState
  BY <1>1 DEF PageState
<1> QED
  BY <1>1, <1>2

\* What a page does keeps the types.
LEMMA PageTypes ==
  ASSUME TypeOK, CallsInOrder, NEW p \in Page, Fetch(p) \/ Dropped(p) \/ PageStep(p)
  PROVE  TypeOK'
<1> USE ClientAssumption, BoundAssumption DEF TypeOK, server, history, PageState, CallState
<1>1. CASE Fetch(p)
  BY <1>1 DEF Fetch
<1>2. CASE Dropped(p)
  BY <1>2 DEF Dropped, Idle
<1>3. CASE JoinFlight(p)
  <2>1. flight[TabOf[p]] \in Call \cup {NoCall}
    OBVIOUS
  <2>2. page' = [page EXCEPT ![p].pc = "waiting", ![p].call = flight[TabOf[p]]]
    BY <1>3 DEF JoinFlight
  <2>3. page' \in [Page -> PageState]
    BY <2>1, <2>2, WaitingPage
  <2> QED
    BY <1>3, <2>3 DEF JoinFlight
<1>4. CASE NothingToRefresh(p)
  BY <1>4 DEF NothingToRefresh, Idle
<1>5. ASSUME NEW c \in Call, WebRefresh(p, c) \/ PhoneRefresh(p, c) PROVE TypeOK'
  <2>1. stored[StoreOf[TabOf[p]]] \in 0 .. MaxToken /\ TabOf[p] \in Tab
    OBVIOUS
  <2>2. call' \in [Call -> CallState]
    <3>1. call' = [call EXCEPT ![c] = [pc |-> "received", kind |-> "refresh",
                     tok |-> stored[StoreOf[TabOf[p]]], new |-> NoToken, tab |-> TabOf[p]]]
      BY <1>5 DEF WebRefresh, PhoneRefresh, Ask
    <3> QED
      BY <2>1, <3>1 DEF NoToken, CallStep
  <2>3. page' \in [Page -> PageState]
    <3>1. page' = [page EXCEPT ![p].pc = "waiting", ![p].call = c]
      BY <1>5 DEF WebRefresh, PhoneRefresh
    <3> QED
      BY <3>1, WaitingPage
  <2>4. flight' \in [Tab -> Call \cup {NoCall}]
    <3>1. flight' = [flight EXCEPT ![TabOf[p]] = c] \/ flight' = flight
      BY <1>5 DEF WebRefresh, PhoneRefresh
    <3> QED
      BY <2>1, <3>1
  <2> QED
    BY <1>5, <2>2, <2>3, <2>4 DEF WebRefresh, PhoneRefresh
<1> QED
  BY <1>1, <1>2, <1>3, <1>4, <1>5 DEF PageStep

\* What a user does, or time, keeps the types.
LEMMA UserTypes ==
  ASSUME TypeOK, CallsInOrder,
         \/ \E b \in Tab, c \in Call : \/ WebLogout(b, c) \/ WebLogin(b, c)
                                      \/ PhoneLogout(b, c) \/ PhoneLogin(b, c)
         \/ \E t \in Token : RevokeSession(t) \/ SessionExpires(t) \/ AccessExpires(t)
         \/ Deactivate \/ WindowLapses
  PROVE  TypeOK'
<1> USE ClientAssumption, BoundAssumption DEF TypeOK, server, client, history, Event
<1>1. ASSUME NEW b \in Tab, NEW c \in Call,
             \/ WebLogout(b, c) \/ WebLogin(b, c) \/ PhoneLogout(b, c) \/ PhoneLogin(b, c)
      PROVE TypeOK'
  <2>1. PICK kind \in {"logout", "login"} : Ask(c, kind, b) /\ Event /\ UNCHANGED <<server, client, history>>
    BY <1>1 DEF WebLogout, WebLogin, PhoneLogout, PhoneLogin, Logout, Login
  <2>2. stored[StoreOf[b]] \in 0 .. MaxToken
    OBVIOUS
  <2>3. call' \in [Call -> CallState]
    BY <2>1, <2>2 DEF Ask, NoToken, CallState, CallStep
  <2> QED
    BY <2>1, <2>3
<1>2. ASSUME NEW t \in Token, RevokeSession(t) \/ SessionExpires(t) PROVE TypeOK'
  <2>1. row' = [row EXCEPT ![t] = "dead"] /\ ended' = ended \cup {t} /\ Event
        /\ UNCHANGED <<last, origin, active, attempts, client, call, stranded, forked>>
    BY <1>2 DEF RevokeSession, SessionExpires
  <2>2. row' \in [Token -> UserSession]
    BY <2>1 DEF UserSession
  <2>3. events' \in 0 .. MaxEvents
    BY <2>1
  <2> QED
    BY <2>1, <2>2, <2>3
<1>3. CASE Deactivate
  <2>1. events' \in 0 .. MaxEvents
    BY <1>3 DEF Deactivate
  <2> QED
    BY <1>3, <2>1 DEF Deactivate
<1>5. ASSUME NEW t \in Token, AccessExpires(t) PROVE TypeOK'
  BY <1>5 DEF AccessExpires
<1>4. CASE WindowLapses
  BY <1>4 DEF WindowLapses
<1> QED
  BY <1>1, <1>2, <1>3, <1>4, <1>5

\* What a handler does keeps the types.
LEMMA HandlerTypes ==
  ASSUME TypeOK, CallsInOrder, NEW c \in Call, Handler(c) \/ Fail(c)
  PROVE  TypeOK'
<1> USE ClientAssumption, BoundAssumption DEF TypeOK, server, client, history, Event, Step
<1>1. \A to \in CallStep : [call EXCEPT ![c].pc = to] \in [Call -> CallState]
  BY DEF CallState
<1>2. call[c].pc # "free" /\ call[c].kind # "login" => call[c].tok \in Token
  BY DEF CallsInOrder, Token
<1>3. CASE Check(c)
  <2>1. origin[call[c].tok] \in 0 .. MaxToken
    BY <1>2, <1>3 DEF Check
  <2> QED
    BY <1>1, <1>3, <2>1 DEF Check, CallStep
<1>4. CASE CheckFails(c) \/ LimitReached(c) \/ AuthenticateFails(c)
  <2>1. call' = [call EXCEPT ![c].pc = "refused"] /\ UNCHANGED <<server, client, history, events>>
    BY <1>4 DEF CheckFails, LimitReached, AuthenticateFails
  <2> QED
    BY <1>1, <2>1 DEF CallStep
<1>9. CASE Limit(c)
  BY <1>1, <1>9 DEF Limit, CallStep
<1>5. CASE Revoke(c)
  <2>1. call[c].tok \in Token
    BY <1>2, <1>5 DEF Revoke, CallsInOrder
  <2> QED
    BY <1>1, <1>5, <2>1 DEF Revoke, CallStep, UserSession
<1>6. CASE IssueAfterRefresh(c) \/ IssueAfterLogin(c)
  <2>1. last + 1 \in Token /\ last' = last + 1 /\ row' = [row EXCEPT ![last + 1] = "live"]
    BY <1>6 DEF IssueAfterRefresh, IssueAfterLogin, Insert, Token
  <2>2. call' \in [Call -> CallState]
    <3>1. call' = [call EXCEPT ![c].pc = "issued", ![c].new = last + 1]
      BY <1>6 DEF IssueAfterRefresh, IssueAfterLogin, Insert
    <3>2. last + 1 \in 0 .. MaxToken
      BY <2>1 DEF Token
    <3>3. [call[c] EXCEPT !.pc = "issued", !.new = last + 1] \in CallState
      BY <3>2 DEF CallState, CallStep
    <3> QED
      BY <3>1, <3>3
  <2>3. origin' \in [Token -> 0 .. MaxToken]
    <3>1. CASE IssueAfterLogin(c)
      BY <2>1, <3>1 DEF IssueAfterLogin, Token
    <3>2. CASE IssueAfterRefresh(c)
      <4>1. origin[call[c].tok] \in 0 .. MaxToken
        BY <1>2, <3>2 DEF IssueAfterRefresh, Insert
      <4> QED
        BY <3>2, <4>1 DEF IssueAfterRefresh
    <3> QED
      BY <1>6, <3>1, <3>2
  <2> QED
    BY <1>6, <2>1, <2>2, <2>3 DEF IssueAfterRefresh, IssueAfterLogin, UserSession, Token
<1>7. CASE Fail(c)
  <2>1. call[c].pc = "revoked" => call[c].tok \in Token
    BY <1>2 DEF CallsInOrder
  <2> QED
    BY <1>1, <1>7, <2>1 DEF Fail, CallStep
<1>8. CASE Finish(c)
  BY <1>8 DEF Finish, Free, NoToken, CallState, CallStep
<1> QED
  BY <1>3, <1>4, <1>5, <1>6, <1>7, <1>8, <1>9 DEF Handler

\* The answers to a call.
AnyAnswer(c) ==
  \/ Refreshed(c) \/ RefreshRefused(c) \/ LoggedIn(c) \/ LoggedOut(c) \/ AnswerLost(c)

LEMMA AnswerCases ==
  ASSUME TypeOK, NEW c \in Call, Answer(c)
  PROVE  AnyAnswer(c) /\ call[c].tab \in Tab
BY ClientAssumption
   DEF Answer, AnyAnswer, WebRefreshed, PhoneRefreshed, WebRefused, PhoneRefused, WebLoggedIn,
       PhoneLoggedIn, WebLoggedOut, PhoneLoggedOut, WebAnswerLost, PhoneTimeout, WebTab, OnPhone

\* What an answer does keeps the types.
LEMMA AnswerTypes ==
  ASSUME TypeOK, CallsInOrder, NEW c \in Call, Answer(c)
  PROVE  TypeOK'
<1> USE ClientAssumption, BoundAssumption DEF TypeOK, server, client, history, Event
<1>1. AnyAnswer(c) /\ call[c].tab \in Tab
  BY AnswerCases
<1>2. StoreOf[call[c].tab] \in Store /\ call[c].new \in 0 .. MaxToken /\ NoToken \in 0 .. MaxToken
  BY <1>1 DEF NoToken, CallState
<1>3. call' \in [Call -> CallState]
  BY <1>1 DEF AnyAnswer, Refreshed, RefreshRefused, LoggedIn, LoggedOut, AnswerLost, Free, NoToken,
              CallState, CallStep
<1>4. page' \in [Page -> PageState] /\ flight' \in [Tab -> Call \cup {NoCall}]
  BY <1>1 DEF AnyAnswer, Refreshed, RefreshRefused, LoggedIn, LoggedOut, AnswerLost, Land, Continue,
              Idle, PageState
<1>5. stored' \in [Store -> 0 .. MaxToken]
  BY <1>1, <1>2 DEF AnyAnswer, Refreshed, RefreshRefused, LoggedIn, LoggedOut, AnswerLost
<1>6. stranded' \subseteq Token
  <2>1. call[c].kind = "refresh" /\ call[c].pc \in {"revoked", "issued"} => call[c].tok \in Token
    <3>1. call[c].kind = "refresh" /\ call[c].pc \in {"revoked", "issued"} => call[c].tok \in 1 .. last
      BY DEF CallsInOrder
    <3> QED
      BY <3>1 DEF Token
  <2>2. stranded' = stranded \/ (AnswerLost(c) /\ call[c].kind = "refresh" /\ call[c].pc \in {"revoked", "issued"}
                                 /\ stranded' = stranded \cup {call[c].tok})
    BY <1>1 DEF AnyAnswer, Refreshed, RefreshRefused, LoggedIn, LoggedOut, AnswerLost
  <2> QED
    BY <2>1, <2>2
<1> QED
  BY <1>1, <1>3, <1>4, <1>5, <1>6
     DEF AnyAnswer, Refreshed, RefreshRefused, LoggedIn, LoggedOut, AnswerLost

LEMMA TypesStep == TypeOK /\ CallsInOrder /\ [Next]_vars => TypeOK'
<1> SUFFICES ASSUME TypeOK, CallsInOrder, [Next]_vars PROVE TypeOK'
  OBVIOUS
<1>1. CASE UNCHANGED vars
  BY <1>1 DEF TypeOK, vars, server, client, history
<1>2. CASE Next
  BY <1>2, PageTypes, UserTypes, HandlerTypes, AnswerTypes DEF Next
<1> QED
  BY <1>1, <1>2

-----------------------------------------------------------------------------
(* What a step can do to the calls, the rows and the stores.               *)

\* A page looks, an account is switched off, a window or an access token lapses.
Looks ==
  /\ UNCHANGED <<last, row, origin, stored, flight, call, history>>
  /\ \A p \in Page : page'[p].pc = "waiting" =>
       \/ page'[p] = page[p]
       \/ page'[p].call = flight[TabOf[p]] /\ flight[TabOf[p]] # NoCall

\* A request of a tab is sent with the token stored then.
Asks(c, kind, b) ==
  LET t == stored[StoreOf[b]] IN
  /\ call[c].pc = "free"
  /\ (kind = "login") = (t = NoToken)
  /\ call' = [call EXCEPT ![c] = [pc |-> "received", kind |-> kind,
                                  tok |-> t, new |-> NoToken, tab |-> b]]
  /\ \/ kind = "refresh" /\ b \notin Phone /\ flight[b] = NoCall /\ flight' = [flight EXCEPT ![b] = c]
     \/ (kind # "refresh" \/ b \in Phone) /\ UNCHANGED flight
  /\ \A p \in Page : page'[p].pc = "waiting" =>
       \/ page'[p] = page[p]
       \/ kind = "refresh" /\ page'[p].call = c /\ TabOf[p] = b
  /\ UNCHANGED <<last, row, origin, stored, history>>

\* A handler goes on without touching a row.
Goes(c, to) ==
  /\ call[c].pc \in {"received", "checked", "counted", "revoked"}
  /\ to = "refused" \/ (to = "counted" /\ call[c].pc = "checked")
  /\ call' = [call EXCEPT ![c].pc = to]
  /\ stranded' = IF call[c].pc = "revoked" THEN stranded \cup {call[c].tok} ELSE stranded
  /\ UNCHANGED <<last, row, origin, stored, page, flight, ended, forked>>

\* A token is issued.
Issues(c, from, o) ==
  /\ \/ call[c].kind = "refresh" /\ from = "revoked" /\ o = origin[call[c].tok]
     \/ call[c].kind = "login" /\ from = "received" /\ o = last + 1
  /\ Insert(c, from)
  /\ origin' = [origin EXCEPT ![last + 1] = o]
  /\ UNCHANGED <<stored, page, flight, history>>

\* The user or time ends a session.
EndsToken(t) ==
  /\ row[t] = "live"
  /\ row' = [row EXCEPT ![t] = "dead"]
  /\ ended' = ended \cup {t}
  /\ UNCHANGED <<last, origin, stored, page, flight, call, stranded, forked>>

\* A call answers, or its client gives up; a token it brings goes to its store.
Returns(c) ==
  LET s == StoreOf[call[c].tab] IN
  /\ call[c].pc # "free"
  /\ \/ call' = [call EXCEPT ![c] = Free]
     \/ call' = [call EXCEPT ![c].tab = NoTab] /\ call[c].pc # "issued"
  /\ \/ stored' = stored
     \/ call[c].tab # NoTab /\ stored' = [stored EXCEPT ![s] = NoToken]
     \/ /\ call[c].tab # NoTab /\ call[c].pc = "issued"
        /\ call' = [call EXCEPT ![c] = Free]
        /\ stored' = [stored EXCEPT ![s] = call[c].new]
  /\ \A b \in Tab : flight'[b] = IF flight[b] = c THEN NoCall ELSE flight[b]
  /\ \A p \in Page : page'[p].pc = "waiting" => page'[p] = page[p] /\ page[p].call # c
  /\ call[c].kind = "refresh" /\ call[c].pc \in {"revoked", "issued"} /\ call[c].tab # NoTab =>
       call[c].tok \in stranded' \/ (call[c].pc = "issued" /\ stored'[s] = call[c].new)
  /\ stranded \subseteq stranded'
  /\ UNCHANGED <<last, row, origin, ended, forked>>

\* Every step is one of these.
Moves ==
  \/ Looks
  \/ \E c \in Call, kind \in {"refresh", "login", "logout"}, b \in Tab : Asks(c, kind, b)
  \/ \E c \in Call : Check(c) \/ Goes(c, "refused") \/ Goes(c, "counted") \/ Revoke(c) \/ Returns(c)
  \/ \E c \in Call, from \in {"received", "revoked"}, o \in Token : Issues(c, from, o)
  \/ \E t \in Token : EndsToken(t)

\* What a page does is a look or a request.
LEMMA PageMoves ==
  ASSUME AuthOrder, NEW p \in Page, Fetch(p) \/ Dropped(p) \/ PageStep(p)
  PROVE  Moves
<1> USE ClientAssumption DEF server, history
<1>1. page \in [Page -> PageState]
  BY DEF AuthOrder, TypeOK
<1>2. CASE Fetch(p) \/ Dropped(p) \/ NothingToRefresh(p)
  <2>2. page' = [page EXCEPT ![p].pc = "unauthorized"] \/ page' = [page EXCEPT ![p] = Idle]
    BY <1>2 DEF Fetch, Dropped, NothingToRefresh
  <2>3. \A q \in Page : page'[q].pc = "waiting" => page'[q] = page[q]
    <3>1. \A q \in Page : q # p => page'[q] = page[q]
      BY <1>1, <2>2
    <3>2. page'[p].pc # "waiting"
      BY <1>1, <2>2 DEF Idle, PageState
    <3> QED
      BY <3>1, <3>2
  <2>1. Looks
    BY <1>2, <2>3 DEF Looks, Fetch, Dropped, NothingToRefresh
  <2> QED
    BY <2>1 DEF Moves
<1>3. CASE JoinFlight(p)
  <2>1. Looks
    BY <1>1, <1>3 DEF Looks, JoinFlight
  <2> QED
    BY <2>1 DEF Moves
<1>4. ASSUME NEW c \in Call, WebRefresh(p, c) \/ PhoneRefresh(p, c) PROVE Moves
  <2>1. TabOf[p] \in Tab
    OBVIOUS
  <2>2. Asks(c, "refresh", TabOf[p])
    <3>1. page' = [page EXCEPT ![p].pc = "waiting", ![p].call = c]
      BY <1>4 DEF WebRefresh, PhoneRefresh
    <3>2. \A q \in Page : page'[q].pc = "waiting" =>
            page'[q] = page[q] \/ (page'[q].call = c /\ TabOf[q] = TabOf[p])
      BY <1>1, <3>1 DEF PageState
    <3> QED
      BY <1>4, <2>1, <3>2 DEF Asks, Ask, WebRefresh, PhoneRefresh
  <2> QED
    BY <2>1, <2>2 DEF Moves
<1> QED
  BY <1>2, <1>3, <1>4 DEF PageStep

\* What a user does, or time, is a look, a request or the end of a session.
LEMMA UserMoves ==
  ASSUME AuthOrder,
         \/ \E b \in Tab, c \in Call : \/ WebLogout(b, c) \/ WebLogin(b, c)
                                      \/ PhoneLogout(b, c) \/ PhoneLogin(b, c)
         \/ \E t \in Token : RevokeSession(t) \/ SessionExpires(t) \/ AccessExpires(t)
         \/ Deactivate \/ WindowLapses
  PROVE  Moves
<1> USE DEF server, client, history
<1>1. ASSUME NEW b \in Tab, NEW c \in Call,
             WebLogout(b, c) \/ PhoneLogout(b, c) \/ WebLogin(b, c) \/ PhoneLogin(b, c)
      PROVE Moves
  <2>1. Asks(c, "logout", b) \/ Asks(c, "login", b)
    BY <1>1 DEF WebLogout, PhoneLogout, WebLogin, PhoneLogin, Logout, Login, Ask, Asks
  <2> QED
    BY <2>1 DEF Moves
<1>2. ASSUME NEW t \in Token, RevokeSession(t) \/ SessionExpires(t) PROVE Moves
  <2>1. EndsToken(t)
    BY <1>2 DEF RevokeSession, SessionExpires, EndsToken
  <2> QED
    BY <2>1 DEF Moves
<1>3. ASSUME NEW t \in Token, AccessExpires(t) PROVE Moves
  BY <1>3 DEF AccessExpires, Looks, Moves
<1>4. CASE Deactivate \/ WindowLapses
  BY <1>4 DEF Deactivate, WindowLapses, Looks, Moves
<1> QED
  BY <1>1, <1>2, <1>3, <1>4

\* What a handler does.
LEMMA HandlerMoves ==
  ASSUME AuthOrder, NEW c \in Call, Handler(c) \/ Fail(c)
  PROVE  Moves
<1> USE DEF server, client, history, Step
<1>1. CASE CheckFails(c) \/ LimitReached(c) \/ AuthenticateFails(c) \/ Fail(c)
  <2>1. Goes(c, "refused")
    BY <1>1 DEF CheckFails, LimitReached, AuthenticateFails, Fail, Goes
  <2> QED
    BY <2>1 DEF Moves
<1>2. CASE Limit(c)
  <2>1. Goes(c, "counted")
    BY <1>2 DEF Limit, Goes
  <2> QED
    BY <2>1 DEF Moves
<1>3. CASE Check(c) \/ Revoke(c)
  BY <1>3 DEF Moves
<1>4. CASE IssueAfterRefresh(c)
  <2>1. call[c].tok \in 1 .. last /\ last \in 1 .. MaxToken
    BY <1>4 DEF IssueAfterRefresh, Insert, AuthOrder, CallsInOrder, TypeOK
  <2>2. call[c].tok \in Token /\ call[c].tok <= last
    BY <2>1, BoundAssumption DEF Token
  <2>3. origin[call[c].tok] \in Token
    BY <2>1, <2>2, BoundAssumption DEF AuthOrder, TokensInOrder, Token
  <2>4. Issues(c, "revoked", origin[call[c].tok])
    BY <1>4 DEF IssueAfterRefresh, Insert, Issues
  <2> QED
    BY <2>3, <2>4 DEF Moves
<1>5. CASE IssueAfterLogin(c)
  <2>1. last + 1 \in Token
    BY <1>5, BoundAssumption DEF IssueAfterLogin, Insert, AuthOrder, TypeOK, Token
  <2>2. Issues(c, "received", last + 1)
    BY <1>5 DEF IssueAfterLogin, Insert, Issues
  <2> QED
    BY <2>1, <2>2 DEF Moves
<1>6. CASE Finish(c)
  <2>1. \A b \in Tab : flight[b] # c
    BY <1>6, ClientAssumption DEF Finish, AuthOrder, FlightsAreCalls, InProgress
  <2>2. \A p \in Page : page[p].pc = "waiting" => page[p].call # c
    BY <1>6, ClientAssumption DEF Finish, AuthOrder, FlightsAreCalls, InProgress
  <2>3. Returns(c)
    BY <1>6, <2>1, <2>2 DEF Finish, Returns, Ended
  <2> QED
    BY <2>3 DEF Moves
<1> QED
  BY <1>1, <1>2, <1>3, <1>4, <1>5, <1>6 DEF Handler

\* What an answer does: it lets go of the promise and of every page.
LEMMA AnswerMoves ==
  ASSUME AuthOrder, NEW c \in Call, Answer(c)
  PROVE  Moves
<1> USE DEF server, history
<1>1. AnyAnswer(c) /\ call[c].tab \in Tab /\ call[c].tab # NoTab
  BY AnswerCases, ClientAssumption DEF AuthOrder
<1>2. page \in [Page -> PageState] /\ flight \in [Tab -> Call \cup {NoCall}]
      /\ stored \in [Store -> 0 .. MaxToken] /\ StoreOf[call[c].tab] \in Store
  BY <1>1, ClientAssumption DEF AuthOrder, TypeOK
<1>3. CASE Refreshed(c) \/ RefreshRefused(c) \/ AnswerLost(c)
  <2>1. Land(c) /\ Continue(c)
    BY <1>3 DEF Refreshed, RefreshRefused, AnswerLost
  <2>2. \A b \in Tab : flight'[b] = IF flight[b] = c THEN NoCall ELSE flight[b]
    BY <2>1 DEF Land
  <2>3. \A p \in Page : page'[p].pc = "waiting" => page'[p] = page[p] /\ page[p].call # c
    BY <2>1 DEF Continue, Waiting, Idle
  <2>4. Returns(c)
    BY <1>1, <1>2, <1>3, <2>2, <2>3 DEF Refreshed, RefreshRefused, AnswerLost, Returns, Ended
  <2> QED
    BY <2>4 DEF Moves
<1>4. CASE LoggedIn(c) \/ LoggedOut(c)
  <2>1. \A b \in Tab : flight[b] # c
    BY <1>4, ClientAssumption DEF LoggedIn, LoggedOut, AuthOrder, FlightsAreCalls, InProgress
  <2>2. \A p \in Page : page[p].pc = "waiting" => page[p].call # c
    BY <1>4, ClientAssumption DEF LoggedIn, LoggedOut, AuthOrder, FlightsAreCalls, InProgress
  <2>3. Returns(c)
    BY <1>1, <1>2, <1>4, <2>1, <2>2 DEF LoggedIn, LoggedOut, Returns
  <2> QED
    BY <2>3 DEF Moves
<1> QED
  BY <1>1, <1>3, <1>4 DEF AnyAnswer

LEMMA EveryStepMoves == AuthOrder /\ Next => Moves
BY PageMoves, UserMoves, HandlerMoves, AnswerMoves DEF Next

-----------------------------------------------------------------------------
(* Each part of the invariant is kept by each kind of step.                *)

\* How a step changes one call and leaves the others.
Others(c) == \A d \in Call : d # c => call'[d] = call[d]
SameAim(c) ==
  call'[c].kind = call[c].kind /\ call'[c].tok = call[c].tok /\ call'[c].tab = call[c].tab

LEMMA AskChanges ==
  ASSUME AuthOrder, NEW c \in Call, NEW kind, NEW b \in Tab, Asks(c, kind, b)
  PROVE  /\ call'[c].pc = "received" /\ call'[c].kind = kind /\ call'[c].tab = b
         /\ call'[c].tok = stored[StoreOf[b]]
         /\ Others(c)
<1>1. call \in [Call -> CallState]
  BY DEF AuthOrder, TypeOK
<1> QED
  BY <1>1 DEF Asks, Others

LEMMA PcChanges ==
  ASSUME AuthOrder, NEW c \in Call
  PROVE  /\ \A to : Goes(c, to) => call'[c].pc = to /\ call'[c].new = call[c].new
         /\ (\E to : Goes(c, to)) \/ Check(c) \/ Revoke(c) => SameAim(c) /\ Others(c)
         /\ Check(c) => call'[c].pc \in Holding /\ (call'[c].pc = "checked" => call[c].kind = "refresh")
         /\ Revoke(c) => call'[c].pc = IF call[c].kind = "refresh" THEN "revoked" ELSE "done"
<1>1. call \in [Call -> CallState]
  BY DEF AuthOrder, TypeOK
<1> QED
  BY <1>1 DEF Goes, Check, Revoke, Step, CallState, Others, SameAim, Holding

LEMMA IssueChanges ==
  ASSUME AuthOrder, NEW c \in Call, NEW from, NEW o, Issues(c, from, o)
  PROVE  /\ call'[c].pc = "issued" /\ call'[c].new = last + 1 /\ SameAim(c) /\ Others(c)
         /\ last' = last + 1 /\ last + 1 \in Token
         /\ \A t \in Token : row'[t] = IF t = last + 1 THEN "live" ELSE row[t]
         /\ \A t \in Token : origin'[t] = IF t = last + 1 THEN o ELSE origin[t]
<1>1. /\ call \in [Call -> CallState] /\ last \in 1 .. MaxToken
      /\ row \in [Token -> UserSession] /\ origin \in [Token -> 0 .. MaxToken]
  BY DEF AuthOrder, TypeOK
<1>2. last + 1 \in Token
  BY <1>1, BoundAssumption DEF Issues, Insert, Token
<1>3. call'[c].pc = "issued" /\ call'[c].new = last + 1 /\ SameAim(c) /\ Others(c)
  BY <1>1 DEF Issues, Insert, CallState, Others, SameAim
<1> QED
  BY <1>1, <1>2, <1>3 DEF Issues, Insert

LEMMA ReturnChanges ==
  ASSUME AuthOrder, NEW c \in Call, Returns(c)
  PROVE  /\ \/ call'[c] = Free
            \/ /\ call'[c].pc = call[c].pc /\ call'[c].kind = call[c].kind
               /\ call'[c].tok = call[c].tok /\ call'[c].tab = NoTab /\ call[c].pc # "issued"
         /\ Others(c)
         /\ \A s \in Store :
              \/ stored'[s] = stored[s]
              \/ call[c].tab # NoTab /\ s = StoreOf[call[c].tab] /\ stored'[s] = NoToken
              \/ /\ call[c].tab # NoTab /\ s = StoreOf[call[c].tab] /\ stored'[s] = call[c].new
                 /\ call[c].pc = "issued" /\ call'[c] = Free
<1>1. call \in [Call -> CallState] /\ stored \in [Store -> 0 .. MaxToken]
  BY DEF AuthOrder, TypeOK
<1>2. /\ Others(c)
      /\ \/ call'[c] = Free
         \/ /\ call'[c].pc = call[c].pc /\ call'[c].kind = call[c].kind
            /\ call'[c].tok = call[c].tok /\ call'[c].tab = NoTab /\ call[c].pc # "issued"
  BY <1>1 DEF Returns, CallState, Others
<1>3. \/ stored' = stored
      \/ call[c].tab # NoTab /\ stored' = [stored EXCEPT ![StoreOf[call[c].tab]] = NoToken]
      \/ /\ call[c].tab # NoTab /\ call[c].pc = "issued" /\ call'[c] = Free
         /\ stored' = [stored EXCEPT ![StoreOf[call[c].tab]] = call[c].new]
  BY <1>1 DEF Returns
<1> QED
  BY <1>1, <1>2, <1>3

\* Every call stays in order.
LEMMA CallsStep == AuthOrder /\ Moves => CallsInOrder'
<1> SUFFICES ASSUME AuthOrder, Moves PROVE CallsInOrder'
  OBVIOUS
<1>0. /\ CallsInOrder /\ last \in 1 .. MaxToken /\ call \in [Call -> CallState]
      /\ stored \in [Store -> 0 .. MaxToken] /\ TokensInOrder
  BY DEF AuthOrder, TypeOK
<1> USE BoundAssumption DEF CallsInOrder, Others, SameAim, NoToken
<1>1. CASE Looks
  BY <1>0, <1>1 DEF Looks
<1>2. ASSUME NEW c \in Call, NEW kind \in {"refresh", "login", "logout"}, NEW b \in Tab, Asks(c, kind, b)
      PROVE CallsInOrder'
  <2>1. stored[StoreOf[b]] \in 0 .. last
    BY <1>0, ClientAssumption DEF TokensInOrder
  <2>2. kind # "login" => stored[StoreOf[b]] \in 1 .. last
    BY <1>0, <1>2, <2>1 DEF Asks
  <2> QED
    BY <1>0, <1>2, <2>2, AskChanges DEF Asks
<1>3. ASSUME NEW c \in Call, Goes(c, "refused") \/ Goes(c, "counted") PROVE CallsInOrder'
  BY <1>0, <1>3, PcChanges DEF Goes
<1>4. ASSUME NEW c \in Call, Check(c) PROVE CallsInOrder'
  <2>1. /\ call[c].pc = "received" /\ call[c].kind # "login" /\ last' = last
        /\ call'[c].pc \in {"checked", "counted"}
        /\ call'[c].pc = "checked" => call[c].kind = "refresh"
    BY <1>4, PcChanges DEF Check, Holding, server
  <2>2. SameAim(c) /\ Others(c)
    BY <1>4, PcChanges
  <2> QED
    BY <1>0, <2>1, <2>2
<1>5. ASSUME NEW c \in Call, Revoke(c) PROVE CallsInOrder'
  BY <1>0, <1>5, PcChanges DEF Revoke, Step
<1>6. ASSUME NEW c \in Call, NEW from \in {"received", "revoked"}, NEW o \in Token, Issues(c, from, o)
      PROVE CallsInOrder'
  <2>1. /\ call[c].pc # "free" /\ call[c].kind # "logout" /\ last' = last + 1
        /\ call'[c].pc = "issued" /\ call'[c].new = last + 1
    BY <1>6, IssueChanges DEF Issues, Insert
  <2>2. SameAim(c) /\ Others(c)
    BY <1>6, IssueChanges
  <2>3. \A n \in 1 .. last : n \in 1 .. last'
    BY <1>0, <2>1
  <2>4. last + 1 \in 1 .. last'
    BY <1>0, <2>1
  <2> QED
    BY <1>0, <2>1, <2>2, <2>3, <2>4
<1>7. ASSUME NEW c \in Call, Returns(c) PROVE CallsInOrder'
  BY <1>0, <1>7, ReturnChanges DEF Returns, Free
<1>8. ASSUME NEW t \in Token, EndsToken(t) PROVE CallsInOrder'
  BY <1>0, <1>8 DEF EndsToken
<1> QED
  BY <1>1, <1>2, <1>3, <1>4, <1>5, <1>6, <1>7, <1>8 DEF Moves

\* Tokens stay in order.
LEMMA TokensStep == AuthOrder /\ Moves => TokensInOrder'
<1> SUFFICES ASSUME AuthOrder, Moves PROVE TokensInOrder'
  OBVIOUS
<1>0. /\ CallsInOrder /\ TokensInOrder
      /\ last \in 1 .. MaxToken /\ row \in [Token -> UserSession]
      /\ stored \in [Store -> 0 .. MaxToken] /\ call \in [Call -> CallState]
  BY DEF AuthOrder, TypeOK
<1> USE BoundAssumption DEF TokensInOrder, NoToken, Token
<1>1. CASE UNCHANGED <<last, row, origin, stored>>
  BY <1>0, <1>1
<1>2. ASSUME NEW t \in Token, row[t] # "none", row' = [row EXCEPT ![t] = "dead"],
             UNCHANGED <<last, origin, stored>>
      PROVE TokensInOrder'
  BY <1>0, <1>2
<1>3. ASSUME NEW c \in Call, Revoke(c) PROVE TokensInOrder'
  <2>1. call[c].tok \in 1 .. last
    BY <1>0, <1>3 DEF Revoke, Step, CallsInOrder
  <2>2. call[c].tok \in Token /\ row[call[c].tok] # "none"
    BY <1>0, <2>1
  <2>3. row' = [row EXCEPT ![call[c].tok] = "dead"] /\ UNCHANGED <<last, origin, stored>>
    BY <1>3 DEF Revoke, client
  <2> QED
    BY <1>2, <2>2, <2>3
<1>4. ASSUME NEW c \in Call, NEW from \in {"received", "revoked"}, NEW o \in Token, Issues(c, from, o)
      PROVE TokensInOrder'
  <2>1. /\ last' = last + 1 /\ last + 1 \in Token /\ stored' = stored
        /\ \A t \in Token : row'[t] = IF t = last + 1 THEN "live" ELSE row[t]
        /\ \A t \in Token : origin'[t] = IF t = last + 1 THEN o ELSE origin[t]
    <3>1. stored' = stored
      BY <1>4 DEF Issues
    <3> QED
      BY ONLY <3>1, <1>0, <1>4, IssueChanges, AuthOrder
  <2>2. o \in 1 .. last + 1
    <3>1. CASE o = last + 1
      BY <1>0, <3>1
    <3>2. CASE call[c].kind = "refresh" /\ call[c].pc = "revoked" /\ o = origin[call[c].tok]
      <4>1. call[c].tok \in 1 .. last
        BY <1>0, <3>2 DEF CallsInOrder
      <4> QED
        BY <1>0, <3>2, <4>1
    <3> QED
      BY <1>4, <3>1, <3>2 DEF Issues, Insert
  <2>3. \A t \in Token : (row'[t] = "none" <=> t > last') /\ (t <= last' => origin'[t] \in 1 .. t)
    BY <1>0, <2>1, <2>2
  <2> QED
    BY <1>0, <2>1, <2>3
<1>5. ASSUME NEW c \in Call, Returns(c) PROVE TokensInOrder'
  <2>1. UNCHANGED <<last, row, origin>>
    BY <1>5 DEF Returns
  <2>2. call[c].pc = "issued" => call[c].new \in 1 .. last
    BY <1>0 DEF CallsInOrder
  <2>3. \A s \in Store : stored'[s] <= last
    BY <1>0, <1>5, <2>2, ReturnChanges
  <2> QED
    BY <1>0, <2>1, <2>3
<1> QED
  BY <1>1, <1>2, <1>3, <1>4, <1>5
     DEF Moves, Looks, Asks, Goes, Check, EndsToken, server, client

\* The promise of a tab stays that of its one refresh.
LEMMA FlightsStep == AuthOrder /\ Moves => FlightsAreCalls'
<1> SUFFICES ASSUME AuthOrder, Moves PROVE FlightsAreCalls'
  OBVIOUS
<1>0. /\ CallsInOrder /\ FlightsAreCalls /\ call \in [Call -> CallState]
      /\ flight \in [Tab -> Call \cup {NoCall}]
  BY DEF AuthOrder, TypeOK
<1> USE ClientAssumption DEF FlightsAreCalls, InProgress, Others, SameAim
<1>1. CASE Looks
  BY <1>0, <1>1 DEF Looks
<1>2. ASSUME NEW c \in Call, NEW kind \in {"refresh", "login", "logout"}, NEW b \in Tab, Asks(c, kind, b)
      PROVE FlightsAreCalls'
  <2>1. /\ call'[c].pc = "received" /\ call'[c].kind = kind /\ call'[c].tab = b
        /\ \A d \in Call : d # c => call'[d] = call[d]
    BY <1>2, AskChanges
  <2>2. \A x \in Tab : flight[x] # c
    BY <1>0, <1>2 DEF Asks
  <2>3. \A p \in Page : page[p].pc = "waiting" => page[p].call # c
    BY <1>0, <1>2 DEF Asks
  <2>4. \A x \in Tab : flight'[x] = IF kind = "refresh" /\ b \notin Phone /\ x = b THEN c ELSE flight[x]
    BY <1>0, <1>2 DEF Asks
  <2>5. kind = "refresh" /\ b \notin Phone => flight[b] = NoCall
    BY <1>2 DEF Asks
  <2>6. \A x \in Tab : flight'[x] # NoCall =>
          x \notin Phone /\ flight'[x] \in Call /\ call'[flight'[x]].pc # "free"
          /\ call'[flight'[x]].kind = "refresh" /\ call'[flight'[x]].tab = x
    BY <1>0, <2>1, <2>2, <2>4
  <2>7. \A d \in Call : call'[d].tab \in Tab \ Phone /\ call'[d].pc # "free" /\ call'[d].kind = "refresh" =>
          flight'[call'[d].tab] = d
    BY <1>0, <2>1, <2>4, <2>5
  <2>8. \A p \in Page : page'[p].pc = "waiting" =>
          page'[p].call \in Call /\ call'[page'[p].call].pc # "free"
          /\ call'[page'[p].call].kind = "refresh" /\ call'[page'[p].call].tab = TabOf[p]
    BY <1>0, <1>2, <2>1, <2>3 DEF Asks
  <2> QED
    BY <2>6, <2>7, <2>8
<1>3. ASSUME NEW c \in Call, SameAim(c), Others(c), call[c].pc # "free", call'[c].pc # "free",
             UNCHANGED <<page, flight>>
      PROVE FlightsAreCalls'
  BY <1>0, <1>3
<1>4. ASSUME NEW c \in Call, Goes(c, "refused") \/ Goes(c, "counted") \/ Check(c) \/ Revoke(c)
      PROVE FlightsAreCalls'
  <2>1. SameAim(c) /\ Others(c)
    BY <1>4, PcChanges
  <2>2. call[c].pc # "free" /\ call'[c].pc # "free" /\ UNCHANGED <<page, flight>>
    <3>1. CASE Goes(c, "refused") \/ Goes(c, "counted")
      BY <3>1, PcChanges DEF Goes
    <3>2. CASE Check(c)
      BY <3>2, PcChanges DEF Check, Holding, client
    <3>3. CASE Revoke(c)
      BY <3>3, PcChanges DEF Revoke, Step, client
    <3> QED
      BY <1>4, <3>1, <3>2, <3>3
  <2> QED
    BY <1>3, <2>1, <2>2
<1>5. ASSUME NEW c \in Call, NEW from \in {"received", "revoked"}, NEW o \in Token, Issues(c, from, o)
      PROVE FlightsAreCalls'
  <2>1. SameAim(c) /\ Others(c) /\ call'[c].pc = "issued"
    BY <1>5, IssueChanges
  <2> QED
    BY <1>3, <1>5, <2>1 DEF Issues, Insert
<1>6. ASSUME NEW c \in Call, Returns(c) PROVE FlightsAreCalls'
  <2>1. /\ call'[c].pc = "free" \/ call'[c].tab = NoTab
        /\ \A d \in Call : d # c => call'[d] = call[d]
    BY <1>6, ReturnChanges DEF Free
  <2>2. /\ \A b \in Tab : flight'[b] = IF flight[b] = c THEN NoCall ELSE flight[b]
        /\ \A p \in Page : page'[p].pc = "waiting" => page'[p] = page[p] /\ page[p].call # c
    BY <1>6 DEF Returns
  <2> QED
    BY <1>0, <2>1, <2>2
<1>7. ASSUME NEW t \in Token, EndsToken(t) PROVE FlightsAreCalls'
  BY <1>0, <1>7 DEF EndsToken
<1> QED
  BY <1>1, <1>2, <1>4, <1>5, <1>6, <1>7 DEF Moves

LEMMA OrderStep == AuthOrder /\ [Next]_vars => AuthOrder'
<1> SUFFICES ASSUME AuthOrder, [Next]_vars PROVE AuthOrder'
  OBVIOUS
<1>1. TypeOK'
  BY TypesStep DEF AuthOrder
<1>2. CASE UNCHANGED vars
  BY <1>1, <1>2 DEF AuthOrder, CallsInOrder, TokensInOrder, FlightsAreCalls, InProgress,
                    vars, server, client
<1>3. CASE Next
  BY <1>1, <1>3, EveryStepMoves, CallsStep, TokensStep, FlightsStep DEF AuthOrder
<1> QED
  BY <1>2, <1>3

\* A token stays in one store.
LEMMA StoresStep == AuthInv /\ Moves => OneStoreEach'
<1> SUFFICES ASSUME AuthInv, Moves PROVE OneStoreEach'
  OBVIOUS
<1>0. /\ AuthOrder /\ CallsInOrder /\ OneStoreEach /\ NewsAreFresh
      /\ call \in [Call -> CallState] /\ stored \in [Store -> 0 .. MaxToken]
  BY DEF AuthInv, AuthOrder, TypeOK
<1> USE ClientAssumption, BoundAssumption DEF OneStoreEach, Others, SameAim, NoToken
<1>1. ASSUME UNCHANGED stored,
             \A d \in Call : call'[d].tab # NoTab =>
               call'[d].tok = call[d].tok /\ call'[d].tab = call[d].tab
      PROVE OneStoreEach'
  BY <1>0, <1>1
<1>2. CASE Looks
  BY <1>1, <1>2 DEF Looks
<1>3. ASSUME NEW c \in Call, NEW kind \in {"refresh", "login", "logout"}, NEW b \in Tab, Asks(c, kind, b)
      PROVE OneStoreEach'
  <2>1. /\ call'[c].tab = b /\ call'[c].tok = stored[StoreOf[b]]
        /\ \A d \in Call : d # c => call'[d] = call[d]
    BY <1>0, <1>3, AskChanges
  <2>2. StoreOf[b] \in Store
    OBVIOUS
  <2>3. stored' = stored
    BY <1>3 DEF Asks
  <2> QED
    BY <1>0, <2>1, <2>2, <2>3
<1>4. ASSUME NEW c \in Call, Goes(c, "refused") \/ Goes(c, "counted") \/ Check(c) \/ Revoke(c)
      PROVE OneStoreEach'
  <2>1. SameAim(c) /\ Others(c)
    BY <1>0, <1>4, PcChanges
  <2>2. stored' = stored
    BY <1>4 DEF Goes, Check, Revoke, client
  <2> QED
    BY <1>1, <2>1, <2>2
<1>5. ASSUME NEW c \in Call, NEW from \in {"received", "revoked"}, NEW o \in Token, Issues(c, from, o)
      PROVE OneStoreEach'
  <2>1. SameAim(c) /\ Others(c)
    BY <1>0, <1>5, IssueChanges
  <2>2. stored' = stored
    BY <1>5 DEF Issues
  <2> QED
    BY <1>1, <2>1, <2>2
<1>6. ASSUME NEW c \in Call, Returns(c) PROVE OneStoreEach'
  <2>1. /\ \A d \in Call : d # c => call'[d] = call[d]
        /\ call'[c].tab = NoTab
    BY <1>0, <1>6, ReturnChanges DEF Free
  <2>2. \A s \in Store :
          \/ stored'[s] = stored[s] \/ stored'[s] = 0
          \/ s = StoreOf[call[c].tab] /\ stored'[s] = call[c].new /\ call[c].pc = "issued"
    BY <1>0, <1>6, ReturnChanges
  <2>3. call[c].pc = "issued" =>
          /\ \A s \in Store : stored[s] # call[c].new
          /\ \A d \in Call : call[d].tok # call[c].new
    BY <1>0 DEF NewsAreFresh
  <2>4. \A s, z \in Store : stored'[s] # 0 /\ stored'[s] = stored'[z] => s = z
    BY <1>0, <2>2, <2>3
  <2>5. \A d \in Call, s \in Store :
          call'[d].tok # 0 /\ call'[d].tab # NoTab /\ call'[d].tok = stored'[s] =>
            StoreOf[call'[d].tab] = s
    BY <1>0, <2>1, <2>2, <2>3
  <2> QED
    BY <2>4, <2>5
<1>7. ASSUME NEW t \in Token, EndsToken(t) PROVE OneStoreEach'
  BY <1>1, <1>7 DEF EndsToken
<1> QED
  BY <1>2, <1>3, <1>4, <1>5, <1>6, <1>7 DEF Moves

\* A token in its answer stays there alone.
LEMMA NewsStep == AuthInv /\ Moves => NewsAreFresh'
<1> SUFFICES ASSUME AuthInv, Moves PROVE NewsAreFresh'
  OBVIOUS
<1>0. /\ AuthOrder /\ CallsInOrder /\ TokensInOrder /\ NewsAreFresh
      /\ call \in [Call -> CallState] /\ stored \in [Store -> 0 .. MaxToken]
      /\ last \in 1 .. MaxToken /\ row \in [Token -> UserSession]
  BY DEF AuthInv, AuthOrder, TypeOK
<1> USE ClientAssumption, BoundAssumption DEF NewsAreFresh, Others, SameAim
<1>a. \A d \in Call : /\ call[d].tok \in 0 .. last
                      /\ call[d].pc = "issued" => call[d].new \in 1 .. last
  BY <1>0 DEF CallsInOrder, Free, NoToken, CallState
<1>1. ASSUME UNCHANGED stored, ended \subseteq ended',
             \A d \in Call : call'[d].pc = "issued" => call[d].pc = "issued" /\ call'[d].new = call[d].new,
             \A d \in Call : call'[d].tok = call[d].tok \/ call'[d].tok = 0
                             \/ \E s \in Store : call'[d].tok = stored[s],
             \A t \in Token : row'[t] = row[t] \/ t \in ended' \/ \E d \in Call : call[d].tok = t
      PROVE NewsAreFresh'
  <2>1. SUFFICES ASSUME NEW c \in Call, call'[c].pc = "issued"
                 PROVE  /\ \A s \in Store : stored'[s] # call'[c].new
                        /\ \A d \in Call : call'[d].tok # call'[c].new
                        /\ \A d \in Call : call'[d].pc = "issued" /\ call'[d].new = call'[c].new => d = c
                        /\ row'[call'[c].new] = "live" \/ call'[c].new \in ended'
    OBVIOUS
  <2>2. call[c].pc = "issued" /\ call'[c].new = call[c].new /\ call[c].new \in 1 .. last /\ call[c].new \in Token
    BY <1>0, <1>a, <1>1, <2>1 DEF Token
  <2> QED
    BY <1>0, <1>1, <2>2
<1>2. CASE Looks
  BY <1>1, <1>2 DEF Looks, history
<1>3. ASSUME NEW c \in Call, NEW kind \in {"refresh", "login", "logout"}, NEW b \in Tab, Asks(c, kind, b)
      PROVE NewsAreFresh'
  <2>1. /\ call'[c].pc = "received" /\ call'[c].tok = stored[StoreOf[b]] /\ StoreOf[b] \in Store
        /\ \A d \in Call : d # c => call'[d] = call[d]
    BY <1>0, <1>3, AskChanges
  <2>2. UNCHANGED <<stored, ended, row>>
    BY <1>3 DEF Asks, history
  <2> QED
    BY <1>1, <2>1, <2>2
<1>4. ASSUME NEW c \in Call, Goes(c, "refused") \/ Goes(c, "counted") \/ Check(c) PROVE NewsAreFresh'
  <2>1. SameAim(c) /\ Others(c) /\ call'[c].pc # "issued"
    BY <1>0, <1>4, PcChanges DEF Holding
  <2>2. UNCHANGED <<stored, ended, row>>
    BY <1>4 DEF Goes, Check, client, server
  <2> QED
    BY <1>1, <2>1, <2>2
<1>5. ASSUME NEW c \in Call, Revoke(c) PROVE NewsAreFresh'
  <2>1. SameAim(c) /\ Others(c) /\ call'[c].pc # "issued"
    BY <1>0, <1>5, PcChanges
  <2>2. stored' = stored /\ ended \subseteq ended' /\ row' = [row EXCEPT ![call[c].tok] = "dead"]
    BY <1>5 DEF Revoke, client
  <2>3. \A t \in Token : row'[t] = row[t] \/ \E d \in Call : call[d].tok = t
    BY <1>0, <2>2
  <2> QED
    BY <1>1, <2>1, <2>2, <2>3
<1>6. ASSUME NEW c \in Call, NEW from \in {"received", "revoked"}, NEW o \in Token, Issues(c, from, o)
      PROVE NewsAreFresh'
  <2>1. /\ call'[c].pc = "issued" /\ call'[c].new = last + 1 /\ call'[c].tok = call[c].tok
        /\ \A d \in Call : d # c => call'[d] = call[d]
        /\ \A t \in Token : row'[t] = IF t = last + 1 THEN "live" ELSE row[t]
        /\ last + 1 \in Token
    BY <1>0, <1>6, IssueChanges
  <2>2. stored' = stored /\ ended' = ended
    BY <1>6 DEF Issues, history
  <2>3. \A s \in Store : stored[s] # last + 1
    BY <1>0 DEF TokensInOrder
  <2>4. \A d \in Call : call'[d].tok # last + 1
    BY <1>0, <1>a, <2>1
  <2>5. \A d \in Call : call[d].pc = "issued" => call[d].new # last + 1 /\ call[d].new \in Token
    BY <1>0, <1>a DEF Token
  <2>6. ASSUME NEW d \in Call, call'[d].pc = "issued"
        PROVE  /\ \A s \in Store : stored'[s] # call'[d].new
               /\ \A x \in Call : call'[x].tok # call'[d].new
               /\ \A x \in Call : call'[x].pc = "issued" /\ call'[x].new = call'[d].new => x = d
               /\ row'[call'[d].new] = "live" \/ call'[d].new \in ended'
    <3>1. CASE d = c
      BY <2>1, <2>2, <2>3, <2>4, <2>5, <3>1
    <3>2. CASE d # c
      BY <1>0, <2>1, <2>2, <2>5, <2>6, <3>2
    <3> QED
      BY <3>1, <3>2
  <2> QED
    BY <2>6
<1>7. ASSUME NEW c \in Call, Returns(c) PROVE NewsAreFresh'
  <2>1. /\ \A d \in Call : d # c => call'[d] = call[d]
        /\ call'[c].pc # "issued" /\ (call'[c].tok = call[c].tok \/ call'[c].tok = 0)
    BY <1>0, <1>7, ReturnChanges DEF Free, NoToken
  <2>2. \A s \in Store : stored'[s] = stored[s] \/ stored'[s] = 0
          \/ (stored'[s] = call[c].new /\ call[c].pc = "issued")
    BY <1>0, <1>7, ReturnChanges DEF NoToken
  <2>3. row' = row /\ ended' = ended
    BY <1>7 DEF Returns
  <2>4. ASSUME NEW d \in Call, call'[d].pc = "issued"
        PROVE  /\ \A s \in Store : stored'[s] # call'[d].new
               /\ \A x \in Call : call'[x].tok # call'[d].new
               /\ \A x \in Call : call'[x].pc = "issued" /\ call'[x].new = call'[d].new => x = d
               /\ row'[call'[d].new] = "live" \/ call'[d].new \in ended'
    <3>1. d # c /\ call'[d] = call[d] /\ call[d].new \in 1 .. last
      BY <1>a, <2>1, <2>4
    <3> QED
      BY <1>0, <2>1, <2>2, <2>3, <2>4, <3>1
  <2> QED
    BY <2>4
<1>8. ASSUME NEW t \in Token, EndsToken(t) PROVE NewsAreFresh'
  <2>1. row' = [row EXCEPT ![t] = "dead"] /\ ended' = ended \cup {t} /\ UNCHANGED <<stored, call>>
    BY <1>8 DEF EndsToken
  <2> QED
    BY <1>0, <1>1, <2>1
<1> QED
  BY <1>2, <1>3, <1>4, <1>5, <1>6, <1>7, <1>8 DEF Moves

\* A token is claimed only by calls that hold it, and only once it is issued.
LEMMA ClaimedTokens ==
  ASSUME AuthOrder
  PROVE  /\ \A c \in Call : Claims(c) => call[c].tok \in 1 .. last /\ call[c].tok \in Token
         /\ \A t \in Token : Claimed(t) => t <= last /\ origin[t] \in 1 .. t
<1>0. /\ CallsInOrder /\ TokensInOrder /\ last \in 1 .. MaxToken
  BY DEF AuthOrder, TypeOK
<1>1. ASSUME NEW c \in Call, Claims(c) PROVE call[c].tok \in 1 .. last /\ call[c].tok \in Token
  <2>1. call[c].tok \in 1 .. last
    BY <1>0, <1>1 DEF Claims, Holding, CallsInOrder
  <2> QED
    BY <1>0, <2>1, BoundAssumption DEF Token
<1>2. ASSUME NEW t \in Token, Claimed(t) PROVE t <= last
  <2>1. CASE row[t] = "live"
    BY <1>0, <2>1, BoundAssumption DEF TokensInOrder, Token
  <2>2. ASSUME NEW c \in Call, Claims(c), call[c].tok = t PROVE t <= last
    BY <1>0, <1>1, <2>2
  <2> QED
    BY <1>2, <2>1, <2>2 DEF Claimed
<1> QED
  BY <1>0, <1>1, <1>2 DEF TokensInOrder

\* Fewer claims leave at most one heir.
LEMMA FewerClaims ==
  ASSUME AuthOrder, OneHeir, forked \subseteq forked', UNCHANGED origin,
         \A d \in Call : Claims(d)' => Claims(d) /\ call'[d].tok = call[d].tok,
         \A t \in Token : row'[t] = "live" => row[t] = "live",
         \A d \in Call : call'[d].pc = "revoked" => row'[call'[d].tok] = "dead"
  PROVE  OneHeir'
<1>1. \A t \in Token : Claimed(t)' => Claimed(t)
  BY DEF Claimed
<1>2. \A t, u \in Token :
        Claimed(t)' /\ Claimed(u)' /\ origin'[t] = origin'[u] /\ origin'[t] \notin forked' => t = u
  BY <1>1 DEF OneHeir
<1>3. \A c, d \in Call :
        /\ Claims(c)' /\ Claims(d)'
        /\ call'[c].tok = call'[d].tok /\ origin'[call'[c].tok] \notin forked'
        => c = d
  BY DEF OneHeir
<1> QED
  BY <1>2, <1>3 DEF OneHeir

\* A check makes a claim on a live token: the second claim is the fork.
LEMMA CheckHeir ==
  ASSUME AuthOrder, OneHeir, NEW c \in Call, Check(c)
  PROVE  OneHeir'
<1> DEFINE t == call[c].tok
<1>0. CallsInOrder /\ TokensInOrder /\ call \in [Call -> CallState]
  BY DEF AuthOrder, TypeOK
<1>1. /\ SameAim(c) /\ \A d \in Call : d # c => call'[d] = call[d]
      /\ call'[c].pc \in Holding /\ call[c].pc = "received"
      /\ UNCHANGED <<row, origin>> /\ row[t] = "live"
  BY PcChanges DEF Check, server, Others
<1>2. t \in Token
  BY <1>0, <1>1, BoundAssumption DEF Check, CallsInOrder, AuthOrder, TypeOK, Token
<1>3. forked \subseteq forked'
  BY DEF Check
<1>4. call[c].kind = "refresh" /\ (\E d \in Call : Claims(d) /\ call[d].tok = t) => origin[t] \in forked'
  <2>1. SUFFICES ASSUME call[c].kind = "refresh", NEW d \in Call, Claims(d), call[d].tok = t
                 PROVE  origin[t] \in forked'
    OBVIOUS
  <2>2. call[d].pc # "revoked"
    BY <1>1, <2>1 DEF OneHeir
  <2>3. call[d].kind = "refresh" /\ call[d].pc \in Holding
    BY <2>1, <2>2 DEF Claims
  <2>4. forked' = forked \cup {origin[t]}
    BY <2>1, <2>3 DEF Check
  <2> QED
    BY <2>4
<1> HIDE DEF t
<1>5. \A d \in Call : Claims(d)' => call'[d].tok = call[d].tok /\ (Claims(d) \/ (d = c /\ call[c].kind = "refresh"))
  BY <1>1 DEF Claims, SameAim
<1>6. call[c].tok = t
  BY DEF t
<1>7. \A u \in Token : Claimed(u)' => Claimed(u)
  BY <1>1, <1>5, <1>6 DEF Claimed
<1>8. \A u, v \in Token :
        Claimed(u)' /\ Claimed(v)' /\ origin'[u] = origin'[v] /\ origin'[u] \notin forked' => u = v
  BY <1>1, <1>3, <1>7 DEF OneHeir
<1>9. \A x, d \in Call :
        /\ Claims(x)' /\ Claims(d)'
        /\ call'[x].tok = call'[d].tok /\ origin'[call'[x].tok] \notin forked'
        => x = d
  BY <1>1, <1>3, <1>4, <1>5, <1>6 DEF OneHeir
<1>10. \A d \in Call : call'[d].pc = "revoked" => row'[call'[d].tok] = "dead"
  BY <1>1 DEF OneHeir, Holding
<1> QED
  BY <1>8, <1>9, <1>10 DEF OneHeir

\* A revocation keeps the claim of its handler and kills the token.
LEMMA RevokeHeir ==
  ASSUME AuthOrder, OneHeir, NEW c \in Call, Revoke(c)
  PROVE  OneHeir'
<1>0. /\ CallsInOrder /\ row \in [Token -> UserSession] /\ call \in [Call -> CallState]
  BY DEF AuthOrder, TypeOK
<1>1. /\ SameAim(c) /\ \A d \in Call : d # c => call'[d] = call[d]
      /\ call'[c].pc = (IF call[c].kind = "refresh" THEN "revoked" ELSE "done")
  BY PcChanges DEF Others
<1>2. /\ call[c].pc = "counted" /\ row' = [row EXCEPT ![call[c].tok] = "dead"]
      /\ UNCHANGED <<origin, forked>>
  BY DEF Revoke, Step
<1>3. call[c].tok \in Token
  BY <1>0, <1>2, BoundAssumption DEF CallsInOrder, AuthOrder, TypeOK, Token
<1>4. \A d \in Call : Claims(d)' => Claims(d) /\ call'[d].tok = call[d].tok
  BY <1>1, <1>2 DEF Claims, SameAim, Holding
<1>5. \A t \in Token : row'[t] = "live" => row[t] = "live"
  BY <1>0, <1>2
<1>6. ASSUME NEW d \in Call, call'[d].pc = "revoked" PROVE row'[call'[d].tok] = "dead"
  <2>1. CASE d = c
    BY <1>0, <1>1, <1>2, <1>3, <2>1 DEF SameAim
  <2>2. CASE d # c
    <3>1. call[d].tok \in Token /\ row[call[d].tok] = "dead"
      BY <1>1, <1>6, <2>2, ClaimedTokens, <1>0 DEF OneHeir, Claims, CallsInOrder
    <3> QED
      BY <1>0, <1>1, <1>2, <2>2, <3>1
  <2> QED
    BY <2>1, <2>2
<1> QED
  BY <1>2, <1>4, <1>5, <1>6, FewerClaims

\* The token a refresh issues takes the place of its handler.
LEMMA IssueHeir ==
  ASSUME AuthOrder, OneHeir, NEW c \in Call, NEW from \in {"received", "revoked"}, NEW o \in Token,
         Issues(c, from, o)
  PROVE  OneHeir'
<1> DEFINE n == last + 1
<1>0. /\ CallsInOrder /\ TokensInOrder /\ row \in [Token -> UserSession] /\ call \in [Call -> CallState]
      /\ last \in 1 .. MaxToken
  BY DEF AuthOrder, TypeOK
<1>1. /\ call'[c].pc = "issued" /\ \A d \in Call : d # c => call'[d] = call[d]
      /\ n \in Token
      /\ \A t \in Token : row'[t] = IF t = n THEN "live" ELSE row[t]
      /\ \A t \in Token : origin'[t] = IF t = n THEN o ELSE origin[t]
  BY IssueChanges DEF Others
<1>2. forked' = forked /\ call[c].pc = from
  BY DEF Issues, Insert, history
<1>3. \A d \in Call : Claims(d)' => d # c /\ Claims(d) /\ call'[d].tok = call[d].tok
  BY <1>1 DEF Claims, Holding
<1>4. \A d \in Call : Claims(d) => call[d].tok \in Token /\ call[d].tok # n
  BY <1>0, ClaimedTokens
<1>5. \A t \in Token : Claimed(t)' => t = n \/ Claimed(t)
  BY <1>1, <1>3 DEF Claimed
<1>6. \A t \in Token : Claimed(t) => t # n /\ origin[t] \in 1 .. t /\ t <= last
  BY <1>0, ClaimedTokens
<1>7. ASSUME NEW t \in Token, Claimed(t)', t # n, origin[t] \notin forked PROVE origin[t] # o
  <2>1. Claimed(t) /\ origin[t] \in 1 .. t /\ t <= last
    BY <1>5, <1>6, <1>7
  <2>2. CASE o = last + 1
    BY <1>0, <2>1, <2>2, BoundAssumption
  <2>3. CASE call[c].kind = "refresh" /\ from = "revoked" /\ o = origin[call[c].tok]
    <3>1. Claims(c) /\ row[call[c].tok] = "dead" /\ call[c].tok \in Token
      BY <1>2, <2>3, ClaimedTokens DEF Claims, OneHeir
    <3>2. ASSUME origin[t] = o PROVE FALSE
      <4>1. Claimed(call[c].tok)
        BY <3>1 DEF Claimed
      <4>2. t = call[c].tok
        BY <1>7, <2>1, <2>3, <3>1, <3>2, <4>1 DEF OneHeir
      <4>3. row'[t] # "live"
        BY <1>1, <1>7, <3>1, <4>2
      <4>4. PICK d \in Call : Claims(d)' /\ call'[d].tok = t
        BY <1>7, <4>3 DEF Claimed
      <4>5. d # c /\ Claims(d) /\ call[d].tok = call[c].tok
        BY <1>3, <4>2, <4>4
      <4> QED
        BY <1>7, <2>3, <3>1, <3>2, <4>5 DEF OneHeir
    <3> QED
      BY <3>2
  <2> QED
    BY <2>2, <2>3 DEF Issues
<1> HIDE DEF n
<1>8. \A t, u \in Token :
        Claimed(t)' /\ Claimed(u)' /\ origin'[t] = origin'[u] /\ origin'[t] \notin forked' => t = u
  <2>1. SUFFICES ASSUME NEW t \in Token, NEW u \in Token, Claimed(t)', Claimed(u)',
                        origin'[t] = origin'[u], origin'[t] \notin forked'
                 PROVE  t = u
    OBVIOUS
  <2>2. CASE t = n /\ u # n
    BY <1>1, <1>2, <1>7, <2>1, <2>2
  <2>3. CASE t # n /\ u = n
    BY <1>1, <1>2, <1>7, <2>1, <2>3
  <2>4. CASE t # n /\ u # n
    BY <1>1, <1>2, <1>5, <2>1, <2>4 DEF OneHeir
  <2> QED
    BY <2>2, <2>3, <2>4
<1>9. \A x, d \in Call :
        /\ Claims(x)' /\ Claims(d)'
        /\ call'[x].tok = call'[d].tok /\ origin'[call'[x].tok] \notin forked'
        => x = d
  BY <1>1, <1>2, <1>3, <1>4 DEF OneHeir
<1>10. ASSUME NEW d \in Call, call'[d].pc = "revoked" PROVE row'[call'[d].tok] = "dead"
  <2>1. call'[d] = call[d]
    BY <1>1, <1>10
  <2>2. Claims(d)
    BY <1>0, <1>10, <2>1 DEF Claims, CallsInOrder
  <2> QED
    BY <1>1, <1>4, <1>10, <2>1, <2>2 DEF OneHeir
<1> QED
  BY <1>8, <1>9, <1>10 DEF OneHeir

LEMMA HeirStep == AuthInv /\ Moves => OneHeir'
<1> SUFFICES ASSUME AuthInv, Moves PROVE OneHeir'
  OBVIOUS
<1>0. AuthOrder /\ OneHeir /\ CallsInOrder /\ call \in [Call -> CallState] /\ row \in [Token -> UserSession]
  BY DEF AuthInv, AuthOrder, TypeOK
<1>1. CASE Looks
  BY <1>0, <1>1, FewerClaims DEF Looks, history, Claims, OneHeir
<1>2. ASSUME NEW c \in Call, NEW kind \in {"refresh", "login", "logout"}, NEW b \in Tab, Asks(c, kind, b)
      PROVE OneHeir'
  <2>1. call'[c].pc = "received" /\ \A d \in Call : d # c => call'[d] = call[d]
    BY <1>0, <1>2, AskChanges DEF Others
  <2>2. UNCHANGED <<row, origin, forked>>
    BY <1>2 DEF Asks, history
  <2>3. \A d \in Call : Claims(d)' => Claims(d) /\ call'[d].tok = call[d].tok
    BY <2>1 DEF Claims, Holding
  <2>4. \A d \in Call : call'[d].pc = "revoked" => row'[call'[d].tok] = "dead"
    BY <1>0, <2>1, <2>2 DEF OneHeir
  <2> QED
    BY <1>0, <2>2, <2>3, <2>4, FewerClaims
<1>3. ASSUME NEW c \in Call, Goes(c, "refused") \/ Goes(c, "counted") PROVE OneHeir'
  <2>1. /\ SameAim(c) /\ \A d \in Call : d # c => call'[d] = call[d]
        /\ call'[c].pc = "refused" \/ (call'[c].pc = "counted" /\ call[c].pc = "checked")
    BY <1>0, <1>3, PcChanges DEF Others, Goes
  <2>2. UNCHANGED <<row, origin, forked>>
    BY <1>3 DEF Goes
  <2>3. \A d \in Call : Claims(d)' => Claims(d) /\ call'[d].tok = call[d].tok
    BY <2>1 DEF Claims, Holding, SameAim
  <2>4. \A d \in Call : call'[d].pc = "revoked" => row'[call'[d].tok] = "dead"
    BY <1>0, <2>1, <2>2 DEF OneHeir
  <2> QED
    BY <1>0, <2>2, <2>3, <2>4, FewerClaims
<1>4. ASSUME NEW c \in Call, Returns(c) PROVE OneHeir'
  <2>1. /\ \A d \in Call : d # c => call'[d] = call[d]
        /\ \/ call'[c] = Free
           \/ /\ call'[c].pc = call[c].pc /\ call'[c].kind = call[c].kind
              /\ call'[c].tok = call[c].tok
    BY <1>0, <1>4, ReturnChanges DEF Others
  <2>2. UNCHANGED <<row, origin, forked>>
    BY <1>4 DEF Returns
  <2>3. \A d \in Call : Claims(d)' => Claims(d) /\ call'[d].tok = call[d].tok
    BY <2>1 DEF Claims, Holding, Free
  <2>4. \A d \in Call : call'[d].pc = "revoked" => row'[call'[d].tok] = "dead"
    BY <1>0, <2>1, <2>2 DEF OneHeir, Free
  <2> QED
    BY <1>0, <2>2, <2>3, <2>4, FewerClaims
<1>5. ASSUME NEW t \in Token, EndsToken(t) PROVE OneHeir'
  <2>1. row' = [row EXCEPT ![t] = "dead"] /\ UNCHANGED <<origin, forked, call>>
    BY <1>5 DEF EndsToken
  <2>2. \A d \in Call : Claims(d)' => Claims(d) /\ call'[d].tok = call[d].tok
    BY <2>1 DEF Claims
  <2>3. \A d \in Call : call'[d].pc = "revoked" => row'[call'[d].tok] = "dead"
    BY <1>0, <2>1 DEF OneHeir
  <2>4. \A u \in Token : row'[u] = "live" => row[u] = "live"
    BY <1>0, <2>1
  <2> QED
    BY <1>0, <2>1, <2>2, <2>3, <2>4, FewerClaims
<1> QED
  BY <1>0, <1>1, <1>2, <1>3, <1>4, <1>5, CheckHeir, RevokeHeir, IssueHeir DEF Moves

\* The token of one store, as StoredTokenUsable has it.
Usable(s) ==
  stored[s] # NoToken /\ row[stored[s]] # "live" =>
    \/ stored[s] \in ended \cup stranded
    \/ \E c \in Call : /\ call[c].kind = "refresh" /\ call[c].tok = stored[s]
                       /\ call[c].pc \in {"revoked", "issued"}
                       /\ call[c].tab # NoTab /\ StoreOf[call[c].tab] = s

\* A stored token that dies has been ended or is being rotated.
LEMMA UsableStep == AuthInv /\ Moves => StoredTokenUsable'
<1> SUFFICES ASSUME AuthInv, Moves, NEW s \in Store PROVE Usable(s)'
  BY DEF StoredTokenUsable, BeingRotated, Usable
<1>0. /\ AuthOrder /\ CallsInOrder /\ TokensInOrder /\ OneStoreEach /\ NewsAreFresh /\ StoredTokenUsable
      /\ call \in [Call -> CallState] /\ stored \in [Store -> 0 .. MaxToken]
      /\ last \in 1 .. MaxToken /\ row \in [Token -> UserSession]
  BY DEF AuthInv, AuthOrder, TypeOK
<1> USE ClientAssumption, BoundAssumption DEF Others, SameAim, NoToken
<1> DEFINE Kept == ended \subseteq ended' /\ stranded \subseteq stranded'
<1>1. stored[s] \in 0 .. last /\ (stored[s] # 0 => stored[s] \in Token)
  BY <1>0 DEF TokensInOrder, Token
<1>2. Usable(s)
  BY <1>0 DEF StoredTokenUsable, BeingRotated, Usable
<1>3. ASSUME Kept, stored'[s] = stored[s], stored[s] # NoToken => row'[stored[s]] = row[stored[s]],
             \A d \in Call : call[d].kind = "refresh" /\ call[d].tok = stored[s]
                             /\ call[d].pc \in {"revoked", "issued"} /\ call[d].tab # NoTab =>
               \/ call'[d].kind = "refresh" /\ call'[d].tok = call[d].tok /\ call'[d].tab = call[d].tab
                  /\ call'[d].pc \in {"revoked", "issued"}
               \/ call[d].tok \in stranded'
      PROVE Usable(s)'
  <2>1. CASE stored'[s] = NoToken \/ row'[stored'[s]] = "live" \/ stored[s] \in ended \cup stranded
    BY <1>3, <2>1 DEF Usable
  <2>2. ASSUME NEW d \in Call,
               call[d].kind = "refresh", call[d].tok = stored[s], call[d].pc \in {"revoked", "issued"},
               call[d].tab # NoTab, StoreOf[call[d].tab] = s
        PROVE  Usable(s)'
    BY <1>3, <2>2 DEF Usable
  <2> QED
    BY <1>2, <1>3, <2>1, <2>2 DEF Usable
<1> HIDE DEF Kept
<1>4. CASE Looks
  BY <1>3, <1>4 DEF Looks, history, Kept
<1>5. ASSUME NEW c \in Call, NEW kind \in {"refresh", "login", "logout"}, NEW b \in Tab, Asks(c, kind, b)
      PROVE Usable(s)'
  <2>1. /\ \A d \in Call : d # c => call'[d] = call[d]
        /\ call[c].pc = "free" /\ UNCHANGED <<row, stored>> /\ Kept
    BY <1>0, <1>5, AskChanges DEF Asks, history, Kept
  <2> QED
    BY <1>3, <2>1
<1>6. ASSUME NEW c \in Call, Goes(c, "refused") \/ Goes(c, "counted") \/ Check(c)
      PROVE Usable(s)'
  <2>1. \A d \in Call : d # c => call'[d] = call[d]
    BY <1>0, <1>6, PcChanges
  <2>2. UNCHANGED <<row, stored>> /\ Kept
    BY <1>6 DEF Goes, Check, server, client, Kept
  <2>3. call[c].pc \notin {"revoked", "issued"} \/ call[c].tok \in stranded'
    BY <1>6 DEF Goes, Check
  <2> QED
    BY <1>3, <2>1, <2>2, <2>3
<1>7. ASSUME NEW c \in Call, Revoke(c)
      PROVE Usable(s)'
  <2>1. /\ \A d \in Call : d # c => call'[d] = call[d]
        /\ call'[c].kind = call[c].kind /\ call'[c].tok = call[c].tok /\ call'[c].tab = call[c].tab
        /\ call[c].kind = "refresh" => call'[c].pc = "revoked"
    BY <1>0, <1>7, PcChanges
  <2>2. /\ stored' = stored /\ Kept /\ call[c].pc = "counted"
        /\ row' = [row EXCEPT ![call[c].tok] = "dead"]
    BY <1>7 DEF Revoke, Step, client, Kept
  <2>3. CASE call[c].tok # stored[s]
    <3>1. row'[stored[s]] = row[stored[s]]
      BY <1>0, <1>1, <2>2, <2>3
    <3> QED
      BY <1>3, <2>1, <2>2, <2>3, <3>1
  <2>4. CASE call[c].tok = stored[s]
    <3>1. CASE call[c].kind = "logout"
      BY <1>7, <2>2, <2>4, <3>1 DEF Revoke, Usable
    <3>2. CASE call[c].kind = "refresh" /\ call[c].tab = NoTab
      BY <1>7, <2>2, <2>4, <3>2 DEF Revoke, Usable
    <3>3. CASE call[c].kind = "refresh" /\ call[c].tab # NoTab
      <4>0. call[c].tok # NoToken
        BY <1>0, <2>2, <3>3 DEF CallsInOrder
      <4>1. StoreOf[call[c].tab] = s
        BY <1>0, <2>4, <3>3, <4>0 DEF OneStoreEach
      <4> QED
        BY <2>1, <2>2, <2>4, <3>3, <4>1 DEF Usable
    <3> QED
      BY <1>0, <2>2, <3>1, <3>2, <3>3 DEF CallsInOrder, CallState
  <2> QED
    BY <2>3, <2>4
<1>8. ASSUME NEW c \in Call, NEW from \in {"received", "revoked"}, NEW o \in Token, Issues(c, from, o)
      PROVE Usable(s)'
  <2>1. /\ \A d \in Call : d # c => call'[d] = call[d]
        /\ call'[c].kind = call[c].kind /\ call'[c].tok = call[c].tok /\ call'[c].tab = call[c].tab
        /\ call'[c].pc = "issued"
        /\ \A t \in Token : row'[t] = IF t = last + 1 THEN "live" ELSE row[t]
    BY <1>0, <1>8, IssueChanges
  <2>2. stored' = stored /\ Kept
    BY <1>8 DEF Issues, history, Kept
  <2>3. stored[s] # NoToken => row'[stored[s]] = row[stored[s]]
    BY <1>0, <1>1, <2>1, <2>2
  <2> QED
    BY <1>3, <2>1, <2>2, <2>3
<1>9. ASSUME NEW c \in Call, Returns(c)
      PROVE Usable(s)'
  <2>1. /\ \A d \in Call : d # c => call'[d] = call[d]
        /\ \/ stored'[s] = stored[s]
           \/ stored'[s] = NoToken
           \/ stored'[s] = call[c].new /\ call[c].pc = "issued"
    BY <1>0, <1>9, ReturnChanges
  <2>2. Kept /\ row' = row /\ ended' = ended
    BY <1>9 DEF Returns, Kept
  <2>3. CASE stored'[s] = call[c].new /\ call[c].pc = "issued"
    BY <1>0, <2>2, <2>3 DEF NewsAreFresh, Usable
  <2>4. CASE stored'[s] = stored[s]
    <3>1. ASSUME call[c].kind = "refresh", call[c].tok = stored[s],
                 call[c].pc \in {"revoked", "issued"}, call[c].tab # NoTab
          PROVE  call[c].tok \in stranded'
      <4>0. call[c].tok # NoToken
        BY <1>0, <3>1 DEF CallsInOrder
      <4>1. StoreOf[call[c].tab] = s
        BY <1>0, <3>1, <4>0 DEF OneStoreEach
      <4>2. CASE call[c].pc = "issued" /\ stored'[s] = call[c].new
        BY <1>0, <2>4, <4>2 DEF NewsAreFresh
      <4> QED
        BY <1>9, <3>1, <4>1, <4>2 DEF Returns
    <3> QED
      BY <1>3, <2>1, <2>2, <2>4, <3>1
  <2>5. CASE stored'[s] = NoToken
    BY <2>5 DEF Usable
  <2> QED
    BY <2>1, <2>3, <2>4, <2>5
<1>10. ASSUME NEW t \in Token, EndsToken(t)
       PROVE Usable(s)'
  <2>1. /\ row' = [row EXCEPT ![t] = "dead"] /\ ended' = ended \cup {t}
        /\ UNCHANGED <<stored, call, stranded>>
    BY <1>10 DEF EndsToken
  <2>2. CASE stored[s] = t
    BY <2>1, <2>2 DEF Usable
  <2>3. CASE stored[s] # t
    BY <1>0, <1>1, <1>3, <2>1, <2>3 DEF Kept
  <2> QED
    BY <2>2, <2>3
<1> QED
  BY <1>4, <1>5, <1>6, <1>7, <1>8, <1>9, <1>10 DEF Moves

-----------------------------------------------------------------------------
(* What holds from the start.                                              *)

LEMMA OrderInit == Init => AuthOrder
<1> SUFFICES ASSUME Init PROVE AuthOrder
  OBVIOUS
<1> USE BoundAssumption, ClientAssumption DEF Init, NoToken
<1>1. Free \in CallState /\ Idle \in PageState
  BY DEF Free, Idle, CallState, CallStep, PageState
<1>2. TypeOK
  <2>1. row \in [Token -> UserSession] /\ origin \in [Token -> 0 .. MaxToken]
    BY DEF UserSession
  <2>2. stored \in [Store -> 0 .. MaxToken]
    OBVIOUS
  <2>3. page \in [Page -> PageState] /\ call \in [Call -> CallState] /\ flight \in [Tab -> Call \cup {NoCall}]
    BY <1>1
  <2> QED
    BY <2>1, <2>2, <2>3 DEF TypeOK
<1>3. CallsInOrder
  BY DEF CallsInOrder, Free
<1>4. TokensInOrder
  BY DEF TokensInOrder, Token
<1>5. FlightsAreCalls
  BY DEF FlightsAreCalls, InProgress, Free, Idle
<1> QED
  BY <1>2, <1>3, <1>4, <1>5 DEF AuthOrder

LEMMA AuthInit == Init => AuthInv
<1> SUFFICES ASSUME Init PROVE AuthInv
  OBVIOUS
<1>1. AuthOrder
  BY OrderInit
<1>2. OneStoreEach
  BY DEF OneStoreEach, Init, Free, NoToken
<1>3. NewsAreFresh
  BY DEF NewsAreFresh, Init, Free
<1>4. OneHeir
  <2>1. \A c \in Call : ~Claims(c) /\ call[c].pc # "revoked"
    BY DEF Claims, Holding, Init, Free
  <2>2. \A t \in Token : Claimed(t) => t = 1
    BY <2>1 DEF Claimed, Init
  <2> QED
    BY <2>1, <2>2 DEF OneHeir
<1>5. StoredTokenUsable
  BY BoundAssumption DEF StoredTokenUsable, Init, NoToken, Token
<1> QED
  BY <1>1, <1>2, <1>3, <1>4, <1>5 DEF AuthInv

LEMMA AuthStep == AuthInv /\ [Next]_vars => AuthInv'
<1> SUFFICES ASSUME AuthInv, [Next]_vars PROVE AuthInv'
  OBVIOUS
<1>1. AuthOrder'
  BY OrderStep DEF AuthInv
<1>2. CASE UNCHANGED vars
  BY <1>1, <1>2 DEF AuthInv, OneStoreEach, NewsAreFresh, OneHeir, Claims, Claimed, StoredTokenUsable,
                    BeingRotated, vars, server, client, history
<1>3. CASE Next
  BY <1>1, <1>3, EveryStepMoves, StoresStep, NewsStep, HeirStep, UsableStep DEF AuthInv
<1> QED
  BY <1>2, <1>3

-----------------------------------------------------------------------------
(* The theorems.                                                           *)

\* Rows, tokens, pages and calls keep their types, for any stores, tabs, pages,
\* calls and bounds.
THEOREM SessionTypes == Spec => []TypeOK
<1>1. AuthOrder => TypeOK
  BY DEF AuthOrder
<1> QED
  BY <1>1, OrderInit, OrderStep, PTL DEF Spec

\* However many pages of a tab meet an expired access token, one request
\* presents the refresh token, and what waits for it waits for a request in
\* progress (refreshInFlight of web/lib/api/client.ts).
THEOREM OneRefreshInFlight == Spec => []RefreshIsShared
<1>1. AuthOrder => RefreshIsShared
  <2>1. SUFFICES ASSUME AuthOrder PROVE OneRefreshPerTab /\ WaitsForSomething
    BY DEF RefreshIsShared
  <2>2. FlightsAreCalls
    BY <2>1 DEF AuthOrder
  <2>3. OneRefreshPerTab
    BY <2>2 DEF FlightsAreCalls, OneRefreshPerTab, InProgress
  <2> QED
    BY <2>2, <2>3 DEF FlightsAreCalls, WaitsForSomething
<1> QED
  BY <1>1, OrderInit, OrderStep, PTL DEF Spec

\* Rotation leaves a login one live session, through lost answers, failures
\* and logouts, unless two handlers held the same token at once (refresh and
\* _get_active_session of modules/auth, which lock nothing).
THEOREM RotationKeepsOneHeir == Spec => []OneLivePerLogin
<1>1. AuthInv => OneLivePerLogin
  BY DEF AuthInv, OneHeir, OneLivePerLogin, Claimed
<1> QED
  BY <1>1, AuthInit, AuthStep, PTL DEF Spec

\* The token a browser or a phone holds is dead only for a reason: the user or
\* time ended it, its own store is about to learn the next one, or the answer
\* that carried the next one was lost.
THEOREM DeadTokensHaveReasons == Spec => []StoredTokenUsable
<1>1. AuthInv => StoredTokenUsable
  BY DEF AuthInv
<1> QED
  BY <1>1, AuthInit, AuthStep, PTL DEF Spec
=============================================================================
