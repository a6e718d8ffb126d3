---------------------------- MODULE ClientSession ----------------------------
(***************************************************************************)
(* The session of one browser: apps/web/src/lib/api.ts, the session part   *)
(* of lib/store.ts, AuthGate and the login page, in several tabs that      *)
(* share one token store (localStorage), over the sessions of the API.     *)
(* The server answers a refresh in one step here; how its statements       *)
(* interleave is the matter of RefreshTokens.  A request or its answer may *)
(* be lost, and a tab may be reloaded at any time.                         *)
(*                                                                         *)
(* A pair is an access token and the refresh token issued with it, named   *)
(* by the order of issuing; a session is named by its first pair.          *)
(***************************************************************************)
EXTENDS Naturals, FiniteSets

CONSTANTS
    Tabs,       \* tabs of the browser
    Own,        \* slots for the calls of a tab's pages
    Users,      \* accounts the user of the browser can log in to
    MaxCalls,   \* bound on the calls under way at once when the user makes one more
    MaxPair,    \* bound on the pairs that the server issues
    MaxLoads    \* bound on the pages loaded anew, over all tabs

ASSUME ConfigAssumption ==
    /\ MaxCalls \in Nat /\ MaxPair \in Nat /\ MaxLoads \in Nat
    /\ "restore" \notin Own
    /\ "nobody" \notin Users /\ "demo" \notin Users

Pair   == 1 .. MaxPair
None   == 0                \* no tokens
Mock   == MaxPair + 1      \* 'mock-access-token', 'mock-refresh-token'
Stored == {None, Mock} \cup Pair

Nobody == "nobody"
Demo   == "demo"           \* an account that only the browser knows

Slots == Own \cup {"restore"}

VARIABLES
    store,      \* tokenStore: localStorage
    tab,        \* per tab: the useAuthStore of its page, and the page
    call,       \* per tab and slot: an apiFetch
    flight,     \* per tab: refreshInFlight
    pair,       \* of the server: per pair, its user, session and state
    issued,     \* of the server: how many pairs there are
    strays,     \* refresh tokens under way whose answer nobody awaits
    loads,      \* page loads so far
    (* History variables *)
    torn,       \* sessions that lost an answer, or were refreshed by two tabs at once
    crossed,    \* tabs whose tokens may since belong to someone else
    over        \* a logout has ended the session of the browser

client  == <<store, tab, call, flight>>
server  == <<pair, issued, strays>>
history == <<torn, crossed, over>>
vars    == <<store, tab, call, flight, pair, issued, strays, loads, torn, crossed, over>>

\* awake: the page's call of restore() is yet to come.
TabState ==
    [status: {"unknown", "authenticated", "anonymous"}, user: Users \cup {Demo, Nobody},
     page: {"login", "dashboard"}, awake: BOOLEAN]

\* as: whose access token the call carries; again: it is the second attempt.
CallState ==
    [at: {"idle", "sent", "waits"}, kind: {"none", "me", "data", "login", "logout"},
     as: Users \cup {Nobody}, again: BOOLEAN]

FlightState == [at: {"none", "sent", "granted", "refused"}, token: Stored, got: 0 .. MaxPair]

PairState == [user: Users \cup {Nobody}, session: 0 .. MaxPair,
              state: {"none", "live", "rotated", "burned"}]

\* Type correctness of the browser and of the server.
TypeOK ==
    /\ store \in Stored
    /\ tab \in [Tabs -> TabState]
    /\ call \in [Tabs -> [Slots -> CallState]]
    /\ flight \in [Tabs -> FlightState]
    /\ pair \in [Pair -> PairState]
    /\ issued \in 0 .. MaxPair
    /\ strays \subseteq Pair
    /\ loads \in 0 .. MaxLoads
    /\ torn \subseteq 0 .. MaxPair /\ crossed \subseteq Tabs /\ over \in BOOLEAN

-----------------------------------------------------------------------------
Idle     == [at |-> "idle", kind |-> "none", as |-> Nobody, again |-> FALSE]
NoFlight == [at |-> "none", token |-> None, got |-> 0]

Session(token) == {pair[p].session : p \in {token} \cap Pair}

\* Mutated: the demo account counts as one of the API's.
OwnerOrDemo(token) == IF token \in Pair THEN pair[token].user ELSE Demo

\* The user that the API knows the bearer of these tokens for.
Owner(token) == IF token \in Pair THEN pair[token].user ELSE Nobody

\* send(): the request carries the access token that is stored at this moment.
Send(kind, u, again) == [at |-> "sent", kind |-> kind, as |-> u, again |-> again]

Flying == {t \in Tabs : flight[t] # NoFlight}

\* issue: a pair for a user, in a session of its own or in the one it continues.
Issue(u, session) ==
    [user |-> u, session |-> session, state |-> "live"]

\* set({ status: 'anonymous', user: null, ... }): AuthGate sends the user to the
\* login page, which calls restore() in its turn.
SignedOut(s) ==
    [s EXCEPT !.status = "anonymous", !.user = Nobody, !.page = "login",
              !.awake = (s.page = "dashboard")]

\* The login page sends an authenticated user to the dashboard, for which AuthGate
\* needs no restore() any more.
SignedIn(s, u) ==
    [s EXCEPT !.status = "authenticated", !.user = u, !.page = "dashboard", !.awake = FALSE]

Init ==
    /\ store = None
    /\ tab \in [Tabs -> [status: {"unknown"}, user: {Nobody}, page: {"login", "dashboard"},
                         awake: {TRUE}]]
    /\ call = [t \in Tabs |-> [s \in Slots |-> Idle]]
    /\ flight = [t \in Tabs |-> NoFlight]
    /\ pair = [p \in Pair |-> [user |-> Nobody, session |-> 0, state |-> "none"]]
    /\ issued = 0 /\ strays = {} /\ loads = 0
    /\ torn = {} /\ crossed = {} /\ over = FALSE

-----------------------------------------------------------------------------
(* Pages *)

\* A page is loaded anew: nothing is left of what the tab held in memory, and
\* whoever awaited an answer is gone.
Load(t, page) ==
    /\ loads < MaxLoads
    /\ loads' = loads + 1
    /\ tab' = [tab EXCEPT ![t] = [status |-> "unknown", user |-> Nobody, page |-> page,
                                  awake |-> TRUE]]
    /\ call' = [call EXCEPT ![t] = [s \in Slots |-> Idle]]
    /\ flight' = [flight EXCEPT ![t] = NoFlight]
    /\ strays' = IF flight[t].at = "sent" THEN strays \cup ({flight[t].token} \cap Pair) ELSE strays
    /\ torn' = torn \cup Session(flight[t].token)
    /\ crossed' = IF Flying \subseteq {t} THEN crossed \ {t} ELSE crossed
    /\ UNCHANGED <<store, pair, issued, over>>

\* restore(): on the login page in any case, behind AuthGate while the status is
\* unknown.
Restore(t) ==
    /\ tab[t].awake /\ call[t]["restore"] = Idle
    /\ IF store = None
       THEN /\ tab' = [tab EXCEPT ![t] = SignedOut(@)]
            /\ UNCHANGED call
       ELSE /\ tab' = [tab EXCEPT ![t].awake = FALSE]
            /\ call' = [call EXCEPT ![t]["restore"] = Send("me", Owner(store), FALSE)]
    /\ UNCHANGED <<store, flight, server, loads, history>>

Busy == {c \in Tabs \X Slots : call[c[1]][c[2]] # Idle}

\* A page behind AuthGate loads its data, or the user logs out.
Begin(t, s, kind) ==
    /\ kind \in {"data", "logout"}
    /\ tab[t].status = "authenticated"
    /\ call[t][s] = Idle /\ Cardinality(Busy) < MaxCalls
    /\ call' = [call EXCEPT ![t][s] = Send(kind, Owner(store), FALSE)]
    /\ UNCHANGED <<store, tab, flight, server, loads, history>>

\* The form of the login page is submitted; the call carries no token.
SubmitLogin(t, s) ==
    /\ tab[t].page = "login"
    /\ call[t][s] = Idle /\ Cardinality(Busy) < MaxCalls
    /\ call' = [call EXCEPT ![t][s] = Send("login", Nobody, FALSE)]
    /\ UNCHANGED <<store, tab, flight, server, loads, history>>

-----------------------------------------------------------------------------
(* The answers to calls *)

\* What an error makes of the tab, once the token store holds kept: restore()
\* keeps, or makes up, a user while there are tokens; logout ends in any case;
\* the pages catch it.
AfterError(s, kind, kept) ==
    CASE kind = "me" /\ kept # None ->
            SignedIn(s, IF s.user = Nobody THEN Demo ELSE s.user)
      [] kind = "logout" \/ kind = "me" -> SignedOut(s)
      [] OTHER -> s

\* Mutated: logging out clears what the tab shows and forgets the tokens.
KeptAlways(kind, kept) == kept

\* Mutated: a failed restore() takes the tokens of the demo accounts.
KeptMock(kind, kept) ==
    CASE kind = "logout" -> None [] kind = "me" /\ kept # None -> Mock [] OTHER -> kept

\* What an error leaves in the token store.
Kept(kind, kept) == IF kind = "logout" THEN None ELSE kept

\* The call of slot s ends with an error.
Fail(t, s) ==
    LET kind == call[t][s].kind IN
    /\ tab' = [tab EXCEPT ![t] = AfterError(@, kind, store)]
    /\ store' = Kept(kind, store)
    /\ call' = [call EXCEPT ![t][s] = Idle]
    /\ over' = IF kind = "logout" THEN Flying = {} ELSE over
    /\ UNCHANGED <<flight, server, loads, torn, crossed>>

\* The API grants the call; only that of restore() changes the tab.  A logout is
\* never granted: RefreshDto wants a refresh token, and the call has no body.
Granted(t, s) ==
    LET q == call[t][s] IN
    /\ q.at = "sent" /\ q.kind \in {"me", "data"} /\ q.as # Nobody
    /\ tab' = IF q.kind = "me"
              THEN [tab EXCEPT ![t] = SignedIn(@, q.as)]
              ELSE tab
    /\ call' = [call EXCEPT ![t][s] = Idle]
    /\ UNCHANGED <<store, flight, server, loads, history>>

\* The network or the API fails, the API refuses what was asked, or it answers 401
\* and no refresh can help.
Failed(t, s) ==
    /\ call[t][s].at = "sent" /\ call[t][s].kind # "login"
    /\ Fail(t, s)

\* Mutated: every call that meets a 401 starts a refresh of its own.
MayStart(t) == TRUE

\* refreshInFlight ??= refreshTokens()
Unshared(t) == flight[t] = NoFlight

\* A 401 for the first attempt, because the access token is not one of the API's or
\* has expired: the call awaits the refresh of its tab, which it starts if there is
\* none.
AwaitRefresh(t, s) ==
    LET q == call[t][s] IN
    /\ q.at = "sent" /\ q.kind # "login" /\ ~q.again /\ store # None
    /\ call' = [call EXCEPT ![t][s].at = "waits", ![t][s].as = Nobody]
    /\ IF Unshared(t)
       THEN /\ flight' = [flight EXCEPT ![t] = [at |-> "sent", token |-> store, got |-> 0]]
            /\ torn' = IF \E u \in Tabs \ {t} : flight[u].token = store
                       THEN torn \cup Session(store) ELSE torn
       ELSE UNCHANGED <<flight, torn>>
    /\ UNCHANGED <<store, tab, server, loads, crossed, over>>

\* Mutated: tokens that are already there stay.
TakenOnce(n) == IF store = None THEN n ELSE store

\* tokenStore.set of setSessionData.
Taken(n) == n

\* The login is granted: setSessionData.
LoginGranted(t, s, u) ==
    LET n == issued + 1 IN
    /\ call[t][s].at = "sent" /\ call[t][s].kind = "login" /\ issued < MaxPair
    /\ pair' = [pair EXCEPT ![n] = Issue(u, n)]
    /\ issued' = n
    /\ store' = Taken(n)
    /\ tab' = [tab EXCEPT ![t] = SignedIn(@, u)]
    /\ call' = [call EXCEPT ![t][s] = Idle]
    /\ crossed' = IF Flying = {} /\ call[t]["restore"] = Idle THEN Tabs \ {t} ELSE Tabs
    /\ over' = FALSE
    /\ UNCHANGED <<flight, strays, loads, torn>>

\* It is refused or fails: login() makes up a user all the same, from the accounts
\* kept in the browser, the demo accounts, or the address.
LoginFallback(t, s) ==
    /\ call[t][s].at = "sent" /\ call[t][s].kind = "login"
    /\ store' = Mock
    /\ tab' = [tab EXCEPT ![t] = SignedIn(@, Demo)]
    /\ call' = [call EXCEPT ![t][s] = Idle]
    /\ crossed' = IF Flying = {} /\ call[t]["restore"] = Idle THEN Tabs \ {t} ELSE Tabs
    /\ over' = FALSE
    /\ UNCHANGED <<flight, server, loads, torn>>

-----------------------------------------------------------------------------
(* Refreshing *)

Rotated(old) == [old EXCEPT !.state = "rotated"]

\* rotate, in one step: the pairs and their number after token has been presented.
Rotation(token) ==
    LET n == issued + 1 IN
    [pairs  |-> [pair EXCEPT ![token] = Rotated(@),
                             ![n] = Issue(pair[token].user, pair[token].session)],
     number |-> n]

\* revokeFamily: a token that has been rotated is presented once more.
Burned(token) ==
    [p \in Pair |-> IF pair[p].session = pair[token].session /\ pair[p].state = "live"
                    THEN [pair[p] EXCEPT !.state = "burned"] ELSE pair[p]]

CanRotate(token) == token \in Pair /\ pair[token].state = "live" /\ issued < MaxPair

IsReuse(token) == token \in Pair /\ pair[token].state \in {"rotated", "burned"}

\* The server answers the refresh of a tab.  It may refuse any token for reasons
\* of its own (throttled, an error, an inactive member), without effect.
Serve(t) ==
    LET token == flight[t].token IN
    /\ flight[t].at = "sent"
    /\ \/ /\ CanRotate(token)
          /\ pair' = Rotation(token).pairs /\ issued' = Rotation(token).number
          /\ flight' = [flight EXCEPT ![t].at = "granted", ![t].got = Rotation(token).number]
       \/ /\ IF IsReuse(token) THEN pair' = Burned(token) ELSE UNCHANGED pair
          /\ flight' = [flight EXCEPT ![t].at = "refused"]
          /\ UNCHANGED issued
    /\ UNCHANGED <<store, tab, call, strays, loads, history>>

\* fetch rejects: the request was lost, or is still under way, or the answer was lost.
Lose(t) ==
    /\ flight[t].at \in {"sent", "granted"}
    /\ flight' = [flight EXCEPT ![t].at = "refused"]
    /\ \/ UNCHANGED strays
       \/ flight[t].at = "sent" /\ strays' = strays \cup ({flight[t].token} \cap Pair)
    /\ torn' = torn \cup Session(flight[t].token)
    /\ UNCHANGED <<store, tab, call, pair, issued, loads, crossed, over>>

\* A request that nobody awaits any more reaches the server.
ServeStray(p) ==
    /\ p \in strays
    /\ strays' = strays \ {p}
    /\ CASE CanRotate(p) -> pair' = Rotation(p).pairs /\ issued' = Rotation(p).number
         [] IsReuse(p)   -> pair' = Burned(p) /\ UNCHANGED issued
         [] OTHER        -> UNCHANGED <<pair, issued>>
    /\ UNCHANGED <<client, loads, history>>

Waiting(t) == {s \in Slots : call[t][s].at = "waits"}

\* Mutated: the calls that wait are only taken up again after a success.
ResumedOnSuccess(t, ok) == IF ok THEN Waiting(t) ELSE {}

\* The calls that go on when the refresh of their tab has ended.
Resumed(t, ok) == Waiting(t)

\* Mutated: the new tokens are not stored.
OldKept(t, ok) == IF ok THEN store ELSE None

\* tokenStore.set or tokenStore.clear, whatever the store holds by now.
Replaced(t, ok) == IF ok THEN flight[t].got ELSE None

\* refreshTokens ends, and with it the wait: with new tokens the calls are sent a
\* second time, without they fail.
FlightEnds(t) ==
    LET ok == flight[t].at = "granted"
        goOn == Resumed(t, ok)
        ends(kind) == ~ok /\ \E s \in goOn : call[t][s].kind = kind
    IN
    /\ flight[t].at \in {"granted", "refused"}
    /\ store' = Replaced(t, ok)
    /\ call' = [call EXCEPT ![t] = [s \in Slots |->
                   IF s \notin goOn THEN @[s]
                   ELSE IF ok THEN Send(@[s].kind, Owner(flight[t].got), TRUE) ELSE Idle]]
    /\ tab' = IF ends("me") \/ ends("logout") THEN [tab EXCEPT ![t] = SignedOut(@)] ELSE tab
    /\ flight' = [flight EXCEPT ![t] = NoFlight]
    /\ over' = (over \/ (ends("logout") /\ Flying = {t}))
    /\ UNCHANGED <<server, loads, torn, crossed>>

\* The body of the answer cannot be read, and refreshTokens rejects before it sets
\* the store: the calls that wait fail, each in its turn.
AnswerUnreadable(t) ==
    /\ flight[t].at = "granted"
    /\ call' = [call EXCEPT ![t] = [s \in Slots |->
                   IF s \in Waiting(t) THEN Send(@[s].kind, Nobody, TRUE) ELSE @[s]]]
    /\ flight' = [flight EXCEPT ![t] = NoFlight]
    /\ torn' = torn \cup Session(flight[t].token)
    /\ UNCHANGED <<store, tab, server, loads, crossed, over>>

-----------------------------------------------------------------------------
\* What goes on by itself in slot s of tab t.
Answer(t, s) ==
    \/ Granted(t, s) \/ Failed(t, s) \/ AwaitRefresh(t, s)
    \/ LoginFallback(t, s) \/ \E u \in Users : LoginGranted(t, s, u)

Refresh(t) == Serve(t) \/ Lose(t) \/ FlightEnds(t) \/ AnswerUnreadable(t)

UserActs(t) ==
    \/ \E page \in {"login", "dashboard"} : Load(t, page)
    \/ \E s \in Own : SubmitLogin(t, s) \/ \E kind \in {"data", "logout"} : Begin(t, s, kind)

Next ==
    \/ \E t \in Tabs :
          \/ UserActs(t) \/ Restore(t) \/ Refresh(t)
          \/ \E s \in Slots : Answer(t, s)
    \/ \E p \in Pair : ServeStray(p)

\* A fetch settles, one way or the other, and what awaits it goes on; a page that
\* is mounted runs its effects.  Nothing is assumed of the user or of the server.
Fairness ==
    \A t \in Tabs :
        /\ WF_vars(Restore(t)) /\ WF_vars(Refresh(t))
        /\ \A s \in Slots : WF_vars(Answer(t, s))

Spec == Init /\ [][Next]_vars /\ Fairness

-----------------------------------------------------------------------------
(* Properties *)

\* refreshInFlight: reuse detection burns no session of an honest browser, however
\* its calls interleave, unless an answer to a refresh was lost, or two tabs
\* refreshed the same token.
HonestSessionsSurvive ==
    \A p \in Pair : pair[p].state = "burned" => pair[p].session \in torn

\* The store never holds on to a refresh token that the server has replaced, but
\* for the time in which its successor is on the way: the tokens of the browser
\* are good for another refresh.
StoredTokensWork ==
    store \in Pair =>
        \/ pair[store].state = "live"
        \/ pair[store].session \in torn
        \/ \E t \in Tabs : flight[t].token = store /\ flight[t].at = "granted"

\* A tab that shows an account of the API sends its calls with tokens of that
\* account, unless a login came in another tab, or crossed a refresh or a restore(),
\* since the tab was opened.
TabsActAsTheirUser ==
    \A t \in Tabs \ crossed :
        tab[t].status = "authenticated" /\ tab[t].user \in Users /\ store \in Pair
            => pair[store].user = tab[t].user

\* logout: the tokens do not come back, in any tab, before somebody logs in
\* again; except that a refresh which was under way can bring them back.
LogoutIsFinal == over => store = None

\* refreshTokens, which sets or clears the store without looking, touches no
\* other tokens than those it has refreshed; unless there has been a login in
\* another tab, or during a refresh or a restore(), and no reload of this tab since,
\* or the session has ever had a refresh whose answer was lost, or two at once.
RefreshesReplaceTheirOwn ==
    [][\A t \in Tabs :
          flight[t].at \in {"granted", "refused"} /\ flight'[t] = NoFlight /\ store' # store
             => \/ store \in {None, flight[t].token}
                \/ t \in crossed
                \/ Session(flight[t].token) \cap torn # {}]_vars

\* A page does not wait for ever: every call ends, for a 401 leads to one refresh
\* and one more attempt, and who awaits the refresh that another call has started is
\* taken up again; and no tab stays with the spinner of AuthGate.
PagesSettle ==
    \A t \in Tabs :
        /\ \A s \in Slots : call[t][s].at # "idle" ~> call[t][s].at = "idle"
        /\ tab[t].status = "unknown" ~> tab[t].status # "unknown"
=============================================================================
