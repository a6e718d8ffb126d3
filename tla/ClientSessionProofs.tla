------------------------ MODULE ClientSessionProofs ------------------------
(***************************************************************************)
(* Proofs about ClientSession, for any tabs, calls and users, and any      *)
(* number of pairs and page loads.                                         *)
(***************************************************************************)
EXTENDS ClientSession, TLAPS

(***************************************************************************)
(* Type correctness.                                                       *)
(***************************************************************************)
LEMMA NothingIsTyped == Idle \in CallState /\ NoFlight \in FlightState
  BY ConfigAssumption DEF Idle, NoFlight, CallState, FlightState, Stored, None

LEMMA NumbersTyped ==
  /\ Stored = 0 .. Mock /\ Pair \subseteq Stored /\ None \in Stored /\ Mock \in Stored
  /\ None \notin Pair /\ Mock \notin Pair /\ None # Mock /\ Pair \subseteq Nat
  BY ConfigAssumption DEF Stored, Pair, None, Mock

LEMMA OwnerTyped == ASSUME TypeOK, NEW token PROVE Owner(token) \in Users \cup {Nobody}
  BY DEF TypeOK, Owner, PairState

LEMMA SendTyped ==
  ASSUME NEW kind \in {"none", "me", "data", "login", "logout"}, NEW u \in Users \cup {Nobody},
         NEW again \in BOOLEAN
  PROVE  Send(kind, u, again) \in CallState
  BY DEF Send, CallState

LEMMA SignedTyped ==
  ASSUME NEW s \in TabState, NEW u \in Users \cup {Demo, Nobody}
  PROVE  /\ SignedOut(s) \in TabState /\ SignedOut(s).user = Nobody
         /\ SignedIn(s, u) \in TabState /\ SignedIn(s, u).user = u
<1>1. SignedOut(s) \in TabState /\ SignedOut(s).user = Nobody
  BY DEF SignedOut, TabState
<1>2. SignedIn(s, u) \in TabState /\ SignedIn(s, u).user = u
  BY DEF SignedIn, TabState
<1>. QED  BY <1>1, <1>2

LEMMA AfterErrorTyped ==
  ASSUME NEW s \in TabState, NEW kind, NEW kept
  PROVE  /\ AfterError(s, kind, kept) \in TabState
         /\ AfterError(s, kind, kept).user \in {s.user, Nobody, Demo}
<1>1. s.user \in Users \cup {Demo, Nobody}
  BY DEF TabState
<1>2. CASE kind = "me" /\ kept # None
  BY <1>1, <1>2, SignedTyped DEF AfterError
<1>3. CASE ~(kind = "me" /\ kept # None) /\ (kind = "logout" \/ kind = "me")
  BY <1>1, <1>3, SignedTyped DEF AfterError
<1>4. CASE ~(kind = "me" \/ kind = "logout")
  BY <1>4 DEF AfterError
<1>. QED  BY <1>2, <1>3, <1>4

LEMMA InitTypeOK == Init => TypeOK
<1>. SUFFICES ASSUME Init PROVE TypeOK
  OBVIOUS
<1>1. tab \in [Tabs -> TabState]
  BY DEF Init, TabState
<1>2. pair \in [Pair -> PairState]
  BY ConfigAssumption DEF Init, PairState
<1>3. call \in [Tabs -> [Slots -> CallState]] /\ flight \in [Tabs -> FlightState]
  BY NothingIsTyped DEF Init
<1>4. /\ store \in Stored /\ issued \in 0 .. MaxPair /\ strays \subseteq Pair
      /\ loads \in 0 .. MaxLoads /\ torn \subseteq 0 .. MaxPair /\ crossed \subseteq Tabs
  BY ConfigAssumption, NumbersTyped DEF Init
<1>5. over \in BOOLEAN
  BY DEF Init
<1>. QED  BY <1>1, <1>2, <1>3, <1>4, <1>5 DEF TypeOK

LEMMA KindTyped ==
  ASSUME TypeOK, NEW t \in Tabs, NEW s \in Slots
  PROVE  /\ call[t] \in [Slots -> CallState] /\ call[t][s] \in CallState
         /\ call[t][s].kind \in {"none", "me", "data", "login", "logout"}
         /\ call[t][s].as \in Users \cup {Nobody}
         /\ tab[t] \in TabState /\ flight[t] \in FlightState
  BY DEF TypeOK, CallState

LEMMA LoadTypeOK ==
  ASSUME TypeOK, NEW t \in Tabs, NEW page \in {"login", "dashboard"}, Load(t, page)
  PROVE  TypeOK'
<1>1. Session(flight[t].token) \subseteq 0 .. MaxPair
  BY DEF Session, TypeOK, PairState
<1>2. [status |-> "unknown", user |-> Nobody, page |-> page, awake |-> TRUE] \in TabState
  BY DEF TabState
<1>3. tab' \in [Tabs -> TabState]
  BY <1>2 DEF Load, TypeOK
<1>4. call' \in [Tabs -> [Slots -> CallState]] /\ flight' \in [Tabs -> FlightState]
  BY NothingIsTyped DEF Load, TypeOK
<1>5. loads' \in 0 .. MaxLoads
  BY ConfigAssumption DEF Load, TypeOK
<1>6. strays' \subseteq Pair /\ torn' \subseteq 0 .. MaxPair /\ crossed' \subseteq Tabs
  BY <1>1 DEF Load, TypeOK
<1>. QED  BY <1>3, <1>4, <1>5, <1>6 DEF Load, TypeOK

\* What the actions do to over, apart from everything else.
LEMMA OverTyped == ASSUME TypeOK, [Next]_vars PROVE over' \in BOOLEAN
<1>1. over \in BOOLEAN
  BY DEF TypeOK
<1>2. ASSUME NEW t \in Tabs, NEW s \in Slots, Fail(t, s) PROVE over' \in BOOLEAN
  <2>1. CASE call[t][s].kind = "logout"
    <3>1. over' = (Flying = {})
      BY <1>2, <2>1, Zenon DEF Fail
    <3>. QED  BY <3>1, Zenon
  <2>2. CASE call[t][s].kind # "logout"
    <3>1. over' = over
      BY <1>2, <2>2, Zenon DEF Fail
    <3>. QED  BY <1>1, <3>1, Zenon
  <2>. QED  BY <2>1, <2>2
<1>3. ASSUME NEW t \in Tabs, FlightEnds(t) PROVE over' \in BOOLEAN
  <2>. DEFINE ok == flight[t].at = "granted"
             ends(kind) == ~ok /\ \E s \in Resumed(t, ok) : call[t][s].kind = kind
  <2>1. over' = (over \/ (ends("logout") /\ Flying = {t}))
    BY <1>3, Zenon DEF FlightEnds
  <2>. QED  BY <2>1, Zenon
<1>4. ASSUME NEW t \in Tabs, UserActs(t) PROVE over' = over
  BY <1>4 DEF UserActs, Load, Begin, SubmitLogin, history
<1>5. ASSUME NEW t \in Tabs, NEW s \in Slots, Answer(t, s), ~Fail(t, s) PROVE over' \in {over, FALSE}
  BY <1>5 DEF Answer, Granted, Failed, AwaitRefresh, LoginGranted, LoginFallback, history
<1>6. ASSUME NEW t \in Tabs, Restore(t) \/ Serve(t) \/ Lose(t) \/ AnswerUnreadable(t)
      PROVE  over' = over
  BY <1>6 DEF Restore, Serve, Lose, AnswerUnreadable, history
<1>7. ASSUME NEW p \in Pair, ServeStray(p) PROVE over' = over
  BY <1>7 DEF ServeStray, history
<1>8. CASE UNCHANGED vars
  BY <1>1, <1>8 DEF vars
<1>. QED
  BY <1>1, <1>2, <1>3, <1>4, <1>5, <1>6, <1>7, <1>8, Zenon DEF Next, Refresh

LEMMA RestoreTypeOK == ASSUME TypeOK, NEW t \in Tabs, Restore(t) PROVE TypeOK'
<1>1. "restore" \in Slots
  BY DEF Slots
<1>2. Send("me", Owner(store), FALSE) \in CallState
  BY OwnerTyped, SendTyped
<1>3. CASE store = None
  <2>1. tab' \in [Tabs -> TabState]
    BY <1>3, SignedTyped DEF Restore, TypeOK
  <2>. QED  BY <1>3, <2>1 DEF Restore, server, history, TypeOK
<1>4. CASE store # None
  <2>1. [tab[t] EXCEPT !.awake = FALSE] \in TabState
    BY DEF TypeOK, TabState
  <2>2. tab' \in [Tabs -> TabState]
    BY <1>4, <2>1 DEF Restore, TypeOK
  <2>3. call' \in [Tabs -> [Slots -> CallState]]
    <3>1. call' = [call EXCEPT ![t]["restore"] = Send("me", Owner(store), FALSE)]
      BY <1>4 DEF Restore
    <3>2. call \in [Tabs -> [Slots -> CallState]]
      BY DEF TypeOK
    <3>. QED  BY <1>1, <1>2, <3>1, <3>2
  <2>. QED  BY <2>2, <2>3 DEF Restore, server, history, TypeOK
<1>. QED  BY <1>3, <1>4

LEMMA UserTypeOK ==
  ASSUME TypeOK, NEW t \in Tabs, NEW s \in Own,
         SubmitLogin(t, s) \/ \E kind \in {"data", "logout"} : Begin(t, s, kind)
  PROVE  TypeOK'
<1>1. PICK c \in CallState : call' = [call EXCEPT ![t][s] = c]
  BY OwnerTyped, SendTyped DEF SubmitLogin, Begin
<1>2. s \in Slots
  BY DEF Slots
<1>3. call' \in [Tabs -> [Slots -> CallState]]
  BY <1>1, <1>2 DEF TypeOK
<1>4. UNCHANGED <<store, tab, flight, pair, issued, strays, loads, torn, crossed, over>>
  BY DEF SubmitLogin, Begin, server, history
<1>. QED  BY <1>3, <1>4 DEF TypeOK

\* The end of a call, whatever becomes of the tab.
LEMMA EndedTyped ==
  ASSUME TypeOK, NEW t \in Tabs, NEW s \in Slots, call' = [call EXCEPT ![t][s] = Idle]
  PROVE  call' \in [Tabs -> [Slots -> CallState]]
  BY NothingIsTyped DEF TypeOK

LEMMA FailTypeOK ==
  ASSUME TypeOK, [Next]_vars, NEW t \in Tabs, NEW s \in Slots, Fail(t, s) PROVE TypeOK'
<1>1. tab' \in [Tabs -> TabState]
  BY AfterErrorTyped DEF Fail, TypeOK
<1>2. store' \in Stored
  BY NumbersTyped DEF Fail, Kept, TypeOK
<1>3. call' \in [Tabs -> [Slots -> CallState]]
  BY EndedTyped DEF Fail
<1>. QED  BY <1>1, <1>2, <1>3, OverTyped DEF Fail, server, TypeOK

LEMMA AnswerTypeOK ==
  ASSUME TypeOK, [Next]_vars, NEW t \in Tabs, NEW s \in Slots, Answer(t, s) PROVE TypeOK'
<1>1. CASE Granted(t, s)
  <2>1. call[t][s].as \in Users
    BY <1>1, KindTyped DEF Granted
  <2>2. tab' \in [Tabs -> TabState]
    BY <1>1, <2>1, SignedTyped DEF Granted, TypeOK
  <2>3. call' \in [Tabs -> [Slots -> CallState]]
    BY <1>1, EndedTyped DEF Granted
  <2>. QED  BY <1>1, <2>2, <2>3 DEF Granted, server, history, TypeOK
<1>2. CASE Failed(t, s)
  BY <1>2, FailTypeOK DEF Failed
<1>3. CASE AwaitRefresh(t, s)
  <2>1. [call[t][s] EXCEPT !.at = "waits", !.as = Nobody] \in CallState
    BY KindTyped DEF CallState
  <2>2. call' \in [Tabs -> [Slots -> CallState]]
    BY <1>3, <2>1 DEF AwaitRefresh, TypeOK
  <2>3. flight' \in [Tabs -> FlightState]
    <3>1. [at |-> "sent", token |-> store, got |-> 0] \in FlightState
      BY ConfigAssumption DEF FlightState, TypeOK
    <3>. QED  BY <1>3, <3>1 DEF AwaitRefresh, TypeOK
  <2>4. torn' \subseteq 0 .. MaxPair
    BY <1>3 DEF AwaitRefresh, Session, TypeOK, PairState
  <2>. QED  BY <1>3, <2>2, <2>3, <2>4 DEF AwaitRefresh, server, TypeOK
<1>4. CASE LoginFallback(t, s)
  <2>1. tab' \in [Tabs -> TabState]
    BY <1>4, SignedTyped DEF LoginFallback, TypeOK
  <2>2. call' \in [Tabs -> [Slots -> CallState]]
    BY <1>4, EndedTyped DEF LoginFallback
  <2>3. store' \in Stored /\ crossed' \subseteq Tabs
    BY <1>4, NumbersTyped DEF LoginFallback
  <2>. QED  BY <1>4, <2>1, <2>2, <2>3, OverTyped DEF LoginFallback, server, TypeOK
<1>5. ASSUME NEW u \in Users, LoginGranted(t, s, u) PROVE TypeOK'
  <2>1. tab' \in [Tabs -> TabState]
    BY <1>5, SignedTyped DEF LoginGranted, TypeOK
  <2>2. call' \in [Tabs -> [Slots -> CallState]]
    BY <1>5, EndedTyped DEF LoginGranted
  <2>3. issued + 1 \in Pair /\ issued' = issued + 1
    BY <1>5, ConfigAssumption DEF LoginGranted, TypeOK, Pair
  <2>4. store' \in Stored /\ issued' \in 0 .. MaxPair /\ crossed' \subseteq Tabs
    BY <1>5, <2>3, NumbersTyped DEF LoginGranted, Taken, Pair
  <2>5. pair' \in [Pair -> PairState]
    <3>1. Issue(u, issued + 1) \in PairState
      BY <2>3 DEF Issue, PairState, Pair
    <3>. QED  BY <1>5, <3>1 DEF LoginGranted, TypeOK
  <2>. QED  BY <1>5, <2>1, <2>2, <2>4, <2>5, OverTyped DEF LoginGranted, TypeOK
<1>. QED  BY <1>1, <1>2, <1>3, <1>4, <1>5 DEF Answer

\* The server's part of a refresh.
LEMMA RotationTyped ==
  ASSUME TypeOK, NEW token, CanRotate(token)
  PROVE  /\ token \in Pair /\ issued + 1 \in Pair /\ issued + 1 \in 0 .. MaxPair
         /\ Rotation(token).pairs \in [Pair -> PairState] /\ Rotation(token).number = issued + 1
         /\ Rotation(token).pairs = [pair EXCEPT ![token] = Rotated(@),
                ![issued + 1] = Issue(pair[token].user, pair[token].session)]
<1>1. token \in Pair /\ issued + 1 \in Pair /\ issued + 1 \in 0 .. MaxPair
  BY ConfigAssumption DEF CanRotate, TypeOK, Pair
<1>2. Rotated(pair[token]) \in PairState
  BY <1>1 DEF Rotated, TypeOK, PairState
<1>3. Issue(pair[token].user, pair[token].session) \in PairState
  BY <1>1 DEF Issue, TypeOK, PairState
<1>. QED  BY <1>1, <1>2, <1>3 DEF Rotation, TypeOK

LEMMA BurnedTyped ==
  ASSUME TypeOK, NEW token, IsReuse(token)
  PROVE  Burned(token) \in [Pair -> PairState]
<1>1. \A p \in Pair : [pair[p] EXCEPT !.state = "burned"] \in PairState
  BY DEF TypeOK, PairState
<1>. QED  BY <1>1 DEF Burned, TypeOK

LEMMA ServeTypeOK == ASSUME TypeOK, NEW t \in Tabs, Serve(t) PROVE TypeOK'
<1>. DEFINE token == flight[t].token
<1>1. CASE /\ CanRotate(token)
           /\ pair' = Rotation(token).pairs /\ issued' = Rotation(token).number
           /\ flight' = [flight EXCEPT ![t].at = "granted", ![t].got = Rotation(token).number]
  <2>1. [flight[t] EXCEPT !.at = "granted", !.got = issued + 1] \in FlightState
    <3>1. issued + 1 \in 0 .. MaxPair /\ flight[t] \in FlightState
      BY <1>1, RotationTyped DEF TypeOK
    <3>. QED  BY <3>1 DEF FlightState
  <2>2. flight' \in [Tabs -> FlightState]
    BY <1>1, <2>1, RotationTyped DEF TypeOK
  <2>. QED  BY <1>1, <2>2, RotationTyped DEF Serve, history, TypeOK
<1>2. CASE /\ IF IsReuse(token) THEN pair' = Burned(token) ELSE UNCHANGED pair
           /\ flight' = [flight EXCEPT ![t].at = "refused"]
           /\ UNCHANGED issued
  <2>1. [flight[t] EXCEPT !.at = "refused"] \in FlightState
    BY DEF TypeOK, FlightState
  <2>2. flight' \in [Tabs -> FlightState]
    BY <1>2, <2>1 DEF TypeOK
  <2>3. pair' \in [Pair -> PairState]
    BY <1>2, BurnedTyped DEF TypeOK
  <2>. QED  BY <1>2, <2>2, <2>3 DEF Serve, history, TypeOK
<1>. QED  BY <1>1, <1>2 DEF Serve

LEMMA ServeStrayTypeOK == ASSUME TypeOK, NEW p \in Pair, ServeStray(p) PROVE TypeOK'
<1>1. CASE CanRotate(p)
  <2>0. ~IsReuse(p)
    BY <1>1 DEF CanRotate, IsReuse
  <2>1. pair' \in [Pair -> PairState] /\ issued' \in 0 .. MaxPair
    BY <1>1, <2>0, RotationTyped DEF ServeStray
  <2>2. strays' \subseteq Pair /\ UNCHANGED <<store, tab, call, flight, loads, torn, crossed, over>>
    BY DEF ServeStray, client, history, TypeOK
  <2>. QED  BY <2>1, <2>2 DEF TypeOK
<1>2. CASE ~CanRotate(p) /\ IsReuse(p)
  <2>1. pair' = Burned(p) /\ UNCHANGED issued
    BY <1>2 DEF ServeStray
  <2>2. pair' \in [Pair -> PairState]
    BY <1>2, <2>1, BurnedTyped
  <2>3. strays' \subseteq Pair /\ UNCHANGED <<store, tab, call, flight, loads, torn, crossed, over>>
    BY DEF ServeStray, client, history, TypeOK
  <2>. QED  BY <2>1, <2>2, <2>3 DEF TypeOK
<1>3. CASE ~CanRotate(p) /\ ~IsReuse(p)
  BY <1>3 DEF ServeStray, client, history, TypeOK
<1>. QED  BY <1>1, <1>2, <1>3

LEMMA LoseTypeOK == ASSUME TypeOK, NEW t \in Tabs, Lose(t) PROVE TypeOK'
<1>1. [flight[t] EXCEPT !.at = "refused"] \in FlightState
  BY DEF TypeOK, FlightState
<1>2. flight' \in [Tabs -> FlightState]
  BY <1>1 DEF Lose, TypeOK
<1>3. torn' \subseteq 0 .. MaxPair
  BY DEF Lose, Session, TypeOK, PairState
<1>. QED  BY <1>2, <1>3 DEF Lose, TypeOK

\* What the end of a refresh makes of the calls that wait for it.
LEMMA ResumedCalls ==
  ASSUME TypeOK, NEW t \in Tabs, FlightEnds(t)
  PROVE  /\ call' \in [Tabs -> [Slots -> CallState]]
         /\ \A u \in Tabs, s \in Slots :
                \/ call'[u][s] = call[u][s] /\ (u = t => call[u][s].at # "waits")
                \/ /\ u = t /\ call[u][s].at = "waits"
                   /\ \/ flight[t].at = "refused" /\ call'[u][s] = Idle
                      \/ /\ flight[t].at = "granted"
                         /\ call'[u][s] = Send(call[u][s].kind, Owner(flight[t].got), TRUE)
<1>. DEFINE c(s) == IF s \notin Waiting(t) THEN call[t][s]
                    ELSE IF flight[t].at = "granted"
                    THEN Send(call[t][s].kind, Owner(flight[t].got), TRUE) ELSE Idle
<1>1. call' = [call EXCEPT ![t] = [s \in Slots |-> c(s)]]
  BY DEF FlightEnds, Resumed
<1>2. ASSUME NEW s \in Slots PROVE c(s) \in CallState
  <2>1. Send(call[t][s].kind, Owner(flight[t].got), TRUE) \in CallState
    BY KindTyped, OwnerTyped, SendTyped
  <2>2. call[t][s] \in CallState
    BY KindTyped
  <2>. QED  BY <2>1, <2>2, NothingIsTyped
<1>3. call \in [Tabs -> [Slots -> CallState]]
  BY DEF TypeOK
<1>4. call' \in [Tabs -> [Slots -> CallState]]
  <2>. HIDE DEF c
  <2>. QED  BY <1>1, <1>2, <1>3
<1>5. \A u \in Tabs, s \in Slots : call'[u][s] = IF u = t THEN c(s) ELSE call[u][s]
  <2>. HIDE DEF c
  <2>. QED  BY <1>1, <1>3
<1>6. flight[t].at \in {"granted", "refused"}
  BY DEF FlightEnds
<1>7. \A s \in Slots : s \in Waiting(t) <=> call[t][s].at = "waits"
  BY DEF Waiting
<1>. QED  BY <1>4, <1>5, <1>6, <1>7

LEMMA FlightEndsTypeOK == ASSUME TypeOK, [Next]_vars, NEW t \in Tabs, FlightEnds(t) PROVE TypeOK'
<1>1. store' \in Stored
  BY NumbersTyped, ConfigAssumption DEF FlightEnds, Replaced, TypeOK, FlightState, Mock
<1>2. tab' \in [Tabs -> TabState]
  <2>1. tab' = tab \/ tab' = [tab EXCEPT ![t] = SignedOut(tab[t])]
    BY DEF FlightEnds
  <2>2. tab \in [Tabs -> TabState] /\ SignedOut(tab[t]) \in TabState
    BY KindTyped, SignedTyped, ConfigAssumption DEF TypeOK
  <2>. QED  BY <2>1, <2>2
<1>3. flight' \in [Tabs -> FlightState]
  BY NothingIsTyped DEF FlightEnds, TypeOK
<1>4. UNCHANGED <<pair, issued, strays, loads, torn, crossed>>
  BY DEF FlightEnds, server
<1>. QED  BY <1>1, <1>2, <1>3, <1>4, ResumedCalls, OverTyped DEF TypeOK

\* An answer that cannot be read: the calls that wait go on without tokens.
LEMMA UnreadableCalls ==
  ASSUME TypeOK, NEW t \in Tabs, AnswerUnreadable(t)
  PROVE  /\ call' \in [Tabs -> [Slots -> CallState]]
         /\ \A u \in Tabs, s \in Slots :
                call'[u][s] = call[u][s] \/ call'[u][s] = Send(call[u][s].kind, Nobody, TRUE)
<1>. DEFINE c(s) == IF s \in Waiting(t) THEN Send(call[t][s].kind, Nobody, TRUE) ELSE call[t][s]
<1>1. call' = [call EXCEPT ![t] = [s \in Slots |-> c(s)]]
  BY DEF AnswerUnreadable
<1>2. ASSUME NEW s \in Slots PROVE c(s) \in CallState
  <2>1. Send(call[t][s].kind, Nobody, TRUE) \in CallState
    BY KindTyped, SendTyped
  <2>2. call[t][s] \in CallState
    BY KindTyped
  <2>. QED  BY <2>1, <2>2
<1>3. call \in [Tabs -> [Slots -> CallState]]
  BY DEF TypeOK
<1>4. call' \in [Tabs -> [Slots -> CallState]]
  <2>. HIDE DEF c
  <2>. QED  BY <1>1, <1>2, <1>3
<1>5. \A u \in Tabs, s \in Slots : call'[u][s] = IF u = t THEN c(s) ELSE call[u][s]
  <2>. HIDE DEF c
  <2>. QED  BY <1>1, <1>3
<1>. QED  BY <1>4, <1>5

LEMMA UnreadableTypeOK == ASSUME TypeOK, NEW t \in Tabs, AnswerUnreadable(t) PROVE TypeOK'
<1>1. flight' \in [Tabs -> FlightState]
  BY NothingIsTyped DEF AnswerUnreadable, TypeOK
<1>2. torn' \subseteq 0 .. MaxPair
  BY DEF AnswerUnreadable, Session, TypeOK, PairState
<1>3. UNCHANGED <<store, tab, pair, issued, strays, loads, crossed, over>>
  BY DEF AnswerUnreadable, server
<1>. QED  BY <1>1, <1>2, <1>3, UnreadableCalls DEF TypeOK

LEMMA NextTypeOK == TypeOK /\ [Next]_vars => TypeOK'
<1>. SUFFICES ASSUME TypeOK, [Next]_vars PROVE TypeOK'
  OBVIOUS
<1>1. ASSUME NEW t \in Tabs, UserActs(t) PROVE TypeOK'
  BY <1>1, LoadTypeOK, UserTypeOK DEF UserActs
<1>2. ASSUME NEW t \in Tabs, Refresh(t) PROVE TypeOK'
  BY <1>2, ServeTypeOK, LoseTypeOK, FlightEndsTypeOK, UnreadableTypeOK DEF Refresh
<1>3. CASE UNCHANGED vars
  BY <1>3 DEF vars, TypeOK
<1>. QED  BY <1>1, <1>2, <1>3, RestoreTypeOK, AnswerTypeOK, ServeStrayTypeOK DEF Next

\* The browser and the server stay well typed.
THEOREM TypeCorrect == Spec => []TypeOK
<1>. QED  BY InitTypeOK, NextTypeOK, PTL DEF Spec

(***************************************************************************)
(* The invariants.  What the browser and the network hold is of pairs that *)
(* were issued, and the pairs of a session are one user's.                 *)
(***************************************************************************)
Seen == 1 .. issued

TokensAreIssued ==
  /\ store \in {None, Mock} \cup Seen
  /\ \A t \in Tabs : flight[t].token \in {None, Mock} \cup Seen
  /\ strays \subseteq Seen

SessionsAreIssued ==
  /\ \A p \in Seen : pair[p].session \in Seen
  /\ \A p \in Pair \ Seen : pair[p].state = "none"

SessionsHaveOneUser ==
  \A p, q \in Seen : pair[p].session = pair[q].session => pair[p].user = pair[q].user

NoFlightIsNone ==
  \A t \in Tabs : IF flight[t].at = "none" THEN flight[t] = NoFlight ELSE flight[t].token # None

\* After a logout that is final no refresh is under way that could undo it.
OverIsQuiet == over => store = None /\ Flying = {}

BookInv ==
  TypeOK /\ TokensAreIssued /\ SessionsAreIssued /\ SessionsHaveOneUser /\ NoFlightIsNone /\ OverIsQuiet

\* What no step undoes.
Lasting ==
  /\ issued' \in Nat /\ issued <= issued' /\ torn \subseteq torn'
  /\ \A p \in Seen : pair'[p].session = pair[p].session /\ pair'[p].user = pair[p].user

LEMMA SeenIsPair == ASSUME TypeOK PROVE Seen \subseteq Pair /\ issued \in Nat /\ issued + 1 \notin Seen
  BY ConfigAssumption DEF TypeOK, Seen, Pair

LEMMA RotationKeeps ==
  ASSUME TypeOK, SessionsAreIssued, SessionsHaveOneUser, NEW token, CanRotate(token),
         pair' = Rotation(token).pairs, issued' = Rotation(token).number
  PROVE  /\ token \in Seen /\ issued' = issued + 1 /\ issued' \in Pair
         /\ \A p \in Seen : /\ pair'[p].session = pair[p].session /\ pair'[p].user = pair[p].user
                            /\ pair'[p].state = IF p = token THEN "rotated" ELSE pair[p].state
         /\ pair'[issued'] = Issue(pair[token].user, pair[token].session)
         /\ SessionsAreIssued' /\ SessionsHaveOneUser'
<1>1. token \in Pair /\ pair[token].state = "live"
  BY DEF CanRotate
<1>2. token \in Seen
  BY <1>1 DEF SessionsAreIssued
<1>3. issued' = issued + 1 /\ issued' \in Pair
  BY RotationTyped
<1>4. issued' \notin Seen /\ Seen \subseteq Pair /\ Seen' = Seen \cup {issued'} /\ Seen' \subseteq Pair
  BY <1>3, SeenIsPair, ConfigAssumption DEF Seen, Pair, TypeOK
<1>5. \A p \in Pair : pair'[p] = IF p = issued' THEN Issue(pair[token].user, pair[token].session)
                                 ELSE IF p = token THEN Rotated(pair[p]) ELSE pair[p]
  <2>1. pair \in [Pair -> PairState] /\ issued' # token
    BY <1>2, <1>4 DEF TypeOK
  <2>2. pair' = [pair EXCEPT ![token] = Rotated(@),
                             ![issued'] = Issue(pair[token].user, pair[token].session)]
    BY <1>3, RotationTyped
  <2>. QED  BY <1>1, <1>3, <2>1, <2>2
<1>6. \A p \in Seen : /\ pair'[p].session = pair[p].session /\ pair'[p].user = pair[p].user
                      /\ pair'[p].state = IF p = token THEN "rotated" ELSE pair[p].state
  <2>1. \A p \in Pair : /\ Rotated(pair[p]).session = pair[p].session
                        /\ Rotated(pair[p]).user = pair[p].user /\ Rotated(pair[p]).state = "rotated"
    BY DEF Rotated, TypeOK, PairState
  <2>. QED  BY <1>4, <1>5, <2>1
<1>7. pair'[issued'] = Issue(pair[token].user, pair[token].session)
  BY <1>3, <1>5
<1>8. /\ pair'[issued'].session = pair[token].session /\ pair'[issued'].user = pair[token].user
  BY <1>7 DEF Issue
<1>9. \A p \in Pair \ Seen' : pair'[p].state = pair[p].state /\ p \notin Seen
  BY <1>2, <1>4, <1>5
<1>10. SessionsAreIssued'
  BY <1>2, <1>4, <1>6, <1>8, <1>9 DEF SessionsAreIssued
<1>11. SessionsHaveOneUser'
  BY <1>2, <1>4, <1>6, <1>8 DEF SessionsHaveOneUser
<1>. QED  BY <1>2, <1>3, <1>6, <1>7, <1>10, <1>11

LEMMA BurnKeeps ==
  ASSUME TypeOK, SessionsAreIssued, SessionsHaveOneUser, NEW token, IsReuse(token),
         pair' = Burned(token), UNCHANGED issued
  PROVE  /\ token \in Seen
         /\ \A p \in Pair : /\ pair'[p].session = pair[p].session /\ pair'[p].user = pair[p].user
                            /\ \/ pair'[p].state = pair[p].state
                               \/ pair[p].session = pair[token].session
         /\ SessionsAreIssued' /\ SessionsHaveOneUser'
<1>1. token \in Seen
  BY DEF IsReuse, SessionsAreIssued
<1>2. \A p \in Pair : pair'[p] = IF pair[p].session = pair[token].session /\ pair[p].state = "live"
                                 THEN [pair[p] EXCEPT !.state = "burned"] ELSE pair[p]
  BY DEF Burned
<1>3. \A p \in Pair : /\ pair'[p].session = pair[p].session /\ pair'[p].user = pair[p].user
                      /\ \/ pair'[p].state = pair[p].state
                         \/ pair[p].session = pair[token].session /\ pair[p].state = "live"
  BY <1>2 DEF TypeOK, PairState
<1>4. Seen' = Seen /\ Seen \subseteq Pair
  BY SeenIsPair DEF Seen
<1>. QED  BY <1>1, <1>3, <1>4 DEF SessionsAreIssued, SessionsHaveOneUser

\* The server is not concerned.
LEMMA ServerStays ==
  ASSUME SessionsAreIssued, SessionsHaveOneUser, UNCHANGED <<pair, issued>>
  PROVE  SessionsAreIssued' /\ SessionsHaveOneUser' /\ Seen' = Seen
  BY DEF SessionsAreIssued, SessionsHaveOneUser, Seen

LEMMA LoadBook ==
  ASSUME BookInv, TypeOK', NEW t \in Tabs, NEW page, Load(t, page) PROVE BookInv' /\ Lasting
<1>1. TokensAreIssued'
  BY NumbersTyped, ServerStays DEF Load, BookInv, TokensAreIssued, TypeOK, NoFlight
<1>2. NoFlightIsNone' /\ OverIsQuiet'
  BY DEF Load, BookInv, TypeOK, NoFlightIsNone, OverIsQuiet, Flying, NoFlight
<1>. QED  BY <1>1, <1>2, ServerStays, SeenIsPair DEF Load, BookInv, Lasting

\* Steps that leave the server, the refreshes and the history alone, and at most
\* empty the store.
LEMMA QuietBook ==
  ASSUME BookInv, TypeOK', store' \in {None, store},
         UNCHANGED <<flight, pair, issued, strays, torn>>, over' => over \/ (store' = None /\ Flying = {})
  PROVE  BookInv' /\ Lasting
<1>1. TokensAreIssued' /\ NoFlightIsNone'
  BY ServerStays DEF BookInv, TokensAreIssued, NoFlightIsNone
<1>2. OverIsQuiet'
  BY DEF BookInv, OverIsQuiet, Flying
<1>. QED  BY <1>1, <1>2, ServerStays, SeenIsPair DEF BookInv, Lasting

LEMMA AwaitBook ==
  ASSUME BookInv, TypeOK', NEW t \in Tabs, NEW s \in Slots, AwaitRefresh(t, s)
  PROVE  BookInv' /\ Lasting
<1>1. TokensAreIssued'
  BY ServerStays DEF AwaitRefresh, server, BookInv, TokensAreIssued, TypeOK
<1>2. NoFlightIsNone'
  BY DEF AwaitRefresh, BookInv, TypeOK, NoFlightIsNone
<1>4. ~over /\ over' = over
  BY DEF AwaitRefresh, BookInv, OverIsQuiet
<1>5. OverIsQuiet'
  BY <1>4, Zenon DEF OverIsQuiet
<1>3. torn \subseteq torn'
  BY DEF AwaitRefresh
<1>. QED  BY <1>1, <1>2, <1>3, <1>5, ServerStays, SeenIsPair DEF AwaitRefresh, server, BookInv, Lasting

LEMMA LoginBook ==
  ASSUME BookInv, TypeOK', NEW t \in Tabs, NEW s \in Slots, NEW u \in Users, LoginGranted(t, s, u)
  PROVE  BookInv' /\ Lasting
<1>. DEFINE n == issued + 1
<1>1. n \in Pair /\ n \notin Seen /\ Seen \subseteq Pair /\ issued' = n /\ Seen' = Seen \cup {n}
  BY ConfigAssumption DEF LoginGranted, BookInv, TypeOK, Pair, Seen
<1>. HIDE DEF n
<1>2. \A p \in Pair : pair'[p] = IF p = n THEN Issue(u, n) ELSE pair[p]
  BY <1>1 DEF LoginGranted, BookInv, TypeOK, n
<1>3. pair'[n].session = n /\ pair'[n].user = u
  BY <1>1, <1>2 DEF Issue
<1>4. \A p \in Seen : pair'[p] = pair[p] /\ pair[p].session # n
  BY <1>1, <1>2 DEF BookInv, SessionsAreIssued
<1>5. SessionsAreIssued' /\ SessionsHaveOneUser'
  BY <1>1, <1>2, <1>3, <1>4 DEF BookInv, SessionsAreIssued, SessionsHaveOneUser
<1>6. TokensAreIssued' /\ NoFlightIsNone' /\ OverIsQuiet'
  BY <1>1 DEF LoginGranted, Taken, n, BookInv, TokensAreIssued, NoFlightIsNone, OverIsQuiet
<1>7. Lasting
  BY <1>1, <1>4, SeenIsPair DEF LoginGranted, BookInv, Lasting, n
<1>. QED  BY <1>5, <1>6, <1>7 DEF BookInv

LEMMA ServeBook ==
  ASSUME BookInv, TypeOK', NEW t \in Tabs, Serve(t) PROVE BookInv' /\ Lasting
<1>. DEFINE token == flight[t].token
<1>1. SessionsAreIssued' /\ SessionsHaveOneUser' /\ Seen \subseteq Seen' /\ Lasting
  <2>1. CASE CanRotate(token) /\ pair' = Rotation(token).pairs /\ issued' = Rotation(token).number
    BY <2>1, RotationKeeps, SeenIsPair DEF Serve, history, BookInv, Lasting, Seen
  <2>2. CASE IsReuse(token) /\ pair' = Burned(token) /\ UNCHANGED issued
    BY <2>2, BurnKeeps, SeenIsPair DEF Serve, history, BookInv, Lasting, Seen
  <2>3. CASE UNCHANGED <<pair, issued>>
    BY <2>3, ServerStays, SeenIsPair DEF Serve, history, BookInv, Lasting
  <2>. QED  BY <2>1, <2>2, <2>3 DEF Serve
<1>2. \A u \in Tabs : /\ flight'[u].token = flight[u].token
                      /\ u # t => flight'[u] = flight[u]
                      /\ u = t => flight'[u].at \in {"granted", "refused"} /\ flight[u].at = "sent"
  BY DEF Serve, BookInv, TypeOK, FlightState
<1>3. TokensAreIssued'
  BY <1>1, <1>2 DEF Serve, BookInv, TokensAreIssued
<1>4. NoFlightIsNone'
  BY <1>2 DEF BookInv, NoFlightIsNone
<1>5. OverIsQuiet'
  BY NothingIsTyped DEF Serve, history, BookInv, OverIsQuiet, Flying, NoFlight
<1>. QED  BY <1>1, <1>3, <1>4, <1>5 DEF BookInv

LEMMA LoseBook == ASSUME BookInv, TypeOK', NEW t \in Tabs, Lose(t) PROVE BookInv' /\ Lasting
<1>1. \A u \in Tabs : /\ flight'[u].token = flight[u].token
                      /\ u # t => flight'[u] = flight[u]
                      /\ u = t => flight'[u].at = "refused" /\ flight[u].at \in {"sent", "granted"}
  BY DEF Lose, BookInv, TypeOK, FlightState
<1>2. TokensAreIssued'
  BY <1>1, NumbersTyped, ServerStays DEF Lose, BookInv, TokensAreIssued
<1>3. NoFlightIsNone'
  BY <1>1 DEF BookInv, NoFlightIsNone
<1>4. OverIsQuiet'
  BY DEF Lose, BookInv, OverIsQuiet, Flying, NoFlight
<1>. QED  BY <1>2, <1>3, <1>4, ServerStays, SeenIsPair DEF Lose, BookInv, Lasting

LEMMA StrayBook ==
  ASSUME BookInv, TypeOK', NEW p \in Pair, ServeStray(p) PROVE BookInv' /\ Lasting
<1>1. /\ \/ CanRotate(p) /\ pair' = Rotation(p).pairs /\ issued' = Rotation(p).number
         \/ IsReuse(p) /\ pair' = Burned(p) /\ UNCHANGED issued
         \/ UNCHANGED <<pair, issued>>
  BY DEF ServeStray, CanRotate, IsReuse
<1>2. UNCHANGED <<store, flight, torn, over>> /\ strays' \subseteq strays
  BY DEF ServeStray, client, history
<1>3. SessionsAreIssued' /\ SessionsHaveOneUser' /\ Seen \subseteq Seen' /\ Lasting
  <2>1. CASE CanRotate(p) /\ pair' = Rotation(p).pairs /\ issued' = Rotation(p).number
    BY <1>2, <2>1, RotationKeeps, SeenIsPair DEF BookInv, Lasting, Seen
  <2>2. CASE IsReuse(p) /\ pair' = Burned(p) /\ UNCHANGED issued
    BY <1>2, <2>2, BurnKeeps, SeenIsPair DEF BookInv, Lasting, Seen
  <2>3. CASE UNCHANGED <<pair, issued>>
    BY <1>2, <2>3, ServerStays, SeenIsPair DEF BookInv, Lasting
  <2>. QED  BY <1>1, <2>1, <2>2, <2>3
<1>4. TokensAreIssued' /\ NoFlightIsNone' /\ OverIsQuiet'
  BY <1>2, <1>3 DEF BookInv, TokensAreIssued, NoFlightIsNone, OverIsQuiet, Flying
<1>. QED  BY <1>3, <1>4 DEF BookInv

LEMMA FlightEndsBook ==
  ASSUME BookInv, TypeOK', NEW t \in Tabs, FlightEnds(t), flight[t].at = "granted" => flight[t].got \in Seen
  PROVE  BookInv' /\ Lasting
<1>1. \A u \in Tabs : flight'[u] = IF u = t THEN NoFlight ELSE flight[u]
  BY DEF FlightEnds, BookInv, TypeOK
<1>2. TokensAreIssued' /\ NoFlightIsNone'
  BY <1>1, ServerStays DEF FlightEnds, Replaced, server, BookInv, TokensAreIssued, NoFlightIsNone, NoFlight
<1>3. OverIsQuiet'
  <2>1. t \in Flying
    BY DEF FlightEnds, Flying, NoFlight
  <2>2. ~over
    BY <2>1 DEF BookInv, OverIsQuiet
  <2>. DEFINE ok == flight[t].at = "granted"
             ends(kind) == ~ok /\ \E s \in Resumed(t, ok) : call[t][s].kind = kind
  <2>3. over' = (over \/ (ends("logout") /\ Flying = {t}))
    BY Zenon DEF FlightEnds
  <2>4. over' => ~ok /\ Flying = {t}
    BY <2>2, <2>3, Zenon
  <2>5. ~ok => store' = None
    BY DEF FlightEnds, Replaced
  <2>6. Flying = {t} => Flying' = {}
    BY <1>1 DEF Flying
  <2>. QED  BY <2>4, <2>5, <2>6 DEF OverIsQuiet
<1>. QED  BY <1>2, <1>3, ServerStays, SeenIsPair DEF FlightEnds, server, BookInv, Lasting

LEMMA UnreadableBook ==
  ASSUME BookInv, TypeOK', NEW t \in Tabs, AnswerUnreadable(t) PROVE BookInv' /\ Lasting
<1>1. \A u \in Tabs : flight'[u] = IF u = t THEN NoFlight ELSE flight[u]
  BY DEF AnswerUnreadable, BookInv, TypeOK
<1>2. UNCHANGED <<store, pair, issued, strays, over>> /\ torn \subseteq torn'
  BY DEF AnswerUnreadable, server
<1>3. TokensAreIssued' /\ NoFlightIsNone'
  BY <1>1, <1>2, ServerStays DEF BookInv, TokensAreIssued, NoFlightIsNone, NoFlight
<1>4. OverIsQuiet'
  BY <1>1, <1>2 DEF BookInv, OverIsQuiet, Flying
<1>. QED  BY <1>2, <1>3, <1>4, ServerStays, SeenIsPair DEF BookInv, Lasting

(***************************************************************************)
(* How refreshes and tokens stand to each other.                           *)
(***************************************************************************)
Torn(p) == pair[p].session \in torn
Good(p) == pair[p].state = "live" \/ Torn(p)

StraysAreTorn == \A p \in strays : Torn(p)

SentTokensAreLive ==
  \A t \in Tabs : flight[t].at = "sent" /\ flight[t].token \in Pair => Good(flight[t].token)

OneFlightPerToken ==
  \A t, u \in Tabs :
     t # u /\ flight[t].token = flight[u].token /\ flight[t].token \in Pair => Torn(flight[t].token)

\* The pair that a refresh brings is good, of the same session, and known to nobody else.
GotIsNew ==
  \A t \in Tabs : flight[t].at = "granted" =>
     /\ flight[t].token \in Seen /\ flight[t].got \in Seen /\ Good(flight[t].got)
     /\ pair[flight[t].got].session = pair[flight[t].token].session
     /\ store # flight[t].got
     /\ \A u \in Tabs : /\ flight[u].token # flight[t].got
                        /\ u # t /\ flight[u].at = "granted" => flight[u].got # flight[t].got

RefreshInv ==
  /\ StraysAreTorn /\ SentTokensAreLive /\ OneFlightPerToken /\ GotIsNew
  /\ StoredTokensWork /\ HonestSessionsSurvive

LEMMA TornLasts == ASSUME TypeOK, Lasting, NEW p \in Seen, Torn(p) PROVE Torn(p)'
  BY DEF Lasting, Torn

LEMMA SeenLasts == ASSUME TypeOK, Lasting, NEW p \in Seen PROVE p \in Seen'
  BY SeenIsPair DEF Lasting, Seen

LEMMA PairStays ==
  ASSUME UNCHANGED pair, torn \subseteq torn', HonestSessionsSurvive
  PROVE  HonestSessionsSurvive' /\ \A p \in Seen : Good(p) => Good(p)'
  BY DEF HonestSessionsSurvive, Good, Torn

\* Any step but the start of a refresh and its success.
LEMMA NoNewRefresh ==
  ASSUME BookInv, BookInv', Lasting, RefreshInv,
         \A p \in Seen : Good(p) => Good(p)',
         \A u \in Tabs : \/ flight'[u] = flight[u] \/ flight'[u] = NoFlight
                         \/ flight'[u].token = flight[u].token /\ flight'[u].at = "refused",
         \A u \in Tabs : flight'[u].at = "granted" => store' # flight[u].got,
         StraysAreTorn', StoredTokensWork', HonestSessionsSurvive'
  PROVE  RefreshInv'
<1>1. \A u \in Tabs : flight[u].token \in Pair => flight[u].token \in Seen
  BY NumbersTyped DEF BookInv, TokensAreIssued
<1>2. \A u \in Tabs : flight'[u].token \in Pair => flight'[u].token = flight[u].token
  BY NumbersTyped DEF NoFlight
<1>3. \A u \in Tabs : flight'[u].at \in {"sent", "granted"} => flight'[u] = flight[u]
  BY DEF NoFlight
<1>4. SentTokensAreLive'
  BY <1>1, <1>2, <1>3 DEF RefreshInv, SentTokensAreLive
<1>5. OneFlightPerToken'
  BY <1>1, <1>2, TornLasts DEF BookInv, RefreshInv, OneFlightPerToken
<1>6. GotIsNew'
  <2>. SUFFICES ASSUME NEW t \in Tabs, flight'[t].at = "granted"
                PROVE  (/\ flight[t].token \in Seen /\ flight[t].got \in Seen /\ Good(flight[t].got)
                        /\ pair[flight[t].got].session = pair[flight[t].token].session
                        /\ store # flight[t].got
                        /\ \A u \in Tabs : /\ flight[u].token # flight[t].got
                                           /\ u # t /\ flight[u].at = "granted"
                                                 => flight[u].got # flight[t].got)'
    BY DEF GotIsNew
  <2>1. flight'[t] = flight[t]
    BY <1>3
  <2>. DEFINE f == flight[t]
  <2>2. /\ f.token \in Seen /\ f.got \in Seen /\ Good(f.got)
        /\ pair[f.got].session = pair[f.token].session
        /\ \A u \in Tabs : /\ flight[u].token # f.got
                           /\ u # t /\ flight[u].at = "granted" => flight[u].got # f.got
    BY <2>1 DEF RefreshInv, GotIsNew
  <2>3. Good(flight[t].got)' /\ pair'[f.got].session = pair'[f.token].session
    BY <2>1, <2>2 DEF Lasting, Good, Torn
  <2>4. f.token \in Seen' /\ f.got \in Seen' /\ f.got \in Pair
    BY <2>2, SeenLasts, SeenIsPair DEF BookInv
  <2>5. \A u \in Tabs : flight'[u].token # f.got
    BY <1>2, <2>2, <2>4
  <2>6. \A u \in Tabs : u # t /\ flight'[u].at = "granted" => flight'[u].got # f.got
    BY <1>3, <2>2
  <2>. QED  BY <2>1, <2>3, <2>4, <2>5, <2>6
<1>. QED  BY <1>4, <1>5, <1>6 DEF RefreshInv

LEMMA LoadRefresh ==
  ASSUME BookInv, BookInv', Lasting, RefreshInv, NEW t \in Tabs, NEW page, Load(t, page)
  PROVE  RefreshInv'
<1>1. torn \subseteq torn' /\ UNCHANGED <<pair, issued, store>>
  BY DEF Load
<1>2. HonestSessionsSurvive' /\ \A p \in Seen : Good(p) => Good(p)'
  BY <1>1, PairStays DEF RefreshInv
<1>3. \A u \in Tabs : flight'[u] = IF u = t THEN NoFlight ELSE flight[u]
  BY DEF Load, BookInv, TypeOK
<1>4. flight[t].token \in Pair => pair[flight[t].token].session \in torn'
  BY DEF Load, Session
<1>5. StraysAreTorn'
  BY <1>1, <1>4 DEF Load, RefreshInv, StraysAreTorn, Torn
<1>6. StoredTokensWork'
  BY <1>1, <1>3, <1>4 DEF RefreshInv, StoredTokensWork
<1>7. \A u \in Tabs : flight'[u].at = "granted" => store' # flight[u].got
  BY <1>1, <1>3 DEF RefreshInv, GotIsNew, NoFlight
<1>. QED  BY <1>2, <1>3, <1>5, <1>6, <1>7, NoNewRefresh

\* The pair that was granted is lost, and its session torn.
LEMMA UnreadableRefresh ==
  ASSUME BookInv, BookInv', Lasting, RefreshInv, NEW t \in Tabs, AnswerUnreadable(t) PROVE RefreshInv'
<1>1. torn \subseteq torn' /\ UNCHANGED <<pair, issued, store, strays>>
  BY DEF AnswerUnreadable, server
<1>2. HonestSessionsSurvive' /\ \A p \in Seen : Good(p) => Good(p)'
  BY <1>1, PairStays DEF RefreshInv
<1>3. \A u \in Tabs : flight'[u] = IF u = t THEN NoFlight ELSE flight[u]
  BY DEF AnswerUnreadable, BookInv, TypeOK
<1>4. flight[t].token \in Pair => pair[flight[t].token].session \in torn'
  BY DEF AnswerUnreadable, Session
<1>5. StraysAreTorn'
  BY <1>1 DEF RefreshInv, StraysAreTorn, Torn
<1>6. StoredTokensWork'
  BY <1>1, <1>3, <1>4 DEF RefreshInv, StoredTokensWork
<1>7. \A u \in Tabs : flight'[u].at = "granted" => store' # flight[u].got
  BY <1>1, <1>3 DEF RefreshInv, GotIsNew, NoFlight
<1>. QED  BY <1>2, <1>3, <1>5, <1>6, <1>7, NoNewRefresh

\* Steps that leave the refreshes and the server alone.
LEMMA QuietRefresh ==
  ASSUME BookInv, BookInv', Lasting, RefreshInv, store' \in {None, Mock, store},
         UNCHANGED <<flight, pair, issued, strays, torn>>
  PROVE  RefreshInv'
<1>1. HonestSessionsSurvive' /\ \A p \in Seen : Good(p) => Good(p)'
  BY PairStays DEF RefreshInv
<1>2. StraysAreTorn' /\ StoredTokensWork'
  BY NumbersTyped DEF RefreshInv, StraysAreTorn, StoredTokensWork, Torn
<1>3. \A u \in Tabs : flight'[u].at = "granted" => store' # flight[u].got
  BY NumbersTyped, SeenIsPair DEF RefreshInv, GotIsNew, BookInv
<1>. QED  BY <1>1, <1>2, <1>3, NoNewRefresh

LEMMA LoginRefresh ==
  ASSUME BookInv, BookInv', Lasting, RefreshInv, NEW t \in Tabs, NEW s \in Slots, NEW u \in Users,
         LoginGranted(t, s, u)
  PROVE  RefreshInv'
<1>. DEFINE n == issued + 1
<1>1. n \in Pair /\ n \notin Seen /\ Seen \subseteq Pair
  BY ConfigAssumption DEF LoginGranted, BookInv, TypeOK, Pair, Seen
<1>2. UNCHANGED <<flight, strays, torn>> /\ store' = n
  BY DEF LoginGranted, Taken
<1>3. \A p \in Pair : pair'[p] = IF p = n THEN Issue(u, n) ELSE pair[p]
  BY <1>1 DEF LoginGranted, BookInv, TypeOK
<1>4. pair'[n].state = "live"
  BY <1>1, <1>3 DEF Issue
<1>. HIDE DEF n
<1>5. \A p \in Seen : pair'[p] = pair[p]
  BY <1>1, <1>3
<1>6. \A p \in Seen : Good(p) => Good(p)'
  BY <1>2, <1>5 DEF Good, Torn
<1>7. HonestSessionsSurvive'
  BY <1>2, <1>3, <1>4 DEF RefreshInv, HonestSessionsSurvive
<1>8. StraysAreTorn'
  BY <1>2, <1>5 DEF BookInv, TokensAreIssued, RefreshInv, StraysAreTorn, Torn
<1>9. StoredTokensWork'
  BY <1>2, <1>4 DEF StoredTokensWork
<1>10. \A v \in Tabs : flight'[v].at = "granted" => store' # flight[v].got
  BY <1>1, <1>2 DEF RefreshInv, GotIsNew
<1>. QED  BY <1>2, <1>6, <1>7, <1>8, <1>9, <1>10, NoNewRefresh

LEMMA LoseRefresh ==
  ASSUME BookInv, BookInv', Lasting, RefreshInv, NEW t \in Tabs, Lose(t) PROVE RefreshInv'
<1>1. torn \subseteq torn' /\ UNCHANGED <<pair, issued, store>>
  BY DEF Lose
<1>2. HonestSessionsSurvive' /\ \A p \in Seen : Good(p) => Good(p)'
  BY <1>1, PairStays DEF RefreshInv
<1>3. \A u \in Tabs : \/ flight'[u] = flight[u] /\ u # t
                      \/ flight'[u].token = flight[u].token /\ flight'[u].at = "refused"
  BY DEF Lose, BookInv, TypeOK, FlightState
<1>4. flight[t].token \in Pair => pair[flight[t].token].session \in torn'
  BY DEF Lose, Session
<1>5. StraysAreTorn'
  BY <1>1, <1>4 DEF Lose, RefreshInv, StraysAreTorn, Torn
<1>6. StoredTokensWork'
  <2>. SUFFICES ASSUME store \in Pair, pair[store].state # "live", pair[store].session \notin torn'
                PROVE  \E u \in Tabs : flight'[u].token = store /\ flight'[u].at = "granted"
    BY <1>1 DEF StoredTokensWork
  <2>1. PICK u \in Tabs : flight[u].token = store /\ flight[u].at = "granted"
    BY <1>1 DEF RefreshInv, StoredTokensWork
  <2>2. u # t
    BY <1>4, <2>1
  <2>3. flight'[u] = flight[u]
    BY <2>2 DEF Lose, BookInv, TypeOK
  <2>. QED  BY <2>1, <2>3
<1>7. \A u \in Tabs : flight'[u].at = "granted" => store' # flight[u].got
  BY <1>1, <1>3 DEF RefreshInv, GotIsNew
<1>. QED  BY <1>2, <1>3, <1>5, <1>6, <1>7, NoNewRefresh

\* The server rotates a token, respectively burns a session that is torn already.
LEMMA RotationRefresh ==
  ASSUME BookInv, BookInv', RefreshInv, NEW token, CanRotate(token), torn' = torn,
         pair' = Rotation(token).pairs, issued' = Rotation(token).number
  PROVE  /\ HonestSessionsSurvive' /\ Good(issued)'
         /\ \A p \in Seen : /\ Torn(p) => Torn(p)'
                            /\ Good(p) => Good(p)' \/ p = token
<1>1. /\ token \in Seen /\ issued' = issued + 1 /\ issued' \in Pair
      /\ \A p \in Seen : /\ pair'[p].session = pair[p].session
                         /\ pair'[p].state = IF p = token THEN "rotated" ELSE pair[p].state
      /\ pair'[issued'] = Issue(pair[token].user, pair[token].session)
  BY RotationKeeps DEF BookInv
<1>2. Seen' = Seen \cup {issued'} /\ Seen \subseteq Pair
  BY <1>1, SeenIsPair DEF BookInv, Seen
<1>3. pair'[issued'].state = "live"
  BY <1>1 DEF Issue
<1>4. \A p \in Seen : /\ Torn(p) => Torn(p)'
                      /\ Good(p) => Good(p)' \/ p = token
  BY <1>1 DEF Good, Torn
<1>5. HonestSessionsSurvive'
  BY <1>1, <1>2, <1>3 DEF BookInv, SessionsAreIssued, RefreshInv, HonestSessionsSurvive
<1>6. Good(issued)'
  BY <1>3 DEF Good
<1>. QED  BY <1>4, <1>5, <1>6

LEMMA BurnRefresh ==
  ASSUME BookInv, RefreshInv, NEW token \in Seen, Torn(token), torn' = torn, UNCHANGED issued,
         \/ IsReuse(token) /\ pair' = Burned(token)
         \/ UNCHANGED pair
  PROVE  /\ HonestSessionsSurvive'
         /\ \A p \in Seen : (Torn(p) => Torn(p)') /\ (Good(p) => Good(p)')
<1>1. CASE UNCHANGED pair
  BY <1>1 DEF RefreshInv, HonestSessionsSurvive, Good, Torn
<1>2. CASE IsReuse(token) /\ pair' = Burned(token)
  <2>1. \A p \in Pair : /\ pair'[p].session = pair[p].session
                        /\ \/ pair'[p].state = pair[p].state
                           \/ pair[p].session = pair[token].session
    BY <1>2, BurnKeeps DEF BookInv
  <2>. QED  BY <2>1, SeenIsPair DEF RefreshInv, HonestSessionsSurvive, Good, Torn, BookInv
<1>. QED  BY <1>1, <1>2

LEMMA StrayRefresh ==
  ASSUME BookInv, BookInv', Lasting, RefreshInv, NEW p \in Pair, ServeStray(p) PROVE RefreshInv'
<1>1. /\ p \in strays
      /\ \/ CanRotate(p) /\ pair' = Rotation(p).pairs /\ issued' = Rotation(p).number
         \/ UNCHANGED issued /\ ((IsReuse(p) /\ pair' = Burned(p)) \/ UNCHANGED pair)
  BY DEF ServeStray, CanRotate, IsReuse
<1>2. UNCHANGED <<store, flight, torn>> /\ strays' \subseteq strays
  BY DEF ServeStray, client, history
<1>3. p \in Seen /\ Torn(p)
  BY <1>1 DEF BookInv, TokensAreIssued, RefreshInv, StraysAreTorn
<1>4. /\ HonestSessionsSurvive'
      /\ \A q \in Seen : (Torn(q) => Torn(q)') /\ (Good(q) => Good(q)')
  <2>1. CASE CanRotate(p) /\ pair' = Rotation(p).pairs /\ issued' = Rotation(p).number
    BY <1>2, <1>3, <2>1, RotationRefresh DEF Good
  <2>2. CASE UNCHANGED issued /\ ((IsReuse(p) /\ pair' = Burned(p)) \/ UNCHANGED pair)
    BY <1>2, <1>3, <2>2, BurnRefresh
  <2>. QED  BY <1>1, <2>1, <2>2
<1>5. StraysAreTorn'
  BY <1>2, <1>4 DEF BookInv, TokensAreIssued, RefreshInv, StraysAreTorn, Torn
<1>6. store \in Pair => store \in Seen
  BY NumbersTyped DEF BookInv, TokensAreIssued
<1>7. StoredTokensWork'
  BY <1>2, <1>4, <1>6 DEF RefreshInv, StoredTokensWork, Good, Torn
<1>8. \A u \in Tabs : flight'[u].at = "granted" => store' # flight[u].got
  BY <1>2 DEF RefreshInv, GotIsNew
<1>. QED  BY <1>2, <1>4, <1>5, <1>7, <1>8, NoNewRefresh

\* The pair that was granted is stored, and the refresh is over.
LEMMA FlightEndsRefresh ==
  ASSUME BookInv, BookInv', Lasting, RefreshInv, NEW t \in Tabs, FlightEnds(t) PROVE RefreshInv'
<1>1. UNCHANGED <<pair, issued, strays, torn>>
  BY DEF FlightEnds, server
<1>2. HonestSessionsSurvive' /\ \A p \in Seen : Good(p) => Good(p)'
  BY <1>1, PairStays DEF RefreshInv
<1>3. \A u \in Tabs : flight'[u] = IF u = t THEN NoFlight ELSE flight[u]
  BY DEF FlightEnds, BookInv, TypeOK
<1>4. StraysAreTorn'
  BY <1>1 DEF RefreshInv, StraysAreTorn, Torn
<1>5. CASE flight[t].at = "granted"
  <2>1. store' = flight[t].got /\ Good(flight[t].got)
    BY <1>5 DEF FlightEnds, Replaced, RefreshInv, GotIsNew
  <2>2. StoredTokensWork'
    BY <1>1, <2>1 DEF StoredTokensWork, Good, Torn
  <2>3. \A u \in Tabs : flight'[u].at = "granted" => store' # flight[u].got
    BY <1>3, <1>5, <2>1 DEF RefreshInv, GotIsNew, NoFlight
  <2>. QED  BY <1>2, <1>3, <1>4, <2>2, <2>3, NoNewRefresh
<1>6. CASE flight[t].at # "granted"
  <2>1. store' = None
    BY <1>6 DEF FlightEnds, Replaced
  <2>2. StoredTokensWork'
    BY <2>1, NumbersTyped DEF StoredTokensWork
  <2>3. \A u \in Tabs : flight'[u].at = "granted" => store' # flight[u].got
    BY <1>3, <2>1, NumbersTyped, SeenIsPair DEF RefreshInv, GotIsNew, NoFlight, BookInv
  <2>. QED  BY <1>2, <1>3, <1>4, <2>2, <2>3, NoNewRefresh
<1>. QED  BY <1>5, <1>6

\* A refresh starts with what the store holds.
LEMMA AwaitRefreshRefresh ==
  ASSUME BookInv, BookInv', Lasting, RefreshInv, NEW t \in Tabs, NEW s \in Slots, AwaitRefresh(t, s)
  PROVE  RefreshInv'
<1>1. CASE UNCHANGED <<flight, torn>>
  BY <1>1, QuietRefresh DEF AwaitRefresh, server
<1>2. CASE ~UNCHANGED <<flight, torn>>
  <2>1. /\ UNCHANGED <<store, pair, issued, strays>> /\ store # None /\ flight[t] = NoFlight
        /\ flight' = [flight EXCEPT ![t] = [at |-> "sent", token |-> store, got |-> 0]]
        /\ torn' = IF \E u \in Tabs \ {t} : flight[u].token = store
                   THEN torn \cup Session(store) ELSE torn
    BY <1>2 DEF AwaitRefresh, server, Unshared
  <2>2. \A u \in Tabs : /\ u # t => flight'[u] = flight[u]
                        /\ u = t => flight'[u].at = "sent" /\ flight'[u].token = store
    BY <2>1 DEF BookInv, TypeOK
  <2>3. torn \subseteq torn'
    BY <2>1
  <2>4. HonestSessionsSurvive' /\ \A p \in Seen : Good(p) => Good(p)'
    BY <2>1, <2>3, PairStays DEF RefreshInv
  <2>5. store \in Pair => store \in Seen
    BY NumbersTyped DEF BookInv, TokensAreIssued
  <2>6. store \in Pair => Good(store)' \/ \E u \in Tabs \ {t} : flight[u].token = store
    BY <2>1, <2>4, <2>5 DEF RefreshInv, StoredTokensWork, Good, Torn, NoFlight
  <2>7. store \in Pair /\ (\E u \in Tabs \ {t} : flight[u].token = store) => pair[store].session \in torn'
    BY <2>1 DEF Session
  <2>8. store \in Pair => pair'[store].state = "live" \/ pair'[store].session \in torn'
    BY <2>1, <2>6, <2>7 DEF Good, Torn
  <2>9. StraysAreTorn'
    BY <2>1, <2>3 DEF RefreshInv, StraysAreTorn, Torn
  <2>10. StoredTokensWork'
    BY <2>1, <2>8 DEF StoredTokensWork
  <2>11. SentTokensAreLive'
    BY <2>1, <2>2, <2>3, <2>8 DEF RefreshInv, SentTokensAreLive, Good, Torn
  <2>12. OneFlightPerToken'
    BY <2>1, <2>2, <2>3, <2>7 DEF RefreshInv, OneFlightPerToken, Torn
  <2>13. GotIsNew'
    BY <2>1, <2>2, <2>3 DEF RefreshInv, GotIsNew, Good, Torn, Seen
  <2>. QED  BY <2>4, <2>9, <2>10, <2>11, <2>12, <2>13 DEF RefreshInv
<1>. QED  BY <1>1, <1>2

LEMMA ServeRefresh ==
  ASSUME BookInv, BookInv', Lasting, RefreshInv, NEW t \in Tabs, Serve(t) PROVE RefreshInv'
<1>. DEFINE token == flight[t].token
<1>1. UNCHANGED <<store, strays, torn>> /\ flight[t].at = "sent"
  BY DEF Serve, history
<1>2. CASE /\ CanRotate(token)
           /\ pair' = Rotation(token).pairs /\ issued' = Rotation(token).number
           /\ flight' = [flight EXCEPT ![t].at = "granted", ![t].got = Rotation(token).number]
  <2>1. /\ token \in Seen /\ issued' = issued + 1 /\ issued' \in Pair
        /\ \A p \in Seen : pair'[p].session = pair[p].session
        /\ pair'[issued'] = Issue(pair[token].user, pair[token].session)
    BY <1>2, RotationKeeps DEF BookInv
  <2>2. issued' \notin Seen \cup {None, Mock} /\ Seen \subseteq Seen' /\ issued' \in Seen' /\ Seen \subseteq Pair
    BY <2>1, SeenIsPair, NumbersTyped DEF BookInv, Seen
  <2>3. /\ HonestSessionsSurvive' /\ Good(issued)'
        /\ \A p \in Seen : (Torn(p) => Torn(p)') /\ (Good(p) => Good(p)' \/ p = token)
    BY <1>1, <1>2, RotationRefresh
  <2>4. \A u \in Tabs : /\ u # t => flight'[u] = flight[u]
                        /\ flight'[u].token = flight[u].token
                        /\ u = t => flight'[u].at = "granted" /\ flight'[u].got = issued'
    BY <1>2, <2>1 DEF BookInv, TypeOK, FlightState, Rotation
  <2>5. StraysAreTorn'
    BY <1>1, <2>3 DEF BookInv, TokensAreIssued, RefreshInv, StraysAreTorn, Torn
  <2>6. \A u \in Tabs : flight[u].token \in Pair => flight[u].token \in Seen
    BY NumbersTyped DEF BookInv, TokensAreIssued
  <2>7. OneFlightPerToken'
    BY <2>3, <2>4, <2>6 DEF RefreshInv, OneFlightPerToken, Torn
  <2>8. SentTokensAreLive'
    <3>. SUFFICES ASSUME NEW u \in Tabs, flight'[u].at = "sent", flight'[u].token \in Pair
                  PROVE  Good(flight[u].token)'
      BY DEF SentTokensAreLive
    <3>1. u # t /\ flight'[u] = flight[u] /\ flight[u].token \in Seen
      BY <2>4, <2>6
    <3>2. Good(flight[u].token)
      BY <3>1 DEF RefreshInv, SentTokensAreLive
    <3>3. flight[u].token = token => Torn(flight[u].token)
      BY <3>1 DEF RefreshInv, OneFlightPerToken
    <3>4. pair'[flight[u].token].state = "live" \/ pair'[flight[u].token].session \in torn'
      BY <2>3, <3>1, <3>2, <3>3 DEF Good, Torn
    <3>. QED  BY <3>1, <3>4 DEF Good, Torn
  <2>9. StoredTokensWork'
    <3>1. store \in Pair => store \in Seen
      BY NumbersTyped DEF BookInv, TokensAreIssued
    <3>2. CASE store = token
      BY <1>1, <2>4, <3>2 DEF StoredTokensWork
    <3>3. CASE store # token
      BY <1>1, <2>3, <2>4, <3>1, <3>3 DEF RefreshInv, StoredTokensWork, Good, Torn
    <3>. QED  BY <3>2, <3>3
  <2>10. ASSUME NEW u \in Tabs, u # t, flight[u].at = "granted"
         PROVE  /\ flight[u].token \in Seen /\ flight[u].got \in Seen
                /\ pair'[flight[u].got].state = "live" \/ pair'[flight[u].got].session \in torn'
                /\ pair'[flight[u].got].session = pair'[flight[u].token].session
                /\ store' # flight[u].got
                /\ \A v \in Tabs : /\ flight[v].token # flight[u].got
                                   /\ v # u /\ flight[v].at = "granted" => flight[v].got # flight[u].got
    <3>1. /\ flight[u].token \in Seen /\ flight[u].got \in Seen /\ Good(flight[u].got)
          /\ pair[flight[u].got].session = pair[flight[u].token].session
          /\ store # flight[u].got
          /\ \A v \in Tabs : /\ flight[v].token # flight[u].got
                             /\ v # u /\ flight[v].at = "granted" => flight[v].got # flight[u].got
      BY <2>10 DEF RefreshInv, GotIsNew
    <3>2. flight[u].got # token
      BY <3>1
    <3>. QED  BY <1>1, <2>1, <2>3, <3>1, <3>2 DEF Good, Torn
  <2>11. /\ token \in Seen' /\ issued' \in Seen' /\ Good(issued)'
         /\ pair'[issued'].session = pair'[token].session
         /\ store' # issued' /\ \A u \in Tabs : flight[u].token # issued'
    <3>1. store # issued' /\ \A u \in Tabs : flight[u].token # issued'
      BY <2>2 DEF BookInv, TokensAreIssued
    <3>2. pair'[issued'].session = pair[token].session
      BY <2>1 DEF Issue
    <3>. QED  BY <1>1, <2>1, <2>2, <2>3, <3>1, <3>2
  <2>12. GotIsNew'
    BY <2>2, <2>4, <2>10, <2>11 DEF GotIsNew, Good, Torn
  <2>. QED  BY <2>3, <2>5, <2>7, <2>8, <2>9, <2>12 DEF RefreshInv
<1>3. CASE /\ UNCHANGED issued /\ ((IsReuse(token) /\ pair' = Burned(token)) \/ UNCHANGED pair)
           /\ flight' = [flight EXCEPT ![t].at = "refused"]
  <2>1. \A u \in Tabs : \/ flight'[u] = flight[u] /\ u # t
                        \/ flight'[u].token = flight[u].token /\ flight'[u].at = "refused"
    BY <1>3 DEF BookInv, TypeOK, FlightState
  <2>2. IsReuse(token) => token \in Seen /\ Torn(token)
    BY <1>1 DEF IsReuse, BookInv, SessionsAreIssued, RefreshInv, SentTokensAreLive, Good
  <2>3. /\ HonestSessionsSurvive'
        /\ \A p \in Seen : (Torn(p) => Torn(p)') /\ (Good(p) => Good(p)')
    <3>1. CASE UNCHANGED pair
      BY <1>1, <3>1 DEF RefreshInv, HonestSessionsSurvive, Good, Torn
    <3>2. CASE IsReuse(token) /\ pair' = Burned(token)
      BY <1>1, <1>3, <2>2, <3>2, BurnRefresh
    <3>. QED  BY <1>3, <3>1, <3>2
  <2>4. StraysAreTorn'
    BY <1>1, <2>3 DEF BookInv, TokensAreIssued, RefreshInv, StraysAreTorn, Torn
  <2>5. store \in Pair => store \in Seen
    BY NumbersTyped DEF BookInv, TokensAreIssued
  <2>6. \A u \in Tabs : u # t => flight'[u] = flight[u]
    BY <1>3 DEF BookInv, TypeOK
  <2>7. StoredTokensWork'
    BY <1>1, <2>3, <2>5, <2>6 DEF RefreshInv, StoredTokensWork, Good, Torn
  <2>8. \A u \in Tabs : flight'[u].at = "granted" => store' # flight[u].got
    BY <1>1, <2>1 DEF RefreshInv, GotIsNew
  <2>. QED  BY <2>1, <2>3, <2>4, <2>7, <2>8, NoNewRefresh
<1>. QED  BY <1>2, <1>3 DEF Serve

\* One step of the browser, the network or the server.
LEMMA Step ==
  ASSUME BookInv, RefreshInv, [Next]_vars PROVE BookInv' /\ Lasting /\ RefreshInv'
<1>1. TypeOK'
  BY NextTypeOK DEF BookInv
<1>2. ASSUME store' \in {None, store}, UNCHANGED <<flight, pair, issued, strays, torn>>,
             over' => over \/ (store' = None /\ Flying = {})
      PROVE  BookInv' /\ Lasting /\ RefreshInv'
  <2>1. BookInv' /\ Lasting
    BY <1>1, <1>2, QuietBook
  <2>2. store' \in {None, Mock, store}
    BY <1>2
  <2>. QED  BY <1>2, <2>1, <2>2, QuietRefresh
<1>3. ASSUME NEW t \in Tabs, UserActs(t) PROVE BookInv' /\ Lasting /\ RefreshInv'
  <2>1. ASSUME NEW page, Load(t, page) PROVE BookInv' /\ Lasting /\ RefreshInv'
    BY <1>1, <2>1, LoadBook, LoadRefresh
  <2>2. ASSUME NEW s, SubmitLogin(t, s) \/ \E kind \in {"data", "logout"} : Begin(t, s, kind)
        PROVE  BookInv' /\ Lasting /\ RefreshInv'
    BY <1>2, <2>2 DEF SubmitLogin, Begin, server, history
  <2>. QED  BY <1>3, <2>1, <2>2 DEF UserActs
<1>4. ASSUME NEW t \in Tabs, Restore(t) PROVE BookInv' /\ Lasting /\ RefreshInv'
  BY <1>2, <1>4 DEF Restore, server, history
<1>5. ASSUME NEW t \in Tabs, Refresh(t) PROVE BookInv' /\ Lasting /\ RefreshInv'
  <2>1. CASE FlightEnds(t)
    <3>1. flight[t].at = "granted" => flight[t].got \in Seen
      BY DEF RefreshInv, GotIsNew
    <3>. QED  BY <1>1, <2>1, <3>1, FlightEndsBook, FlightEndsRefresh
  <2>. QED  BY <1>1, <1>5, <2>1, ServeBook, ServeRefresh, LoseBook, LoseRefresh,
          UnreadableBook, UnreadableRefresh DEF Refresh
<1>6. ASSUME NEW t \in Tabs, NEW s \in Slots, Answer(t, s) PROVE BookInv' /\ Lasting /\ RefreshInv'
  <2>1. CASE Granted(t, s)
    BY <1>2, <2>1 DEF Granted, server, history
  <2>2. CASE Failed(t, s)
    <3>1. store' \in {None, store} /\ UNCHANGED <<flight, pair, issued, strays, torn>>
      BY <2>2 DEF Failed, Fail, Kept, server
    <3>2. CASE call[t][s].kind = "logout"
      <4>1. over' = (Flying = {}) /\ store' = None
        BY <2>2, <3>2, Zenon DEF Failed, Fail, Kept
      <4>2. over' => Flying = {}
        BY <4>1, Zenon
      <4>. QED  BY <1>2, <3>1, <4>1, <4>2
    <3>3. CASE call[t][s].kind # "logout"
      <4>1. over' = over
        BY <2>2, <3>3, Zenon DEF Failed, Fail
      <4>. QED  BY <1>2, <3>1, <4>1
    <3>. QED  BY <3>2, <3>3
  <2>3. CASE AwaitRefresh(t, s)
    BY <1>1, <2>3, AwaitBook, AwaitRefreshRefresh
  <2>4. CASE LoginFallback(t, s)
    <3>1. store' = Mock /\ ~over' /\ UNCHANGED <<flight, pair, issued, strays, torn>>
      BY <2>4 DEF LoginFallback, server
    <3>2. TokensAreIssued' /\ NoFlightIsNone' /\ OverIsQuiet'
      BY <3>1, ServerStays DEF BookInv, TokensAreIssued, NoFlightIsNone, OverIsQuiet
    <3>3. BookInv' /\ Lasting
      BY <1>1, <3>1, <3>2, ServerStays, SeenIsPair DEF BookInv, Lasting
    <3>. QED  BY <3>1, <3>3, QuietRefresh
  <2>5. ASSUME NEW u \in Users, LoginGranted(t, s, u) PROVE BookInv' /\ Lasting /\ RefreshInv'
    BY <1>1, <2>5, LoginBook, LoginRefresh
  <2>. QED  BY <1>6, <2>1, <2>2, <2>3, <2>4, <2>5 DEF Answer
<1>7. ASSUME NEW p \in Pair, ServeStray(p) PROVE BookInv' /\ Lasting /\ RefreshInv'
  BY <1>1, <1>7, StrayBook, StrayRefresh
<1>8. CASE UNCHANGED vars
  BY <1>2, <1>8 DEF vars
<1>. QED  BY <1>3, <1>4, <1>5, <1>6, <1>7, <1>8 DEF Next

LEMMA InitInv == Init => BookInv /\ RefreshInv
<1>. SUFFICES ASSUME Init PROVE BookInv /\ RefreshInv
  OBVIOUS
<1>1. TypeOK /\ Seen = {} /\ Flying = {} /\ \A t \in Tabs : flight[t] = NoFlight
  <2>1. \A t \in Tabs : flight[t] = NoFlight
    BY DEF Init
  <2>2. Seen = {}
    BY DEF Init, Seen
  <2>. QED  BY <2>1, <2>2, InitTypeOK DEF Flying
<1>2. BookInv
  BY <1>1 DEF Init, BookInv, TokensAreIssued, SessionsAreIssued, SessionsHaveOneUser, NoFlightIsNone,
     OverIsQuiet, NoFlight
<1>3. RefreshInv
  BY <1>1, NumbersTyped DEF Init, RefreshInv, StraysAreTorn, SentTokensAreLive, OneFlightPerToken,
     GotIsNew, StoredTokensWork, HonestSessionsSurvive, NoFlight
<1>. QED  BY <1>2, <1>3

LEMMA Invariance == Spec => [](BookInv /\ RefreshInv)
<1>1. BookInv /\ RefreshInv /\ [Next]_vars => BookInv' /\ RefreshInv'
  BY Step
<1>. QED  BY <1>1, InitInv, PTL DEF Spec

\* Reuse detection burns no session of an honest browser, however its calls
\* interleave, unless an answer was lost or two tabs refreshed the same token.
THEOREM SessionsOfTheHonestSurvive == Spec => []HonestSessionsSurvive
<1>1. BookInv /\ RefreshInv => HonestSessionsSurvive
  BY DEF RefreshInv
<1>. QED  BY <1>1, Invariance, PTL

\* The tokens that the browser keeps are good for another refresh.
THEOREM StoredTokensAlwaysWork == Spec => []StoredTokensWork
<1>1. BookInv /\ RefreshInv => StoredTokensWork
  BY DEF RefreshInv
<1>. QED  BY <1>1, Invariance, PTL

\* No tokens come back after a logout that no refresh could undo.
THEOREM LogoutStaysFinal == Spec => []LogoutIsFinal
<1>1. BookInv /\ RefreshInv => LogoutIsFinal
  BY DEF BookInv, OverIsQuiet, LogoutIsFinal
<1>. QED  BY <1>1, Invariance, PTL

(***************************************************************************)
(* Whose tokens a tab works with, as long as no login crosses a refresh.   *)
(***************************************************************************)
Flies(t) == flight[t].at # "none"

\* Two tabs may refresh tokens of one torn session at once, or the tokens of a demo account.
Kin(a, b) ==
  \/ a = Mock /\ b = Mock
  \/ a \in Pair /\ b \in Pair /\ pair[a].session = pair[b].session /\ Torn(a)

Coherent ==
  crossed # Tabs =>
    /\ \A t, u \in Tabs : t # u /\ Flies(t) /\ Flies(u) => Kin(flight[t].token, flight[u].token)
    /\ \A t \in Tabs : Flies(t) => store \in {None, flight[t].token} \/ Kin(store, flight[t].token)

\* Only restore() asks who the user is.
MeIsRestore == \A t \in Tabs, s \in Slots : call[t][s].kind = "me" => s = "restore"

\* The tokens that are stored or under way are those of account u, if u is one.
Owned(u) ==
  u \in Users => /\ store \in Pair => pair[store].user = u
                 /\ \A t \in Tabs : flight[t].token \in Pair => pair[flight[t].token].user = u

TabsAreTheirs == \A t \in Tabs \ crossed : Owned(tab[t].user) /\ Owned(call[t]["restore"].as)

OwnerInv == Coherent /\ MeIsRestore /\ TabsAreTheirs

LEMMA TokensSeen ==
  ASSUME BookInv
  PROVE  /\ store \in Pair => store \in Seen
         /\ \A t \in Tabs : flight[t].token \in Pair => flight[t].token \in Seen /\ Flies(t)
         /\ Seen \subseteq Pair /\ "restore" \in Slots
<1>1. store \in Pair => store \in Seen
  BY NumbersTyped DEF BookInv, TokensAreIssued
<1>2. \A t \in Tabs : flight[t].token \in Pair => flight[t].token \in Seen
  BY NumbersTyped DEF BookInv, TokensAreIssued
<1>3. \A t \in Tabs : flight[t].token \in Pair => Flies(t)
  BY NumbersTyped DEF BookInv, NoFlightIsNone, NoFlight, Flies
<1>. QED  BY <1>1, <1>2, <1>3, SeenIsPair DEF BookInv, Slots

\* No refresh starts, and the store at most is emptied.
LEMMA CoherentKept ==
  ASSUME BookInv, Lasting, Coherent, crossed' = crossed, store' \in {None, store},
         \A u \in Tabs : flight'[u].at # "none" => Flies(u) /\ flight'[u].token = flight[u].token
  PROVE  Coherent'
<1>. SUFFICES ASSUME crossed # Tabs
              PROVE  (/\ \A t, u \in Tabs : t # u /\ Flies(t) /\ Flies(u)
                            => Kin(flight[t].token, flight[u].token)
                      /\ \A t \in Tabs : Flies(t)
                            => store \in {None, flight[t].token} \/ Kin(store, flight[t].token))'
  BY DEF Coherent
<1>1. ASSUME NEW t \in Tabs, NEW u \in Tabs, t # u, Flies(t)', Flies(u)'
      PROVE  Kin(flight[t].token, flight[u].token)'
  <2>1. Kin(flight[t].token, flight[u].token)
    BY <1>1 DEF Coherent, Flies
  <2>2. flight'[t].token = flight[t].token /\ flight'[u].token = flight[u].token
    BY <1>1 DEF Flies
  <2>. QED  BY <2>1, <2>2, NumbersTyped DEF Kin, Lasting, Torn, BookInv, TokensAreIssued
<1>2. ASSUME NEW t \in Tabs, Flies(t)'
      PROVE  (store \in {None, flight[t].token} \/ Kin(store, flight[t].token))'
  <2>1. store \in {None, flight[t].token} \/ Kin(store, flight[t].token)
    BY <1>2 DEF Coherent, Flies
  <2>2. flight'[t].token = flight[t].token
    BY <1>2 DEF Flies
  <2>. QED  BY <2>1, <2>2, NumbersTyped DEF Kin, Lasting, Torn, BookInv, TokensAreIssued
<1>. QED  BY <1>1, <1>2

LEMMA CoherentAlone == ASSUME Flying' = {} \/ crossed' = Tabs PROVE Coherent'
  BY DEF Coherent, Flying, Flies, NoFlight

LEMMA OwnerIsOwned == ASSUME BookInv, Coherent, crossed # Tabs PROVE Owned(Owner(store))
<1>1. CASE store \in Pair
  <2>. SUFFICES ASSUME NEW t \in Tabs, flight[t].token \in Pair
                PROVE  pair[flight[t].token].user = pair[store].user
    BY <1>1 DEF Owned, Owner
  <2>1. store = flight[t].token \/ pair[store].session = pair[flight[t].token].session
    BY <1>1, TokensSeen, NumbersTyped DEF Coherent, Kin
  <2>. QED  BY <1>1, <2>1, TokensSeen DEF BookInv, SessionsHaveOneUser
<1>2. CASE store \notin Pair
  BY <1>2, ConfigAssumption DEF Owner, Owned, Nobody
<1>. QED  BY <1>1, <1>2

\* No tokens of another account come into the store or under way.
LEMMA OwnedLasts ==
  ASSUME BookInv, Lasting, NEW u, Owned(u), store' \in {None, Mock, store},
         \A t \in Tabs : flight'[t].token \in {None, store, flight[t].token}
  PROVE  u \in Users => /\ store' \in Pair => pair'[store'].user = u
                        /\ \A t \in Tabs : flight'[t].token \in Pair => pair'[flight'[t].token].user = u
  BY TokensSeen, NumbersTyped DEF Owned, Lasting

LEMMA TheirsKept ==
  ASSUME BookInv, Lasting, TabsAreTheirs, store' \in {None, Mock, store},
         \A t \in Tabs : flight'[t].token \in {None, store, flight[t].token},
         \A t \in Tabs \ crossed' :
            /\ \/ tab'[t].user \notin Users
               \/ t \notin crossed /\ tab'[t].user \in {tab[t].user, call[t]["restore"].as}
            /\ \/ call'[t]["restore"].as \notin Users
               \/ t \notin crossed /\ call'[t]["restore"].as = call[t]["restore"].as
               \/ Owned(call'[t]["restore"].as)
  PROVE  TabsAreTheirs'
<1>. SUFFICES ASSUME NEW t \in Tabs \ crossed'
              PROVE  (Owned(tab[t].user) /\ Owned(call[t]["restore"].as))'
  BY DEF TabsAreTheirs
<1>1. tab'[t].user \notin Users \/ Owned(tab'[t].user)
  BY DEF TabsAreTheirs
<1>2. call'[t]["restore"].as \notin Users \/ Owned(call'[t]["restore"].as)
  BY DEF TabsAreTheirs
<1>3. Owned(tab[t].user)'
  BY <1>1, OwnedLasts DEF Owned
<1>4. Owned(call[t]["restore"].as)'
  BY <1>2, OwnedLasts DEF Owned
<1>. QED  BY <1>3, <1>4

\* A step that changes one call only.
LEMMA MeKept ==
  ASSUME TypeOK, MeIsRestore, NEW t \in Tabs, NEW s \in Slots, NEW c,
         call' = [call EXCEPT ![t][s] = c], c.kind # "me" \/ c.kind = call[t][s].kind \/ s = "restore"
  PROVE  MeIsRestore'
  BY DEF MeIsRestore, TypeOK

LEMMA OneCall ==
  ASSUME TypeOK, NEW t \in Tabs, NEW s \in Slots, NEW c, call' = [call EXCEPT ![t][s] = c]
  PROVE  \A v \in Tabs : call'[v]["restore"] = call[v]["restore"] \/ call'[v]["restore"] = c
  BY DEF TypeOK

LEMMA IdleIsNobody == Idle.as \notin Users /\ Idle.kind # "me" /\ NoFlight.token = None /\ {Nobody, Demo} \cap Users = {}
  BY ConfigAssumption DEF Idle, NoFlight, Nobody, Demo

LEMMA LoadOwner ==
  ASSUME BookInv, BookInv', Lasting, OwnerInv, NEW t \in Tabs, NEW page, Load(t, page) PROVE OwnerInv'
<1>1. /\ \A u \in Tabs : /\ flight'[u] = IF u = t THEN NoFlight ELSE flight[u]
                         /\ u # t => tab'[u] = tab[u] /\ call'[u] = call[u]
      /\ tab'[t].user = Nobody /\ \A s \in Slots : call'[t][s] = Idle
      /\ store' = store
  BY DEF Load, BookInv, TypeOK
<1>2. Coherent'
  <2>1. CASE Flying \subseteq {t}
    BY <1>1, <2>1, CoherentAlone DEF Flying
  <2>2. CASE ~(Flying \subseteq {t})
    BY <1>1, <2>2, CoherentKept DEF Load, OwnerInv, Flies, NoFlight
  <2>. QED  BY <2>1, <2>2
<1>3. MeIsRestore'
  BY <1>1, IdleIsNobody DEF OwnerInv, MeIsRestore
<1>4. TabsAreTheirs'
  <2>1. \A u \in Tabs : flight'[u].token \in {None, store, flight[u].token}
    BY <1>1, IdleIsNobody
  <2>2. \A u \in Tabs \ crossed' : u = t \/ u \notin crossed
    BY DEF Load
  <2>. QED  BY <1>1, <2>1, <2>2, TokensSeen, IdleIsNobody, TheirsKept DEF OwnerInv
<1>. QED  BY <1>2, <1>3, <1>4 DEF OwnerInv

\* Steps that leave the refreshes alone, and at most empty the store.
LEMMA QuietOwner ==
  ASSUME BookInv, BookInv', Lasting, OwnerInv, store' \in {None, store}, UNCHANGED <<flight, crossed>>,
         MeIsRestore',
         \A v \in Tabs :
            /\ tab'[v].user \in {tab[v].user, Nobody, Demo, call[v]["restore"].as}
            /\ call'[v]["restore"].as \in {call[v]["restore"].as, Nobody}
  PROVE  OwnerInv'
<1>1. Coherent'
  BY CoherentKept DEF OwnerInv, Flies
<1>2. TabsAreTheirs'
  BY IdleIsNobody, TheirsKept DEF OwnerInv
<1>. QED  BY <1>1, <1>2 DEF OwnerInv

LEMMA RestoreOwner ==
  ASSUME BookInv, BookInv', Lasting, OwnerInv, NEW t \in Tabs, Restore(t) PROVE OwnerInv'
<1>1. UNCHANGED <<store, flight, crossed>>
  BY DEF Restore, history
<1>2. CASE store = None
  <2>1. UNCHANGED call /\ \A v \in Tabs : tab'[v].user \in {tab[v].user, Nobody}
    <3>1. UNCHANGED call /\ tab' = [tab EXCEPT ![t] = SignedOut(tab[t])]
      BY <1>2 DEF Restore
    <3>2. tab[t] \in TabState /\ Nobody \in Users \cup {Demo, Nobody}
      BY DEF BookInv, TypeOK
    <3>3. SignedOut(tab[t]).user = Nobody
      BY <3>2, SignedTyped
    <3>. QED  BY <3>1, <3>3 DEF BookInv, TypeOK
  <2>2. MeIsRestore'
    BY <2>1 DEF OwnerInv, MeIsRestore
  <2>. QED  BY <1>1, <2>1, <2>2, QuietOwner
<1>3. CASE store # None
  <2>. DEFINE c == Send("me", Owner(store), FALSE)
  <2>1. call' = [call EXCEPT ![t]["restore"] = c] /\ "restore" \in Slots
    BY <1>3 DEF Restore, Slots
  <2>2. c.as = Owner(store)
    BY DEF Send
  <2>3. MeIsRestore'
    BY <2>1, MeKept DEF BookInv, OwnerInv
  <2>4. \A v \in Tabs : call'[v]["restore"].as \in {call[v]["restore"].as, Owner(store)}
    <3>. HIDE DEF c
    <3>1. \A v \in Tabs : call'[v]["restore"] = call[v]["restore"] \/ call'[v]["restore"] = c
      BY <2>1, OneCall DEF BookInv
    <3>. QED  BY <2>2, <3>1
  <2>5. \A v \in Tabs : tab'[v].user = tab[v].user
    <3>1. tab' = [tab EXCEPT ![t] = [tab[t] EXCEPT !.awake = FALSE]]
      BY <1>3 DEF Restore
    <3>2. [tab[t] EXCEPT !.awake = FALSE].user = tab[t].user
      BY KindTyped DEF BookInv, TabState
    <3>. QED  BY <3>1, <3>2 DEF BookInv, TypeOK
  <2>6. Coherent'
    BY <1>1, CoherentKept DEF OwnerInv, Flies
  <2>7. crossed # Tabs => Owned(Owner(store))
    BY OwnerIsOwned DEF OwnerInv
  <2>8. TabsAreTheirs'
    BY <1>1, <2>4, <2>5, <2>7, TheirsKept DEF OwnerInv
  <2>. QED  BY <2>3, <2>6, <2>8 DEF OwnerInv
<1>. QED  BY <1>2, <1>3

LEMMA UserOwner ==
  ASSUME BookInv, BookInv', Lasting, OwnerInv, NEW t \in Tabs, NEW s \in Own,
         SubmitLogin(t, s) \/ \E kind \in {"data", "logout"} : Begin(t, s, kind)
  PROVE  OwnerInv'
<1>1. PICK c : call' = [call EXCEPT ![t][s] = c] /\ c.kind # "me"
  <2>1. \E kind \in {"login", "data", "logout"} : \E u :
            call' = [call EXCEPT ![t][s] = Send(kind, u, FALSE)]
    BY DEF SubmitLogin, Begin
  <2>2. \A kind \in {"login", "data", "logout"} : \A u : Send(kind, u, FALSE).kind # "me"
    BY DEF Send
  <2>. QED  BY <2>1, <2>2
<1>2. s \in Slots /\ s # "restore" /\ UNCHANGED <<store, tab, flight, crossed>>
  BY ConfigAssumption DEF SubmitLogin, Begin, Slots, history
<1>3. MeIsRestore'
  BY <1>1, <1>2, MeKept DEF BookInv, OwnerInv
<1>4. \A v \in Tabs : call'[v]["restore"] = call[v]["restore"]
  BY <1>1, <1>2 DEF BookInv, TypeOK
<1>. QED  BY <1>2, <1>3, <1>4, QuietOwner

LEMMA EndsCall ==
  ASSUME BookInv, OwnerInv, NEW t \in Tabs, NEW s \in Slots, call' = [call EXCEPT ![t][s] = Idle]
  PROVE  /\ MeIsRestore'
         /\ \A v \in Tabs : /\ call'[v]["restore"] = call[v]["restore"] \/ call'[v]["restore"] = Idle
                            /\ call'[v]["restore"].as \in {call[v]["restore"].as, Nobody}
<1>1. MeIsRestore'
  BY MeKept, IdleIsNobody DEF BookInv, OwnerInv
<1>2. \A v \in Tabs : call'[v]["restore"] = call[v]["restore"] \/ call'[v]["restore"] = Idle
  BY OneCall DEF BookInv
<1>. QED  BY <1>1, <1>2 DEF Idle

LEMMA FailOwner ==
  ASSUME BookInv, BookInv', Lasting, OwnerInv, NEW t \in Tabs, NEW s \in Slots, Fail(t, s) PROVE OwnerInv'
<1>1. store' \in {None, store} /\ UNCHANGED <<flight, crossed>>
  BY DEF Fail, Kept
<1>2. \A v \in Tabs : tab'[v].user \in {tab[v].user, Nobody, Demo}
  BY AfterErrorTyped DEF Fail, BookInv, TypeOK
<1>3. call' = [call EXCEPT ![t][s] = Idle]
  BY DEF Fail
<1>. QED  BY <1>1, <1>2, <1>3, EndsCall, QuietOwner

LEMMA GrantedOwner ==
  ASSUME BookInv, BookInv', Lasting, OwnerInv, NEW t \in Tabs, NEW s \in Slots, Granted(t, s) PROVE OwnerInv'
<1>1. UNCHANGED <<store, flight, crossed>> /\ call' = [call EXCEPT ![t][s] = Idle]
  BY DEF Granted, history
<1>2. \A v \in Tabs : tab'[v].user \in {tab[v].user, call[v]["restore"].as}
  <2>1. CASE call[t][s].kind = "me"
    <3>1. s = "restore" /\ call[t][s].as \in Users \cup {Demo, Nobody}
      BY <2>1, KindTyped DEF OwnerInv, MeIsRestore, BookInv
    <3>2. tab' = [tab EXCEPT ![t] = SignedIn(tab[t], call[t][s].as)]
      BY <2>1 DEF Granted
    <3>3. SignedIn(tab[t], call[t][s].as).user = call[t][s].as
      BY <3>1, KindTyped, SignedTyped DEF BookInv
    <3>. QED  BY <3>1, <3>2, <3>3 DEF BookInv, TypeOK
  <2>2. CASE call[t][s].kind # "me"
    BY <2>2 DEF Granted
  <2>. QED  BY <2>1, <2>2
<1>. QED  BY <1>1, <1>2, EndsCall, QuietOwner

LEMMA AwaitOwner ==
  ASSUME BookInv, BookInv', Lasting, OwnerInv, NEW t \in Tabs, NEW s \in Slots, AwaitRefresh(t, s)
  PROVE  OwnerInv'
<1>1. UNCHANGED <<store, tab, crossed>> /\ store # None
  BY DEF AwaitRefresh
<1>. DEFINE c == [call[t][s] EXCEPT !.at = "waits", !.as = Nobody]
<1>2. call' = [call EXCEPT ![t][s] = c]
  BY DEF AwaitRefresh, BookInv, TypeOK
<1>3. c.kind = call[t][s].kind /\ c.as = Nobody
  BY KindTyped DEF BookInv, CallState
<1>. HIDE DEF c
<1>4. MeIsRestore'
  BY <1>2, <1>3, MeKept DEF BookInv, OwnerInv
<1>5. \A v \in Tabs : call'[v]["restore"] = call[v]["restore"] \/ call'[v]["restore"] = c
  BY <1>2, OneCall DEF BookInv
<1>6. \A v \in Tabs : call'[v]["restore"].as \in {call[v]["restore"].as, Nobody}
  BY <1>3, <1>5
<1>7. CASE UNCHANGED flight
  BY <1>1, <1>4, <1>6, <1>7, QuietOwner
<1>8. CASE ~UNCHANGED flight
  <2>1. /\ flight[t] = NoFlight
        /\ flight' = [flight EXCEPT ![t] = [at |-> "sent", token |-> store, got |-> 0]]
        /\ (\E u \in Tabs \ {t} : flight[u].token = store) => torn' = torn \cup Session(store)
    BY <1>8 DEF AwaitRefresh, Unshared
  <2>2. \A u \in Tabs : /\ u # t => flight'[u] = flight[u]
                        /\ flight'[t].token = store
    BY <2>1 DEF BookInv, TypeOK
  <2>3. \A u \in Tabs : flight'[u].token \in {None, store, flight[u].token}
    BY <2>2
  <2>4. TabsAreTheirs'
    BY <1>1, <1>6, <2>3, IdleIsNobody, TheirsKept DEF OwnerInv
  <2>5. UNCHANGED pair /\ torn \subseteq torn'
    BY DEF AwaitRefresh, server
  <2>6. ASSUME crossed # Tabs, NEW u \in Tabs \ {t}, Flies(u)
        PROVE  \/ store = Mock /\ flight[u].token = Mock
               \/ /\ store \in Pair /\ flight[u].token \in Pair
                  /\ pair[store].session = pair[flight[u].token].session
                  /\ pair[store].session \in torn'
    <3>1. store = flight[u].token \/ Kin(store, flight[u].token)
      BY <1>1, <2>6 DEF OwnerInv, Coherent
    <3>2. CASE store = flight[u].token
      BY <1>1, <2>1, <3>2 DEF Session, BookInv, TypeOK, Stored
    <3>3. CASE Kin(store, flight[u].token)
      BY <2>5, <3>3 DEF Kin, Torn
    <3>. QED  BY <3>1, <3>2, <3>3
  <2>7. ASSUME crossed # Tabs, NEW u \in Tabs, NEW v \in Tabs, u # v, u # t, v # t, Flies(u), Flies(v)
        PROVE  Kin(flight[u].token, flight[v].token)
    BY <2>7 DEF OwnerInv, Coherent
  <2>8. Coherent'
    BY <1>1, <2>2, <2>5, <2>6, <2>7 DEF Coherent, Kin, Torn, Flies
  <2>. QED  BY <1>4, <2>4, <2>8 DEF OwnerInv
<1>. QED  BY <1>7, <1>8

\* A login makes the store its own: only then a tab may hold on to another account.
LEMMA LoginOwner ==
  ASSUME BookInv, BookInv', Lasting, OwnerInv, NEW t \in Tabs, NEW s \in Slots,
         LoginFallback(t, s) \/ \E u \in Users : LoginGranted(t, s, u)
  PROVE  OwnerInv'
<1>1. /\ call' = [call EXCEPT ![t][s] = Idle] /\ UNCHANGED flight
      /\ crossed' = IF Flying = {} /\ call[t]["restore"] = Idle THEN Tabs \ {t} ELSE Tabs
  BY DEF LoginFallback, LoginGranted
<1>2. Coherent' /\ MeIsRestore'
  BY <1>1, EndsCall, CoherentAlone DEF Flying
<1>3. TabsAreTheirs'
  <2>. SUFFICES ASSUME Flying = {}, call[t]["restore"] = Idle
                PROVE  (Owned(tab[t].user) /\ Owned(call[t]["restore"].as))'
    BY <1>1 DEF TabsAreTheirs
  <2>1. call'[t]["restore"].as \notin Users
    BY <1>1, EndsCall, IdleIsNobody
  <2>2. \A u \in Tabs : flight'[u].token \notin Pair
    BY <1>1, IdleIsNobody, NumbersTyped DEF Flying
  <2>3. tab'[t].user \in Users => store' \in Pair /\ pair'[store'].user = tab'[t].user
    <3>1. CASE LoginFallback(t, s)
      <4>1. tab' = [tab EXCEPT ![t] = SignedIn(tab[t], Demo)]
        BY <3>1 DEF LoginFallback
      <4>2. SignedIn(tab[t], Demo).user = Demo
        BY KindTyped, SignedTyped DEF BookInv
      <4>. QED  BY <4>1, <4>2, IdleIsNobody DEF BookInv, TypeOK
    <3>2. ASSUME NEW u \in Users, LoginGranted(t, s, u)
          PROVE  store' \in Pair /\ pair'[store'].user = tab'[t].user
      <4>1. tab' = [tab EXCEPT ![t] = SignedIn(tab[t], u)]
        BY <3>2 DEF LoginGranted
      <4>2. u \in Users \cup {Demo, Nobody} /\ SignedIn(tab[t], u).user = u
        BY KindTyped, SignedTyped DEF BookInv
      <4>3. issued + 1 \in Pair /\ store' = issued + 1
        BY <3>2, ConfigAssumption DEF LoginGranted, Taken, BookInv, TypeOK, Pair
      <4>4. pair' = [pair EXCEPT ![issued + 1] = Issue(u, issued + 1)]
        BY <3>2 DEF LoginGranted
      <4>5. pair'[store'].user = u
        BY <4>3, <4>4 DEF Issue, BookInv, TypeOK
      <4>. QED  BY <4>1, <4>2, <4>3, <4>5 DEF BookInv, TypeOK
    <3>. QED  BY <3>1, <3>2
  <2>4. Owned(call[t]["restore"].as)'
    BY <2>1 DEF Owned
  <2>5. Owned(tab[t].user)'
    BY <2>2, <2>3 DEF Owned
  <2>. QED  BY <2>4, <2>5
<1>. QED  BY <1>2, <1>3 DEF OwnerInv

\* The server answers, or nobody hears it: no tokens move in the browser.
LEMMA ServerOwner ==
  ASSUME BookInv, BookInv', Lasting, OwnerInv, UNCHANGED <<store, tab, call, crossed>>,
         \A u \in Tabs : /\ flight'[u].at # "none" => Flies(u)
                         /\ flight'[u].token = flight[u].token
  PROVE  OwnerInv'
<1>1. Coherent'
  BY CoherentKept DEF OwnerInv
<1>2. MeIsRestore'
  BY DEF OwnerInv, MeIsRestore
<1>3. \A u \in Tabs : flight'[u].token \in {None, store, flight[u].token}
  OBVIOUS
<1>4. TabsAreTheirs'
  BY <1>3, TheirsKept DEF OwnerInv
<1>. QED  BY <1>1, <1>2, <1>4 DEF OwnerInv

LEMMA FlightEndsOwner ==
  ASSUME BookInv, BookInv', Lasting, RefreshInv, OwnerInv, NEW t \in Tabs, FlightEnds(t)
  PROVE  OwnerInv'
<1>0. \A v \in Tabs, s \in Slots :
         \/ call'[v][s] = call[v][s]
         \/ flight[t].at = "refused" /\ call'[v][s] = Idle
         \/ flight[t].at = "granted" /\ call'[v][s] = Send(call[v][s].kind, Owner(flight[t].got), TRUE)
  <2>1. TypeOK
    BY DEF BookInv
  <2>2. \A v \in Tabs, s \in Slots :
         \/ call'[v][s] = call[v][s] /\ (v = t => call[v][s].at # "waits")
         \/ /\ v = t /\ call[v][s].at = "waits"
            /\ \/ flight[t].at = "refused" /\ call'[v][s] = Idle
               \/ /\ flight[t].at = "granted"
                  /\ call'[v][s] = Send(call[v][s].kind, Owner(flight[t].got), TRUE)
    BY <2>1, ResumedCalls, Zenon
  <2>. QED  BY <2>2, Zenon
<1>1. \A u \in Tabs : flight'[u] = IF u = t THEN NoFlight ELSE flight[u]
  BY DEF FlightEnds, BookInv, TypeOK
<1>2. UNCHANGED <<pair, torn, crossed>>
  BY DEF FlightEnds, server
<1>3. \A v \in Tabs : tab'[v].user \in {tab[v].user, Nobody}
  <2>1. tab' = tab \/ tab' = [tab EXCEPT ![t] = SignedOut(tab[t])]
    BY DEF FlightEnds
  <2>2. tab[t] \in TabState /\ Nobody \in Users \cup {Demo, Nobody}
    BY DEF BookInv, TypeOK
  <2>3. SignedOut(tab[t]).user = Nobody
    BY <2>2, SignedTyped
  <2>. QED  BY <2>1, <2>3 DEF BookInv, TypeOK
<1>4. MeIsRestore'
  <2>1. ASSUME NEW v \in Tabs, NEW s \in Slots
        PROVE  call'[v][s].kind = call[v][s].kind \/ call'[v][s].kind # "me"
    <3>1. CASE call'[v][s] = call[v][s]
      BY <3>1
    <3>2. CASE call'[v][s] = Idle
      BY <3>2, IdleIsNobody
    <3>3. CASE call'[v][s] = Send(call[v][s].kind, Owner(flight[t].got), TRUE)
      BY <3>3 DEF Send
    <3>. QED  BY <1>0, <3>1, <3>2, <3>3, Zenon
  <2>. QED  BY <2>1 DEF OwnerInv, MeIsRestore
<1>5. CASE flight[t].at # "granted"
  <2>1. store' = None
    BY <1>5 DEF FlightEnds, Replaced
  <2>2. ASSUME NEW v \in Tabs PROVE call'[v]["restore"].as \in {call[v]["restore"].as, Nobody}
    <3>1. call'[v]["restore"] = call[v]["restore"] \/ call'[v]["restore"] = Idle
      BY <1>0, <1>5, Zenon DEF Slots
    <3>. QED  BY <3>1 DEF Idle
  <2>3. Coherent'
    BY <1>1, <1>2, <2>1, CoherentKept DEF OwnerInv, Flies, NoFlight
  <2>4. \A u \in Tabs : flight'[u].token \in {None, store, flight[u].token}
    BY <1>1, IdleIsNobody
  <2>5. TabsAreTheirs'
    BY <1>2, <1>3, <2>1, <2>2, <2>4, IdleIsNobody, TheirsKept DEF OwnerInv
  <2>. QED  BY <1>4, <2>3, <2>5 DEF OwnerInv
<1>6. CASE flight[t].at = "granted"
  <2>. DEFINE f == flight[t]
  <2>1. /\ store' = f.got /\ f.token \in Seen /\ f.got \in Seen /\ Seen \subseteq Pair
        /\ pair[f.got].session = pair[f.token].session /\ pair[f.got].user = pair[f.token].user
    BY <1>6, TokensSeen DEF FlightEnds, Replaced, RefreshInv, GotIsNew, BookInv, SessionsHaveOneUser
  <2>2. ASSUME crossed # Tabs, NEW u \in Tabs, u # t, Flies(u)
        PROVE  /\ flight[u].token \in Pair /\ pair[flight[u].token].session = pair[f.token].session
               /\ pair[f.token].session \in torn
    BY <1>6, <2>1, <2>2, NumbersTyped DEF OwnerInv, Coherent, Flies, Kin, Torn
  <2>3. Coherent'
    <3>1. ASSUME crossed # Tabs, NEW u \in Tabs, NEW v \in Tabs, u # v, u # t, v # t, Flies(u), Flies(v)
          PROVE  Kin(flight[u].token, flight[v].token)
      BY <3>1 DEF OwnerInv, Coherent
    <3>. QED  BY <1>1, <1>2, <2>1, <2>2, <3>1 DEF Coherent, Kin, Torn, Flies, NoFlight
  <2>. PICK o : o = pair[f.token].user
    OBVIOUS
  <2>4. ASSUME NEW w, w \notin Users \/ Owned(w) PROVE Owned(w)'
    <3>1. w \in Users => pair[f.token].user = w
      BY <2>1, <2>4 DEF Owned
    <3>. QED  BY <1>1, <1>2, <2>1, <2>4, <3>1, IdleIsNobody, NumbersTyped DEF Owned
  <2>5. crossed # Tabs => Owned(o)'
    <3>1. ASSUME crossed # Tabs, NEW u \in Tabs, u # t, flight[u].token \in Pair
          PROVE  pair[flight[u].token].user = o
      <4>1. Flies(u) /\ flight[u].token \in Seen
        BY <3>1, TokensSeen
      <4>2. pair[flight[u].token].session = pair[f.token].session
        BY <2>2, <3>1, <4>1
      <4>. QED  BY <2>1, <4>1, <4>2 DEF BookInv, SessionsHaveOneUser
    <3>. QED  BY <1>1, <1>2, <2>1, <3>1, IdleIsNobody, NumbersTyped DEF Owned
  <2>6. ASSUME NEW v \in Tabs PROVE call'[v]["restore"].as \in {call[v]["restore"].as, o}
    <3>1. Owner(f.got) = o
      BY <2>1 DEF Owner
    <3>2. \/ call'[v]["restore"] = call[v]["restore"]
          \/ call'[v]["restore"] = Send(call[v]["restore"].kind, Owner(flight[t].got), TRUE)
      <4>1. "restore" \in Slots /\ flight[t].at # "refused"
        BY <1>6 DEF Slots
      <4>. QED  BY <1>0, <4>1, Zenon
    <3>3. ASSUME call'[v]["restore"] = Send(call[v]["restore"].kind, Owner(flight[t].got), TRUE)
          PROVE  call'[v]["restore"].as = o
      BY <3>1, <3>3 DEF Send
    <3>. QED  BY <3>2, <3>3
  <2>7. TabsAreTheirs'
    <3>. SUFFICES ASSUME NEW v \in Tabs \ crossed
                  PROVE  (Owned(tab[v].user) /\ Owned(call[v]["restore"].as))'
      BY <1>2 DEF TabsAreTheirs
    <3>1. Owned(tab[v].user) /\ Owned(call[v]["restore"].as)
      BY DEF OwnerInv, TabsAreTheirs
    <3>2. Owned(tab[v].user)'
      <4>1. PICK w : w = tab'[v].user
        OBVIOUS
      <4>2. w \notin Users \/ Owned(w)
        BY <1>3, <3>1, <4>1, IdleIsNobody
      <4>3. Owned(w)'
        BY <2>4, <4>2
      <4>. QED  BY <4>1, <4>3 DEF Owned
    <3>3. Owned(call[v]["restore"].as)'
      <4>1. PICK w : w = call'[v]["restore"].as
        OBVIOUS
      <4>2. w = o \/ Owned(w)
        BY <2>6, <3>1, <4>1
      <4>3. Owned(w)'
        BY <2>4, <2>5, <4>2
      <4>. QED  BY <4>1, <4>3 DEF Owned
    <3>. QED  BY <3>2, <3>3
  <2>. QED  BY <1>4, <2>3, <2>7 DEF OwnerInv
<1>. QED  BY <1>5, <1>6

LEMMA UnreadableOwner ==
  ASSUME BookInv, BookInv', Lasting, OwnerInv, NEW t \in Tabs, AnswerUnreadable(t) PROVE OwnerInv'
<1>1. \A u \in Tabs : flight'[u] = IF u = t THEN NoFlight ELSE flight[u]
  BY DEF AnswerUnreadable, BookInv, TypeOK
<1>2. UNCHANGED <<store, tab, crossed>>
  BY DEF AnswerUnreadable
<1>3. \A v \in Tabs, s \in Slots :
         call'[v][s] = call[v][s] \/ call'[v][s] = Send(call[v][s].kind, Nobody, TRUE)
  BY UnreadableCalls DEF BookInv
<1>4. ASSUME NEW v \in Tabs, NEW s \in Slots
      PROVE  /\ call'[v][s].kind = call[v][s].kind
             /\ call'[v][s].as \in {call[v][s].as, Nobody}
  <2>1. CASE call'[v][s] = call[v][s]
    BY <2>1
  <2>2. CASE call'[v][s] = Send(call[v][s].kind, Nobody, TRUE)
    BY <2>2 DEF Send
  <2>. QED  BY <1>3, <2>1, <2>2
<1>5. MeIsRestore'
  BY <1>4 DEF OwnerInv, MeIsRestore
<1>6. Coherent'
  BY <1>1, <1>2, CoherentKept DEF OwnerInv, Flies, NoFlight
<1>7. \A u \in Tabs : flight'[u].token \in {None, store, flight[u].token}
  BY <1>1, IdleIsNobody
<1>8. \A v \in Tabs : call'[v]["restore"].as \in {call[v]["restore"].as, Nobody}
  BY <1>4 DEF Slots
<1>9. TabsAreTheirs'
  BY <1>2, <1>7, <1>8, IdleIsNobody, TheirsKept DEF OwnerInv
<1>. QED  BY <1>5, <1>6, <1>9 DEF OwnerInv

LEMMA OwnerStep ==
  ASSUME BookInv, BookInv', Lasting, RefreshInv, OwnerInv, [Next]_vars PROVE OwnerInv'
<1>1. ASSUME NEW t \in Tabs, UserActs(t) PROVE OwnerInv'
  BY <1>1, LoadOwner, UserOwner DEF UserActs
<1>2. ASSUME NEW t \in Tabs, Serve(t) \/ Lose(t) PROVE OwnerInv'
  <2>1. UNCHANGED <<store, tab, call, crossed>>
    BY <1>2 DEF Serve, Lose, history
  <2>2. \A u \in Tabs : /\ flight'[u].at # "none" => Flies(u)
                        /\ flight'[u].token = flight[u].token
    <3>1. CASE Serve(t)
      BY <3>1 DEF Serve, Flies, BookInv, TypeOK, FlightState
    <3>2. CASE Lose(t)
      BY <3>2 DEF Lose, Flies, BookInv, TypeOK, FlightState
    <3>. QED  BY <1>2, <3>1, <3>2
  <2>. QED  BY <2>1, <2>2, ServerOwner
<1>3. ASSUME NEW p \in Pair, ServeStray(p) PROVE OwnerInv'
  <2>1. UNCHANGED <<store, tab, call, crossed, flight>>
    BY <1>3 DEF ServeStray, client, history
  <2>. QED  BY <2>1, ServerOwner DEF Flies
<1>4. ASSUME NEW t \in Tabs, NEW s \in Slots, Answer(t, s) PROVE OwnerInv'
  BY <1>4, GrantedOwner, FailOwner, AwaitOwner, LoginOwner DEF Answer, Failed
<1>5. CASE UNCHANGED vars
  <2>1. UNCHANGED <<store, tab, call, crossed, flight>>
    BY <1>5 DEF vars
  <2>. QED  BY <2>1, ServerOwner DEF Flies
<1>. QED  BY <1>1, <1>2, <1>3, <1>4, <1>5, RestoreOwner, FlightEndsOwner, UnreadableOwner
   DEF Next, Refresh

LEMMA OwnerInvariance == Spec => [](BookInv /\ RefreshInv /\ OwnerInv)
<1>1. Init => OwnerInv
  <2>. SUFFICES ASSUME Init PROVE OwnerInv
    OBVIOUS
  <2>1. Flying = {} /\ MeIsRestore
    BY IdleIsNobody DEF Init, Flying, MeIsRestore
  <2>2. Coherent
    BY <2>1 DEF Coherent, Flying, Flies, NoFlight
  <2>3. \A t \in Tabs : tab[t].user = Nobody /\ call[t]["restore"] = Idle
    BY DEF Init, Slots
  <2>4. TabsAreTheirs
    BY <2>3, IdleIsNobody DEF TabsAreTheirs, Owned
  <2>. QED  BY <2>1, <2>2, <2>4 DEF OwnerInv
<1>2. BookInv /\ RefreshInv /\ OwnerInv /\ [Next]_vars => (BookInv /\ RefreshInv /\ OwnerInv)'
  BY Step, OwnerStep
<1>. QED  BY <1>1, <1>2, InitInv, PTL DEF Spec

\* A tab that shows an account of the API sends its calls with tokens of that
\* account, unless a login has come in another tab, or crossed a refresh or a
\* restore(), since the tab was opened.
THEOREM TabsAlwaysActAsTheirUser == Spec => []TabsActAsTheirUser
<1>1. BookInv /\ RefreshInv /\ OwnerInv => TabsActAsTheirUser
  BY DEF OwnerInv, TabsAreTheirs, Owned, TabsActAsTheirUser
<1>. QED  BY <1>1, OwnerInvariance, PTL

\* refreshTokens touches no other tokens than those it has refreshed, unless since the
\* tab was opened a login has come in another tab or during a refresh or a restore(),
\* or the session has ever lost an answer or been refreshed by two tabs at once.
THEOREM RefreshesAlwaysReplaceTheirOwn == Spec => RefreshesReplaceTheirOwn
<1>1. ASSUME OwnerInv, NEW t \in Tabs, flight[t].at \in {"granted", "refused"}
      PROVE  store \in {None, flight[t].token} \/ t \in crossed \/ Session(flight[t].token) \cap torn # {}
  <2>. SUFFICES ASSUME store \notin {None, flight[t].token}, t \notin crossed
                PROVE  Session(flight[t].token) \cap torn # {}
    OBVIOUS
  <2>1. Kin(store, flight[t].token)
    BY <1>1 DEF OwnerInv, Coherent, Flies
  <2>. QED  BY <2>1 DEF Kin, Torn, Session
<1>2. BookInv /\ RefreshInv /\ OwnerInv
        => [\A t \in Tabs :
              flight[t].at \in {"granted", "refused"} /\ flight'[t] = NoFlight /\ store' # store
                 => \/ store \in {None, flight[t].token}
                    \/ t \in crossed
                    \/ Session(flight[t].token) \cap torn # {}]_vars
  BY <1>1
<1>. QED  BY <1>2, OwnerInvariance, PTL DEF RefreshesReplaceTheirOwn

(***************************************************************************)
(* The server.  It answers a refresh in one step here, where it takes      *)
(* RefreshTokens three; what both promise of a session is the same.        *)
(***************************************************************************)

LiveIn(f) == {p \in Pair : pair[p].session = f /\ pair[p].state = "live"}

\* Where a session is in its life: closed, when no token of it is left to refresh.
SessionPhase ==
  [f \in Pair |-> IF f \notin Seen \/ pair[f].session # f THEN "none"
                  ELSE IF LiveIn(f) # {} THEN "open" ELSE "closed"]

Lifecycle == INSTANCE SessionLifecycle WITH Sessions <- Pair, phase <- SessionPhase

LEMMA PhaseStays ==
  ASSUME NEW f \in Pair, (f \in Seen)' <=> f \in Seen, pair'[f].session = pair[f].session, LiveIn(f)' = LiveIn(f)
  PROVE  SessionPhase'[f] = SessionPhase[f]
BY DEF SessionPhase

LEMMA PhaseOpens ==
  ASSUME NEW f \in Pair, SessionPhase' \in [Pair -> {"none", "open", "closed"}],
         SessionPhase[f] = "none", SessionPhase'[f] = "open",
         \A g \in Pair \ {f} : SessionPhase'[g] = SessionPhase[g]
  PROVE  Lifecycle!Next
<1>1. SessionPhase' = [SessionPhase EXCEPT ![f] = "open"]
  <2>1. SessionPhase = [g \in Pair |-> SessionPhase[g]]
    BY DEF SessionPhase
  <2>. QED  BY <2>1
<1>. QED  BY <1>1 DEF Lifecycle!Next, Lifecycle!Open

LEMMA PhaseCloses ==
  ASSUME NEW f, f \in Pair => SessionPhase'[f] = SessionPhase[f] \/ (SessionPhase[f] = "open" /\ SessionPhase'[f] = "closed"),
         \A g \in Pair \ {f} : SessionPhase'[g] = SessionPhase[g]
  PROVE  [Lifecycle!Next]_SessionPhase
<1>0. /\ SessionPhase = [g \in Pair |-> SessionPhase[g]]
      /\ SessionPhase' = [g \in Pair |-> SessionPhase'[g]]
  BY DEF SessionPhase
<1>1. CASE \A g \in Pair : SessionPhase'[g] = SessionPhase[g]
  BY <1>0, <1>1
<1>2. CASE f \in Pair /\ SessionPhase[f] = "open" /\ SessionPhase'[f] = "closed"
  <2>1. SessionPhase' = [g \in Pair |-> IF g \in {f} THEN "closed" ELSE SessionPhase[g]]
    BY <1>0, <1>2
  <2>2. Lifecycle!Close({f})
    BY <1>2, <2>1 DEF Lifecycle!Close
  <2>. QED  BY <1>2, <2>2 DEF Lifecycle!Next
<1>. QED  BY <1>1, <1>2

LEMMA PhaseTyped == SessionPhase' \in [Pair -> {"none", "open", "closed"}]
BY DEF SessionPhase

\* A login opens the session it is the first pair of.
LEMMA LoginOpens ==
  ASSUME BookInv, NEW t \in Tabs, NEW s \in Slots, NEW u \in Users, LoginGranted(t, s, u)
  PROVE  Lifecycle!Next
<1>0. issued + 1 \in Pair /\ issued + 1 \notin Seen /\ Seen' = Seen \cup {issued + 1}
  BY ConfigAssumption DEF LoginGranted, BookInv, TypeOK, Pair, Seen
<1>. PICK n \in Pair : n = issued + 1
  BY <1>0
<1>1. n \in Pair /\ n \notin Seen /\ Seen' = Seen \cup {n}
  BY <1>0
<1>2. /\ pair'[n].session = n /\ pair'[n].state = "live"
      /\ \A p \in Pair \ {n} : pair'[p] = pair[p]
  BY <1>1 DEF LoginGranted, BookInv, TypeOK, Issue
<1>3. SessionPhase[n] = "none"
  BY <1>1 DEF SessionPhase
<1>4. SessionPhase'[n] = "open"
  <2>1. n \in LiveIn(n)'
    BY <1>1, <1>2 DEF LiveIn
  <2>. QED  BY <1>1, <1>2, <2>1 DEF SessionPhase
<1>5. ASSUME NEW g \in Pair \ {n} PROVE SessionPhase'[g] = SessionPhase[g]
  <2>1. pair[n].state # "live"
    BY <1>1 DEF BookInv, SessionsAreIssued
  <2>2. LiveIn(g)' = LiveIn(g)
    BY <1>1, <1>2, <2>1 DEF LiveIn
  <2>. QED  BY <1>1, <1>2, <2>2, PhaseStays
<1>. QED  BY <1>1, <1>3, <1>4, <1>5, PhaseTyped, PhaseOpens

\* A rotation hands a session on: it is as open as it was.
LEMMA RotationHandsOn ==
  ASSUME BookInv, NEW token, CanRotate(token), pair' = Rotation(token).pairs, issued' = Rotation(token).number
  PROVE  SessionPhase' = SessionPhase
<1>0. /\ token \in Seen /\ issued' = issued + 1 /\ issued' \in Pair
  BY RotationKeeps DEF BookInv
<1>. PICK n \in Pair : n = issued'
  BY <1>0
<1>. PICK s \in Pair : s = pair[token].session
  BY <1>0, SeenIsPair DEF BookInv, SessionsAreIssued
<1>1. /\ token \in Seen /\ n \notin Seen /\ Seen' = Seen \cup {n} /\ Seen \subseteq Pair
      /\ s \in Seen /\ pair[token].state = "live"
  <2>1. issued \in Nat /\ n = issued + 1
    BY <1>0, SeenIsPair DEF BookInv
  <2>2. n \notin Seen /\ Seen' = Seen \cup {n}
    BY <1>0, <2>1 DEF Seen
  <2>. QED  BY <1>0, <2>2, SeenIsPair DEF BookInv, CanRotate, SessionsAreIssued
<1>2. /\ \A p \in Seen : /\ pair'[p].session = pair[p].session
                         /\ pair'[p].state = IF p = token THEN "rotated" ELSE pair[p].state
      /\ pair'[n].session = s /\ pair'[n].state = "live"
  <2>1. pair'[n] = Issue(pair[token].user, s)
    BY RotationKeeps DEF BookInv
  <2>. QED  BY <2>1, RotationKeeps DEF BookInv, Issue
<1>3. \A p \in Pair \ Seen : pair[p].state = "none"
  BY DEF BookInv, SessionsAreIssued
<1>4. \A p \in Pair \ Seen' : pair'[p].state = "none"
  BY RotationKeeps DEF BookInv, SessionsAreIssued
<1>5. ASSUME NEW g \in Pair PROVE SessionPhase'[g] = SessionPhase[g]
  <2>1. CASE g \notin Seen
    <3>1. SessionPhase[g] = "none"
      BY <2>1 DEF SessionPhase
    <3>2. g \notin Seen' \/ pair'[g].session # g
      BY <1>1, <1>2, <2>1
    <3>. QED  BY <3>1, <3>2 DEF SessionPhase
  <2>2. CASE g \in Seen /\ g # s
    <3>1. LiveIn(g)' = LiveIn(g)
      <4>1. \A p \in Pair : pair'[p].session = g /\ pair'[p].state = "live"
                               <=> pair[p].session = g /\ pair[p].state = "live"
        BY <1>1, <1>2, <1>3, <1>4, <2>2
      <4>. QED  BY <4>1 DEF LiveIn
    <3>. QED  BY <1>1, <1>2, <2>2, <3>1, PhaseStays
  <2>3. CASE g = s
    <3>1. token \in LiveIn(s)
      BY <1>1 DEF LiveIn
    <3>2. n \in LiveIn(s)'
      BY <1>1, <1>2 DEF LiveIn
    <3>3. pair'[s].session = pair[s].session /\ s \in Seen /\ s \in Seen'
      BY <1>1, <1>2
    <3>4. LiveIn(s) # {} /\ LiveIn(s)' # {}
      BY <3>1, <3>2
    <3>. QED  BY <2>3, <3>3, <3>4 DEF SessionPhase
  <2>. QED  BY <2>1, <2>2, <2>3
<1>. QED  BY <1>5 DEF SessionPhase

\* Reuse detection closes the session of the token, if it was still open.
LEMMA BurnCloses ==
  ASSUME BookInv, NEW token, IsReuse(token), pair' = Burned(token), UNCHANGED issued
  PROVE  [Lifecycle!Next]_SessionPhase
<1>. PICK s : s = pair[token].session
  OBVIOUS
<1>1. Seen' = Seen
  BY DEF Seen
<1>2. \A p \in Pair : /\ pair'[p].session = pair[p].session
                      /\ pair'[p].state = IF pair[p].session = s /\ pair[p].state = "live"
                                          THEN "burned" ELSE pair[p].state
  BY DEF Burned, BookInv, TypeOK, PairState
<1>3. LiveIn(s)' = {}
  BY <1>2 DEF LiveIn
<1>4. ASSUME NEW g \in Pair \ {s} PROVE SessionPhase'[g] = SessionPhase[g]
  <2>1. LiveIn(g)' = LiveIn(g)
    BY <1>2 DEF LiveIn
  <2>. QED  BY <1>1, <1>2, <2>1, PhaseStays
<1>5. s \in Pair => SessionPhase'[s] = SessionPhase[s] \/ (SessionPhase[s] = "open" /\ SessionPhase'[s] = "closed")
  BY <1>1, <1>2, <1>3 DEF SessionPhase
<1>. QED  BY <1>4, <1>5, PhaseCloses

LEMMA NextLifecycle ==
  ASSUME BookInv, [Next]_vars
  PROVE  [Lifecycle!Next]_SessionPhase
<1>1. ASSUME UNCHANGED <<pair, issued>> PROVE [Lifecycle!Next]_SessionPhase
  <2>1. SessionPhase' = SessionPhase
    BY <1>1 DEF SessionPhase, LiveIn, Seen
  <2>. QED  BY <2>1
<1>2. ASSUME NEW token, CanRotate(token), pair' = Rotation(token).pairs, issued' = Rotation(token).number
      PROVE  [Lifecycle!Next]_SessionPhase
  BY <1>2, RotationHandsOn
<1>3. ASSUME NEW t \in Tabs, Refresh(t) PROVE [Lifecycle!Next]_SessionPhase
  BY <1>1, <1>2, <1>3, BurnCloses DEF Refresh, Serve, Lose, FlightEnds, AnswerUnreadable, server
<1>4. ASSUME NEW p \in Pair, ServeStray(p) PROVE [Lifecycle!Next]_SessionPhase
  BY <1>1, <1>2, <1>4, BurnCloses DEF ServeStray, CanRotate, IsReuse
<1>5. ASSUME NEW t \in Tabs, NEW s \in Slots, Answer(t, s) PROVE [Lifecycle!Next]_SessionPhase
  <2>1. ASSUME NEW u \in Users, LoginGranted(t, s, u) PROVE [Lifecycle!Next]_SessionPhase
    BY <2>1, LoginOpens
  <2>. QED  BY <1>1, <1>5, <2>1 DEF Answer, Granted, Failed, Fail, AwaitRefresh, LoginFallback, server
<1>6. ASSUME NEW t \in Tabs, UserActs(t) \/ Restore(t) PROVE [Lifecycle!Next]_SessionPhase
  BY <1>1, <1>6 DEF UserActs, Load, SubmitLogin, Begin, Restore, server
<1>. QED  BY <1>1, <1>3, <1>4, <1>5, <1>6 DEF Next, vars

\* token.service.ts as the browser meets it: a session is opened by one login, and
\* once reuse detection has closed it no refresh, late or repeated, opens it again.
\* It is what RefreshTokens implements statement by statement, and here no session
\* is ever overrun, since the server answers in one step.
THEOREM ServerKeepsLifecycle == Spec => Lifecycle!Spec
<1>1. Init => Lifecycle!Init
  <2>. SUFFICES ASSUME Init PROVE Lifecycle!Init
    OBVIOUS
  <2>1. Seen = {}
    BY DEF Init, Seen
  <2>. QED  BY <2>1 DEF Lifecycle!Init, SessionPhase
<1>2. BookInv /\ [Next]_vars => [Lifecycle!Next]_SessionPhase
  BY NextLifecycle
<1>. QED  BY <1>1, <1>2, OwnerInvariance, PTL DEF Spec, Lifecycle!Spec

\* token.service.ts, revokeFamily: no answer of the server, to whichever token and
\* however late, brings a closed session back.
THEOREM ClosedSessionsStayClosed ==
  Spec => [][\A f \in Pair : SessionPhase[f] = "closed" => SessionPhase'[f] = "closed"]_vars
<1>1. ASSUME [Lifecycle!Next]_SessionPhase, NEW f \in Pair, SessionPhase[f] = "closed"
      PROVE  SessionPhase'[f] = "closed"
  <2>0. /\ SessionPhase = [g \in Pair |-> SessionPhase[g]]
        /\ SessionPhase'[f] \in {"none", "open", "closed"}
    BY DEF SessionPhase
  <2>1. ASSUME NEW g \in Pair, Lifecycle!Open(g) PROVE SessionPhase'[f] = "closed"
    BY <1>1, <2>0, <2>1 DEF Lifecycle!Open
  <2>2. ASSUME NEW g \in Pair, Lifecycle!Overrun(g) PROVE SessionPhase'[f] = "closed"
    <3>1. SessionPhase' = [SessionPhase EXCEPT ![g] = "overrun"]
      BY <2>2 DEF Lifecycle!Overrun
    <3>2. g # f
      BY <2>0, <3>1
    <3>. QED  BY <1>1, <2>0, <3>1, <3>2
  <2>3. ASSUME NEW S \in SUBSET Pair, Lifecycle!Close(S) PROVE SessionPhase'[f] = "closed"
    BY <1>1, <2>3 DEF Lifecycle!Close
  <2>. QED  BY <1>1, <2>1, <2>2, <2>3 DEF Lifecycle!Next
<1>2. BookInv /\ [Next]_vars
        => [\A f \in Pair : SessionPhase[f] = "closed" => SessionPhase'[f] = "closed"]_vars
  BY <1>1, NextLifecycle
<1>. QED  BY <1>2, OwnerInvariance, PTL DEF Spec
=============================================================================
