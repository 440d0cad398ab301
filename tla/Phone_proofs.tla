---------------------------- MODULE Phone_proofs ----------------------------
(***************************************************************************)
(* Proofs about the phone's page.                                          *)
(*                                                                         *)
(* PhoneLink: the types of the page and of its requests, and that a        *)
(* stopped page has no socket, for any number of requests in flight and of *)
(* changes of the network, the server and the pairing.                     *)
(*                                                                         *)
(* PhoneView: what the page knows settles, a late create answer moves no   *)
(* one, and what another device took is not taken back, for any number of  *)
(* sessions, connections, messages and acts.  What is on its way to the    *)
(* page is two queues, the events and then the socket's messages; the      *)
(* invariant is that the last word in them on a session is the truth, and  *)
(* that what the page knows is the truth when they have no word on it.     *)
(***************************************************************************)
EXTENDS PhoneLink, PhoneView, FiniteSetTheorems, TLAPS

-----------------------------------------------------------------------------
(* PhoneLink *)

\* The states of the page the handlers keep to.
Good ==
  {p \in Pages : (p.stopped => p.ws = "none") /\ (p.pingTimer => p.ws # "none")}

LinkInv == TypeOK /\ StoppedIsQuiet

LEMMA InvIsGood == LinkInv => ph \in Good /\ calls \subseteq [kind : Kinds, res : Results]
  BY DEF LinkInv, TypeOK, StoppedIsQuiet, Good

-----------------------------------------------------------------------------
(* The pieces of the handlers *)

LEMMA CloseWsGood ==
  ASSUME NEW p \in Good
  PROVE  CloseWs(p) \in Good /\ CloseWs(p).ws = "none" /\ ~CloseWs(p).pingTimer
         /\ CloseWs(p).stopped = p.stopped /\ CloseWs(p).wsAttempt = p.wsAttempt
  BY DEF CloseWs, Good, Pages

LEMMA ConnectGood == ASSUME NEW p \in Good PROVE Connect(p) \in Good
<1>1. CASE p.stopped
  BY <1>1 DEF Connect
<1>2. CASE ~p.stopped
  <2> DEFINE q == CloseWs(p)
  <2>1. q \in Good /\ ~q.stopped /\ ~q.pingTimer
    BY <1>2, CloseWsGood DEF Good, Pages
  <2>2. Connect(p) = [q EXCEPT !.ws = "opening", !.reconnectTimer = FALSE]
    BY <1>2 DEF Connect
  <2> HIDE DEF q
  <2>3. QED
    BY <2>1, <2>2 DEF Good, Pages
<1>3. QED
  BY <1>1, <1>2

LEMMA ScheduleReconnectGood == ASSUME NEW p \in Good PROVE ScheduleReconnect(p) \in Good
<1>1. (IF p.wsAttempt < 3 THEN p.wsAttempt + 1 ELSE 3) \in 0..3
  BY DEF Good, Pages
<1>2. QED
  BY <1>1 DEF ScheduleReconnect, Good, Pages

LEMMA OnCloseGood == ASSUME NEW p \in Good PROVE OnClose(p) \in Good
  BY CloseWsGood, ScheduleReconnectGood DEF OnClose

LEMMA UnauthorizedGood == ASSUME NEW p \in Good PROVE Unauthorized(p) \in Good
<1> DEFINE q == CloseWs(p)
<1>1. q \in Good /\ q.ws = "none" /\ ~q.pingTimer
  BY CloseWsGood
<1>2. Unauthorized(p) = [q EXCEPT !.stopped = TRUE, !.view = FALSE, !.screen = "pair"]
  BY DEF Unauthorized
<1> HIDE DEF q
<1>3. QED
  BY <1>1, <1>2 DEF Good, Pages, Screens

LEMMA ShowMovedGood == ASSUME NEW p \in Good PROVE ShowMoved(p) \in Good
<1> DEFINE q == CloseWs(p)
<1>1. q \in Good /\ q.ws = "none" /\ ~q.pingTimer
  BY CloseWsGood
<1>2. ShowMoved(p) = [q EXCEPT !.stopped = TRUE, !.offlineTimer = FALSE, !.screen = "moved"]
  BY DEF ShowMoved
<1> HIDE DEF q
<1>3. QED
  BY <1>1, <1>2 DEF Good, Pages, Screens

LEMMA ShowOfflineGood == ASSUME NEW p \in Good PROVE ShowOffline(p) \in Good
  BY DEF ShowOffline, Good, Pages, Screens

LEMMA OpenPendingGood ==
  ASSUME NEW p \in Good, NEW gone \in BOOLEAN
  PROVE  OpenPendingSession(p, gone) \in Good
<1>1. [p EXCEPT !.pendingSession = FALSE] \in Good
  BY DEF Good, Pages
<1>2. [p EXCEPT !.pendingSession = FALSE, !.view = TRUE, !.screen = "term"] \in Good
  BY DEF Good, Pages, Screens
<1>3. QED
  BY <1>1, <1>2 DEF OpenPendingSession

LEMMA LoadedGood ==
  ASSUME NEW p \in Good, NEW res \in Results \ {"wait"}
  PROVE  LoadedState(p, res) \in Good
<1>1. CASE res = "ok"
  BY <1>1 DEF LoadedState, Good, Pages
<1>2. CASE res = "401"
  BY <1>2, UnauthorizedGood DEF LoadedState
<1>3. CASE res = "moved"
  BY <1>3, ShowMovedGood DEF LoadedState
<1>4. CASE res = "net"
  BY <1>4 DEF LoadedState
<1>5. QED
  BY <1>1, <1>2, <1>3, <1>4 DEF Results

\* Starting to count the attempts again.
LEMMA FreshGood == ASSUME NEW p \in Good PROVE [p EXCEPT !.wsAttempt = 0] \in Good
  BY DEF Good, Pages

LEMMA CheckAliveGood == ASSUME NEW p \in Good, ~p.stopped PROVE CheckAlive(p) \in Good
<1>1. CASE p.ws \in {"none", "opening"}
  BY <1>1, FreshGood, ConnectGood DEF CheckAlive
<1>2. CASE p.ws \notin {"none", "opening"}
  BY <1>2 DEF CheckAlive, Good, Pages
<1>3. QED
  BY <1>1, <1>2

-----------------------------------------------------------------------------
(* The steps *)

LEMMA InitLink == Init => LinkInv
<1> SUFFICES ASSUME Init PROVE LinkInv
  OBVIOUS
<1>1. ph \in Pages /\ ph.ws = "none" /\ ~ph.pingTimer
  BY DEF Init
<1>2. calls \subseteq [kind : Kinds, res : Results]
  BY DEF Init, Kinds, Results
<1>3. {net, moved, cookie, codeOk} \subseteq BOOLEAN /\ changes = 0
  BY DEF Init
<1>4. QED
  BY <1>1, <1>2, <1>3, BoundsAssumption DEF LinkInv, TypeOK, StoppedIsQuiet

\* What a step has to show for the invariant to go on.
LEMMA GoodIsInv ==
  ASSUME LinkInv, ph' \in Good, calls' \subseteq [kind : Kinds, res : Results],
         {net', moved', cookie', codeOk'} \subseteq BOOLEAN, changes' \in 0..MaxChanges
  PROVE  LinkInv'
  BY DEF LinkInv, TypeOK, StoppedIsQuiet, Good

LEMMA ServerSame ==
  ASSUME LinkInv, UNCHANGED Server, ph' \in Good, calls' \subseteq [kind : Kinds, res : Results]
  PROVE  LinkInv'
<1>1. {net', moved', cookie', codeOk'} \subseteq BOOLEAN /\ changes' \in 0..MaxChanges
  BY DEF LinkInv, TypeOK, Server
<1>2. QED
  BY <1>1, GoodIsInv

\* Requests that are answered, asked or served stay requests.
LEMMA CallsTyped ==
  ASSUME LinkInv, NEW kind \in Kinds, NEW res \in Results, NEW other \in Kinds, NEW verdict \in Results
  PROVE  /\ Done(kind, res) \subseteq [kind : Kinds, res : Results]
         /\ Done(kind, res) \cup {[kind |-> other, res |-> verdict]} \subseteq [kind : Kinds, res : Results]
         /\ Ask(kind) \subseteq [kind : Kinds, res : Results]
  BY DEF LinkInv, TypeOK, Done, Ask, Results

LEMMA EnterGood ==
  ASSUME LinkInv, NEW p \in Good, Enter(p)
  PROVE  ph' \in Good /\ calls' \subseteq [kind : Kinds, res : Results]
<1>1. [p EXCEPT !.enterCode = p.code] \in Good
  <2>1. p.code \in BOOLEAN
    BY DEF Good, Pages
  <2>2. PICK b \in BOOLEAN : b = p.code
    BY <2>1, Zenon
  <2>3. [p EXCEPT !.enterCode = b] \in Good
    BY DEF Good, Pages
  <2>4. QED
    BY <2>2, <2>3
<1>2. ph' \in Good
  BY <1>1 DEF Enter
<1>3. calls \subseteq [kind : Kinds, res : Results] /\ "me" \in Kinds /\ "wait" \in Results
  BY InvIsGood DEF Kinds, Results
<1>4. calls' = calls \/ calls' = calls \cup {[kind |-> "me", res |-> "wait"]}
  BY DEF Enter, Ask
<1>5. calls' \subseteq [kind : Kinds, res : Results]
  BY <1>3, <1>4
<1>6. QED
  BY <1>2, <1>5

LEMMA KindsAre == {"me", "pair", "start", "resume", "auth"} = Kinds
                  /\ {"wait", "ok", "401", "moved", "net"} = Results
  BY DEF Kinds, Results

LEMMA AnswerKeeps ==
  ASSUME LinkInv, NEW res \in Results,
         EnterOnce(res) \/ Started(res) \/ Resumed(res) \/ Paired(res) \/ Authorized(res)
  PROVE  LinkInv'
<1>0. ph \in Good
  BY InvIsGood
<1>1. CASE EnterOnce(res)
  <2>1. calls' \subseteq [kind : Kinds, res : Results]
    BY <1>1, CallsTyped, KindsAre DEF EnterOnce
  <2> DEFINE asked == [ph EXCEPT !.enterCode = FALSE]
             here == [asked EXCEPT !.offlineTimer = FALSE]
  <2>a. asked \in Good
    BY <1>0 DEF Good, Pages
  <2>2. [here EXCEPT !.screen = "dash"] \in Good /\ [here EXCEPT !.screen = "pair"] \in Good
    <3> HIDE DEF asked
    <3>1. QED
      BY <2>a DEF Good, Pages, Screens
  <2>3. ph' \in Good
    <3>1. \/ ph' = ShowMoved(asked) \/ ph' = ShowOffline(asked)
          \/ ph' = [here EXCEPT !.screen = "dash"] \/ ph' = [here EXCEPT !.screen = "pair"]
      BY <1>1 DEF EnterOnce
    <3> HIDE DEF asked, here
    <3>2. QED
      BY <2>a, <2>2, <3>1, ShowMovedGood, ShowOfflineGood
  <2>4. QED
    BY <1>1, <2>1, <2>3, ServerSame DEF EnterOnce
<1>2. CASE Started(res)
  <2>1. calls' \subseteq [kind : Kinds, res : Results]
    BY <1>2, CallsTyped, KindsAre DEF Started
  <2>2. Connect(LoadedState(ph, res)) \in Good
    BY <1>0, <1>2, LoadedGood, ConnectGood DEF Started
  <2>3. ph' \in Good
    BY <1>2, <2>2, OpenPendingGood DEF Started
  <2>4. QED
    BY <1>2, <2>1, <2>3, ServerSame DEF Started
<1>3. CASE Resumed(res)
  <2>1. calls' \subseteq [kind : Kinds, res : Results]
    BY <1>3, CallsTyped, KindsAre DEF Resumed
  <2>2. ph' \in Good
    BY <1>0, <1>3, LoadedGood DEF Resumed
  <2>3. QED
    BY <1>3, <2>1, <2>2, ServerSame DEF Resumed
<1>4. CASE Paired(res)
  <2>1. calls' \subseteq [kind : Kinds, res : Results]
    BY <1>4, CallsTyped, KindsAre DEF Paired
  <2>2. [ph EXCEPT !.stopped = FALSE, !.code = FALSE, !.screen = "dash"] \in Good
    BY <1>0 DEF Good, Pages, Screens
  <2>3. ph' \in Good
    BY <1>0, <1>4, <2>2, ShowMovedGood DEF Paired
  <2>4. {net', moved', cookie', codeOk'} \subseteq BOOLEAN /\ changes' \in 0..MaxChanges
    BY <1>4 DEF Paired, LinkInv, TypeOK
  <2>5. QED
    BY <2>1, <2>3, <2>4, GoodIsInv
<1>5. CASE Authorized(res)
  <2>1. calls' \subseteq [kind : Kinds, res : Results]
    BY <1>5, CallsTyped, KindsAre DEF Authorized
  <2>2. ph' \in Good
    BY <1>0, <1>5, UnauthorizedGood, ShowMovedGood, ConnectGood DEF Authorized
  <2>3. QED
    BY <1>5, <2>1, <2>2, ServerSame DEF Authorized
<1>6. QED
  BY <1>1, <1>2, <1>3, <1>4, <1>5

LEMMA TimerKeeps ==
  ASSUME LinkInv, OfflineTick \/ OfflineRetry \/ Reconnect \/ PingTimeout \/ Pong
  PROVE  LinkInv'
<1>0. ph \in Good /\ calls \subseteq [kind : Kinds, res : Results]
  BY InvIsGood
<1>1. CASE OfflineTick \/ OfflineRetry
  <2>1. [ph EXCEPT !.offlineTimer = FALSE] \in Good
    BY <1>0 DEF Good, Pages
  <2>2. QED
    BY <1>1, <2>1, EnterGood, ServerSame DEF OfflineTick, OfflineRetry
<1>2. CASE Reconnect
  <2>1. [ph EXCEPT !.reconnectTimer = FALSE] \in Good
    BY <1>0 DEF Good, Pages
  <2>2. ph' \in Good
    BY <1>2, <2>1, ConnectGood DEF Reconnect
  <2>3. calls' \subseteq [kind : Kinds, res : Results]
    BY <1>0, <1>2, CallsTyped, KindsAre DEF Reconnect
  <2>4. QED
    BY <1>2, <2>2, <2>3, ServerSame DEF Reconnect
<1>3. CASE PingTimeout
  <2>1. ph' \in Good
    BY <1>0, <1>3, FreshGood, ConnectGood DEF PingTimeout
  <2>2. QED
    BY <1>0, <1>3, <2>1, ServerSame DEF PingTimeout
<1>4. CASE Pong
  <2>1. ph' \in Good
    BY <1>0, <1>4 DEF Pong, Good, Pages
  <2>2. QED
    BY <1>0, <1>4, <2>1, ServerSame DEF Pong
<1>5. QED
  BY <1>1, <1>2, <1>3, <1>4

LEMMA UserKeeps ==
  ASSUME LinkInv, VisibilityChange \/ SubmitPair \/ ToTerm \/ ToDash
                    \/ \E session, code \in BOOLEAN : HashChange(session, code)
  PROVE  LinkInv'
<1>0. ph \in Good /\ calls \subseteq [kind : Kinds, res : Results]
  BY InvIsGood
<1>1. CASE VisibilityChange
  <2>1. ph' \in Good /\ calls' \subseteq [kind : Kinds, res : Results]
    BY <1>0, <1>1, CheckAliveGood, CallsTyped, KindsAre DEF VisibilityChange
  <2>2. QED
    BY <1>1, <2>1, ServerSame DEF VisibilityChange
<1>2. CASE SubmitPair
  <2>1. calls' \subseteq [kind : Kinds, res : Results]
    BY <1>2, CallsTyped, KindsAre DEF SubmitPair
  <2>2. QED
    BY <1>0, <1>2, <2>1, ServerSame DEF SubmitPair
<1>3. CASE ToTerm \/ ToDash
  <2>1. /\ [ph EXCEPT !.view = TRUE, !.screen = "term"] \in Good
        /\ [ph EXCEPT !.view = FALSE, !.screen = "dash"] \in Good
    BY <1>0 DEF Good, Pages, Screens
  <2>2. QED
    BY <1>0, <1>3, <2>1, ServerSame DEF ToTerm, ToDash
<1>4. ASSUME NEW session \in BOOLEAN, NEW code \in BOOLEAN, HashChange(session, code)
      PROVE  LinkInv'
  <2> DEFINE p == [ph EXCEPT !.pendingSession = session \/ ph.pendingSession]
  <2>1. p \in Good
    <3>1. PICK b \in BOOLEAN : b = (session \/ ph.pendingSession)
      OBVIOUS
    <3>2. p = [ph EXCEPT !.pendingSession = b]
      BY <3>1
    <3>3. [ph EXCEPT !.pendingSession = b] \in Good
      BY <1>0 DEF Good, Pages
    <3>4. QED
      BY <3>2, <3>3
  <2>2. [p EXCEPT !.code = TRUE, !.screen = "pair"] \in Good
    BY <2>1 DEF Good, Pages, Screens
  <2>3. \/ ph' = [p EXCEPT !.code = TRUE, !.screen = "pair"]
        \/ \E gone \in BOOLEAN : ph' = OpenPendingSession(p, gone)
        \/ ph' = p
    BY <1>4 DEF HashChange
  <2> HIDE DEF p
  <2>4. ph' \in Good
    BY <2>1, <2>2, <2>3, OpenPendingGood
  <2>5. QED
    BY <1>0, <1>4, <2>4, ServerSame DEF HashChange
<1>5. QED
  BY <1>1, <1>2, <1>3, <1>4

LEMMA SocketKeeps == ASSUME LinkInv, SocketStep PROVE LinkInv'
<1>0. ph \in Good /\ calls \subseteq [kind : Kinds, res : Results]
  BY InvIsGood
<1>1. CASE WsOpens
  <2>1. ~ph.stopped
    BY <1>1 DEF WsOpens, LinkInv, StoppedIsQuiet
  <2>2. [ph EXCEPT !.ws = "open", !.wsAttempt = 0] \in Pages
    <3> DEFINE p == [ph EXCEPT !.ws = "open"]
    <3>1. p \in Pages
      BY <1>0 DEF Good, Pages
    <3>2. [ph EXCEPT !.ws = "open", !.wsAttempt = 0] = [p EXCEPT !.wsAttempt = 0]
      BY <1>0 DEF Good, Pages
    <3> HIDE DEF p
    <3>3. [p EXCEPT !.wsAttempt = 0] \in Pages
      BY <3>1 DEF Pages
    <3>4. QED
      BY <3>2, <3>3
  <2>3. /\ [ph EXCEPT !.ws = "open", !.wsAttempt = 0].ws = "open"
        /\ [ph EXCEPT !.ws = "open", !.wsAttempt = 0].stopped = ph.stopped
    BY <1>0 DEF Good, Pages
  <2>4. ph' \in Good
    BY <1>1, <2>1, <2>2, <2>3 DEF WsOpens, Good
  <2>5. QED
    BY <1>0, <1>1, <2>4, ServerSame DEF WsOpens
<1>2. CASE WsRefused \/ WsEnds
  BY <1>0, <1>2, OnCloseGood, ServerSame DEF WsRefused, WsEnds
<1>3. CASE WsKicked
  BY <1>0, <1>3, UnauthorizedGood, ServerSame DEF WsKicked
<1>4. QED
  BY <1>1, <1>2, <1>3 DEF SocketStep

LEMMA ServeKeeps == ASSUME LinkInv, NEW kind \in Kinds, Serve(kind) PROVE LinkInv'
<1>0. ph \in Good
  BY InvIsGood
<1>1. Verdict(kind) \in Results
  BY DEF Verdict, Results
<1>2. calls' \subseteq [kind : Kinds, res : Results]
  BY <1>1, CallsTyped, KindsAre DEF Serve
<1>3. {net', moved', cookie', codeOk'} \subseteq BOOLEAN /\ changes' \in 0..MaxChanges
  BY DEF Serve, LinkInv, TypeOK
<1>4. QED
  BY <1>0, <1>2, <1>3, GoodIsInv DEF Serve

LEMMA WorldKeeps == ASSUME LinkInv, WorldStep PROVE LinkInv'
<1>0. ph \in Good /\ calls \subseteq [kind : Kinds, res : Results]
  BY InvIsGood
<1>1. ASSUME Change PROVE changes' \in 0..MaxChanges
  BY <1>1, BoundsAssumption DEF Change, LinkInv, TypeOK
<1>2. ASSUME ph.ws # "none", NEW ws \in {"dead", "kicked"} PROVE [ph EXCEPT !.ws = ws] \in Good
  BY <1>0, <1>2 DEF Good, Pages
<1>3. CASE NetDown
  <2>1. ph' \in Good
    BY <1>0, <1>2, <1>3 DEF NetDown
  <2>2. {net', moved', cookie', codeOk'} \subseteq BOOLEAN /\ changes' \in 0..MaxChanges
    BY <1>1, <1>3 DEF NetDown, LinkInv, TypeOK
  <2>3. QED
    BY <1>0, <1>3, <2>1, <2>2, GoodIsInv DEF NetDown
<1>4. CASE NetUp
  <2>1. ph' \in Good
    BY <1>0, <1>4, FreshGood, ConnectGood DEF NetUp
  <2>2. {net', moved', cookie', codeOk'} \subseteq BOOLEAN /\ changes' \in 0..MaxChanges
    BY <1>4 DEF NetUp, LinkInv, TypeOK
  <2>3. QED
    BY <1>0, <1>4, <2>1, <2>2, GoodIsInv DEF NetUp
<1>5. CASE Revoke
  <2>1. ph' \in Good
    BY <1>0, <1>2, <1>5 DEF Revoke
  <2>2. {net', moved', cookie', codeOk'} \subseteq BOOLEAN /\ changes' \in 0..MaxChanges
    BY <1>1, <1>5 DEF Revoke, LinkInv, TypeOK
  <2>3. QED
    BY <1>0, <1>5, <2>1, <2>2, GoodIsInv DEF Revoke
<1>6. CASE Move
  <2>1. ph' \in Good
    BY <1>0, <1>2, <1>6 DEF Move
  <2>2. {net', moved', cookie', codeOk'} \subseteq BOOLEAN /\ changes' \in 0..MaxChanges
    BY <1>1, <1>6 DEF Move, LinkInv, TypeOK
  <2>3. QED
    BY <1>0, <1>6, <2>1, <2>2, GoodIsInv DEF Move
<1>7. CASE PairingCode
  <2>1. {net', moved', cookie', codeOk'} \subseteq BOOLEAN /\ changes' \in 0..MaxChanges
    BY <1>1, <1>7 DEF PairingCode, LinkInv, TypeOK
  <2>2. QED
    BY <1>0, <1>7, <2>1, GoodIsInv DEF PairingCode
<1>8. ASSUME NEW kind \in Kinds, LoseAnswer(kind) PROVE LinkInv'
  <2>1. calls' \subseteq [kind : Kinds, res : Results]
    BY <1>8, CallsTyped, KindsAre DEF LoseAnswer
  <2>2. QED
    BY <1>0, <1>8, <2>1, ServerSame DEF LoseAnswer
<1>9. QED
  BY <1>3, <1>4, <1>5, <1>6, <1>7, <1>8 DEF WorldStep

LEMMA LinkStep == LinkInv /\ [Next]_vars => LinkInv'
<1> SUFFICES ASSUME LinkInv, [Next]_vars PROVE LinkInv'
  OBVIOUS
<1>1. CASE AnswerStep
  BY <1>1, AnswerKeeps DEF AnswerStep
<1>2. CASE ServeStep
  BY <1>2, ServeKeeps DEF ServeStep
<1>3. CASE SocketStep
  BY <1>3, SocketKeeps
<1>4. CASE UserStep
  BY <1>4, UserKeeps, TimerKeeps DEF UserStep
<1>5. CASE WorldStep
  BY <1>5, WorldKeeps
<1>6. CASE OfflineTick \/ Reconnect \/ PingTimeout \/ Pong
  BY <1>6, TimerKeeps
<1>7. CASE UNCHANGED vars
  BY <1>7, InvIsGood, ServerSame DEF vars, Server
<1>8. QED
  BY <1>1, <1>2, <1>3, <1>4, <1>5, <1>6, <1>7 DEF Next

\* The page and its requests keep their types, and a ping under way belongs to a
\* socket (mobile.js closeWs ends both).
THEOREM LinkTypes == Spec => []TypeOK
<1>1. LinkInv => TypeOK
  BY DEF LinkInv
<1>2. QED
  BY <1>1, InitLink, LinkStep, PTL DEF Spec

\* A revoked or moved page has no socket and opens none, whatever timer, answer
\* or event still comes: connect() and scheduleReconnect() ask for `stopped`, and
\* all that sets it closes the socket.
THEOREM StoppedPagesAreQuiet == Spec => []StoppedIsQuiet
<1>1. LinkInv => StoppedIsQuiet
  BY DEF LinkInv
<1>2. QED
  BY <1>1, InitLink, LinkStep, PTL DEF Spec

-----------------------------------------------------------------------------
(* What a phone knows: types *)

Ids == Sessions \cup {None}
Holders == {"free", "me", "other"}
RemoteFields == {"view", "wanted", "pending", "create", "reqs", "list", "exited", "holder"}
IsRemote(p) ==
  /\ p = [f \in RemoteFields |-> p[f]]
  /\ p.view \in Ids /\ p.wanted \in Ids /\ p.pending \in Ids
  /\ p.create \in Nat /\ p.reqs \in Nat
  /\ p.list \subseteq Sessions /\ p.exited \subseteq Sessions
  /\ p.holder \in [Sessions -> Holders]

Requests == [t : {"sub", "control", "release"}, id : Sessions, req : {0}]
            \cup [t : {"create"}, id : {None}, req : Nat \ {0}]
Changes == [t : {"created", "exited"}, id : Sessions, req : {0}]
Controls == [t : {"control"}, id : Sessions, req : {0}, holder : Holders]
Events == Changes \cup Controls
Lists == [t : {"sessions"}, list : SUBSET Sessions, exited : SUBSET Sessions, told : SUBSET Sessions,
          holder : [Sessions -> Holders]]
Snaps == [t : {"snap"}, id : Sessions, req : {0}, holder : Holders]
Errors == [t : {"error"}, id : {None}, req : Nat]
Answers == [t : {"createResult"}, id : Sessions, req : Nat \ {0}]
Replies == Events \cup Lists \cup Snaps \cup Errors \cup Answers

Frames == [id : Sessions, press : BOOLEAN]

Doubts == [open : SUBSET Sessions, held : SUBSET Sessions]

States == [t : {"none", "asked", "served"}, list : SUBSET Sessions, exited : SUBSET Sessions,
           changed : Doubts, holder : [Sessions -> Holders]]

ViewTypeInv ==
  /\ IsRemote(remote)
  /\ frames \subseteq Frames
  /\ state \in States
  /\ conn \in Nat /\ opened \in Nat /\ alive \subseteq 1..opened
  /\ up \in Seq(Requests) /\ ev \in Seq(Events) /\ down \in Seq(Replies)
  /\ live \subseteq used /\ used \subseteq Sessions
  /\ dying \subseteq used \ live /\ ended \subseteq live \cup dying
  /\ untold \subseteq used /\ untold \cap Running = {}
  /\ hold \in [Sessions -> Nat \cup {-1}]
  /\ making \in [n : Nat, req : Nat, id : Ids] /\ (making.n # 0 => making.req # 0)
  /\ acts \in Nat /\ others \in Nat /\ wish \in Nat /\ stale \in Doubts
  /\ lost \subseteq Sessions

\* A create answer that is still waited for is that of the session the user waits for.
CreateInv == remote.create # 0 => remote.create = wish

\* What another device took is not wanted back.
YieldInv == \A s \in lost : remote.wanted # s

-----------------------------------------------------------------------------
(* What is on its way to the page *)

\* What a list, a control event or a screen says of the holder of s; the page
\* takes a screen's word for the session it views only.
HolderWords(s) == {m \in Lists : s \in m.list} \cup {m \in Controls : m.id = s}
HolderSayings(s) == HolderWords(s) \cup {m \in Snaps : m.id = s}
HolderTruths(s, who) == {m \in Lists : m.holder[s] = who} \cup {m \in Controls \cup Snaps : m.holder = who}

\* What a list or an event says of whether s is open.
OpenWords(s) == Lists \cup {m \in Changes : m.id = s}
OpenTruths(s, open) == {m \in Lists : s \in m.list \ (m.exited \cup m.told) <=> s \in open}
                       \cup {m \in Changes : m.t = "created" <=> s \in open}

\* No word of W comes after place i of q.
Quiet(q, W, i) == \A j \in DOMAIN q : j > i => q[j] \notin W

\* The last word in q that there is, and what is said after it, is true.
LastIsTrue(q, W, V, R) == \A i \in DOMAIN q : q[i] \in V /\ Quiet(q, W, i) => q[i] \in R

\* The events e come after what is in the socket d already.
Told(e, d, W, V, R) == /\ LastIsTrue(e, W, W, R)
                       /\ Quiet(e, W, 0) => LastIsTrue(d, W, V, R)
Silent(e, d, W) == Quiet(e, W, 0) /\ Quiet(d, W, 0)

\* The last word to come on the holder of an open session is the truth; when
\* there is none to come, the page knows it.
HolderInv ==
  conn \in alive => \A s \in live :
    /\ Told(ev, down, HolderWords(s), HolderSayings(s), HolderTruths(s, Seen(hold[s])))
    /\ Silent(ev, down, HolderWords(s)) /\ s \notin stale.held => remote.holder[s] = Seen(hold[s])

\* So it is with which sessions are open, but for those whose end is still to be told.
OpenInv ==
  conn \in alive => \A s \in Sessions \ untold :
    /\ Told(ev, down, OpenWords(s), OpenWords(s), OpenTruths(s, Running))
    /\ Silent(ev, down, OpenWords(s)) /\ s \notin stale.open =>
         (s \in remote.list \ remote.exited <=> s \in Running)

\* Nothing speaks of a session there has not been.
UnusedInv ==
  \A s \in Sessions \ used :
    /\ hold[s] = 0 /\ remote.holder[s] = "free" /\ state.holder[s] = "free"
    /\ \A i \in DOMAIN down : down[i] \notin HolderSayings(s)
    /\ \A i \in DOMAIN ev : ev[i] \notin HolderSayings(s)

\* Of what nothing has been told since, an answer of /api/state is the truth.
FreshInv == state.t = "served" =>
  /\ \A s \in Sessions \ (untold \cup state.changed.open) :
       s \in state.list \ state.exited <=> s \in Running
  /\ \A s \in live \ state.changed.held : state.holder[s] = Seen(hold[s])

KnowInv == HolderInv /\ OpenInv /\ UnusedInv /\ FreshInv

-----------------------------------------------------------------------------
(* What the handlers make of the page *)

\* What the page knows of the sessions is as before.
SameKnown(p, q) == q.holder = p.holder /\ q.list = p.list /\ q.exited = p.exited

\* The page gives up what it wanted when another device takes it.
Yields(p, q) == q.wanted \in {p.wanted, None} /\ \A s \in TookAway(p, q) : q.wanted # s

LEMMA NoneIsNoSession == None \notin Sessions
  BY ViewAssumption DEF None

LEMMA FailFacts ==
  ASSUME NEW p, IsRemote(p), NEW q, q = FailControlRequest(p)
  PROVE  /\ IsRemote(q) /\ SameKnown(p, q) /\ Yields(p, q)
         /\ q.view = p.view /\ q.create = p.create
<1>1. IsRemote(q) /\ SameKnown(p, q) /\ q.view = p.view /\ q.create = p.create
      /\ q.wanted \in {p.wanted, None}
  BY DEF FailControlRequest, IsRemote, RemoteFields, SameKnown, Ids
<1>2. TookAway(p, q) = {}
  BY <1>1 DEF TookAway, SameKnown
<1>3. QED
  BY <1>1, <1>2 DEF Yields

LEMMA ApplyFacts ==
  ASSUME NEW p, IsRemote(p), NEW id \in Sessions, NEW who \in Holders, NEW q, q = ApplyControl(p, id, who)
  PROVE  /\ IsRemote(q) /\ Yields(p, q)
         /\ q.view = p.view /\ q.create = p.create /\ q.list = p.list /\ q.exited = p.exited
         /\ q.holder = [p.holder EXCEPT ![id] = who]
<1>1. /\ q.view = p.view /\ q.create = p.create /\ q.list = p.list /\ q.exited = p.exited
      /\ q.reqs = p.reqs /\ q.holder = [p.holder EXCEPT ![id] = who]
      /\ q.pending = IF p.pending = id /\ who # "free" THEN None ELSE p.pending
      /\ q.wanted = IF p.wanted = id /\ who = "other" THEN None ELSE p.wanted
      /\ q = [f \in RemoteFields |-> q[f]]
  BY DEF ApplyControl, IsRemote, RemoteFields
<1>2. IsRemote(q)
  BY <1>1 DEF IsRemote, Ids
<1>3. \A s \in TookAway(p, q) : s = id /\ who = "other"
  BY <1>1 DEF TookAway, IsRemote
<1>4. Yields(p, q)
  BY <1>1, <1>3, NoneIsNoSession DEF Yields
<1>5. QED
  BY <1>1, <1>2, <1>4

LEMMA NoteFacts ==
  ASSUME NEW p, IsRemote(p), NEW id \in Sessions, NEW who \in Holders, NEW q,
         q = NoteControlHolder(p, id, who)
  PROVE  /\ IsRemote(q) /\ Yields(p, q)
         /\ q.view = p.view /\ q.create = p.create /\ q.list = p.list /\ q.exited = p.exited
         /\ q.holder = [p.holder EXCEPT ![id] = who]
<1>1. CASE p.holder[id] = who
  <2>1. q = p /\ p.holder = [p.holder EXCEPT ![id] = who]
    BY <1>1 DEF NoteControlHolder, IsRemote
  <2>2. QED
    BY <2>1 DEF Yields, TookAway
<1>2. CASE p.holder[id] # who
  BY <1>2, ApplyFacts DEF NoteControlHolder
<1>3. QED
  BY <1>1, <1>2

LEMMA SetFacts ==
  ASSUME NEW p, NEW l, NEW x, NEW h, NEW q, IsRemote(p), l \in SUBSET Sessions, x \in SUBSET Sessions,
         h \in [Sessions -> Holders], q = SetSessions(p, l, x, h)
  PROVE  /\ IsRemote(q) /\ Yields(p, q)
         /\ q.view = p.view /\ q.create = p.create /\ q.list = l /\ q.exited = x
         /\ \A s \in Sessions : q.holder[s] = IF s \in l THEN h[s] ELSE p.holder[s]
<1> DEFINE news == {s \in l : p.holder[s] # h[s]}
           pend == IF p.pending \in news /\ h[p.pending] # "free" THEN None ELSE p.pending
           want == IF p.wanted \in news /\ h[p.wanted] = "other" THEN None ELSE p.wanted
           hold2 == [s \in Sessions |-> IF s \in l THEN h[s] ELSE p.holder[s]]
           n == [p EXCEPT !.holder = hold2, !.pending = pend, !.wanted = want]
<1>1. Noted(p, l, h) = n
  BY DEF Noted
<1>2. q = [n EXCEPT !.list = l, !.exited = x]
  BY <1>1 DEF SetSessions
<1>3. pend \in Ids /\ want \in {p.wanted, None} /\ hold2 \in [Sessions -> Holders]
  BY DEF IsRemote, Ids
<1>4. \A s \in Sessions : p.holder[s] # "other" /\ hold2[s] = "other" => want # s
  BY NoneIsNoSession
<1>5. \A s \in Sessions : hold2[s] = IF s \in l THEN h[s] ELSE p.holder[s]
  OBVIOUS
<1> HIDE DEF pend, want, hold2
<1>6. /\ q.view = p.view /\ q.create = p.create /\ q.list = l /\ q.exited = x
      /\ q.reqs = p.reqs /\ q.holder = hold2 /\ q.pending = pend /\ q.wanted = want
      /\ q = [f \in RemoteFields |-> q[f]]
  BY <1>2 DEF IsRemote, RemoteFields
<1>7. IsRemote(q)
  BY <1>3, <1>6 DEF IsRemote, Ids
<1>8. Yields(p, q)
  BY <1>3, <1>4, <1>6 DEF Yields, TookAway
<1>9. QED
  BY <1>5, <1>6, <1>7, <1>8

LEMMA UpsertFacts ==
  ASSUME NEW p, IsRemote(p), NEW id \in Sessions, NEW q, q = Upsert(p, id)
  PROVE  /\ IsRemote(q) /\ q.holder = p.holder /\ q.wanted = p.wanted
         /\ q.view = p.view /\ q.create = p.create
         /\ q.list = p.list \cup {id} /\ q.exited = p.exited \ {id}
  BY DEF Upsert, IsRemote, RemoteFields

\* A record that keeps what the page knows of holders takes nothing away.
LEMMA SameYields ==
  ASSUME NEW p, NEW q, q.holder = p.holder, q.wanted \in {p.wanted, None}
  PROVE  Yields(p, q)
  BY DEF Yields, TookAway

\* The sorts of messages are told apart by their tags.
LEMMA Sorts ==
  ASSUME NEW m \in Replies
  PROVE  /\ m \in Lists => /\ m.t = "sessions" /\ m.list \in SUBSET Sessions /\ m.holder \in [Sessions -> Holders]
                            /\ m.exited \in SUBSET Sessions /\ m.told \in SUBSET Sessions
         /\ m \in Changes => m.t \in {"created", "exited"} /\ m.id \in Sessions
         /\ m \in Controls => m.t = "control" /\ m.id \in Sessions /\ m.holder \in Holders
         /\ m \in Snaps => m.t = "snap" /\ m.id \in Sessions /\ m.holder \in Holders
         /\ m \in Errors => m.t = "error" /\ m.req \in Nat
         /\ m \in Answers => m.t = "createResult" /\ m.id \in Sessions /\ m.req \in Nat \ {0}
         /\ m \in Lists \/ m \in Changes \/ m \in Controls \/ m \in Snaps \/ m \in Errors \/ m \in Answers
  BY DEF Replies, Events, Lists, Changes, Controls, Snaps, Errors, Answers

HandledAs(m, q) ==
  /\ IsRemote(q) /\ Yields(remote, q) /\ q.create \in {remote.create, 0}
  /\ m \in Lists =>
       /\ q.view = remote.view /\ q.list = m.list /\ q.exited = m.exited
       /\ \A s \in Sessions : q.holder[s] = IF s \in m.list THEN m.holder[s] ELSE remote.holder[s]
  /\ m \in Changes =>
       /\ q.view = remote.view /\ q.holder = remote.holder
       /\ m.t = "created" => q.list = remote.list \cup {m.id} /\ q.exited = remote.exited \ {m.id}
       /\ m.t = "exited" => q.list = remote.list /\ q.exited = remote.exited \cup ({m.id} \cap remote.list)
  /\ m \in Controls =>
       /\ q.view = remote.view /\ q.list = remote.list /\ q.exited = remote.exited
       /\ q.holder = [remote.holder EXCEPT ![m.id] = m.holder]
  /\ m \in Snaps =>
       /\ q.view = remote.view /\ q.list = remote.list /\ q.exited = remote.exited
       /\ q.holder \in {remote.holder, [remote.holder EXCEPT ![m.id] = m.holder]}
  /\ m \in Errors => q.view = remote.view /\ SameKnown(remote, q)
  /\ m \in Answers =>
       /\ q.holder = remote.holder
       /\ \/ q = remote
          \/ /\ m.req = remote.create /\ q.view = m.id
             /\ q.list = remote.list \cup {m.id} /\ q.exited = remote.exited \ {m.id}

LEMMA HandledFacts ==
  ASSUME ViewTypeInv, NEW m \in Replies
  PROVE  HandledAs(m, Handled(m))
<1> SUFFICES ASSUME NEW q, q = Handled(m) PROVE HandledAs(m, q)
  OBVIOUS
<1>0. IsRemote(remote)
  BY DEF ViewTypeInv
<1>1. CASE m \in Lists
  <2>1. m.t = "sessions" /\ m.list \in SUBSET Sessions /\ m.holder \in [Sessions -> Holders]
        /\ m.exited \in SUBSET Sessions
    BY <1>1, Sorts
  <2>2. q = SetSessions(remote, m.list, m.exited, m.holder)
    BY <2>1 DEF Handled
  <2>3. m \notin Changes /\ m \notin Controls /\ m \notin Snaps /\ m \notin Errors /\ m \notin Answers
    BY <2>1, Sorts
  <2>4. PICK l \in SUBSET Sessions, x \in SUBSET Sessions, h \in [Sessions -> Holders] :
          l = m.list /\ x = m.exited /\ h = m.holder
    BY <2>1
  <2>5. /\ IsRemote(q) /\ Yields(remote, q)
        /\ q.view = remote.view /\ q.create = remote.create /\ q.list = l /\ q.exited = x
        /\ \A s \in Sessions : q.holder[s] = IF s \in l THEN h[s] ELSE remote.holder[s]
    <3>1. q = SetSessions(remote, l, x, h)
      BY <2>2, <2>4
    <3>2. QED
      BY <1>0, <3>1, SetFacts
  <2>6. QED
    BY <2>3, <2>4, <2>5 DEF HandledAs
<1>2. CASE m \in Changes
  <2>1. m.t \in {"created", "exited"} /\ m.id \in Sessions
    BY <1>2, Sorts
  <2>2. m \notin Lists /\ m \notin Controls /\ m \notin Snaps /\ m \notin Errors /\ m \notin Answers
    BY <2>1, Sorts
  <2>3. CASE m.t = "created"
    <3>1. q = Upsert(remote, m.id)
      BY <2>3 DEF Handled
    <3>2. QED
      BY <1>0, <2>1, <2>2, <2>3, <3>1, UpsertFacts, SameYields DEF HandledAs
  <2>4. CASE m.t = "exited"
    <3>1. q = [remote EXCEPT !.exited = @ \cup ({m.id} \cap remote.list)]
      BY <2>4 DEF Handled
    <3>2. /\ IsRemote(q) /\ q.holder = remote.holder /\ q.wanted = remote.wanted /\ q.view = remote.view
          /\ q.create = remote.create /\ q.list = remote.list
          /\ q.exited = remote.exited \cup ({m.id} \cap remote.list)
      BY <1>0, <2>1, <3>1 DEF IsRemote, RemoteFields
    <3>3. QED
      BY <2>2, <2>4, <3>2, SameYields DEF HandledAs
  <2>5. QED
    BY <2>1, <2>3, <2>4
<1>3. CASE m \in Controls
  <2>1. m.t = "control" /\ m.id \in Sessions /\ m.holder \in Holders
    BY <1>3, Sorts
  <2>2. q = ApplyControl(remote, m.id, m.holder)
    BY <2>1 DEF Handled
  <2>3. m \notin Changes /\ m \notin Lists /\ m \notin Snaps /\ m \notin Errors /\ m \notin Answers
    BY <2>1, Sorts
  <2>4. QED
    BY <1>0, <2>1, <2>2, <2>3, ApplyFacts DEF HandledAs
<1>4. CASE m \in Snaps
  <2>1. m.t = "snap" /\ m.id \in Sessions /\ m.holder \in Holders
    BY <1>4, Sorts
  <2>2. q = IF m.id # remote.view THEN remote ELSE NoteControlHolder(remote, m.id, m.holder)
    BY <2>1 DEF Handled
  <2>3. m \notin Changes /\ m \notin Controls /\ m \notin Lists /\ m \notin Errors /\ m \notin Answers
    BY <2>1, Sorts
  <2>4. CASE m.id # remote.view
    BY <1>0, <2>2, <2>3, <2>4, SameYields DEF HandledAs
  <2>5. CASE m.id = remote.view
    BY <1>0, <2>1, <2>2, <2>3, <2>5, NoteFacts DEF HandledAs
  <2>6. QED
    BY <2>4, <2>5
<1>5. CASE m \in Errors
  <2>1. m.t = "error" /\ m.req \in Nat
    BY <1>5, Sorts
  <2>2. q = IF m.req # 0 /\ m.req = remote.create THEN [remote EXCEPT !.create = 0]
            ELSE FailControlRequest(remote)
    BY <2>1 DEF Handled
  <2>3. m \notin Changes /\ m \notin Controls /\ m \notin Snaps /\ m \notin Lists /\ m \notin Answers
    BY <2>1, Sorts
  <2>4. CASE m.req # 0 /\ m.req = remote.create
    <3>1. /\ IsRemote(q) /\ SameKnown(remote, q) /\ q.wanted = remote.wanted
          /\ q.create = 0 /\ q.view = remote.view
      BY <1>0, <2>2, <2>4 DEF IsRemote, RemoteFields, SameKnown
    <3>2. QED
      BY <2>3, <3>1, SameYields DEF HandledAs, SameKnown
  <2>5. CASE ~(m.req # 0 /\ m.req = remote.create)
    <3>1. q = FailControlRequest(remote)
      BY <2>2, <2>5
    <3>2. QED
      BY <1>0, <2>3, <3>1, FailFacts DEF HandledAs
  <2>6. QED
    BY <2>4, <2>5
<1>6. CASE m \in Answers
  <2>1. m.t = "createResult" /\ m.id \in Sessions /\ m.req \in Nat \ {0}
    BY <1>6, Sorts
  <2>2. q = IF m.req # remote.create THEN remote
            ELSE OpenedView(Upsert([remote EXCEPT !.create = 0], m.id), m.id)
    BY <2>1 DEF Handled
  <2>3. m \notin Changes /\ m \notin Controls /\ m \notin Snaps /\ m \notin Errors /\ m \notin Lists
    BY <2>1, Sorts
  <2>4. CASE m.req # remote.create
    BY <1>0, <2>2, <2>3, <2>4, SameYields DEF HandledAs
  <2>5. CASE m.req = remote.create
    <3>1. PICK a, b : a = [remote EXCEPT !.create = 0] /\ b = Upsert(a, m.id)
      OBVIOUS
    <3>2. q = [b EXCEPT !.view = m.id]
      BY <2>2, <2>5, <3>1 DEF OpenedView
    <3>3. IsRemote(a) /\ SameKnown(remote, a) /\ a.wanted = remote.wanted /\ a.create = 0
      BY <1>0, <3>1 DEF IsRemote, RemoteFields, SameKnown
    <3>4. /\ IsRemote(b) /\ b.holder = a.holder /\ b.wanted = a.wanted /\ b.create = a.create
          /\ b.list = a.list \cup {m.id} /\ b.exited = a.exited \ {m.id}
      <4>1. m.id \in Sessions /\ b = Upsert(a, m.id) /\ IsRemote(a)
        BY <2>1, <3>1, <3>3
      <4>2. QED
        BY <4>1, UpsertFacts
    <3>5. /\ IsRemote(q) /\ q.holder = b.holder /\ q.wanted = b.wanted /\ q.create = b.create
          /\ q.list = b.list /\ q.exited = b.exited /\ q.view = m.id
      BY <2>1, <3>2, <3>4 DEF IsRemote, RemoteFields, Ids
    <3>6. q.holder = remote.holder /\ q.wanted = remote.wanted /\ q.create = 0
          /\ q.list = remote.list \cup {m.id} /\ q.exited = remote.exited \ {m.id}
      BY <3>3, <3>4, <3>5 DEF SameKnown
    <3>7. Yields(remote, q)
      BY <3>6, SameYields
    <3>8. QED
      BY <2>3, <2>5, <3>5, <3>6, <3>7 DEF HandledAs
  <2>6. QED
    BY <2>4, <2>5
<1>7. QED
  BY <1>1, <1>2, <1>3, <1>4, <1>5, <1>6, Sorts

-----------------------------------------------------------------------------
(* Words in queues *)

LEMMA QuietAppend ==
  ASSUME NEW S, NEW q \in Seq(S), NEW m \in S, NEW W, NEW i \in 0..Len(q)
  PROVE  Quiet(Append(q, m), W, i) <=> Quiet(q, W, i) /\ m \notin W
<1>1. /\ DOMAIN Append(q, m) = 1..(Len(q) + 1) /\ DOMAIN q = 1..Len(q)
      /\ \A j \in 1..(Len(q) + 1) : j \in 1..Len(q) \/ j = Len(q) + 1
      /\ Len(q) + 1 \in 1..(Len(q) + 1) /\ Len(q) + 1 > i
      /\ Append(q, m)[Len(q) + 1] = m
      /\ \A j \in 1..Len(q) : Append(q, m)[j] = q[j] /\ j \in 1..(Len(q) + 1)
  OBVIOUS
<1>2. ASSUME Quiet(Append(q, m), W, i) PROVE Quiet(q, W, i) /\ m \notin W
  BY <1>1, <1>2 DEF Quiet
<1>3. ASSUME Quiet(q, W, i), m \notin W PROVE Quiet(Append(q, m), W, i)
  BY <1>1, <1>3 DEF Quiet
<1>4. QED
  BY <1>2, <1>3

LEMMA QuietCat ==
  ASSUME NEW S, NEW q \in Seq(S), NEW r \in Seq(S), NEW W, NEW i \in 0..Len(q)
  PROVE  Quiet(q \o r, W, i) <=> Quiet(q, W, i) /\ Quiet(r, W, 0)
<1>1. DOMAIN (q \o r) = 1..(Len(q) + Len(r)) /\ DOMAIN q = 1..Len(q) /\ DOMAIN r = 1..Len(r)
  OBVIOUS
<1>2. /\ \A j \in DOMAIN q : (q \o r)[j] = q[j]
      /\ \A j \in DOMAIN r : (q \o r)[Len(q) + j] = r[j]
  OBVIOUS
<1>3. \A j \in 1..(Len(q) + Len(r)) : j \in 1..Len(q) \/ \E k \in 1..Len(r) : j = Len(q) + k
  <2> SUFFICES ASSUME NEW j \in 1..(Len(q) + Len(r)), j \notin 1..Len(q)
               PROVE  \E k \in 1..Len(r) : j = Len(q) + k
    OBVIOUS
  <2>1. j - Len(q) \in 1..Len(r) /\ j = Len(q) + (j - Len(q))
    OBVIOUS
  <2>2. QED
    BY <2>1
<1>4. \A k \in 1..Len(r) : Len(q) + k > i /\ Len(q) + k \in 1..(Len(q) + Len(r)) /\ k > 0
  OBVIOUS
<1>5. ASSUME Quiet(q \o r, W, i) PROVE Quiet(q, W, i) /\ Quiet(r, W, 0)
  <2>1. ASSUME NEW j \in 1..Len(q), j > i PROVE q[j] \notin W
    <3>1. j \in 1..(Len(q) + Len(r)) /\ (q \o r)[j] = q[j]
      BY <1>1, <1>2
    <3>2. QED
      BY <1>1, <1>5, <2>1, <3>1 DEF Quiet
  <2>2. ASSUME NEW k \in 1..Len(r) PROVE r[k] \notin W
    <3>1. /\ Len(q) + k \in 1..(Len(q) + Len(r)) /\ Len(q) + k > i
          /\ (q \o r)[Len(q) + k] = r[k]
      BY <1>1, <1>2, <1>4
    <3>2. QED
      BY <1>1, <1>5, <3>1 DEF Quiet
  <2>3. QED
    BY <1>1, <2>1, <2>2 DEF Quiet
<1>6. ASSUME Quiet(q, W, i), Quiet(r, W, 0) PROVE Quiet(q \o r, W, i)
  <2> SUFFICES ASSUME NEW j \in 1..(Len(q) + Len(r)), j > i PROVE (q \o r)[j] \notin W
    BY <1>1 DEF Quiet
  <2>1. CASE j \in 1..Len(q)
    BY <1>1, <1>2, <1>6, <2>1 DEF Quiet
  <2>2. CASE j \notin 1..Len(q)
    <3>1. PICK k \in 1..Len(r) : j = Len(q) + k
      BY <1>3, <2>2
    <3>2. QED
      BY <1>1, <1>2, <1>4, <1>6, <3>1 DEF Quiet
  <2>3. QED
    BY <2>1, <2>2
<1>7. QED
  BY <1>5, <1>6

LEMMA QuietTail ==
  ASSUME NEW S, NEW q \in Seq(S), q # <<>>, NEW W
  PROVE  /\ \A i \in 0..Len(Tail(q)) : Quiet(Tail(q), W, i) <=> Quiet(q, W, i + 1)
         /\ Quiet(q, W, 0) <=> Quiet(Tail(q), W, 0) /\ Head(q) \notin W
<1>1. /\ Tail(q) \in Seq(S) /\ Len(Tail(q)) = Len(q) - 1 /\ Len(q) \in Nat /\ Len(q) > 0
      /\ \A j \in 1..(Len(q) - 1) : Tail(q)[j] = q[j + 1]
      /\ Head(q) = q[1]
  OBVIOUS
<1>2. DOMAIN q = 1..Len(q) /\ DOMAIN Tail(q) = 1..(Len(q) - 1)
  BY <1>1
<1>3. ASSUME NEW i \in 0..Len(Tail(q)), Quiet(Tail(q), W, i) PROVE Quiet(q, W, i + 1)
  <2> SUFFICES ASSUME NEW j \in 1..Len(q), j > i + 1 PROVE q[j] \notin W
    BY <1>2 DEF Quiet
  <2>1. j - 1 \in 1..(Len(q) - 1) /\ j - 1 > i /\ (j - 1) + 1 = j
    BY <1>1
  <2>2. QED
    BY <1>1, <1>2, <1>3, <2>1 DEF Quiet
<1>4. ASSUME NEW i \in 0..Len(Tail(q)), Quiet(q, W, i + 1) PROVE Quiet(Tail(q), W, i)
  <2> SUFFICES ASSUME NEW j \in 1..(Len(q) - 1), j > i PROVE Tail(q)[j] \notin W
    BY <1>2 DEF Quiet
  <2>1. j + 1 \in 1..Len(q) /\ j + 1 > i + 1
    BY <1>1
  <2>2. QED
    BY <1>1, <1>2, <1>4, <2>1 DEF Quiet
<1>5. Quiet(q, W, 0) <=> Quiet(q, W, 1) /\ q[1] \notin W
  <2>1. \A j \in 1..Len(q) : j > 0 <=> (j > 1 \/ j = 1)
    OBVIOUS
  <2>2. 1 \in 1..Len(q)
    BY <1>1
  <2>3. QED
    BY <1>2, <2>1, <2>2 DEF Quiet
<1>6. Quiet(Tail(q), W, 0) <=> Quiet(q, W, 1)
  <2>1. 0 \in 0..Len(Tail(q)) /\ 0 + 1 = 1
    BY <1>1
  <2>2. QED
    BY <1>3, <1>4, <2>1
<1>7. QED
  BY <1>1, <1>3, <1>4, <1>5, <1>6

\* The last word when something is put behind, and when the head is taken off.
LEMMA LastInTail ==
  ASSUME NEW S, NEW q \in Seq(S), q # <<>>, NEW W, NEW V, NEW R, LastIsTrue(q, W, V, R)
  PROVE  /\ LastIsTrue(Tail(q), W, V, R)
         /\ Head(q) \in V /\ Quiet(Tail(q), W, 0) => Head(q) \in R
<1>1. /\ Tail(q) \in Seq(S) /\ Len(Tail(q)) = Len(q) - 1 /\ Len(q) \in Nat /\ Len(q) > 0
      /\ \A j \in 1..(Len(q) - 1) : Tail(q)[j] = q[j + 1]
      /\ Head(q) = q[1] /\ DOMAIN q = 1..Len(q) /\ DOMAIN Tail(q) = 1..(Len(q) - 1)
  OBVIOUS
<1>2. ASSUME NEW i \in DOMAIN Tail(q), Tail(q)[i] \in V, Quiet(Tail(q), W, i)
      PROVE  Tail(q)[i] \in R
  <2>1. i \in 0..Len(Tail(q)) /\ i + 1 \in DOMAIN q /\ Tail(q)[i] = q[i + 1]
    BY <1>1
  <2>2. Quiet(q, W, i + 1)
    BY <1>2, <2>1, QuietTail
  <2>3. QED
    BY <1>2, <2>1, <2>2 DEF LastIsTrue
<1>3. ASSUME Head(q) \in V, Quiet(Tail(q), W, 0) PROVE Head(q) \in R
  <2>1. 0 \in 0..Len(Tail(q)) /\ 0 + 1 = 1 /\ 1 \in DOMAIN q
    BY <1>1
  <2>2. Quiet(q, W, 1)
    BY <1>3, <2>1, QuietTail
  <2>3. QED
    BY <1>1, <1>3, <2>1, <2>2 DEF LastIsTrue
<1>4. QED
  BY <1>2, <1>3 DEF LastIsTrue

LEMMA LastInCat ==
  ASSUME NEW S, NEW q \in Seq(S), NEW r \in Seq(S), NEW W, NEW V, NEW R, NEW Q,
         LastIsTrue(q, W, V, R), LastIsTrue(r, W, V, Q), Quiet(r, W, 0) => R \subseteq Q
  PROVE  LastIsTrue(q \o r, W, V, Q)
<1>1. DOMAIN (q \o r) = 1..(Len(q) + Len(r)) /\ DOMAIN q = 1..Len(q) /\ DOMAIN r = 1..Len(r)
  OBVIOUS
<1>2. /\ \A j \in DOMAIN q : (q \o r)[j] = q[j]
      /\ \A j \in DOMAIN r : (q \o r)[Len(q) + j] = r[j]
  OBVIOUS
<1>3. \A j \in 1..(Len(q) + Len(r)) : j \in 1..Len(q) \/ \E k \in 1..Len(r) : j = Len(q) + k
  <2> SUFFICES ASSUME NEW j \in 1..(Len(q) + Len(r)), j \notin 1..Len(q)
               PROVE  \E k \in 1..Len(r) : j = Len(q) + k
    OBVIOUS
  <2>1. j - Len(q) \in 1..Len(r) /\ j = Len(q) + (j - Len(q))
    OBVIOUS
  <2>2. QED
    BY <2>1
<1>4. ASSUME NEW i \in DOMAIN q, q[i] \in V, Quiet(q \o r, W, i) PROVE q[i] \in Q
  <2>1. i \in 0..Len(q)
    OBVIOUS
  <2>2. Quiet(q, W, i) /\ Quiet(r, W, 0)
    BY <1>4, <2>1, QuietCat
  <2>3. QED
    BY <1>4, <2>2 DEF LastIsTrue
<1>5. ASSUME NEW k \in DOMAIN r, r[k] \in V, Quiet(q \o r, W, Len(q) + k) PROVE r[k] \in Q
  <2>1. \A j \in DOMAIN r : j > k => Len(q) + j > Len(q) + k /\ Len(q) + j \in DOMAIN (q \o r)
    BY <1>1
  <2>2. Quiet(r, W, k)
    BY <1>2, <1>5, <2>1 DEF Quiet
  <2>3. QED
    BY <1>5, <2>2 DEF LastIsTrue
<1>6. ASSUME NEW i \in DOMAIN (q \o r), (q \o r)[i] \in V, Quiet(q \o r, W, i) PROVE (q \o r)[i] \in Q
  <2>1. CASE i \in DOMAIN q
    BY <1>2, <1>4, <1>6, <2>1
  <2>2. CASE i \notin DOMAIN q
    <3>1. PICK k \in DOMAIN r : i = Len(q) + k
      BY <1>1, <1>3, <2>2
    <3>2. QED
      BY <1>2, <1>5, <1>6, <3>1
  <2>3. QED
    BY <2>1, <2>2
<1>7. QED
  BY <1>6 DEF LastIsTrue

LEMMA LastInAppend ==
  ASSUME NEW S, NEW q \in Seq(S), NEW m \in S, NEW W, NEW V, NEW R,
         m \notin W => LastIsTrue(q, W, V, R), m \in V => m \in R, W \subseteq V
  PROVE  LastIsTrue(Append(q, m), W, V, R)
<1>1. /\ DOMAIN Append(q, m) = 1..(Len(q) + 1) /\ DOMAIN q = 1..Len(q)
      /\ \A i \in 1..(Len(q) + 1) : i \in 1..Len(q) \/ i = Len(q) + 1
      /\ Append(q, m)[Len(q) + 1] = m
      /\ \A i \in DOMAIN q : Append(q, m)[i] = q[i] /\ i \in 0..Len(q)
  OBVIOUS
<1>2. ASSUME NEW i \in DOMAIN q, q[i] \in V, Quiet(Append(q, m), W, i) PROVE q[i] \in R
  BY <1>1, <1>2, QuietAppend DEF LastIsTrue
<1>3. QED
  BY <1>1, <1>2 DEF LastIsTrue

\* The server sends events.
LEMMA ToldSent ==
  ASSUME NEW S, NEW e \in Seq(S), NEW d \in Seq(S), NEW told \in Seq(S), NEW W, NEW V, NEW R, NEW Q,
         Told(e, d, W, V, R), LastIsTrue(told, W, W, Q), Quiet(told, W, 0) => R \subseteq Q
  PROVE  /\ Told(e \o told, d, W, V, Q)
         /\ Silent(e \o told, d, W) => Silent(e, d, W) /\ Quiet(told, W, 0)
<1>1. LastIsTrue(e \o told, W, W, Q)
  BY LastInCat DEF Told
<1>2. 0 \in 0..Len(e)
  OBVIOUS
<1>3. Quiet(e \o told, W, 0) => Quiet(e, W, 0) /\ Quiet(told, W, 0)
  BY <1>2, QuietCat
<1>4. Quiet(e \o told, W, 0) => LastIsTrue(d, W, V, Q)
  BY <1>3 DEF Told, LastIsTrue
<1>5. QED
  BY <1>1, <1>3, <1>4 DEF Told, Silent

\* What was said before does not matter when there is a newer word.
LEMMA ToldAnew ==
  ASSUME NEW S, NEW e \in Seq(S), NEW d \in Seq(S), NEW told \in Seq(S), NEW W, NEW V, NEW Q,
         LastIsTrue(told, W, W, Q), ~Quiet(told, W, 0)
  PROVE  Told(e \o told, d, W, V, Q) /\ ~Silent(e \o told, d, W)
<1>2. 0 \in 0..Len(e)
  OBVIOUS
<1>3. ~Quiet(e \o told, W, 0)
  BY <1>2, QuietCat
<1>4. LastIsTrue(e, W, W, W)
  BY DEF LastIsTrue
<1>5. LastIsTrue(e \o told, W, W, Q)
  BY <1>4, LastInCat
<1>6. QED
  BY <1>3, <1>5 DEF Told, Silent

\* The connection answers, ahead of the events.
LEMMA ToldReplied ==
  ASSUME NEW S, NEW e \in Seq(S), NEW d \in Seq(S), NEW m \in S, NEW W, NEW V, NEW R,
         Told(e, d, W, V, R), W \subseteq V, Quiet(e, W, 0) /\ m \in V => m \in R
  PROVE  /\ Told(e, Append(d, m), W, V, R)
         /\ Silent(e, Append(d, m), W) => Silent(e, d, W) /\ m \notin W
<1>1. 0 \in 0..Len(d)
  OBVIOUS
<1>2. Quiet(Append(d, m), W, 0) => Quiet(d, W, 0) /\ m \notin W
  BY <1>1, QuietAppend
<1>3. Quiet(e, W, 0) => LastIsTrue(Append(d, m), W, V, R)
  BY LastInAppend DEF Told
<1>4. QED
  BY <1>2, <1>3 DEF Told, Silent

LEMMA ToldForwarded ==
  ASSUME NEW S, NEW e \in Seq(S), NEW d \in Seq(S), NEW W, NEW V, NEW R, e # <<>>,
         Told(e, d, W, V, R), W \subseteq V, Head(e) \in V => Head(e) \in W
  PROVE  /\ Told(Tail(e), Append(d, Head(e)), W, V, R)
         /\ Silent(Tail(e), Append(d, Head(e)), W) => Silent(e, d, W)
<1>1. Tail(e) \in Seq(S) /\ Head(e) \in S /\ 0 \in 0..Len(d)
  OBVIOUS
<1>2. LastIsTrue(Tail(e), W, W, R) /\ (Head(e) \in W /\ Quiet(Tail(e), W, 0) => Head(e) \in R)
  BY LastInTail DEF Told
<1>3. Quiet(e, W, 0) <=> Quiet(Tail(e), W, 0) /\ Head(e) \notin W
  BY QuietTail
<1>4. Quiet(Append(d, Head(e)), W, 0) => Quiet(d, W, 0) /\ Head(e) \notin W
  BY <1>1, QuietAppend
<1>5. ASSUME Quiet(Tail(e), W, 0) PROVE LastIsTrue(Append(d, Head(e)), W, V, R)
  <2>1. Head(e) \notin W => LastIsTrue(d, W, V, R)
    BY <1>3, <1>5 DEF Told
  <2>2. Head(e) \in V => Head(e) \in R
    BY <1>2, <1>5
  <2>3. QED
    BY <1>1, <2>1, <2>2, LastInAppend
<1>6. QED
  BY <1>2, <1>3, <1>4, <1>5 DEF Told, Silent

\* An event is lost, and a word of the list made up for it.
LEMMA ToldLagged ==
  ASSUME NEW S, NEW e \in Seq(S), NEW d \in Seq(S), NEW l \in S, NEW W, NEW V, NEW R, e # <<>>,
         Told(e, d, W, V, R), W \subseteq V, l \in W, l \in R
  PROVE  Told(Tail(e), Append(d, l), W, V, R) /\ ~Silent(Tail(e), Append(d, l), W)
<1>1. LastIsTrue(Tail(e), W, W, R)
  BY LastInTail DEF Told
<1>2. LastIsTrue(Append(d, l), W, V, R)
  BY LastInAppend
<1>3. 0 \in 0..Len(d)
  OBVIOUS
<1>4. ~Quiet(Append(d, l), W, 0)
  BY <1>3, QuietAppend
<1>5. QED
  BY <1>1, <1>2, <1>4 DEF Told, Silent

\* The page takes a message.
LEMMA ToldHandled ==
  ASSUME NEW S, NEW e \in Seq(S), NEW d \in Seq(S), NEW W, NEW V, NEW R, d # <<>>,
         Told(e, d, W, V, R)
  PROVE  /\ Told(e, Tail(d), W, V, R)
         /\ Silent(e, Tail(d), W) /\ Head(d) \in V => Head(d) \in R
         /\ Silent(e, Tail(d), W) /\ Head(d) \notin W => Silent(e, d, W)
<1>1. Quiet(e, W, 0) => /\ LastIsTrue(Tail(d), W, V, R)
                        /\ Head(d) \in V /\ Quiet(Tail(d), W, 0) => Head(d) \in R
  BY LastInTail DEF Told
<1>2. Quiet(d, W, 0) <=> Quiet(Tail(d), W, 0) /\ Head(d) \notin W
  BY QuietTail
<1>3. QED
  BY <1>1, <1>2 DEF Told, Silent

-----------------------------------------------------------------------------
(* Types, the session the user waits for, and what was given up *)

BasicInv == ViewTypeInv /\ CreateInv /\ YieldInv

LEMMA MsgIsRequest ==
  ASSUME NEW t \in {"sub", "control", "release"}, NEW id \in Sessions
  PROVE  Msg(t, id) \in Requests
  BY DEF Msg, Requests

LEMMA SendTypes ==
  ASSUME up \in Seq(Requests), NEW m \in Requests, Send(m)
  PROVE  up' \in Seq(Requests)
  BY DEF Send

LEMMA FrameFits ==
  ASSUME NEW id \in Sessions
  PROVE  [id |-> id, press |-> TRUE] \in Frames /\ [id |-> id, press |-> FALSE] \in Frames
  BY DEF Frames

LEMMA SeenHolder == ASSUME NEW h \in Nat \cup {-1} PROVE Seen(h) \in Holders
  BY DEF Seen, Holders, Other

LEMMA ListIsList ==
  ASSUME ViewTypeInv
  PROVE  List \in Lists
<1>1. [s \in Sessions |-> Seen(hold[s])] \in [Sessions -> Holders]
  BY SeenHolder DEF ViewTypeInv
<1>2. QED
  BY <1>1 DEF ViewTypeInv, List, Lists

LEMMA ControlIsEvent ==
  ASSUME NEW s \in Sessions, NEW h \in Nat \cup {-1}
  PROVE  Control(s, h) \in Controls
  BY SeenHolder DEF Control, Controls

LEMMA OpenViewBasic ==
  ASSUME BasicInv, NEW s \in Sessions, OpenView(s)
  PROVE  BasicInv'
<1>1. /\ remote' = [remote EXCEPT !.view = s] /\ Send(Msg("sub", s)) /\ acts' = acts + 1
      /\ UNCHANGED <<frames, state, stale, wish, lost, alive, live, dying, ended, untold, hold, making, used, conn, opened, ev, down, others>>
  BY DEF OpenView, OpenedView, Act, server, sessions
<1>2. IsRemote(remote') /\ remote'.create = remote.create /\ remote'.wanted = remote.wanted
  BY <1>1 DEF BasicInv, ViewTypeInv, IsRemote, RemoteFields, Ids
<1>3. up' \in Seq(Requests)
  BY <1>1, MsgIsRequest, SendTypes DEF BasicInv, ViewTypeInv
<1>4. QED
  BY <1>1, <1>2, <1>3 DEF BasicInv, ViewTypeInv, Running, CreateInv, YieldInv

LEMMA CloseViewBasic ==
  ASSUME BasicInv, CloseView
  PROVE  BasicInv'
<1>1. /\ remote' = [remote EXCEPT !.create = 0, !.wanted = None, !.pending = None, !.view = None]
      /\ remote.view # None /\ wish' = 0 /\ acts' = acts + 1
      /\ Send(Msg("release", remote.view)) \/ up' = up
      /\ UNCHANGED <<frames, state, stale, lost, alive, live, dying, ended, untold, hold, making, used, conn, opened, ev, down, others>>
  BY DEF CloseView, Act, server, sessions
<1>2. IsRemote(remote') /\ remote'.create = 0 /\ remote'.wanted = None /\ remote.view \in Sessions
  BY <1>1 DEF BasicInv, ViewTypeInv, IsRemote, RemoteFields, Ids
<1>3. up' \in Seq(Requests)
  BY <1>1, <1>2, MsgIsRequest, SendTypes DEF BasicInv, ViewTypeInv
<1>4. QED
  BY <1>1, <1>2, <1>3, NoneIsNoSession DEF BasicInv, ViewTypeInv, Running, CreateInv, YieldInv

LEMMA CreateSessionBasic ==
  ASSUME BasicInv, CreateSession
  PROVE  BasicInv'
<1>1. /\ remote' = [remote EXCEPT !.create = remote.reqs + 1, !.reqs = remote.reqs + 1]
      /\ wish' = remote.reqs + 1 /\ acts' = acts + 1
      /\ Send([t |-> "create", id |-> None, req |-> remote.reqs + 1])
      /\ UNCHANGED <<frames, state, stale, lost, alive, live, dying, ended, untold, hold, making, used, conn, opened, ev, down, others>>
  BY DEF CreateSession, Act, server, sessions
<1>2. /\ remote.reqs + 1 \in Nat \ {0}
      /\ IsRemote(remote') /\ remote'.create = remote.reqs + 1 /\ remote'.wanted = remote.wanted
  <2>1. IsRemote(remote) /\ remote.reqs \in Nat
    BY DEF BasicInv, ViewTypeInv, IsRemote
  <2>2. PICK r \in Nat \ {0} : r = remote.reqs + 1
    BY <2>1
  <2>3. remote' = [remote EXCEPT !.create = r, !.reqs = r]
    BY <1>1, <2>2
  <2>4. IsRemote(remote') /\ remote'.create = r /\ remote'.wanted = remote.wanted
    BY <2>1, <2>3 DEF IsRemote, RemoteFields, Ids
  <2>5. QED
    BY <2>2, <2>4
<1>3. [t |-> "create", id |-> None, req |-> remote.reqs + 1] \in Requests
  BY <1>2 DEF Requests
<1>4. up' \in Seq(Requests)
  BY <1>1, <1>3, SendTypes DEF BasicInv, ViewTypeInv
<1>5. CreateInv' /\ YieldInv'
  BY <1>1, <1>2 DEF BasicInv, CreateInv, YieldInv
<1>6. acts' \in Nat /\ wish' \in Nat
  BY <1>1, <1>2 DEF BasicInv, ViewTypeInv
<1>7. ViewTypeInv'
  BY <1>1, <1>2, <1>4, <1>6 DEF BasicInv, ViewTypeInv, Running
<1>8. QED
  BY <1>5, <1>7 DEF BasicInv

LEMMA CreateTimeoutBasic ==
  ASSUME BasicInv, CreateTimeout
  PROVE  BasicInv'
<1>1. /\ remote' = [remote EXCEPT !.create = 0] /\ wish' = 0
      /\ UNCHANGED <<frames, state, stale, lost, alive, live, dying, ended, untold, hold, making, used, conn, opened, up, ev, down, acts, others>>
  BY DEF CreateTimeout, server, sessions, link, bounds
<1>2. IsRemote(remote') /\ remote'.create = 0 /\ remote'.wanted = remote.wanted
  BY <1>1 DEF BasicInv, ViewTypeInv, IsRemote, RemoteFields, Ids
<1>3. QED
  BY <1>1, <1>2 DEF BasicInv, ViewTypeInv, Running, CreateInv, YieldInv

LEMMA ToggleControlBasic ==
  ASSUME BasicInv, ToggleControl
  PROVE  BasicInv'
<1>1. /\ remote.view # None /\ acts' = acts + 1
      /\ UNCHANGED <<state, stale, wish, alive, live, dying, ended, untold, hold, making, used, conn, opened, ev, down, others>>
      /\ \/ /\ remote' = [remote EXCEPT !.wanted = None, !.pending = None]
            /\ Send(Msg("release", remote.view)) /\ UNCHANGED <<frames, lost>>
         \/ /\ remote' = [remote EXCEPT !.wanted = remote.view, !.pending = remote.view]
            /\ frames' = frames \cup {[id |-> remote.view, press |-> TRUE]}
            /\ lost' = lost \ {remote.view} /\ up' = up
  BY DEF ToggleControl, Act, server, sessions
<1>2. remote.view \in Sessions
  BY <1>1 DEF BasicInv, ViewTypeInv, IsRemote, Ids
<1>3. CASE remote' = [remote EXCEPT !.wanted = None, !.pending = None]
           /\ Send(Msg("release", remote.view)) /\ UNCHANGED <<frames, lost>>
  <2>1. IsRemote(remote') /\ remote'.create = remote.create /\ remote'.wanted = None
    BY <1>3 DEF BasicInv, ViewTypeInv, IsRemote, RemoteFields, Ids
  <2>2. up' \in Seq(Requests)
    BY <1>2, <1>3, MsgIsRequest, SendTypes DEF BasicInv, ViewTypeInv
  <2>3. QED
    BY <1>1, <1>3, <2>1, <2>2, NoneIsNoSession DEF BasicInv, ViewTypeInv, Running, CreateInv, YieldInv
<1>4. CASE /\ remote' = [remote EXCEPT !.wanted = remote.view, !.pending = remote.view]
           /\ frames' = frames \cup {[id |-> remote.view, press |-> TRUE]}
           /\ lost' = lost \ {remote.view} /\ up' = up
  <2>1. IsRemote(remote') /\ remote'.create = remote.create /\ remote'.wanted = remote.view
    BY <1>2, <1>4 DEF BasicInv, ViewTypeInv, IsRemote, RemoteFields, Ids
  <2>2. frames' \subseteq Frames
    BY <1>2, <1>4, FrameFits DEF BasicInv, ViewTypeInv
  <2>3. lost' \subseteq lost \ {remote.view}
    BY <1>4
  <2>4. YieldInv'
    BY <2>1, <2>3 DEF YieldInv
  <2>5. CreateInv'
    BY <1>1, <2>1 DEF BasicInv, CreateInv
  <2>6. acts' \in Nat /\ lost' \subseteq Sessions
    BY <1>1, <2>3 DEF BasicInv, ViewTypeInv
  <2>7. ViewTypeInv'
    BY <1>1, <1>4, <2>1, <2>2, <2>6 DEF BasicInv, ViewTypeInv, Running
  <2>8. QED
    BY <2>4, <2>5, <2>7 DEF BasicInv
<1>5. QED
  BY <1>1, <1>3, <1>4

LEMMA ResendBasic ==
  ASSUME BasicInv, Resend
  PROVE  BasicInv'
<1>1. /\ remote.view # None /\ acts' = acts + 1
      /\ remote' = [remote EXCEPT !.pending = remote.view]
      /\ frames' = frames \cup {[id |-> remote.view, press |-> FALSE]}
      /\ UNCHANGED <<state, stale, wish, lost, alive, live, dying, ended, untold, hold, making, used, conn, opened, up, ev, down, others>>
  BY DEF Resend, WantsControl, Act, server, sessions, link
<1>2. remote.view \in Sessions /\ IsRemote(remote') /\ remote'.create = remote.create /\ remote'.wanted = remote.wanted
  BY <1>1 DEF BasicInv, ViewTypeInv, IsRemote, RemoteFields, Ids
<1>3. frames' \subseteq Frames
  BY <1>1, <1>2, FrameFits DEF BasicInv, ViewTypeInv
<1>4. CreateInv' /\ YieldInv'
  BY <1>1, <1>2 DEF BasicInv, CreateInv, YieldInv
<1>5. acts' \in Nat
  BY <1>1 DEF BasicInv, ViewTypeInv
<1>6. ViewTypeInv'
  BY <1>1, <1>2, <1>3, <1>5 DEF BasicInv, ViewTypeInv, Running
<1>7. QED
  BY <1>4, <1>6 DEF BasicInv

LEMMA FailBasic ==
  ASSUME BasicInv, remote' = FailControlRequest(remote)
  PROVE  /\ IsRemote(remote') /\ remote'.create = remote.create /\ remote'.wanted \in {remote.wanted, None}
         /\ remote'.holder = remote.holder /\ remote'.list = remote.list /\ remote'.exited = remote.exited
  BY FailFacts DEF BasicInv, ViewTypeInv, Yields, SameKnown

LEMMA FrameBasic ==
  ASSUME BasicInv, NEW f \in frames, Frame(f)
  PROVE  BasicInv'
<1>1. /\ frames' \subseteq frames
      /\ \/ remote.view = f.id /\ Send(Msg("control", f.id)) /\ remote' = remote
         \/ remote' = FailControlRequest(remote) /\ up' = up
      /\ UNCHANGED <<state, stale, wish, lost, alive, live, dying, ended, untold, hold, making, used, conn, opened, ev, down, acts, others>>
  BY DEF Frame, server, sessions, bounds
<1>2. f.id \in Sessions
  BY DEF BasicInv, ViewTypeInv, Frames
<1>3. up' \in Seq(Requests)
  BY <1>1, <1>2, MsgIsRequest, SendTypes DEF BasicInv, ViewTypeInv
<1>4. IsRemote(remote') /\ remote'.create = remote.create /\ remote'.wanted \in {remote.wanted, None}
  BY <1>1, FailBasic DEF BasicInv, ViewTypeInv
<1>5. QED
  BY <1>1, <1>3, <1>4, NoneIsNoSession DEF BasicInv, ViewTypeInv, Running, CreateInv, YieldInv

LEMMA ControlTimeoutBasic ==
  ASSUME BasicInv, ControlTimeout
  PROVE  BasicInv'
<1>1. /\ remote' = FailControlRequest(remote)
      /\ UNCHANGED <<frames, state, stale, wish, lost, alive, live, dying, ended, untold, hold, making, used, conn, opened, up, ev, down, acts, others>>
  BY DEF ControlTimeout, server, sessions, link, bounds
<1>2. IsRemote(remote') /\ remote'.create = remote.create /\ remote'.wanted \in {remote.wanted, None}
  BY <1>1, FailBasic
<1>3. QED
  BY <1>1, <1>2, NoneIsNoSession DEF BasicInv, ViewTypeInv, Running, CreateInv, YieldInv

LEMMA InSeq ==
  ASSUME NEW S, NEW m \in S, NEW q \in Seq(S)
  PROVE  <<m>> \in Seq(S) /\ Append(q, m) \in Seq(S) /\ <<>> \in Seq(S)
  OBVIOUS

LEMMA SocketOpensBasic ==
  ASSUME BasicInv, SocketOpens
  PROVE  BasicInv'
<1>1. /\ opened' = opened + 1 /\ conn' = opened + 1 /\ alive' = alive \cup {opened + 1}
      /\ ev' = <<>> /\ down' = <<List>>
      /\ up' = <<>> \/ (remote.view # None /\ up' = <<Msg("sub", remote.view)>>)
      /\ \/ /\ WantsControl(remote) /\ remote' = [remote EXCEPT !.pending = remote.view]
            /\ frames' = frames \cup {[id |-> remote.view, press |-> FALSE]}
         \/ UNCHANGED <<remote, frames>>
      /\ UNCHANGED <<state, stale, wish, lost, live, dying, ended, untold, hold, making, used, acts, others>>
  BY DEF SocketOpens, bounds, sessions
<1>2. remote.view # None => remote.view \in Sessions
  BY DEF BasicInv, ViewTypeInv, IsRemote, Ids
<1>3. up' \in Seq(Requests) /\ ev' \in Seq(Events)
  <2>1. remote.view # None => Msg("sub", remote.view) \in Requests
    BY <1>2, MsgIsRequest
  <2>2. <<>> \in Seq(Requests) /\ <<>> \in Seq(Events)
    OBVIOUS
  <2>3. remote.view # None => <<Msg("sub", remote.view)>> \in Seq(Requests)
    BY <2>1, <2>2, InSeq
  <2>4. QED
    BY <1>1, <2>2, <2>3
<1>4. down' \in Seq(Replies)
  <2>1. List \in Replies
    BY ListIsList DEF BasicInv, Replies
  <2>2. QED
    BY <1>1, <2>1
<1>5. IsRemote(remote') /\ remote'.create = remote.create /\ remote'.wanted = remote.wanted
  <2>1. IsRemote(remote) /\ remote.view \in Ids
    BY DEF BasicInv, ViewTypeInv, IsRemote
  <2>2. ASSUME remote' = [remote EXCEPT !.pending = remote.view]
        PROVE  IsRemote(remote') /\ remote'.create = remote.create /\ remote'.wanted = remote.wanted
    BY <2>1, <2>2 DEF IsRemote, RemoteFields
  <2>3. QED
    BY <1>1, <2>1, <2>2
<1>6. frames' \subseteq Frames
  <2>1. remote.view # None => [id |-> remote.view, press |-> FALSE] \in Frames
    BY <1>2, FrameFits
  <2>2. frames \subseteq Frames
    BY DEF BasicInv, ViewTypeInv
  <2>3. QED
    BY <1>1, <2>1, <2>2 DEF WantsControl
<1>7. opened' \in Nat /\ conn' \in Nat /\ alive' \subseteq 1..opened'
  <2>1. opened \in Nat /\ alive \subseteq 1..opened
    BY DEF BasicInv, ViewTypeInv
  <2>2. \A n \in 1..opened : n \in 1..(opened + 1)
    BY <2>1
  <2>3. QED
    BY <1>1, <2>1, <2>2
<1>8. CreateInv' /\ YieldInv'
  BY <1>1, <1>5 DEF BasicInv, CreateInv, YieldInv
<1>9. ViewTypeInv'
  BY <1>1, <1>3, <1>4, <1>5, <1>6, <1>7 DEF BasicInv, ViewTypeInv, Running
<1>10. QED
  BY <1>8, <1>9 DEF BasicInv

LEMMA SocketClosesBasic ==
  ASSUME BasicInv, SocketCloses
  PROVE  BasicInv'
<1>1. /\ conn' = 0 /\ up' = <<>> /\ ev' = <<>> /\ down' = <<>>
      /\ UNCHANGED <<remote, frames, state, stale, wish, lost, alive, live, dying, ended, untold, hold, making, used, opened, acts, others>>
  BY DEF SocketCloses, page, server, sessions, bounds
<1>2. up' \in Seq(Requests) /\ ev' \in Seq(Events) /\ down' \in Seq(Replies)
  BY <1>1
<1>3. QED
  BY <1>1, <1>2 DEF BasicInv, ViewTypeInv, Running, CreateInv, YieldInv

\* What the page may still be wrong of after a message.
DoubtsAfter(m) ==
  /\ stale' \in Doubts
  /\ m \in Lists => stale'.open = m.told /\ stale'.held = stale.held \ m.list
  /\ m \in Changes => stale'.open = stale.open \ {m.id} /\ stale'.held = stale.held
  /\ m \in Controls => stale'.open = stale.open /\ stale'.held = stale.held \ {m.id}
  /\ m \in Answers => /\ stale.open \subseteq stale'.open /\ stale'.held = stale.held
                      /\ m.req = remote.create => m.id \in Running \cup stale'.open
  /\ m \in Snaps \cup Errors => stale' = stale

LEMMA DoubtFacts ==
  ASSUME stale \in Doubts, NEW m \in Replies, stale' = StaleAfter(m)
  PROVE  DoubtsAfter(m)
<1>0. stale = [open |-> stale.open, held |-> stale.held] /\ stale.open \subseteq Sessions /\ stale.held \subseteq Sessions
  BY DEF Doubts
<1>1. CASE m \in Lists
  <2>1. m.t = "sessions" /\ m.told \in SUBSET Sessions /\ m \notin Changes \cup Controls \cup Snaps \cup Errors \cup Answers
    BY <1>1, Sorts
  <2>2. stale' = [open |-> m.told, held |-> stale.held \ m.list]
    BY <2>1 DEF StaleAfter
  <2>3. QED
    BY <1>0, <2>1, <2>2 DEF DoubtsAfter, Doubts
<1>2. CASE m \in Changes
  <2>1. m.t \in {"created", "exited"} /\ m \notin Lists \cup Controls \cup Snaps \cup Errors \cup Answers
    BY <1>2, Sorts
  <2>2. stale' = [stale EXCEPT !.open = @ \ {m.id}]
    BY <2>1 DEF StaleAfter
  <2>3. QED
    BY <1>0, <2>1, <2>2 DEF DoubtsAfter, Doubts
<1>3. CASE m \in Controls
  <2>1. m.t = "control" /\ m \notin Lists \cup Changes \cup Snaps \cup Errors \cup Answers
    BY <1>3, Sorts
  <2>2. stale' = [stale EXCEPT !.held = @ \ {m.id}]
    BY <2>1 DEF StaleAfter
  <2>3. QED
    BY <1>0, <2>1, <2>2 DEF DoubtsAfter, Doubts
<1>4. CASE m \in Answers
  <2>1. m.t = "createResult" /\ m.id \in Sessions /\ m \notin Lists \cup Changes \cup Controls \cup Snaps \cup Errors
    BY <1>4, Sorts
  <2>2. CASE m.req = remote.create
    <3>1. stale' = [stale EXCEPT !.open = @ \cup ({m.id} \ Running)]
      BY <2>1, <2>2 DEF StaleAfter
    <3>2. QED
      BY <1>0, <2>1, <3>1 DEF DoubtsAfter, Doubts
  <2>3. CASE m.req # remote.create
    <3>1. stale' = stale
      BY <2>1, <2>3 DEF StaleAfter
    <3>2. QED
      BY <1>0, <2>1, <2>3, <3>1 DEF DoubtsAfter
  <2>4. QED
    BY <2>2, <2>3
<1>5. CASE m \in Snaps \cup Errors
  <2>1. m.t \in {"snap", "error"} /\ m \notin Lists \cup Changes \cup Controls \cup Answers
    BY <1>5, Sorts
  <2>2. stale' = stale
    BY <2>1 DEF StaleAfter
  <2>3. QED
    BY <2>1, <2>2 DEF DoubtsAfter
<1>6. QED
  BY <1>1, <1>2, <1>3, <1>4, <1>5, Sorts

\* The page's own part of a message, and of an answer of /api/state.
LEMMA HandleEffects ==
  ASSUME BasicInv, Handle
  PROVE  /\ Head(down) \in Replies /\ HandledAs(Head(down), remote')
         /\ down # <<>> /\ down' = Tail(down) /\ down' \in Seq(Replies)
         /\ lost' = lost \cup TookAway(remote, remote')
         /\ DoubtsAfter(Head(down))
         /\ Send(Msg("sub", remote'.view)) \/ up' = up
         /\ UNCHANGED <<frames, state, wish, alive, live, dying, ended, untold, hold, making, used, conn, opened, ev,
                        acts, others>>
<1>1. down # <<>> /\ Head(down) \in Replies /\ Tail(down) \in Seq(Replies)
  BY DEF Handle, BasicInv, ViewTypeInv
<1>2. HandledAs(Head(down), Handled(Head(down)))
  BY <1>1, HandledFacts DEF BasicInv
<1>3. DoubtsAfter(Head(down))
  BY <1>1, DoubtFacts DEF Handle, BasicInv, ViewTypeInv
<1>4. QED
  BY <1>1, <1>2, <1>3 DEF Handle, server, sessions, bounds

LEMMA GivenUp ==
  ASSUME YieldInv, IsRemote(remote), Yields(remote, remote'), lost' = lost \cup TookAway(remote, remote'),
         lost \subseteq Sessions
  PROVE  YieldInv' /\ lost' \subseteq Sessions
  BY NoneIsNoSession DEF YieldInv, Yields, TookAway

LEMMA HandleBasic ==
  ASSUME BasicInv, Handle
  PROVE  BasicInv'
<1>1. /\ Head(down) \in Replies /\ HandledAs(Head(down), remote')
      /\ down' \in Seq(Replies)
      /\ lost' = lost \cup TookAway(remote, remote')
      /\ stale' \in Doubts
      /\ remote'.view # remote.view => Send(Msg("sub", remote'.view))
      /\ remote'.view = remote.view => up' = up
      /\ UNCHANGED <<frames, state, wish, alive, live, dying, ended, untold, hold, making, used, conn, opened, ev, acts, others>>
  BY HandleEffects DEF Handle, DoubtsAfter
<1>2. IsRemote(remote') /\ Yields(remote, remote') /\ remote'.create \in {remote.create, 0}
  BY <1>1 DEF HandledAs
<1>3. remote'.view # remote.view => remote'.view \in Sessions
  <2>1. Head(down) \in Answers => Head(down).id \in Sessions
    BY <1>1, Sorts
  <2>2. QED
    BY <1>1, <2>1, Sorts DEF HandledAs
<1>4. up' \in Seq(Requests)
  <2>1. CASE remote'.view = remote.view
    BY <1>1, <2>1 DEF BasicInv, ViewTypeInv
  <2>2. CASE remote'.view # remote.view
    <3>1. Msg("sub", remote'.view) \in Requests
      BY <1>3, <2>2 DEF Msg, Requests
    <3>2. up' = up \/ up' = Append(up, Msg("sub", remote'.view))
      BY <1>1, <2>2 DEF Send
    <3>3. up \in Seq(Requests)
      BY DEF BasicInv, ViewTypeInv
    <3>4. PICK m \in Requests : m = Msg("sub", remote'.view)
      BY <3>1
    <3>5. QED
      BY <3>2, <3>3, <3>4
  <2>3. QED
    BY <2>1, <2>2
<1>5. YieldInv' /\ lost' \subseteq Sessions
  BY <1>1, <1>2, GivenUp DEF BasicInv, ViewTypeInv
<1>6. CreateInv'
  BY <1>1, <1>2 DEF BasicInv, CreateInv
<1>7. ViewTypeInv'
  BY <1>1, <1>2, <1>4, <1>5 DEF BasicInv, ViewTypeInv, Running
<1>8. QED
  BY <1>5, <1>6, <1>7 DEF BasicInv

\* What StateServed makes of the request.
ServedState == [t |-> "served", list |-> List.list, exited |-> List.exited, holder |-> List.holder,
           changed |-> [open |-> List.told, held |-> {}]]

AskedState == [NoState EXCEPT !.t = "asked"]

LEMMA StateTypes ==
  ASSUME ViewTypeInv
  PROVE  /\ AskedState \in States /\ NoState \in States /\ ServedState \in States
         /\ AskedState.holder = Free /\ AskedState.t = "asked" /\ ServedState.t = "served"
         /\ ServedState.list = live \cup dying /\ ServedState.exited = ended
         /\ ServedState.changed.open = dying \ (ended \cup untold) /\ ServedState.changed.held = {}
         /\ \A s \in Sessions : ServedState.holder[s] = Seen(hold[s])
<1>1. PICK h \in [Sessions -> Holders] : h = [s \in Sessions |-> Seen(hold[s])]
  <2>1. [s \in Sessions |-> Seen(hold[s])] \in [Sessions -> Holders]
    BY SeenHolder DEF ViewTypeInv
  <2>2. QED
    BY <2>1
<1>2. live \cup dying \in SUBSET Sessions /\ ended \in SUBSET Sessions /\ dying \ (ended \cup untold) \in SUBSET Sessions
  BY DEF ViewTypeInv
<1>3. List = [t |-> "sessions", list |-> live \cup dying, exited |-> ended, told |-> dying \ (ended \cup untold), holder |-> h]
  BY <1>1 DEF List
<1>4. ServedState = [t |-> "served", list |-> live \cup dying, exited |-> ended, holder |-> h,
                changed |-> [open |-> dying \ (ended \cup untold), held |-> {}]]
  BY <1>3 DEF ServedState
<1>5. [s \in Sessions |-> "free"] \in [Sessions -> Holders]
  BY DEF Holders
<1>6. NoState = [t |-> "none", list |-> {}, exited |-> {}, changed |-> [open |-> {}, held |-> {}], holder |-> Free]
  BY DEF NoState, Sure
<1>7. Free \in [Sessions -> Holders]
  BY <1>5 DEF Free
<1>8. AskedState = [t |-> "asked", list |-> {}, exited |-> {}, changed |-> [open |-> {}, held |-> {}], holder |-> Free]
  BY <1>6 DEF AskedState
<1>9. NoState \in States /\ AskedState \in States
  BY <1>6, <1>7, <1>8 DEF States, Doubts
<1>10. ServedState \in States
  BY <1>2, <1>4 DEF States, Doubts
<1>11. QED
  BY <1>1, <1>4, <1>8, <1>9, <1>10

\* What is told while an answer is on its way is noted with it, and nothing else.
LEMMA OvertakenFacts ==
  ASSUME state \in States, NEW told \in Seq(Events), NEW q, q = Overtaken(told)
  PROVE  /\ q \in States /\ q.t = state.t /\ q.list = state.list /\ q.exited = state.exited
         /\ q.holder = state.holder
         /\ q.t = "served" => \A s \in Sessions :
              /\ s \notin q.changed.open => s \notin state.changed.open /\ Quiet(told, OpenWords(s), 0)
              /\ s \notin q.changed.held => s \notin state.changed.held /\ Quiet(told, HolderWords(s), 0)
<1> DEFINE o == About(told, {"created", "exited"})
           h == About(told, {"control"})
<1>1. \A j \in DOMAIN told : told[j] \in Events
  OBVIOUS
<1>2. \A m \in Events : m.t \in {"created", "exited", "control"} /\ m.id \in Sessions /\ m \notin Lists
  BY DEF Events, Changes, Controls, Lists
<1>3. o \subseteq Sessions /\ h \subseteq Sessions
  BY <1>1, <1>2 DEF About
<1>4. ASSUME NEW s, s \notin o PROVE Quiet(told, OpenWords(s), 0)
  <2> SUFFICES ASSUME NEW j \in DOMAIN told, told[j] \in OpenWords(s) PROVE FALSE
    BY DEF Quiet
  <2>1. told[j] \in Changes /\ told[j].id = s
    BY <1>1, <1>2 DEF OpenWords
  <2>2. told[j].t \in {"created", "exited"}
    BY <2>1 DEF Changes
  <2>3. QED
    BY <1>4, <2>1, <2>2 DEF About
<1>5. ASSUME NEW s, s \notin h PROVE Quiet(told, HolderWords(s), 0)
  <2> SUFFICES ASSUME NEW j \in DOMAIN told, told[j] \in HolderWords(s) PROVE FALSE
    BY DEF Quiet
  <2>1. told[j] \in Controls /\ told[j].id = s
    BY <1>1, <1>2 DEF HolderWords
  <2>2. told[j].t = "control"
    BY <2>1 DEF Controls
  <2>3. QED
    BY <1>5, <2>1, <2>2 DEF About
<1>6. CASE state.t # "served"
  BY <1>6 DEF Overtaken
<1>7. CASE state.t = "served"
  <2>1. q = [state EXCEPT !.changed = [open |-> @.open \cup o, held |-> @.held \cup h]]
    BY <1>7 DEF Overtaken
  <2> HIDE DEF o, h
  <2>2. /\ q.t = state.t /\ q.list = state.list /\ q.exited = state.exited /\ q.holder = state.holder
        /\ q.changed = [open |-> state.changed.open \cup o, held |-> state.changed.held \cup h]
    BY <2>1 DEF States
  <2>3. state.changed \in Doubts /\ q.changed \in Doubts
    BY <1>3, <2>2 DEF States, Doubts
  <2>4. q \in States
    BY <2>1, <2>3 DEF States
  <2>5. QED
    BY <1>4, <1>5, <2>2, <2>4
<1>8. QED
  BY <1>6, <1>7

LEMMA LoadStateBasic ==
  ASSUME BasicInv, LoadState
  PROVE  BasicInv'
<1>1. /\ acts' = acts + 1 /\ state' = AskedState
      /\ (remote.view # None /\ Send(Msg("sub", remote.view))) \/ up' = up
      /\ UNCHANGED <<remote, frames, stale, wish, lost, alive, live, dying, ended, untold, hold, making, used, conn, opened, ev, down, others>>
  BY DEF LoadState, AskedState, Act, server, sessions
<1>2. remote.view # None => remote.view \in Sessions
  BY DEF BasicInv, ViewTypeInv, IsRemote, Ids
<1>3. up' \in Seq(Requests)
  BY <1>1, <1>2, MsgIsRequest, SendTypes DEF BasicInv, ViewTypeInv
<1>4. state' \in States
  BY <1>1, StateTypes DEF BasicInv
<1>5. QED
  BY <1>1, <1>3, <1>4 DEF BasicInv, ViewTypeInv, Running, CreateInv, YieldInv

LEMMA StateServedBasic ==
  ASSUME BasicInv, StateServed
  PROVE  BasicInv'
<1>1. /\ state' = ServedState
      /\ UNCHANGED <<remote, frames, stale, wish, lost, alive, live, dying, ended, untold, hold, making, used, conn, opened, up, ev, down, acts, others>>
  BY DEF StateServed, ServedState, server, sessions, link, bounds
<1>2. state' \in States
  BY <1>1, StateTypes DEF BasicInv
<1>3. QED
  BY <1>1, <1>2 DEF BasicInv, ViewTypeInv, Running, CreateInv, YieldInv

LEMMA AnswerEffects ==
  ASSUME BasicInv, StateAnswer
  PROVE  /\ state' = NoState
         /\ UNCHANGED <<frames, wish, alive, live, dying, ended, untold, hold, making, used, conn, opened, up, ev, down, acts, others>>
         /\ \/ UNCHANGED <<remote, stale, lost>>
            \/ /\ state.t = "served" /\ stale' \in Doubts
               /\ stale'.open = state.changed.open
               /\ stale'.held = state.changed.held \cup (stale.held \ state.list)
               /\ lost' = lost \cup TookAway(remote, remote')
               /\ IsRemote(remote') /\ Yields(remote, remote')
               /\ remote'.view = remote.view /\ remote'.create = remote.create
               /\ remote'.list = state.list /\ remote'.exited = state.exited
               /\ \A s \in Sessions :
                    remote'.holder[s] = IF s \in state.list THEN state.holder[s] ELSE remote.holder[s]
<1>1. /\ state' = NoState
      /\ UNCHANGED <<frames, wish, alive, live, dying, ended, untold, hold, making, used, conn, opened, up, ev, down, acts, others>>
  BY DEF StateAnswer, server, sessions, link, bounds
<1>2. \/ UNCHANGED <<remote, stale, lost>>
      \/ /\ state.t \notin {"none", "asked"}
         /\ remote' = SetSessions(remote, state.list, state.exited, state.holder)
         /\ stale' = [state.changed EXCEPT !.held = @ \cup (stale.held \ state.list)]
         /\ lost' = lost \cup TookAway(remote, remote')
  BY DEF StateAnswer
<1>3. /\ state.t \in {"none", "asked", "served"} /\ IsRemote(remote)
      /\ state.list \in SUBSET Sessions /\ state.holder \in [Sessions -> Holders]
      /\ state.exited \in SUBSET Sessions /\ state.changed \in Doubts /\ stale \in Doubts
  BY DEF BasicInv, ViewTypeInv, States
<1>a. ASSUME stale' = [state.changed EXCEPT !.held = @ \cup (stale.held \ state.list)]
      PROVE  /\ stale' \in Doubts /\ stale'.open = state.changed.open
             /\ stale'.held = state.changed.held \cup (stale.held \ state.list)
  BY <1>3, <1>a DEF Doubts
<1>4. ASSUME remote' = SetSessions(remote, state.list, state.exited, state.holder)
      PROVE  /\ IsRemote(remote') /\ Yields(remote, remote')
             /\ remote'.view = remote.view /\ remote'.create = remote.create
             /\ remote'.list = state.list /\ remote'.exited = state.exited
             /\ \A s \in Sessions :
                  remote'.holder[s] = IF s \in state.list THEN state.holder[s] ELSE remote.holder[s]
  BY <1>3, <1>4, SetFacts
<1>5. QED
  BY <1>1, <1>2, <1>3, <1>a, <1>4

LEMMA StateAnswerBasic ==
  ASSUME BasicInv, StateAnswer
  PROVE  BasicInv'
<1>1. state' \in States
  BY AnswerEffects, StateTypes DEF BasicInv
<1>2. CASE UNCHANGED <<remote, stale, lost>>
  BY <1>1, <1>2, AnswerEffects DEF BasicInv, ViewTypeInv, Running, CreateInv, YieldInv
<1>3. CASE ~UNCHANGED <<remote, stale, lost>>
  <2>1. /\ stale' \in Doubts /\ lost' = lost \cup TookAway(remote, remote')
        /\ IsRemote(remote') /\ Yields(remote, remote') /\ remote'.create = remote.create
    BY <1>3, AnswerEffects
  <2>2. YieldInv' /\ lost' \subseteq Sessions
    BY <2>1, GivenUp DEF BasicInv, ViewTypeInv
  <2>3. CreateInv'
    BY <2>1, AnswerEffects DEF BasicInv, CreateInv
  <2>4. ViewTypeInv'
    BY <1>1, <2>1, <2>2, AnswerEffects DEF BasicInv, ViewTypeInv, Running
  <2>5. QED
    BY <2>2, <2>3, <2>4 DEF BasicInv
<1>4. QED
  BY <1>2, <1>3

\* What a request to the connection does.
LEMMA ClientEffects ==
  ASSUME BasicInv, HandleClient
  PROVE  /\ conn \in alive /\ up' \in Seq(Requests)
         /\ UNCHANGED <<remote, frames, stale, wish, lost, alive, live, dying, ended, untold, used, conn, opened, acts, others>>
         /\ \/ /\ \E m \in Snaps \cup Errors :
                    down' = Append(down, m) /\ (m \in Snaps => m.id \in live /\ m.holder = Seen(hold[m.id]))
               /\ UNCHANGED <<hold, making, ev, state>>
            \/ /\ \E s \in Sessions, h \in Nat \cup {-1} :
                    /\ s \in live \/ hold[s] # 0
                    /\ hold' = [hold EXCEPT ![s] = h] /\ ev' = ev \o <<Control(s, h)>>
                    /\ state' = Overtaken(<<Control(s, h)>>)
               /\ UNCHANGED <<down, making>>
            \/ /\ making'.n # 0 => making'.req # 0
               /\ making' \in [n : Nat, req : Nat, id : Ids]
               /\ UNCHANGED <<hold, down, ev, state>>
<1> DEFINE m == Head(up)
<1>1. /\ conn \in alive /\ up # <<>> /\ up' = Tail(up) /\ up \in Seq(Requests)
      /\ UNCHANGED <<remote, frames, stale, wish, lost, alive, live, dying, ended, untold, used, conn, opened, acts, others>>
  BY DEF HandleClient, BasicInv, ViewTypeInv, sessions, bounds
<1>2. up' \in Seq(Requests) /\ m \in Requests
  BY <1>1
<1>3. conn \in Nat /\ hold \in [Sessions -> Nat \cup {-1}] /\ making \in [n : Nat, req : Nat, id : Ids]
      /\ (making.n # 0 => making.req # 0) /\ down \in Seq(Replies)
  BY DEF BasicInv, ViewTypeInv
<1>4. CASE /\ m.t = "sub"
           /\ IF m.id \in live
                THEN Reply([t |-> "snap", id |-> m.id, req |-> 0, holder |-> Seen(hold[m.id])])
                ELSE Reply(Err(0))
           /\ UNCHANGED <<hold, making, ev, state>>
  <2>1. m.id \in Sessions
    BY <1>2, <1>4 DEF Requests
  <2>2. [t |-> "snap", id |-> m.id, req |-> 0, holder |-> Seen(hold[m.id])] \in Snaps
    BY <1>3, <2>1, SeenHolder DEF Snaps
  <2>3. Err(0) \in Errors
    BY DEF Err, Errors
  <2>4. Err(0) \notin Snaps
    BY DEF Err, Snaps
  <2>5. \E r \in Snaps \cup Errors :
          down' = Append(down, r) /\ (r \in Snaps => r.id \in live /\ r.holder = Seen(hold[r.id]))
    <3>1. CASE m.id \in live
      BY <1>4, <2>2, <3>1 DEF Reply
    <3>2. CASE m.id \notin live
      BY <1>4, <2>3, <2>4, <3>2 DEF Reply
    <3>3. QED
      BY <3>1, <3>2
  <2>6. QED
    BY <1>1, <1>2, <1>4, <2>5
<1>5. CASE /\ m.t = "control"
           /\ IF m.id \in live
                THEN /\ hold' = [hold EXCEPT ![m.id] = conn]
                     /\ Emit(<<Control(m.id, conn)>>) /\ UNCHANGED down
                ELSE Reply(Err(0)) /\ UNCHANGED <<hold, ev, state>>
           /\ UNCHANGED making
  <2>1. m.id \in Sessions
    BY <1>2, <1>5 DEF Requests
  <2>2. Err(0) \in Errors /\ Err(0) \notin Snaps
    BY DEF Err, Errors, Snaps
  <2>3. CASE m.id \in live
    <3>1. /\ hold' = [hold EXCEPT ![m.id] = conn] /\ ev' = ev \o <<Control(m.id, conn)>>
          /\ state' = Overtaken(<<Control(m.id, conn)>>) /\ UNCHANGED <<down, making>>
      BY <1>1, <1>5, <2>3 DEF Emit
    <3>2. QED
      BY <1>1, <1>2, <1>3, <2>1, <2>3, <3>1
  <2>4. CASE m.id \notin live
    <3>1. \E r \in Snaps \cup Errors :
            down' = Append(down, r) /\ (r \in Snaps => r.id \in live /\ r.holder = Seen(hold[r.id]))
      BY <1>5, <2>2, <2>4 DEF Reply
    <3>2. QED
      BY <1>1, <1>2, <1>5, <2>4, <3>1
  <2>5. QED
    BY <2>3, <2>4
<1>6. CASE /\ m.t = "release"
           /\ IF hold[m.id] > 0
                THEN hold' = [hold EXCEPT ![m.id] = 0] /\ Emit(<<Control(m.id, 0)>>)
                ELSE UNCHANGED <<hold, ev, state>>
           /\ UNCHANGED <<making, down>>
  <2>1. m.id \in Sessions
    BY <1>2, <1>6 DEF Requests
  <2>2. CASE hold[m.id] > 0
    <3>1. /\ hold' = [hold EXCEPT ![m.id] = 0] /\ ev' = ev \o <<Control(m.id, 0)>>
          /\ state' = Overtaken(<<Control(m.id, 0)>>) /\ UNCHANGED <<down, making>>
      BY <1>1, <1>6, <2>2 DEF Emit
    <3>2. hold[m.id] # 0
      BY <1>3, <2>1, <2>2
    <3>3. QED
      BY <1>1, <1>2, <2>1, <3>1, <3>2
  <2>3. CASE ~(hold[m.id] > 0)
    BY <1>1, <1>2, <1>3, <1>6, <2>3
  <2>4. QED
    BY <2>2, <2>3
<1>7. CASE /\ m.t = "create"
           /\ IF making.n = conn
                THEN Reply(Err(m.req)) /\ UNCHANGED making
                ELSE making' = [n |-> conn, req |-> m.req, id |-> None] /\ UNCHANGED down
           /\ UNCHANGED <<hold, ev, state>>
  <2>1. m.req \in Nat \ {0}
    BY <1>2, <1>7 DEF Requests
  <2>2. Err(m.req) \in Errors /\ Err(m.req) \notin Snaps
    BY <2>1 DEF Err, Errors, Snaps
  <2>3. CASE making.n = conn
    <3>1. \E r \in Snaps \cup Errors :
            down' = Append(down, r) /\ (r \in Snaps => r.id \in live /\ r.holder = Seen(hold[r.id]))
      BY <1>7, <2>2, <2>3 DEF Reply
    <3>2. QED
      BY <1>1, <1>2, <1>7, <2>3, <3>1
  <2>4. CASE making.n # conn
    <3>1. making' = [n |-> conn, req |-> m.req, id |-> None] /\ UNCHANGED down
      BY <1>7, <2>4
    <3>2. making' \in [n : Nat, req : Nat, id : Ids] /\ making'.req # 0
      BY <1>3, <2>1, <3>1 DEF Ids
    <3>3. QED
      BY <1>1, <1>2, <1>7, <3>1, <3>2
  <2>5. QED
    BY <2>3, <2>4
<1>8. QED
  BY <1>4, <1>5, <1>6, <1>7 DEF HandleClient

LEMMA SingleControl ==
  ASSUME NEW s \in Sessions, NEW h \in Nat \cup {-1}
  PROVE  <<Control(s, h)>> \in Seq(Controls) /\ <<Control(s, h)>> \in Seq(Events)
<1>1. PICK m \in Controls : m = Control(s, h)
  BY ControlIsEvent
<1>2. m \in Events
  BY DEF Events
<1>3. QED
  BY <1>1, <1>2

LEMMA EvGrows ==
  ASSUME ev \in Seq(Events), NEW q \in Seq(Events)
  PROVE  ev \o q \in Seq(Events)
  OBVIOUS

LEMMA ReplyTypes ==
  ASSUME down \in Seq(Replies), NEW m \in Replies
  PROVE  Append(down, m) \in Seq(Replies)
  OBVIOUS

LEMMA HandleClientBasic ==
  ASSUME BasicInv, HandleClient
  PROVE  BasicInv'
<1>1. CreateInv' /\ YieldInv'
  BY ClientEffects DEF BasicInv, CreateInv, YieldInv
<1>2. CASE /\ \E m \in Snaps \cup Errors :
                down' = Append(down, m) /\ (m \in Snaps => m.id \in live /\ m.holder = Seen(hold[m.id]))
           /\ UNCHANGED <<hold, making, ev, state>>
  <2>1. down' \in Seq(Replies)
    <3>1. PICK m \in Snaps \cup Errors : down' = Append(down, m)
      BY <1>2
    <3>2. m \in Replies
      BY DEF Replies
    <3>3. QED
      BY <3>1, <3>2, ReplyTypes DEF BasicInv, ViewTypeInv
  <2>2. ViewTypeInv'
    BY <1>2, <2>1, ClientEffects DEF BasicInv, ViewTypeInv, Running
  <2>3. QED
    BY <1>1, <2>2 DEF BasicInv
<1>3. CASE /\ \E s \in Sessions, h \in Nat \cup {-1} :
                /\ s \in live \/ hold[s] # 0
                /\ hold' = [hold EXCEPT ![s] = h] /\ ev' = ev \o <<Control(s, h)>>
                /\ state' = Overtaken(<<Control(s, h)>>)
           /\ UNCHANGED <<down, making>>
  <2>1. PICK s \in Sessions, h \in Nat \cup {-1} :
          hold' = [hold EXCEPT ![s] = h] /\ ev' = ev \o <<Control(s, h)>> /\ state' = Overtaken(<<Control(s, h)>>)
    BY <1>3
  <2>2. ev' \in Seq(Events)
    BY <2>1, SingleControl, EvGrows DEF BasicInv, ViewTypeInv
  <2>3. hold' \in [Sessions -> Nat \cup {-1}]
    BY <2>1 DEF BasicInv, ViewTypeInv
  <2>4. state' \in States
    BY <2>1, SingleControl, OvertakenFacts DEF BasicInv, ViewTypeInv
  <2>5. ViewTypeInv'
    BY <1>3, <2>2, <2>3, <2>4, ClientEffects DEF BasicInv, ViewTypeInv, Running
  <2>6. QED
    BY <1>1, <2>5 DEF BasicInv
<1>4. CASE /\ making'.n # 0 => making'.req # 0
           /\ making' \in [n : Nat, req : Nat, id : Ids]
           /\ UNCHANGED <<hold, down, ev, state>>
  <2>1. ViewTypeInv'
    BY <1>4, ClientEffects DEF BasicInv, ViewTypeInv, Running
  <2>2. QED
    BY <1>1, <2>1 DEF BasicInv
<1>5. QED
  BY <1>2, <1>3, <1>4, ClientEffects

\* What is told when a connection ends: every session it held, and no other.
LEMMA EndIsTold ==
  ASSUME ViewTypeInv, NEW n, NEW told \in SetToSeqs({Control(s, 0) : s \in Held(n)})
  PROVE  /\ told \in Seq(Controls) /\ told \in Seq(Events)
         /\ \A j \in DOMAIN told : told[j].id \in Held(n) /\ told[j].holder = "free"
         /\ \A s \in Held(n) : \E j \in DOMAIN told : told[j] = Control(s, 0)
<1> DEFINE T == {Control(s, 0) : s \in Held(n)}
           D == 1..Cardinality(T)
           c == [s \in Held(n) |-> Control(s, 0)]
<1>1. IsFiniteSet(Held(n)) /\ Held(n) \subseteq Sessions
  BY ViewAssumption, FS_Subset DEF Held
<1>2. c \in Surjection(Held(n), T)
  BY DEF Surjection
<1>3. IsFiniteSet(T) /\ Cardinality(T) \in Nat
  <2> HIDE DEF T, c
  <2>1. IsFiniteSet(T)
    BY <1>1, <1>2, FS_Surjection
  <2>2. QED
    BY <2>1, FS_CardinalityType
<1>4. told \in [D -> T] /\ \A i, j \in D : i # j => told[i] # told[j]
  BY DEF SetToSeqs
<1>5. told \in Surjection(D, T)
  <2> HIDE DEF T
  <2>1. told \in Injection(D, T)
    BY <1>4 DEF Injection, IsInjective
  <2>2. Cardinality(D) = Cardinality(T)
    <3>1. Cardinality(D) = IF 1 > Cardinality(T) THEN 0 ELSE Cardinality(T) - 1 + 1
      BY <1>3, FS_Interval
    <3>2. QED
      BY <1>3, <3>1
  <2>3. QED
    BY <1>3, <2>1, <2>2, FS_Injection
<1>6. \A t \in T : \E j \in D : told[j] = t
  BY <1>5 DEF Surjection
<1>7. \A t \in T : t \in Controls /\ t.id \in Held(n) /\ t.holder = "free"
  BY <1>1, ControlIsEvent DEF Control, Seen
<1>8. told \in Seq(T) /\ DOMAIN told = D
  BY <1>3, <1>4
<1>9. told \in Seq(Controls) /\ told \in Seq(Events)
  BY <1>7, <1>8 DEF Events
<1>10. QED
  BY <1>4, <1>6, <1>7, <1>8, <1>9

LEMMA MsgIsChange ==
  ASSUME NEW t \in {"created", "exited"}, NEW s \in Sessions
  PROVE  Msg(t, s) \in Changes /\ <<Msg(t, s)>> \in Seq(Events)
<1>1. PICK m \in Changes : m = Msg(t, s)
  BY DEF Msg, Changes
<1>2. m \in Events
  BY DEF Events
<1>3. QED
  BY <1>1, <1>2

LEMMA EmitTypes ==
  ASSUME ViewTypeInv, NEW q \in Seq(Events), Emit(q)
  PROVE  ev' \in Seq(Events) /\ state' \in States
  BY OvertakenFacts, EvGrows DEF Emit, ViewTypeInv

LEMMA CreatedBasic ==
  ASSUME BasicInv, Created
  PROVE  BasicInv'
<1>1. /\ making.n # 0
      /\ UNCHANGED <<remote, frames, stale, wish, lost, alive, dying, ended, untold, hold, conn, opened, up, down,
                     acts, others>>
  BY DEF Created, bounds
<1>2. PICK s \in Sessions \ used :
        /\ live' = live \cup {s} /\ used' = used \cup {s}
        /\ making' = [making EXCEPT !.id = s] /\ Emit(<<Msg("created", s)>>)
  BY DEF Created
<1>3. ev' \in Seq(Events) /\ state' \in States
  BY <1>2, MsgIsChange, EmitTypes DEF BasicInv
<1>4. making' \in [n : Nat, req : Nat, id : Ids] /\ making'.req = making.req /\ making'.n = making.n
  BY <1>2 DEF BasicInv, ViewTypeInv, Ids
<1>5. /\ live' \subseteq used' /\ used' \subseteq Sessions
      /\ dying' \subseteq used' \ live' /\ ended' \subseteq live' \cup dying'
      /\ untold' \subseteq used' /\ untold' \cap Running' = {}
  BY <1>1, <1>2 DEF BasicInv, ViewTypeInv, Running
<1>6. ViewTypeInv'
  BY <1>1, <1>2, <1>3, <1>4, <1>5 DEF BasicInv, ViewTypeInv
<1>7. QED
  BY <1>1, <1>6 DEF BasicInv, CreateInv, YieldInv

\* The result of a create call reaches the connection, or there is none to reach.
LEMMA CreateEffects ==
  ASSUME BasicInv, CreateReplies
  PROVE  /\ making' = NoMake
         /\ UNCHANGED <<remote, frames, state, stale, wish, lost, alive, live, dying, ended, untold, hold, used, conn, opened, up, ev, acts, others>>
         /\ down' = down \/ \E m \in Errors \cup Answers : down' = Append(down, m)
<1>1. /\ making' = NoMake /\ making.n # 0
      /\ UNCHANGED <<remote, frames, state, stale, wish, lost, alive, live, dying, ended, untold, hold, used, conn, opened, up, ev, acts, others>>
      /\ \/ UNCHANGED down
         \/ making.id = None /\ Reply(Err(making.req))
         \/ making.id # None /\ Reply([t |-> "createResult", id |-> making.id, req |-> making.req])
  BY DEF CreateReplies, page, sessions, bounds
<1>2. making.req \in Nat \ {0} /\ making.id \in Ids
  BY <1>1 DEF BasicInv, ViewTypeInv
<1>3. Err(making.req) \in Errors
  BY <1>2 DEF Err, Errors
<1>4. making.id # None => [t |-> "createResult", id |-> making.id, req |-> making.req] \in Answers
  BY <1>2 DEF Answers, Ids
<1>5. QED
  BY <1>1, <1>3, <1>4 DEF Reply

LEMMA CreateRepliesBasic ==
  ASSUME BasicInv, CreateReplies
  PROVE  BasicInv'
<1>1. making' \in [n : Nat, req : Nat, id : Ids] /\ making'.n = 0
  BY CreateEffects DEF NoMake, Ids
<1>2. down' \in Seq(Replies)
  <2>1. ASSUME NEW m \in Errors \cup Answers, down' = Append(down, m) PROVE down' \in Seq(Replies)
    <3>1. m \in Replies
      BY DEF Replies
    <3>2. QED
      BY <2>1, <3>1, ReplyTypes DEF BasicInv, ViewTypeInv
  <2>2. QED
    BY <2>1, CreateEffects DEF BasicInv, ViewTypeInv
<1>3. ViewTypeInv'
  BY <1>1, <1>2, CreateEffects DEF BasicInv, ViewTypeInv, Running
<1>4. QED
  BY <1>3, CreateEffects DEF BasicInv, CreateInv, YieldInv

LEMMA ForwardEffects ==
  ASSUME BasicInv, ForwardEvent \/ Lagged
  PROVE  /\ ev # <<>> /\ ev' = Tail(ev) /\ ev' \in Seq(Events) /\ Head(ev) \in Events
         /\ ForwardEvent => down' = Append(down, Head(ev))
         /\ Lagged => down' = Append(down, List)
         /\ down' \in Seq(Replies)
         /\ UNCHANGED <<remote, frames, state, stale, wish, lost, alive, live, dying, ended, untold, hold, making, used, conn, opened, up, acts, others>>
<1>1. /\ ev # <<>> /\ ev' = Tail(ev)
      /\ ForwardEvent => down' = Append(down, Head(ev))
      /\ Lagged => down' = Append(down, List)
      /\ UNCHANGED <<remote, frames, state, stale, wish, lost, alive, live, dying, ended, untold, hold, making, used, conn, opened, up, acts, others>>
  BY DEF ForwardEvent, Lagged, page, server, sessions, bounds
<1>2. ev \in Seq(Events) /\ down \in Seq(Replies)
  BY DEF BasicInv, ViewTypeInv
<1>3. ev' \in Seq(Events) /\ Head(ev) \in Events
  BY <1>1, <1>2
<1>4. Head(ev) \in Replies /\ List \in Replies
  BY <1>3, ListIsList DEF Replies, BasicInv
<1>5. Append(down, Head(ev)) \in Seq(Replies) /\ Append(down, List) \in Seq(Replies)
  BY <1>2, <1>4, ReplyTypes
<1>6. QED
  BY <1>1, <1>3, <1>5

LEMMA ForwardBasic ==
  ASSUME BasicInv, ForwardEvent \/ Lagged
  PROVE  BasicInv'
<1>1. ViewTypeInv'
  BY ForwardEffects DEF BasicInv, ViewTypeInv, Running
<1>2. QED
  BY <1>1, ForwardEffects DEF BasicInv, CreateInv, YieldInv

LEMMA ConnEndsBasic ==
  ASSUME BasicInv, NEW n \in alive, ConnEnds(n)
  PROVE  BasicInv'
<1>1. /\ alive' = alive \ {n} /\ hold' = Freed(n)
      /\ UNCHANGED <<remote, frames, stale, wish, lost, live, dying, ended, untold, making, used, conn, opened, up, down, acts, others>>
  BY DEF ConnEnds, sessions, bounds
<1>2. PICK told \in SetToSeqs({Control(s, 0) : s \in Held(n)}) :
        ev' = (IF conn \in alive' THEN ev \o told ELSE ev) /\ state' = Overtaken(told)
  BY DEF ConnEnds
<1>3. ev' \in Seq(Events)
  BY <1>2, EndIsTold, EvGrows DEF BasicInv, ViewTypeInv
<1>4. hold' \in [Sessions -> Nat \cup {-1}]
  BY <1>1 DEF BasicInv, ViewTypeInv, Freed
<1>5. state' \in States
  BY <1>2, EndIsTold, OvertakenFacts DEF BasicInv, ViewTypeInv
<1>6. ViewTypeInv'
  BY <1>1, <1>3, <1>4, <1>5 DEF BasicInv, ViewTypeInv, Running
<1>7. QED
  BY <1>1, <1>6 DEF BasicInv, CreateInv, YieldInv

LEMMA ControlBasic ==
  ASSUME BasicInv, NEW s \in Sessions, OtherTakes(s) \/ Released(s)
  PROVE  BasicInv'
<1>1. /\ others' = others + 1
      /\ \/ hold' = [hold EXCEPT ![s] = Other] /\ Emit(<<Control(s, Other)>>)
         \/ hold' = [hold EXCEPT ![s] = 0] /\ Emit(<<Control(s, 0)>>)
      /\ UNCHANGED <<remote, frames, stale, wish, lost, alive, live, dying, ended, untold, making, used, conn, opened,
                     up, down, acts>>
  BY DEF OtherTakes, Released, OthersAct, sessions
<1>2. ev' \in Seq(Events) /\ state' \in States
  <2>1. Other \in Nat \cup {-1}
    BY DEF Other
  <2>2. <<Control(s, Other)>> \in Seq(Events) /\ <<Control(s, 0)>> \in Seq(Events)
    BY <2>1, SingleControl
  <2>3. QED
    BY <1>1, <2>2, EmitTypes DEF BasicInv
<1>3. hold' \in [Sessions -> Nat \cup {-1}]
  <2>1. hold \in [Sessions -> Nat \cup {-1}] /\ Other \in Nat \cup {-1}
    BY DEF BasicInv, ViewTypeInv, Other
  <2>2. QED
    BY <1>1, <2>1
<1>4. ViewTypeInv'
  BY <1>1, <1>2, <1>3 DEF BasicInv, ViewTypeInv, Running
<1>5. QED
  BY <1>1, <1>4 DEF BasicInv, CreateInv, YieldInv

\* The steps by which a session ends.
LEMMA EndEffects ==
  ASSUME BasicInv, NEW s \in Sessions, CloseStarts(s) \/ CloseEnds(s) \/ ShellEnds(s) \/ ExitNotice(s)
  PROVE  /\ UNCHANGED <<remote, frames, stale, wish, lost, alive, making, used, conn, opened, up, down, acts>>
         /\ others' = others \/ others' = others + 1
         /\ s \in used /\ live' \subseteq live /\ dying' \subseteq used \ live' /\ ended' \subseteq live' \cup dying'
         /\ untold' \subseteq used /\ untold' \cap Running' = {}
         /\ \A r \in Sessions \ untold' : r \in untold => r = s /\ ExitNotice(s)
         /\ \A r \in Sessions \ untold' : r \in Running' <=> r \in Running
         /\ \A r \in live' : hold'[r] = hold[r]
         /\ \/ UNCHANGED <<hold, ev, state>>
            \/ UNCHANGED hold /\ Emit(<<Msg("exited", s)>>) /\ s \notin live' \ ended' /\ ExitNotice(s)
            \/ hold' = [hold EXCEPT ![s] = 0] /\ Emit(<<Control(s, 0)>>) /\ hold[s] # 0
<1>1. /\ live \subseteq used /\ dying \subseteq used \ live /\ ended \subseteq live \cup dying
      /\ untold \subseteq used /\ untold \cap Running = {} /\ hold \in [Sessions -> Nat \cup {-1}]
  BY DEF BasicInv, ViewTypeInv
<1>2. CASE CloseStarts(s)
  BY <1>1, <1>2 DEF CloseStarts, OthersAct, page, link, Running
<1>3. CASE CloseEnds(s)
  <2>1. /\ s \in dying /\ dying' = dying \ {s} /\ ended' = ended \ {s} /\ hold' = [hold EXCEPT ![s] = 0]
        /\ IF hold[s] = 0 THEN UNCHANGED <<ev, state>> ELSE Emit(<<Control(s, 0)>>)
        /\ UNCHANGED <<remote, frames, stale, wish, lost, alive, live, untold, making, used, conn, opened, up, down,
                       acts, others>>
    BY <1>3 DEF CloseEnds, bounds
  <2>2. \A r \in Sessions : r \in Running' <=> r \in Running
    BY <1>1, <2>1 DEF Running
  <2>3. \A r \in live' : hold'[r] = hold[r]
    BY <1>1, <2>1
  <2>4. hold[s] = 0 => hold' = hold
    BY <1>1, <2>1
  <2>5. s \in used /\ dying' \subseteq used \ live' /\ ended' \subseteq live' \cup dying'
    BY <1>1, <2>1
  <2>6. untold' \cap Running' = {}
    BY <1>1, <2>1 DEF Running
  <2>7. \/ UNCHANGED <<hold, ev, state>>
        \/ hold' = [hold EXCEPT ![s] = 0] /\ Emit(<<Control(s, 0)>>) /\ hold[s] # 0
    BY <2>1, <2>4
  <2>8. QED
    BY <1>1, <2>1, <2>2, <2>3, <2>5, <2>6, <2>7
<1>4. CASE ShellEnds(s)
  BY <1>1, <1>4 DEF ShellEnds, OthersAct, page, link, Running
<1>5. CASE ExitNotice(s)
  BY <1>1, <1>5 DEF ExitNotice, bounds, Running
<1>6. QED
  BY <1>2, <1>3, <1>4, <1>5

LEMMA EndBasic ==
  ASSUME BasicInv, NEW s \in Sessions, CloseStarts(s) \/ CloseEnds(s) \/ ShellEnds(s) \/ ExitNotice(s)
  PROVE  BasicInv'
<1>1. ev' \in Seq(Events) /\ state' \in States /\ hold' \in [Sessions -> Nat \cup {-1}]
  <2>1. <<Control(s, 0)>> \in Seq(Events) /\ <<Msg("exited", s)>> \in Seq(Events)
    BY SingleControl, MsgIsChange
  <2>2. /\ ViewTypeInv /\ ev \in Seq(Events) /\ state \in States /\ hold \in [Sessions -> Nat \cup {-1}]
    BY DEF BasicInv, ViewTypeInv
  <2>3. \/ UNCHANGED <<hold, ev, state>>
        \/ UNCHANGED hold /\ Emit(<<Msg("exited", s)>>)
        \/ hold' = [hold EXCEPT ![s] = 0] /\ Emit(<<Control(s, 0)>>)
    BY EndEffects
  <2>4. hold' \in [Sessions -> Nat \cup {-1}]
    BY <2>2, <2>3
  <2>5. ASSUME NEW q \in Seq(Events), Emit(q)
        PROVE  ev' \in Seq(Events) /\ state' \in States
    BY <2>2, <2>5, EmitTypes
  <2>6. QED
    BY <2>1, <2>2, <2>3, <2>4, <2>5
<1>2. others' \in Nat /\ live' \subseteq used' /\ used' \subseteq Sessions
  <2>1. others \in Nat /\ live \subseteq used /\ used \subseteq Sessions
    BY DEF BasicInv, ViewTypeInv
  <2>2. (others' = others \/ others' = others + 1) /\ live' \subseteq live /\ used' = used
    BY EndEffects
  <2>3. QED
    BY <2>1, <2>2
<1>3. ViewTypeInv'
  BY <1>1, <1>2, EndEffects DEF BasicInv, ViewTypeInv, Running
<1>4. QED
  BY <1>3, EndEffects DEF BasicInv, CreateInv, YieldInv

LEMMA BasicNext ==
  ASSUME BasicInv, [ViewNext]_viewVars
  PROVE  BasicInv'
<1>1. CASE TouchStep
  BY <1>1, OpenViewBasic, CloseViewBasic, CreateSessionBasic, ToggleControlBasic, ResendBasic,
     LoadStateBasic DEF TouchStep
<1>2. CASE PageStep
  BY <1>2, SocketOpensBasic, SocketClosesBasic, HandleBasic, StateAnswerBasic, CreateTimeoutBasic,
     ControlTimeoutBasic, FrameBasic DEF PageStep
<1>3. CASE ServerStep
  BY <1>3, HandleClientBasic, CreatedBasic, CreateRepliesBasic, ForwardBasic, StateServedBasic,
     ConnEndsBasic DEF ServerStep
<1>4. CASE OthersStep
  BY <1>4, ControlBasic, EndBasic DEF OthersStep
<1>5. CASE UNCHANGED viewVars
  BY <1>5 DEF viewVars, page, server, sessions, link, bounds, BasicInv, ViewTypeInv, Running, CreateInv, YieldInv
<1>6. QED
  BY <1>1, <1>2, <1>3, <1>4, <1>5 DEF ViewNext

LEMMA BasicInit == ViewInit => BasicInv
<1> SUFFICES ASSUME ViewInit PROVE BasicInv
  OBVIOUS
<1>1. Free \in [Sessions -> Holders] /\ NoState \in States /\ Sure \in Doubts
  BY DEF Free, Holders, NoState, States, Sure, Doubts
<1>2. IsRemote(remote)
  BY <1>1 DEF ViewInit, IsRemote, RemoteFields, Ids
<1>3. /\ <<>> \in Seq(Requests) /\ <<>> \in Seq(Events) /\ <<>> \in Seq(Replies)
  OBVIOUS
<1>4. ViewTypeInv
  BY <1>1, <1>2, <1>3, ViewAssumption DEF ViewInit, ViewTypeInv, NoMake, Ids, Running
<1>5. QED
  BY <1>4, NoneIsNoSession DEF ViewInit, BasicInv, CreateInv, YieldInv

\* The page's knowledge has its types, the session a create answer may open is
\* the one the user waits for, and what another device took is not wanted back.
THEOREM ViewIsSound == ViewSpec => []BasicInv
  BY BasicInit, BasicNext, PTL DEF ViewSpec

LEMMA LateCreate ==
  ASSUME BasicInv, [ViewNext]_viewVars, remote'.view \notin {remote.view, None}, Len(down') < Len(down)
  PROVE  Head(down).req = wish
<1>1. Handle
  <2>1. down \in Seq(Replies) /\ Len(down) \in Nat /\ \A m : Len(Append(down, m)) = Len(down) + 1
    BY DEF BasicInv, ViewTypeInv
  <2>2. down' # down /\ \A m : down' # Append(down, m)
    BY <2>1
  <2>3. remote' # remote
    OBVIOUS
  <2>4. ~TouchStep
    BY <2>2 DEF TouchStep, OpenView, CloseView, CreateSession, ToggleControl, Resend, LoadState, link
  <2>5. ~ServerStep /\ ~OthersStep
    BY <2>3 DEF ServerStep, OthersStep, HandleClient, Created, CreateReplies, ForwardEvent, Lagged,
                StateServed, ConnEnds, OtherTakes, Released, CloseStarts, CloseEnds, ShellEnds, ExitNotice, page
  <2>6. ~SocketCloses /\ ~UNCHANGED viewVars
    BY <2>3 DEF SocketCloses, viewVars, page
  <2>7. ~StateAnswer /\ ~CreateTimeout /\ ~ControlTimeout /\ \A f \in frames : ~Frame(f)
    BY <2>2 DEF StateAnswer, CreateTimeout, ControlTimeout, Frame, link
  <2>8. ~SocketOpens
    <3>1. SocketOpens => remote'.view = remote.view
      BY DEF SocketOpens, BasicInv, ViewTypeInv, IsRemote, RemoteFields
    <3>2. QED
      BY <3>1
  <2>9. QED
    BY <2>4, <2>5, <2>6, <2>7, <2>8 DEF ViewNext, PageStep
<1>2. Head(down) \in Replies /\ HandledAs(Head(down), remote')
  BY <1>1, HandleEffects
<1>3. Head(down) \in Answers /\ Head(down).req = remote.create
  BY <1>2, Sorts DEF HandledAs
<1>4. remote.create # 0
  BY <1>2, <1>3, Sorts
<1>5. QED
  BY <1>3, <1>4 DEF BasicInv, CreateInv

\* An answer to a create call opens the view only for the session the user still
\* waits for, for any number of sessions, requests and connections.
THEOREM LateCreatesStay == ViewSpec => LateCreateStays
<1>1. BasicInv /\ [ViewNext]_viewVars
      => [(remote'.view \notin {remote.view, None} /\ Len(down') < Len(down)) => Head(down).req = wish]_viewVars
  BY LateCreate
<1>2. QED
  BY <1>1, ViewIsSound, PTL DEF ViewSpec, LateCreateStays

LEMMA NoCall ==
  ASSUME BasicInv, [ViewNext]_viewVars, NEW f \in frames' \ frames, ~f.press
  PROVE  f.id \notin lost
<1>1. Resend \/ SocketOpens \/ ToggleControl
  <2>1. frames' # frames /\ ~(frames' \subseteq frames)
    OBVIOUS
  <2>2. ~ServerStep /\ ~OthersStep
    BY <2>1 DEF ServerStep, OthersStep, HandleClient, Created, CreateReplies, ForwardEvent, Lagged,
                StateServed, ConnEnds, OtherTakes, Released, CloseStarts, CloseEnds, ShellEnds, ExitNotice, page
  <2>3. ~SocketCloses /\ ~UNCHANGED viewVars /\ ~StateAnswer /\ ~CreateTimeout /\ ~ControlTimeout /\ ~Handle
    BY <2>1 DEF SocketCloses, viewVars, page, StateAnswer, CreateTimeout, ControlTimeout, Handle
  <2>4. \A g \in frames : ~Frame(g)
    BY <2>1 DEF Frame
  <2>5. ~CloseView /\ ~CreateSession /\ ~LoadState /\ \A s \in Sessions : ~OpenView(s)
    BY <2>1 DEF CloseView, CreateSession, LoadState, OpenView
  <2>6. QED
    BY <2>2, <2>3, <2>4, <2>5 DEF ViewNext, TouchStep, PageStep
<1>2. WantsControl(remote) /\ f.id = remote.view
  BY <1>1 DEF Resend, SocketOpens, ToggleControl
<1>3. QED
  BY <1>2 DEF WantsControl, BasicInv, YieldInv

\* A page that saw another device take a session starts no request for it by
\* itself until the user asks again.
THEOREM PhonesYield == ViewSpec => NoPingPong
<1>1. BasicInv /\ [ViewNext]_viewVars
      => [\A f \in frames' \ frames : ~f.press => f.id \notin lost]_viewVars
  BY NoCall
<1>2. QED
  BY <1>1, ViewIsSound, PTL DEF ViewSpec, NoPingPong

-----------------------------------------------------------------------------
(* What the page ends up knowing *)

LEMMA ListIsTrue ==
  ASSUME ViewTypeInv
  PROVE  /\ List \in Lists /\ List \notin Controls
         /\ \A s \in live : List \in HolderWords(s) /\ List \in HolderTruths(s, Seen(hold[s]))
         /\ \A s \in Sessions : List \in OpenWords(s)
         /\ \A s \in Sessions \ untold : List \in OpenTruths(s, Running)
         /\ \A s \in Sessions \ used : List \notin HolderSayings(s)
<1>1. List \in Lists
  BY ListIsList
<1>2. /\ List.t = "sessions" /\ List.list = live \cup dying /\ \A s \in Sessions : List.holder[s] = Seen(hold[s])
      /\ List.exited = ended /\ List.told = dying \ (ended \cup untold)
  BY DEF List
<1>3. List \notin Controls /\ List \notin Snaps
  BY <1>2 DEF Controls, Snaps
<1>4. live \subseteq used /\ dying \subseteq used \ live /\ used \subseteq Sessions
  BY DEF ViewTypeInv
<1>5. ASSUME NEW s \in Sessions \ untold PROVE List \in OpenTruths(s, Running)
  BY <1>1, <1>2, <1>4 DEF OpenTruths, Running
<1>6. \A s \in live : List \in HolderWords(s) /\ List \in HolderTruths(s, Seen(hold[s]))
  BY <1>1, <1>2, <1>4 DEF HolderWords, HolderTruths
<1>7. \A s \in Sessions \ used : List \notin HolderSayings(s)
  BY <1>2, <1>3, <1>4 DEF HolderSayings, HolderWords
<1>8. QED
  BY <1>1, <1>3, <1>5, <1>6, <1>7 DEF OpenWords

LEMMA EventsSay ==
  ASSUME NEW m \in Events, NEW s \in Sessions
  PROVE  /\ m \in HolderSayings(s) => m \in HolderWords(s)
         /\ m \notin Lists /\ m \in Replies
<1>1. m \in Replies
  BY DEF Replies
<1>2. m \notin Snaps /\ m \notin Lists
  BY DEF Snaps, Lists, Events, Changes, Controls
<1>3. QED
  BY <1>1, <1>2 DEF HolderSayings

LEMMA WordsAreSayings == ASSUME NEW s PROVE HolderWords(s) \subseteq HolderSayings(s)
  BY DEF HolderSayings

\* The handling of a message that says nothing of s, and of one that does.
LEMMA HolderKept ==
  ASSUME NEW m \in Replies, NEW q, HandledAs(m, q), NEW s \in Sessions, m \notin HolderSayings(s),
         IsRemote(remote)
  PROVE  q.holder[s] = remote.holder[s]
<1>1. CASE m \in Lists
  BY <1>1 DEF HandledAs, HolderSayings, HolderWords
<1>2. CASE m \in Controls
  BY <1>2 DEF HandledAs, HolderSayings, HolderWords, IsRemote
<1>3. CASE m \in Snaps
  BY <1>3 DEF HandledAs, HolderSayings, IsRemote
<1>4. QED
  BY <1>1, <1>2, <1>3, Sorts DEF HandledAs, SameKnown

LEMMA HolderTaken ==
  ASSUME NEW m \in Replies, NEW q, HandledAs(m, q), NEW s \in Sessions, NEW w, m \in HolderTruths(s, w),
         IsRemote(remote)
  PROVE  /\ m \in HolderWords(s) => q.holder[s] = w
         /\ m \in HolderSayings(s) => q.holder[s] \in {w, remote.holder[s]}
<1>0. remote.holder \in [Sessions -> Holders]
  BY DEF IsRemote
<1>1. CASE m \in Lists
  <2>1. m \notin Controls /\ m \notin Snaps
    BY <1>1, Sorts
  <2>2. m.holder[s] = w
    BY <2>1 DEF HolderTruths
  <2>3. q.holder[s] = IF s \in m.list THEN m.holder[s] ELSE remote.holder[s]
    BY <1>1 DEF HandledAs
  <2>4. m \in HolderWords(s) => s \in m.list
    BY <2>1 DEF HolderWords
  <2>5. QED
    BY <2>2, <2>3, <2>4
<1>2. CASE m \in Controls
  <2>1. m \notin Lists /\ m \notin Snaps
    BY <1>2, Sorts
  <2>2. m.holder = w
    BY <2>1 DEF HolderTruths
  <2>3. q.holder = [remote.holder EXCEPT ![m.id] = m.holder]
    BY <1>2 DEF HandledAs
  <2>4. m \in HolderSayings(s) => m.id = s
    BY <2>1 DEF HolderWords, HolderSayings
  <2>5. QED
    BY <1>0, <2>2, <2>3, <2>4, WordsAreSayings
<1>3. CASE m \in Snaps
  <2>1. m \notin Lists /\ m \notin Controls
    BY <1>3, Sorts
  <2>2. m.holder = w /\ m \notin HolderWords(s)
    BY <2>1 DEF HolderTruths, HolderWords
  <2>3. q.holder \in {remote.holder, [remote.holder EXCEPT ![m.id] = m.holder]}
    BY <1>3 DEF HandledAs
  <2>4. QED
    BY <1>0, <2>2, <2>3
<1>4. QED
  BY <1>1, <1>2, <1>3 DEF HolderTruths

\* Steps that leave the queues, the sessions and what the page knows alone.
LEMMA KnowStill ==
  ASSUME BasicInv, KnowInv, UNCHANGED <<conn, alive, ev, down, live, ended, untold, hold, used, stale>>,
         SameKnown(remote, remote'),
         state' = state \/ state' = ServedState \/ (state'.t # "served" /\ state'.holder = Free)
  PROVE  KnowInv'
<1>0. live \subseteq used /\ used \subseteq Sessions /\ dying \subseteq used \ live
  BY DEF BasicInv, ViewTypeInv
<1>1. HolderInv'
  BY DEF KnowInv, HolderInv, SameKnown
<1>2. OpenInv'
  BY DEF KnowInv, OpenInv, SameKnown, Running
<1>3. \A s \in Sessions : hold[s] = 0 /\ state.holder[s] = "free" => state'.holder[s] = "free"
  BY StateTypes DEF Seen, Free, BasicInv
<1>4. UnusedInv'
  BY <1>3 DEF KnowInv, UnusedInv, SameKnown
<1>5. FreshInv'
  <2>1. CASE state' = state
    BY <2>1 DEF KnowInv, FreshInv, Running
  <2>2. CASE state' = ServedState
    <3>1. /\ state'.list = live \cup dying /\ state'.exited = ended
          /\ state'.changed.open = dying \ (ended \cup untold)
          /\ \A s \in Sessions : state'.holder[s] = Seen(hold[s])
      BY <2>2, StateTypes DEF BasicInv
    <3>2. QED
      BY <1>0, <3>1 DEF FreshInv, Running
  <2>3. CASE state'.t # "served"
    BY <2>3 DEF FreshInv
  <2>4. QED
    BY <2>1, <2>2, <2>3
<1>6. QED
  BY <1>1, <1>2, <1>4, <1>5 DEF KnowInv

\* The connection answers a request of the page.
LEMMA KnowReplied ==
  ASSUME BasicInv, KnowInv, UNCHANGED <<conn, alive, ev, live, dying, ended, untold, hold, used, stale, remote, state>>,
         NEW m \in Snaps \cup Errors \cup Answers, down' = Append(down, m),
         m \in Snaps => m.id \in live /\ m.holder = Seen(hold[m.id])
  PROVE  KnowInv'
<1>0. /\ live \subseteq used /\ used \subseteq Sessions /\ down \in Seq(Replies) /\ ev \in Seq(Replies)
      /\ m \in Replies
  BY DEF BasicInv, ViewTypeInv, Replies
<1>1. m \notin Lists /\ m \notin Controls /\ m \notin Changes
  BY <1>0, Sorts
<1>2. /\ \A s : m \notin HolderWords(s) /\ m \notin OpenWords(s)
      /\ \A s \in Sessions : m \in HolderSayings(s) => s \in live /\ m \in HolderTruths(s, Seen(hold[s]))
  BY <1>1 DEF HolderWords, OpenWords, HolderSayings, HolderTruths
<1>3. /\ DOMAIN down' = 1..(Len(down) + 1) /\ DOMAIN down = 1..Len(down) /\ Len(down) \in Nat
      /\ \A i \in 1..Len(down) : down'[i] = down[i] /\ i \in 1..(Len(down) + 1)
      /\ down'[Len(down) + 1] = m
      /\ \A i \in 1..(Len(down) + 1) : i \in 1..Len(down) \/ i = Len(down) + 1
  BY <1>0
<1>4. HolderInv'
  <2> SUFFICES ASSUME conn \in alive, NEW s \in live
               PROVE  /\ Told(ev, down', HolderWords(s), HolderSayings(s), HolderTruths(s, Seen(hold[s])))
                      /\ Silent(ev, down', HolderWords(s)) /\ s \notin stale.held => remote.holder[s] = Seen(hold[s])
    BY DEF HolderInv
  <2> DEFINE W == HolderWords(s)
             V == HolderSayings(s)
             R == HolderTruths(s, Seen(hold[s]))
  <2>1. Told(ev, down, W, V, R) /\ (Silent(ev, down, W) /\ s \notin stale.held => remote.holder[s] = Seen(hold[s]))
    BY DEF KnowInv, HolderInv
  <2>2. W \subseteq V /\ (m \in V => m \in R)
    BY <1>0, <1>2, WordsAreSayings
  <2> HIDE DEF W, V, R
  <2>3. Told(ev, Append(down, m), W, V, R) /\ (Silent(ev, Append(down, m), W) => Silent(ev, down, W))
    BY <1>0, <2>1, <2>2, ToldReplied
  <2>4. QED
    BY <2>1, <2>3 DEF W, V, R
<1>5. OpenInv'
  <2> SUFFICES ASSUME conn \in alive, NEW s \in Sessions \ untold
               PROVE  /\ Told(ev, down', OpenWords(s), OpenWords(s), OpenTruths(s, Running))
                      /\ Silent(ev, down', OpenWords(s)) /\ s \notin stale.open
                           => (s \in remote.list \ remote.exited <=> s \in Running)
    BY DEF OpenInv, Running
  <2> DEFINE W == OpenWords(s)
             R == OpenTruths(s, Running)
  <2>1. Told(ev, down, W, W, R) /\ (Silent(ev, down, W) /\ s \notin stale.open
                           => (s \in remote.list \ remote.exited <=> s \in Running))
    BY DEF KnowInv, OpenInv
  <2>2. W \subseteq W /\ m \notin W
    BY <1>2
  <2> HIDE DEF W, R
  <2>3. Told(ev, Append(down, m), W, W, R) /\ (Silent(ev, Append(down, m), W) => Silent(ev, down, W))
    BY <1>0, <2>1, <2>2, ToldReplied
  <2>4. QED
    BY <2>1, <2>3 DEF W, R
<1>7. UnusedInv'
  BY <1>0, <1>2, <1>3 DEF KnowInv, UnusedInv
<1>8. FreshInv'
  BY DEF KnowInv, FreshInv, Running
<1>9. QED
  BY <1>4, <1>5, <1>7, <1>8 DEF KnowInv

\* Nothing has been said of a session that there has not been, and so all of it is true.
LEMMA UnusedIsKnown ==
  ASSUME BasicInv, UnusedInv, NEW s \in Sessions \ used
  PROVE  /\ Told(ev, down, HolderWords(s), HolderSayings(s), HolderTruths(s, Seen(hold[s])))
         /\ remote.holder[s] = Seen(hold[s]) /\ hold[s] = 0 /\ state.holder[s] = "free"
         /\ Quiet(ev, HolderSayings(s), 0) /\ \A i \in DOMAIN down : down[i] \notin HolderSayings(s)
<1>1. /\ hold[s] = 0 /\ remote.holder[s] = "free" /\ state.holder[s] = "free"
      /\ \A i \in DOMAIN down : down[i] \notin HolderSayings(s)
      /\ \A i \in DOMAIN ev : ev[i] \notin HolderSayings(s)
  BY DEF UnusedInv
<1>2. HolderWords(s) \subseteq HolderSayings(s)
  BY WordsAreSayings
<1>3. QED
  BY <1>1, <1>2 DEF Told, LastIsTrue, Quiet, Seen

\* The server changes the sessions or who holds them, and tells the connections;
\* a connection that ends is told no more.
TellsOf(told) ==
  /\ told \in Seq(Events)
  /\ alive' \subseteq alive /\ ev' = IF conn \in alive' THEN ev \o told ELSE ev
  /\ used \subseteq used' /\ used' \subseteq Sessions /\ live' \subseteq used'
  /\ \A s \in live' :
       /\ s \in live \/ s \notin used
       /\ LastIsTrue(told, HolderWords(s), HolderWords(s), HolderTruths(s, Seen(hold'[s])))
       /\ Quiet(told, HolderWords(s), 0) => hold'[s] = hold[s]
  /\ \A s \in Sessions \ untold' :
       /\ LastIsTrue(told, OpenWords(s), OpenWords(s), OpenTruths(s, Running'))
       /\ Quiet(told, OpenWords(s), 0) => s \notin untold /\ (s \in Running' <=> s \in Running)
  /\ \A s \in Sessions \ used' : hold'[s] = hold[s] /\ Quiet(told, HolderSayings(s), 0)
  /\ state' = Overtaken(told) \/ (UNCHANGED state /\ told = <<>>)

\* When nothing is told there is nothing to note.
LEMMA QuietIsSilent ==
  ASSUME NEW W
  PROVE  Quiet(<<>>, W, 0) /\ \A V, R : LastIsTrue(<<>>, W, V, R)
  BY DEF Quiet, LastIsTrue

LEMMA KnowTold ==
  ASSUME BasicInv, KnowInv, UNCHANGED <<conn, down, stale, remote>>, NEW told, TellsOf(told)
  PROVE  KnowInv'
<1>0. /\ live \subseteq used /\ used \subseteq used' /\ used' \subseteq Sessions /\ live' \subseteq used'
      /\ down \in Seq(Replies) /\ ev \in Seq(Replies) /\ told \in Seq(Replies) /\ 0 \in 0..Len(ev)
  BY DEF BasicInv, ViewTypeInv, Replies, TellsOf
<1>1. /\ state'.holder = state.holder /\ state'.t = state.t
      /\ state'.list = state.list /\ state'.exited = state.exited
      /\ state'.t = "served" => \A s \in Sessions :
           /\ s \notin state'.changed.open => s \notin state.changed.open /\ Quiet(told, OpenWords(s), 0)
           /\ s \notin state'.changed.held => s \notin state.changed.held /\ Quiet(told, HolderWords(s), 0)
  <2>1. state \in States /\ told \in Seq(Events)
    BY DEF BasicInv, ViewTypeInv, TellsOf
  <2>2. CASE state' = Overtaken(told)
    BY <2>1, <2>2, OvertakenFacts
  <2>3. CASE UNCHANGED state /\ told = <<>>
    BY <2>3, QuietIsSilent
  <2>4. QED
    BY <2>2, <2>3 DEF TellsOf
<1>2. HolderInv'
  <2> SUFFICES ASSUME conn \in alive', NEW s \in live'
               PROVE  /\ Told(ev', down, HolderWords(s), HolderSayings(s), HolderTruths(s, Seen(hold'[s])))
                      /\ Silent(ev', down, HolderWords(s)) /\ s \notin stale.held => remote.holder[s] = Seen(hold'[s])
    BY DEF HolderInv
  <2> DEFINE W == HolderWords(s)
             V == HolderSayings(s)
             R == HolderTruths(s, Seen(hold[s]))
             Q == HolderTruths(s, Seen(hold'[s]))
  <2>1. Told(ev, down, W, V, R) /\ (Silent(ev, down, W) /\ s \notin stale.held => remote.holder[s] = Seen(hold[s]))
    BY <1>0, UnusedIsKnown DEF KnowInv, HolderInv, TellsOf
  <2>2. /\ ev' = ev \o told /\ LastIsTrue(told, W, W, Q)
        /\ Quiet(told, W, 0) => hold'[s] = hold[s]
    BY DEF TellsOf
  <2>3. Quiet(told, W, 0) => R \subseteq Q
    BY <2>2
  <2> HIDE DEF W, V, R, Q
  <2>4. /\ Told(ev \o told, down, W, V, Q)
        /\ Silent(ev \o told, down, W) => Silent(ev, down, W) /\ Quiet(told, W, 0)
    BY <1>0, <2>1, <2>2, <2>3, ToldSent
  <2>5. QED
    BY <2>1, <2>2, <2>4 DEF W, V, Q
<1>3. OpenInv'
  <2> SUFFICES ASSUME conn \in alive', NEW s \in Sessions \ untold'
               PROVE  /\ Told(ev', down, OpenWords(s), OpenWords(s), OpenTruths(s, Running'))
                      /\ Silent(ev', down, OpenWords(s)) /\ s \notin stale.open
                           => (s \in remote.list \ remote.exited <=> s \in Running')
    BY DEF OpenInv
  <2> DEFINE W == OpenWords(s)
             R == OpenTruths(s, Running)
             Q == OpenTruths(s, Running')
  <2>1. s \notin untold =>
          Told(ev, down, W, W, R) /\ (Silent(ev, down, W) /\ s \notin stale.open
                           => (s \in remote.list \ remote.exited <=> s \in Running))
    BY DEF KnowInv, OpenInv, TellsOf
  <2>2. /\ ev' = ev \o told /\ LastIsTrue(told, W, W, Q)
        /\ Quiet(told, W, 0) => s \notin untold /\ (s \in Running' <=> s \in Running)
    BY DEF TellsOf
  <2>3. Quiet(told, W, 0) => R = Q
    BY <2>2 DEF OpenTruths
  <2> HIDE DEF W, R, Q
  <2>4. CASE Quiet(told, W, 0)
    <3>1. /\ Told(ev \o told, down, W, W, Q)
          /\ Silent(ev \o told, down, W) => Silent(ev, down, W) /\ Quiet(told, W, 0)
      BY <1>0, <2>1, <2>2, <2>3, <2>4, ToldSent
    <3>2. QED
      BY <2>1, <2>2, <2>4, <3>1 DEF W, Q
  <2>5. CASE ~Quiet(told, W, 0)
    <3>1. Told(ev \o told, down, W, W, Q) /\ ~Silent(ev \o told, down, W)
      BY <1>0, <2>2, <2>5, ToldAnew
    <3>2. QED
      BY <2>2, <3>1 DEF W, Q
  <2>6. QED
    BY <2>4, <2>5
<1>5. UnusedInv'
  <2> SUFFICES ASSUME NEW s \in Sessions \ used'
               PROVE  /\ hold'[s] = 0 /\ remote.holder[s] = "free" /\ state'.holder[s] = "free"
                      /\ \A i \in DOMAIN down : down[i] \notin HolderSayings(s)
                      /\ \A i \in DOMAIN ev' : ev'[i] \notin HolderSayings(s)
    BY DEF UnusedInv
  <2>1. /\ hold[s] = 0 /\ remote.holder[s] = Seen(hold[s]) /\ state.holder[s] = "free"
        /\ Quiet(ev, HolderSayings(s), 0) /\ \A i \in DOMAIN down : down[i] \notin HolderSayings(s)
    BY <1>0, UnusedIsKnown DEF KnowInv
  <2>2. hold'[s] = hold[s] /\ Quiet(told, HolderSayings(s), 0)
    BY DEF TellsOf
  <2>3. Quiet(ev', HolderSayings(s), 0) /\ ev' \in Seq(Replies)
    <3>1. ev' = ev \o told \/ ev' = ev
      BY DEF TellsOf
    <3>2. Quiet(ev \o told, HolderSayings(s), 0)
      BY <1>0, <2>1, <2>2, QuietCat
    <3>3. ev \o told \in Seq(Replies)
      BY <1>0
    <3>4. QED
      BY <1>0, <2>1, <3>1, <3>2, <3>3
  <2>4. \A i \in DOMAIN ev' : i > 0
    BY <2>3
  <2>5. QED
    BY <1>1, <2>1, <2>2, <2>3, <2>4 DEF Quiet, Seen
<1>6. FreshInv'
  <2> SUFFICES ASSUME state'.t = "served"
               PROVE  /\ \A s \in Sessions \ (untold' \cup state'.changed.open) :
                           s \in state'.list \ state'.exited <=> s \in Running'
                      /\ \A s \in live' \ state'.changed.held : state'.holder[s] = Seen(hold'[s])
    BY DEF FreshInv
  <2>1. ASSUME NEW s \in Sessions \ (untold' \cup state'.changed.open)
        PROVE  s \in state'.list \ state'.exited <=> s \in Running'
    <3>1. s \notin state.changed.open /\ Quiet(told, OpenWords(s), 0)
      BY <1>1
    <3>2. s \notin untold /\ (s \in Running' <=> s \in Running)
      BY <3>1 DEF TellsOf
    <3>3. QED
      BY <1>1, <3>1, <3>2 DEF KnowInv, FreshInv
  <2>2. ASSUME NEW s \in live' \ state'.changed.held
        PROVE  state'.holder[s] = Seen(hold'[s])
    <3>1. s \in Sessions /\ s \notin state.changed.held /\ hold'[s] = hold[s] /\ (s \in live \/ s \notin used)
      BY <1>0, <1>1 DEF TellsOf
    <3>2. CASE s \in live
      BY <1>1, <3>1, <3>2 DEF KnowInv, FreshInv
    <3>3. CASE s \notin used
      BY <1>1, <3>1, <3>3 DEF KnowInv, UnusedInv, Seen
    <3>4. QED
      BY <3>1, <3>2, <3>3
  <2>3. QED
    BY <2>1, <2>2
<1>7. QED
  BY <1>2, <1>3, <1>5, <1>6 DEF KnowInv

\* What control events tell: of each session whose holder they change, the new one.
LEMMA ControlsTell ==
  ASSUME BasicInv, NEW told \in Seq(Controls), UNCHANGED used, live' \subseteq live, untold' = untold,
         \A s \in Sessions : s \in Running' <=> s \in Running,
         alive' \subseteq alive, ev' = IF conn \in alive' THEN ev \o told ELSE ev,
         \A j \in DOMAIN told : told[j].id \in used /\ told[j].holder = Seen(hold'[told[j].id]),
         \A s \in Sessions : hold'[s] = hold[s] \/ (s \in used /\ \E j \in DOMAIN told : told[j].id = s),
         state' = Overtaken(told)
  PROVE  TellsOf(told)
<1>1. live \subseteq used /\ used \subseteq Sessions /\ told \in Seq(Events)
  BY DEF BasicInv, ViewTypeInv, Events
<1>2. \A j \in DOMAIN told : /\ j > 0 /\ told[j] \in Controls /\ told[j] \in Replies
                             /\ told[j] \notin Lists /\ told[j] \notin Changes /\ told[j] \notin Snaps
  <2> SUFFICES ASSUME NEW j \in DOMAIN told
               PROVE  /\ j > 0 /\ told[j] \in Controls /\ told[j] \in Replies
                      /\ told[j] \notin Lists /\ told[j] \notin Changes /\ told[j] \notin Snaps
    OBVIOUS
  <2>1. j > 0 /\ told[j] \in Controls
    OBVIOUS
  <2>2. told[j] \in Replies
    BY <2>1 DEF Replies, Events
  <2>3. QED
    BY <2>1, <2>2, Sorts
<1>3. \A s \in live : /\ LastIsTrue(told, HolderWords(s), HolderWords(s), HolderTruths(s, Seen(hold'[s])))
                      /\ Quiet(told, HolderWords(s), 0) => hold'[s] = hold[s]
  BY <1>1, <1>2 DEF LastIsTrue, Quiet, HolderWords, HolderTruths
<1>4. \A s \in Sessions : LastIsTrue(told, OpenWords(s), OpenWords(s), OpenTruths(s, Running'))
  BY <1>2 DEF LastIsTrue, OpenWords
<1>5. \A s \in Sessions \ used : hold'[s] = hold[s] /\ Quiet(told, HolderSayings(s), 0)
  BY <1>2 DEF Quiet, HolderSayings, HolderWords
<1>6. QED
  BY <1>1, <1>3, <1>4, <1>5 DEF TellsOf

\* One control event tells of the one session.
LEMMA OneControlTells ==
  ASSUME BasicInv, KnowInv, NEW s \in Sessions, NEW h \in Nat \cup {-1}, s \in live \/ hold[s] # 0,
         hold' = [hold EXCEPT ![s] = h], ev' = IF conn \in alive THEN ev \o <<Control(s, h)>> ELSE ev,
         state' = Overtaken(<<Control(s, h)>>), UNCHANGED <<alive, untold, used>>, live' \subseteq live,
         \A r \in Sessions : r \in Running' <=> r \in Running
  PROVE  TellsOf(<<Control(s, h)>>)
<1>1. s \in used /\ hold'[s] = h /\ \A r \in Sessions \ {s} : hold'[r] = hold[r]
  BY DEF BasicInv, ViewTypeInv, KnowInv, UnusedInv
<1>2. Control(s, h).id = s /\ Control(s, h).holder = Seen(h)
  BY DEF Control
<1>3. PICK told \in Seq(Controls) : told = <<Control(s, h)>>
  BY SingleControl
<1>4. DOMAIN told = {1} /\ told[1] = Control(s, h)
  BY <1>3
<1>5. TellsOf(told)
  <2>1. \A j \in DOMAIN told : told[j].id \in used /\ told[j].holder = Seen(hold'[told[j].id])
    BY <1>1, <1>2, <1>4
  <2>2. \A r \in Sessions : hold'[r] = hold[r] \/ (r \in used /\ \E j \in DOMAIN told : told[j].id = r)
    <3>1. 1 \in DOMAIN told /\ told[1].id = s
      BY <1>2, <1>4
    <3>2. QED
      BY <1>1, <3>1
  <2>3. ev' = (IF conn \in alive' THEN ev \o told ELSE ev) /\ state' = Overtaken(told)
    BY <1>3
  <2>4. QED
    BY <2>1, <2>2, <2>3, ControlsTell
<1>6. QED
  BY <1>3, <1>5

LEMMA HandleClientKnow ==
  ASSUME BasicInv, KnowInv, HandleClient
  PROVE  KnowInv'
<1>0. conn \in alive /\ UNCHANGED <<remote, stale, alive, live, dying, ended, untold, used, conn>>
  BY ClientEffects
<1>1. CASE /\ \E m \in Snaps \cup Errors :
                down' = Append(down, m) /\ (m \in Snaps => m.id \in live /\ m.holder = Seen(hold[m.id]))
           /\ UNCHANGED <<hold, making, ev, state>>
  BY <1>0, <1>1, KnowReplied
<1>2. CASE /\ \E s \in Sessions, h \in Nat \cup {-1} :
                /\ s \in live \/ hold[s] # 0
                /\ hold' = [hold EXCEPT ![s] = h] /\ ev' = ev \o <<Control(s, h)>>
                /\ state' = Overtaken(<<Control(s, h)>>)
           /\ UNCHANGED <<down, making>>
  <2>1. PICK s \in Sessions, h \in Nat \cup {-1} : TellsOf(<<Control(s, h)>>)
    BY <1>0, <1>2, OneControlTells DEF Running
  <2>2. QED
    BY <1>0, <1>2, <2>1, KnowTold
<1>3. CASE UNCHANGED <<hold, down, ev, state>>
  <2>1. QED
    BY <1>0, <1>3, KnowStill DEF SameKnown
<1>4. QED
  BY <1>1, <1>2, <1>3, ClientEffects

\* An event tells that the one session is open, or has ended.
LEMMA ChangeTells ==
  ASSUME BasicInv, NEW s \in Sessions, NEW t \in {"created", "exited"}, UNCHANGED <<alive, hold>>,
         ev' = IF conn \in alive THEN ev \o <<Msg(t, s)>> ELSE ev, state' = Overtaken(<<Msg(t, s)>>),
         used \subseteq used', used' \subseteq Sessions, live' \subseteq used',
         \A r \in live' : r \in live \/ r \notin used,
         t = "created" <=> s \in Running',
         \A r \in Sessions \ {s} : (r \in Running' <=> r \in Running) /\ (r \in untold => r \in untold')
  PROVE  TellsOf(<<Msg(t, s)>>)
<1>1. PICK m \in Changes : m = Msg(t, s) /\ <<m>> \in Seq(Events)
  BY MsgIsChange
<1>2. /\ m.id = s /\ (m.t = "created" <=> s \in Running') /\ m \in Replies
      /\ m \notin Lists /\ m \notin Controls /\ m \notin Snaps
  <2>1. m.id = s /\ m.t = t
    BY <1>1 DEF Msg
  <2>2. m \in Replies
    BY DEF Replies, Events
  <2>3. QED
    BY <2>1, <2>2, Sorts
<1>3. PICK told \in Seq(Events) : told = <<m>>
  BY <1>1
<1>4. DOMAIN told = {1} /\ told[1] = m
  BY <1>3
<1>7. \A r : m \notin HolderSayings(r)
  BY <1>2 DEF HolderSayings, HolderWords
<1>8. \A r : Quiet(told, HolderSayings(r), 0) /\ Quiet(told, HolderWords(r), 0)
  BY <1>4, <1>7 DEF Quiet, HolderSayings
<1>9. \A r : LastIsTrue(told, HolderWords(r), HolderWords(r), HolderTruths(r, Seen(hold'[r])))
  BY <1>4, <1>7 DEF LastIsTrue, HolderSayings
<1>10. ASSUME NEW r \in Sessions \ untold'
       PROVE  /\ LastIsTrue(told, OpenWords(r), OpenWords(r), OpenTruths(r, Running'))
              /\ Quiet(told, OpenWords(r), 0) => r \notin untold /\ (r \in Running' <=> r \in Running)
  <2>1. CASE r = s
    BY <1>2, <1>4, <2>1 DEF LastIsTrue, Quiet, OpenWords, OpenTruths
  <2>2. CASE r # s
    BY <1>2, <1>4, <2>2 DEF LastIsTrue, OpenWords
  <2>3. QED
    BY <2>1, <2>2
<1>11. TellsOf(told)
  BY <1>1, <1>3, <1>8, <1>9, <1>10 DEF TellsOf
<1>12. QED
  BY <1>1, <1>3, <1>11

LEMMA CreatedKnow ==
  ASSUME BasicInv, KnowInv, Created
  PROVE  KnowInv'
<1>1. UNCHANGED <<remote, stale, alive, ended, untold, hold, conn, down>>
  BY DEF Created
<1>2. PICK s \in Sessions \ used :
        /\ live' = live \cup {s} /\ used' = used \cup {s} /\ Emit(<<Msg("created", s)>>)
  BY DEF Created
<1>3. TellsOf(<<Msg("created", s)>>)
  <2>1. live \subseteq used /\ used \subseteq Sessions /\ dying \subseteq used /\ ended \subseteq live \cup dying
    BY DEF BasicInv, ViewTypeInv
  <2>2. s \in Running' /\ \A r \in Sessions \ {s} : r \in Running' <=> r \in Running
    BY <1>1, <1>2, <2>1 DEF Running
  <2>3. used \subseteq used' /\ used' \subseteq Sessions /\ live' \subseteq used' /\ \A r \in live' : r \in live \/ r \notin used
    BY <1>2, <2>1
  <2>4. QED
    BY <1>1, <1>2, <2>2, <2>3, ChangeTells DEF Emit
<1>4. QED
  BY <1>1, <1>3, KnowTold

LEMMA ControlKnow ==
  ASSUME BasicInv, KnowInv, NEW s \in Sessions, OtherTakes(s) \/ Released(s)
  PROVE  KnowInv'
<1>1. UNCHANGED <<remote, stale, alive, live, dying, ended, untold, used, conn, down>>
  BY DEF OtherTakes, Released, sessions
<1>2. CASE OtherTakes(s)
  <2>1. /\ s \in live /\ hold' = [hold EXCEPT ![s] = Other] /\ Emit(<<Control(s, Other)>>)
        /\ Other \in Nat \cup {-1}
    BY <1>2 DEF OtherTakes, Other
  <2>2. TellsOf(<<Control(s, Other)>>)
    BY <1>1, <2>1, OneControlTells DEF Emit, Running
  <2>3. QED
    BY <1>1, <2>2, KnowTold
<1>3. CASE Released(s)
  <2>1. /\ hold[s] # 0 /\ hold' = [hold EXCEPT ![s] = 0] /\ Emit(<<Control(s, 0)>>)
    BY <1>3 DEF Released
  <2>2. TellsOf(<<Control(s, 0)>>)
    BY <1>1, <2>1, OneControlTells DEF Emit, Running
  <2>3. QED
    BY <1>1, <2>2, KnowTold
<1>4. QED
  BY <1>2, <1>3

\* A session ends: while its end is still to be told nothing is said of it.
LEMMA EndKnow ==
  ASSUME BasicInv, KnowInv, NEW s \in Sessions, CloseStarts(s) \/ CloseEnds(s) \/ ShellEnds(s) \/ ExitNotice(s)
  PROVE  KnowInv'
<1>0. live \subseteq used /\ used \subseteq Sessions
  BY DEF BasicInv, ViewTypeInv
<1>1. /\ UNCHANGED <<remote, stale, alive, used, conn, down>> /\ live' \subseteq live
      /\ \A r \in Sessions \ untold' : r \in untold => r = s /\ ExitNotice(s)
      /\ \A r \in Sessions \ untold' : r \in Running' <=> r \in Running
      /\ \A r \in live' : hold'[r] = hold[r]
  BY EndEffects
<1>2. CASE UNCHANGED <<hold, ev, state>> /\ ~ExitNotice(s)
  <2>1. <<>> \in Seq(Events) /\ ev \o <<>> = ev
    BY DEF BasicInv, ViewTypeInv
  <2>2. \A r \in Sessions \ untold' : r \notin untold /\ (r \in Running' <=> r \in Running)
    BY <1>1, <1>2
  <2>3. TellsOf(<<>>)
    BY <1>0, <1>1, <1>2, <2>1, <2>2, QuietIsSilent DEF TellsOf
  <2>4. QED
    BY <1>1, <2>3, KnowTold
<1>3. CASE ExitNotice(s)
  <2>1. UNCHANGED <<alive, live, ended, hold>> /\ untold' = untold \ {s} /\ Emit(<<Msg("exited", s)>>) /\ s \in untold
    BY <1>3 DEF ExitNotice
  <2>2. s \notin Running' /\ \A r \in Sessions : r \in Running' <=> r \in Running
    BY <2>1 DEF Running, BasicInv, ViewTypeInv
  <2>3. TellsOf(<<Msg("exited", s)>>)
    BY <1>0, <1>1, <2>1, <2>2, ChangeTells DEF Emit
  <2>4. QED
    BY <1>1, <2>3, KnowTold
<1>4. CASE hold' = [hold EXCEPT ![s] = 0] /\ Emit(<<Control(s, 0)>>) /\ hold[s] # 0 /\ ~ExitNotice(s)
  <2>1. CloseEnds(s)
    BY <1>4 DEF CloseStarts, ShellEnds, BasicInv, ViewTypeInv
  <2>2. untold' = untold /\ \A r \in Sessions : r \in Running' <=> r \in Running
    BY <2>1 DEF CloseEnds, Running, BasicInv, ViewTypeInv
  <2>3. TellsOf(<<Control(s, 0)>>)
    BY <1>1, <1>4, <2>2, OneControlTells DEF Emit
  <2>4. QED
    BY <1>1, <2>3, KnowTold
<1>5. QED
  BY <1>2, <1>3, <1>4, EndEffects

LEMMA ConnEndsKnow ==
  ASSUME BasicInv, KnowInv, NEW n \in alive, ConnEnds(n)
  PROVE  KnowInv'
<1>1. /\ alive' = alive \ {n} /\ hold' = Freed(n)
      /\ UNCHANGED <<remote, stale, live, ended, untold, used, conn, down>>
  BY DEF ConnEnds, sessions
<1>2. PICK told \in SetToSeqs({Control(s, 0) : s \in Held(n)}) :
        ev' = (IF conn \in alive' THEN ev \o told ELSE ev) /\ state' = Overtaken(told)
  BY DEF ConnEnds
<1>3. /\ told \in Seq(Controls)
      /\ \A j \in DOMAIN told : told[j].id \in Held(n) /\ told[j].holder = "free"
      /\ \A s \in Held(n) : \E j \in DOMAIN told : told[j] = Control(s, 0)
  BY EndIsTold DEF BasicInv
<1>4. n \in Nat \ {0} /\ hold \in [Sessions -> Nat \cup {-1}]
  BY DEF BasicInv, ViewTypeInv
<1>5. \A s \in Held(n) : s \in used /\ s \in Sessions /\ hold'[s] = 0
  BY <1>1, <1>4 DEF Held, Freed, KnowInv, UnusedInv
<1>6. \A s \in Sessions : hold'[s] = hold[s] \/ (s \in used /\ \E j \in DOMAIN told : told[j].id = s)
  <2>1. \A s : Control(s, 0).id = s
    BY DEF Control
  <2>2. \A s \in Held(n) : \E j \in DOMAIN told : told[j].id = s
    BY <1>3, <2>1
  <2>3. \A s \in Sessions : s \in Held(n) \/ hold'[s] = hold[s]
    BY <1>1 DEF Held, Freed
  <2>4. QED
    BY <1>5, <2>2, <2>3
<1>7. \A j \in DOMAIN told : told[j].id \in used /\ told[j].holder = Seen(hold'[told[j].id])
  BY <1>3, <1>5 DEF Seen
<1>9. TellsOf(told)
  BY <1>1, <1>2, <1>3, <1>6, <1>7, ControlsTell DEF Running
<1>10. QED
  BY <1>1, <1>9, KnowTold

LEMMA ForwardKnow ==
  ASSUME BasicInv, KnowInv, ForwardEvent \/ Lagged
  PROVE  KnowInv'
<1>1. /\ ev # <<>> /\ ev' = Tail(ev) /\ Head(ev) \in Events
      /\ ForwardEvent => down' = Append(down, Head(ev))
      /\ Lagged => down' = Append(down, List)
      /\ UNCHANGED <<remote, state, stale, alive, live, dying, ended, untold, hold, used, conn>>
  BY ForwardEffects
<1>0. /\ live \subseteq used /\ used \subseteq Sessions /\ down \in Seq(Replies) /\ ev \in Seq(Replies)
      /\ ev \in Seq(Events) /\ List \in Replies
  BY ListIsList DEF BasicInv, ViewTypeInv, Replies
<1>l. /\ List \notin Controls
      /\ \A s \in live : List \in HolderWords(s) /\ List \in HolderTruths(s, Seen(hold[s]))
      /\ \A s \in Sessions : List \in OpenWords(s)
      /\ \A s \in Sessions \ untold : List \in OpenTruths(s, Running)
      /\ \A s \in Sessions \ used : List \notin HolderSayings(s)
  BY ListIsTrue DEF BasicInv
<1>e. /\ \A s \in Sessions : Head(ev) \in HolderSayings(s) => Head(ev) \in HolderWords(s)
      /\ Head(ev) \notin Lists /\ Head(ev) \in Replies
  <2>1. \A m \in Events, s \in Sessions : m \in HolderSayings(s) => m \in HolderWords(s)
    BY EventsSay
  <2>2. Head(ev) \in Replies
    BY <1>1 DEF Replies
  <2>3. Head(ev) \notin Lists
    BY <1>1 DEF Events, Changes, Controls, Lists
  <2>4. QED
    BY <1>1, <2>1, <2>2, <2>3
<1>2. HolderInv'
  <2> SUFFICES ASSUME conn \in alive, NEW s \in live
               PROVE  /\ Told(ev', down', HolderWords(s), HolderSayings(s), HolderTruths(s, Seen(hold[s])))
                      /\ Silent(ev', down', HolderWords(s)) /\ s \notin stale.held => remote.holder[s] = Seen(hold[s])
    BY <1>1 DEF HolderInv
  <2> DEFINE W == HolderWords(s)
             V == HolderSayings(s)
             R == HolderTruths(s, Seen(hold[s]))
  <2>1. Told(ev, down, W, V, R) /\ (Silent(ev, down, W) /\ s \notin stale.held => remote.holder[s] = Seen(hold[s]))
    BY DEF KnowInv, HolderInv
  <2>2. /\ W \subseteq V /\ (Head(ev) \in V => Head(ev) \in W) /\ List \in W /\ List \in R
    BY <1>0, <1>e, <1>l, WordsAreSayings
  <2> HIDE DEF W, V, R
  <2>3. CASE ForwardEvent
    <3>1. /\ Told(Tail(ev), Append(down, Head(ev)), W, V, R)
          /\ Silent(Tail(ev), Append(down, Head(ev)), W) => Silent(ev, down, W)
      BY <1>0, <1>1, <2>1, <2>2, ToldForwarded
    <3>2. QED
      BY <1>1, <2>1, <2>3, <3>1 DEF W, V, R
  <2>4. CASE Lagged
    <3>1. Told(Tail(ev), Append(down, List), W, V, R) /\ ~Silent(Tail(ev), Append(down, List), W)
      BY <1>0, <1>1, <2>1, <2>2, ToldLagged
    <3>2. QED
      BY <1>1, <2>4, <3>1 DEF W, V, R
  <2>5. QED
    BY <2>3, <2>4
<1>3. OpenInv'
  <2> SUFFICES ASSUME conn \in alive, NEW s \in Sessions \ untold
               PROVE  /\ Told(ev', down', OpenWords(s), OpenWords(s), OpenTruths(s, Running))
                      /\ Silent(ev', down', OpenWords(s)) /\ s \notin stale.open
                           => (s \in remote.list \ remote.exited <=> s \in Running)
    BY <1>1 DEF OpenInv, Running
  <2> DEFINE W == OpenWords(s)
             R == OpenTruths(s, Running)
  <2>1. Told(ev, down, W, W, R) /\ (Silent(ev, down, W) /\ s \notin stale.open
                           => (s \in remote.list \ remote.exited <=> s \in Running))
    BY DEF KnowInv, OpenInv
  <2>2. W \subseteq W /\ List \in W /\ List \in R
    BY <1>l
  <2> HIDE DEF W, R
  <2>3. CASE ForwardEvent
    <3>1. /\ Told(Tail(ev), Append(down, Head(ev)), W, W, R)
          /\ Silent(Tail(ev), Append(down, Head(ev)), W) => Silent(ev, down, W)
      BY <1>0, <1>1, <2>1, <2>2, ToldForwarded
    <3>2. QED
      BY <1>1, <2>1, <2>3, <3>1 DEF W, R
  <2>4. CASE Lagged
    <3>1. Told(Tail(ev), Append(down, List), W, W, R) /\ ~Silent(Tail(ev), Append(down, List), W)
      BY <1>0, <1>1, <2>1, <2>2, ToldLagged
    <3>2. QED
      BY <1>1, <2>4, <3>1 DEF W, R
  <2>5. QED
    BY <2>3, <2>4
<1>4. PICK m \in Replies : /\ down' = Append(down, m)
                           /\ m = Head(ev) \/ m = List
  BY <1>0, <1>1, <1>e, <1>l
<1>5. /\ DOMAIN down' = 1..(Len(down) + 1) /\ DOMAIN down = 1..Len(down) /\ Len(down) \in Nat
      /\ \A i \in 1..Len(down) : down'[i] = down[i] /\ i \in 1..(Len(down) + 1)
      /\ down'[Len(down) + 1] = m
      /\ \A i \in 1..(Len(down) + 1) : i \in 1..Len(down) \/ i = Len(down) + 1
  BY <1>0, <1>4
<1>7. UnusedInv'
  <2> SUFFICES ASSUME NEW s \in Sessions \ used
               PROVE  /\ hold[s] = 0 /\ remote.holder[s] = "free" /\ state.holder[s] = "free"
                      /\ \A i \in DOMAIN down' : down'[i] \notin HolderSayings(s)
                      /\ \A i \in DOMAIN ev' : ev'[i] \notin HolderSayings(s)
    BY <1>1 DEF UnusedInv
  <2>1. /\ hold[s] = 0 /\ remote.holder[s] = "free" /\ state.holder[s] = "free"
        /\ \A i \in DOMAIN down : down[i] \notin HolderSayings(s)
        /\ \A i \in DOMAIN ev : ev[i] \notin HolderSayings(s)
    BY DEF KnowInv, UnusedInv
  <2>2. /\ Head(ev) \notin HolderSayings(s)
        /\ \A i \in DOMAIN ev' : ev'[i] \notin HolderSayings(s)
    <3>1. /\ 1 \in DOMAIN ev /\ Head(ev) = ev[1]
          /\ \A i \in DOMAIN ev' : i + 1 \in DOMAIN ev /\ ev'[i] = ev[i + 1]
      BY <1>0, <1>1
    <3>2. QED
      BY <2>1, <3>1
  <2>3. m \notin HolderSayings(s)
    BY <1>0, <1>4, <1>l, <2>2
  <2>4. \A i \in DOMAIN down' : down'[i] \notin HolderSayings(s)
    BY <1>5, <2>1, <2>3
  <2>5. QED
    BY <2>1, <2>2, <2>4
<1>8. FreshInv'
  BY <1>1 DEF KnowInv, FreshInv, Running
<1>9. QED
  BY <1>2, <1>3, <1>7, <1>8 DEF KnowInv

LEMMA HandleKnow ==
  ASSUME BasicInv, KnowInv, Handle
  PROVE  KnowInv'
<1> DEFINE m == Head(down)
<1>1. /\ m \in Replies /\ HandledAs(m, remote') /\ down # <<>> /\ down' = Tail(down)
      /\ DoubtsAfter(m)
      /\ UNCHANGED <<state, alive, live, dying, ended, untold, hold, used, conn, ev>>
  BY HandleEffects
<1>0. /\ live \subseteq used /\ used \subseteq Sessions /\ down \in Seq(Replies) /\ ev \in Seq(Replies)
      /\ IsRemote(remote)
  BY DEF BasicInv, ViewTypeInv, Replies
<1>2. /\ 1 \in DOMAIN down /\ m = down[1] /\ 0 \in 0..Len(Tail(down))
      /\ \A i \in DOMAIN Tail(down) : /\ i + 1 \in DOMAIN down /\ Tail(down)[i] = down[i + 1]
                                      /\ i \in 0..Len(Tail(down)) /\ 1 < i + 1
      /\ \A i, k \in DOMAIN Tail(down) : i < k => i + 1 < k + 1
  BY <1>0, <1>1
<1>4. /\ \A s : m \notin OpenWords(s) /\ s \notin stale'.open => s \notin stale.open
      /\ \A s : m \notin HolderWords(s) /\ s \notin stale'.held => s \notin stale.held
  <2>1. m \in Lists \/ m \in Changes \/ m \in Controls \/ m \in Answers \/ m \in Snaps \cup Errors
    BY <1>1, Sorts
  <2>2. QED
    BY <1>1, <2>1 DEF DoubtsAfter, OpenWords, HolderWords
<1> HIDE DEF m
<1>5. HolderInv'
  <2> SUFFICES ASSUME conn \in alive, NEW s \in live
               PROVE  /\ Told(ev, down', HolderWords(s), HolderSayings(s), HolderTruths(s, Seen(hold[s])))
                      /\ Silent(ev, down', HolderWords(s)) /\ s \notin stale'.held => remote'.holder[s] = Seen(hold[s])
    BY <1>1 DEF HolderInv
  <2> DEFINE W == HolderWords(s)
             V == HolderSayings(s)
             R == HolderTruths(s, Seen(hold[s]))
  <2>1. Told(ev, down, W, V, R) /\ (Silent(ev, down, W) /\ s \notin stale.held => remote.holder[s] = Seen(hold[s]))
    BY DEF KnowInv, HolderInv
  <2>2. W \subseteq V /\ s \in Sessions
    BY <1>0, WordsAreSayings
  <2>3. /\ Told(ev, Tail(down), W, V, R)
        /\ Silent(ev, Tail(down), W) /\ m \in V => m \in R
        /\ Silent(ev, Tail(down), W) /\ m \notin W => Silent(ev, down, W)
    <3> HIDE DEF W, V, R
    <3>1. QED
      BY <1>0, <1>1, <2>1, ToldHandled DEF m
  <2>4. ASSUME Silent(ev, Tail(down), W), s \notin stale'.held PROVE remote'.holder[s] = Seen(hold[s])
    <3>1. CASE m \in W
      <4>1. m \in R
        BY <2>2, <2>3, <2>4, <3>1
      <4>2. QED
        BY <1>0, <1>1, <2>2, <3>1, <4>1, HolderTaken
    <3>3. CASE m \notin W
      <4>1. remote.holder[s] = Seen(hold[s])
        BY <1>4, <2>1, <2>3, <2>4, <3>3
      <4>2. CASE m \in V
        BY <1>0, <1>1, <2>2, <2>3, <2>4, <4>1, <4>2, HolderTaken
      <4>3. CASE m \notin V
        BY <1>0, <1>1, <2>2, <4>1, <4>3, HolderKept
      <4>4. QED
        BY <4>2, <4>3
    <3>4. QED
      BY <3>1, <3>3
  <2>5. QED
    BY <1>1, <2>3, <2>4
<1>6. OpenInv'
  <2> SUFFICES ASSUME conn \in alive, NEW s \in Sessions \ untold
               PROVE  /\ Told(ev, down', OpenWords(s), OpenWords(s), OpenTruths(s, Running))
                      /\ Silent(ev, down', OpenWords(s)) /\ s \notin stale'.open
                           => (s \in remote'.list \ remote'.exited <=> s \in Running)
    BY <1>1 DEF OpenInv, Running
  <2> DEFINE W == OpenWords(s)
             R == OpenTruths(s, Running)
  <2>1. Told(ev, down, W, W, R) /\ (Silent(ev, down, W) /\ s \notin stale.open
                           => (s \in remote.list \ remote.exited <=> s \in Running))
    BY DEF KnowInv, OpenInv
  <2>3. /\ Told(ev, Tail(down), W, W, R)
        /\ Silent(ev, Tail(down), W) /\ m \in W => m \in R
        /\ Silent(ev, Tail(down), W) /\ m \notin W => Silent(ev, down, W)
    <3> HIDE DEF W, R
    <3>1. QED
      BY <1>0, <1>1, <2>1, ToldHandled DEF m
  <2>4. ASSUME Silent(ev, Tail(down), W), s \notin stale'.open
        PROVE  s \in remote'.list \ remote'.exited <=> s \in Running
    <3>1. CASE m \in Lists
      <4>1. m \notin Changes /\ (s \in m.list \ (m.exited \cup m.told) <=> s \in Running)
        BY <1>1, <2>3, <2>4, <3>1, Sorts DEF OpenWords, OpenTruths
      <4>2. s \notin m.told
        BY <1>1, <2>4, <3>1 DEF DoubtsAfter
      <4>3. QED
        BY <1>1, <3>1, <4>1, <4>2 DEF HandledAs
    <3>2. CASE m \in Changes /\ m.id = s
      <4>1. m \notin Lists /\ m.t \in {"created", "exited"} /\ (m.t = "created" <=> s \in Running)
        BY <1>1, <2>3, <2>4, <3>2, Sorts DEF OpenWords, OpenTruths
      <4>2. QED
        BY <1>1, <3>2, <4>1 DEF HandledAs
    <3>3. CASE m \notin Lists /\ ~(m \in Changes /\ m.id = s)
      <4>1. s \in remote.list \ remote.exited <=> s \in Running
        BY <1>4, <2>1, <2>3, <2>4, <3>3 DEF OpenWords
      <4>2. CASE m \in Changes
        <5>1. m.t \in {"created", "exited"} /\ m.id # s
          BY <1>1, <3>3, <4>2, Sorts
        <5>2. QED
          BY <1>1, <4>1, <4>2, <5>1 DEF HandledAs
      <4>3. CASE m \in Controls \/ m \in Snaps \/ m \in Errors
        BY <1>1, <4>1, <4>3 DEF HandledAs, SameKnown
      <4>4. CASE m \in Answers
        <5>1. m.req = remote.create => m.id \in Running \/ m.id # s
          BY <1>1, <2>4, <4>4 DEF DoubtsAfter
        <5>2. QED
          BY <1>1, <4>1, <4>4, <5>1 DEF HandledAs
      <4>5. QED
        BY <1>1, <3>3, <4>2, <4>3, <4>4, Sorts
    <3>4. QED
      BY <3>1, <3>2, <3>3
  <2>5. QED
    BY <1>1, <2>3, <2>4
<1>8. UnusedInv'
  <2> SUFFICES ASSUME NEW s \in Sessions \ used
               PROVE  /\ hold[s] = 0 /\ remote'.holder[s] = "free" /\ state.holder[s] = "free"
                      /\ \A i \in DOMAIN down' : down'[i] \notin HolderSayings(s)
                      /\ \A i \in DOMAIN ev : ev[i] \notin HolderSayings(s)
    BY <1>1 DEF UnusedInv
  <2>1. /\ hold[s] = 0 /\ remote.holder[s] = "free" /\ state.holder[s] = "free"
        /\ \A i \in DOMAIN down : down[i] \notin HolderSayings(s)
        /\ \A i \in DOMAIN ev : ev[i] \notin HolderSayings(s)
    BY DEF KnowInv, UnusedInv
  <2>2. remote'.holder[s] = remote.holder[s]
    BY <1>0, <1>1, <1>2, <2>1, HolderKept
  <2>3. QED
    BY <1>1, <1>2, <2>1, <2>2
<1>9. FreshInv'
  BY <1>1 DEF KnowInv, FreshInv, Running
<1>10. QED
  BY <1>5, <1>6, <1>8, <1>9 DEF KnowInv

LEMMA StateAnswerKnow ==
  ASSUME BasicInv, KnowInv, StateAnswer
  PROVE  KnowInv'
<1>1. /\ state' = NoState /\ state'.t = "none" /\ state'.holder = Free
      /\ UNCHANGED <<alive, live, dying, ended, untold, hold, used, conn, ev, down>>
  BY AnswerEffects DEF NoState
<1>0. live \subseteq used /\ used \subseteq Sessions
  BY DEF BasicInv, ViewTypeInv
<1>2. CASE UNCHANGED <<remote, stale>>
  BY <1>1, <1>2, KnowStill DEF SameKnown
<1>3. CASE /\ state.t = "served" /\ stale'.open = state.changed.open
           /\ stale'.held = state.changed.held \cup (stale.held \ state.list)
           /\ remote'.list = state.list /\ remote'.exited = state.exited
           /\ \A s \in Sessions :
                remote'.holder[s] = IF s \in state.list THEN state.holder[s] ELSE remote.holder[s]
  <2>1. HolderInv'
    <3> SUFFICES ASSUME conn \in alive, NEW s \in live
                 PROVE  /\ Told(ev, down, HolderWords(s), HolderSayings(s), HolderTruths(s, Seen(hold[s])))
                        /\ Silent(ev, down, HolderWords(s)) /\ s \notin stale'.held => remote'.holder[s] = Seen(hold[s])
      BY <1>1 DEF HolderInv
    <3>1. /\ Told(ev, down, HolderWords(s), HolderSayings(s), HolderTruths(s, Seen(hold[s])))
          /\ Silent(ev, down, HolderWords(s)) /\ s \notin stale.held => remote.holder[s] = Seen(hold[s])
      BY DEF KnowInv, HolderInv
    <3>2. CASE s \in state.list
      BY <1>0, <1>3, <3>1, <3>2 DEF KnowInv, FreshInv
    <3>3. CASE s \notin state.list
      BY <1>0, <1>3, <3>1, <3>3
    <3>4. QED
      BY <3>2, <3>3
  <2>2. OpenInv'
    BY <1>1, <1>3 DEF KnowInv, OpenInv, FreshInv, Running
  <2>3. UnusedInv'
    BY <1>1, <1>3 DEF KnowInv, UnusedInv, Free
  <2>4. FreshInv'
    BY <1>1 DEF FreshInv
  <2>5. QED
    BY <2>1, <2>2, <2>3, <2>4 DEF KnowInv
<1>4. QED
  BY <1>2, <1>3, AnswerEffects

\* A new connection begins with the list.
LEMMA SocketOpensKnow ==
  ASSUME BasicInv, KnowInv, SocketOpens
  PROVE  KnowInv'
<1>1. /\ ev' = <<>> /\ down' = <<List>> /\ UNCHANGED <<state, stale, live, dying, ended, untold, hold, used>>
      /\ SameKnown(remote, remote')
  BY DEF SocketOpens, sessions, SameKnown, BasicInv, ViewTypeInv, IsRemote, RemoteFields
<1>0. live \subseteq used /\ used \subseteq Sessions
  BY DEF BasicInv, ViewTypeInv
<1>2. /\ \A s \in live : List \in HolderWords(s) /\ List \in HolderTruths(s, Seen(hold[s]))
      /\ \A s \in Sessions : List \in OpenWords(s)
      /\ \A s \in Sessions \ untold : List \in OpenTruths(s, Running)
      /\ \A s \in Sessions \ used : List \notin HolderSayings(s)
  BY ListIsTrue DEF BasicInv
<1>3. DOMAIN ev' = {} /\ DOMAIN down' = {1} /\ down'[1] = List /\ 1 > 0
  <2>1. ASSUME NEW l PROVE DOMAIN <<l>> = {1} /\ <<l>>[1] = l
    OBVIOUS
  <2>2. QED
    BY <1>1, <2>1
<1>4. HolderInv'
  BY <1>0, <1>1, <1>2, <1>3 DEF HolderInv, Told, Silent, LastIsTrue, Quiet
<1>5. OpenInv'
  BY <1>1, <1>2, <1>3 DEF OpenInv, Running, Told, Silent, LastIsTrue, Quiet
<1>7. UnusedInv'
  BY <1>0, <1>1, <1>2, <1>3 DEF KnowInv, UnusedInv, SameKnown
<1>8. FreshInv'
  BY <1>1 DEF KnowInv, FreshInv, Running
<1>9. QED
  BY <1>4, <1>5, <1>7, <1>8 DEF KnowInv

LEMMA SocketClosesKnow ==
  ASSUME BasicInv, KnowInv, SocketCloses
  PROVE  KnowInv'
<1>1. /\ conn' = 0 /\ ev' = <<>> /\ down' = <<>>
      /\ UNCHANGED <<remote, state, alive, live, dying, ended, untold, hold, used>>
  BY DEF SocketCloses, page, server, sessions
<1>2. conn' \notin alive'
  BY <1>1 DEF BasicInv, ViewTypeInv
<1>3. UnusedInv'
  BY <1>1 DEF KnowInv, UnusedInv
<1>4. FreshInv'
  BY <1>1 DEF KnowInv, FreshInv, Running
<1>5. QED
  BY <1>2, <1>3, <1>4 DEF KnowInv, HolderInv, OpenInv

\* The steps that only ask, or wait.
LEMMA StillSteps ==
  ASSUME BasicInv, KnowInv,
         \/ \E s \in Sessions : OpenView(s)
         \/ CloseView \/ CreateSession \/ CreateTimeout \/ ToggleControl \/ Resend \/ LoadState
         \/ \E f \in frames : Frame(f)
         \/ ControlTimeout \/ StateServed \/ UNCHANGED viewVars
  PROVE  KnowInv'
<1>1. UNCHANGED <<conn, alive, ev, down, live, dying, ended, untold, hold, used, stale>>
  BY DEF OpenView, CloseView, CreateSession, CreateTimeout, ToggleControl, Resend, LoadState, Frame,
         ControlTimeout, StateServed, viewVars, page, server, sessions, link, bounds
<1>2. SameKnown(remote, remote')
  <2>1. IsRemote(remote)
    BY DEF BasicInv, ViewTypeInv
  <2>2. CASE remote' = FailControlRequest(remote)
    BY <2>2, FailBasic DEF SameKnown
  <2>3. CASE remote' # FailControlRequest(remote)
    BY <2>1, <2>3 DEF OpenView, OpenedView, CloseView, CreateSession, CreateTimeout, ToggleControl, Resend,
         LoadState, Frame, ControlTimeout, StateServed, viewVars, page, SameKnown, IsRemote, RemoteFields
  <2>4. QED
    BY <2>2, <2>3
<1>3. state' = state \/ state' = ServedState \/ state' = AskedState
  BY DEF OpenView, CloseView, CreateSession, CreateTimeout, ToggleControl, Resend, LoadState, Frame,
         ControlTimeout, StateServed, ServedState, AskedState, viewVars, page
<1>4. AskedState.t # "served" /\ AskedState.holder = Free
  BY StateTypes DEF BasicInv
<1>5. QED
  BY <1>1, <1>2, <1>3, <1>4, KnowStill

LEMMA CreateRepliesKnow ==
  ASSUME BasicInv, KnowInv, CreateReplies
  PROVE  KnowInv'
<1>1. UNCHANGED <<remote, state, stale, alive, live, dying, ended, untold, hold, used, conn, ev>>
  BY CreateEffects
<1>2. CASE down' = down
  BY <1>1, <1>2, KnowStill DEF SameKnown
<1>3. CASE \E m \in Errors \cup Answers : down' = Append(down, m)
  <2>1. PICK m \in Errors \cup Answers : down' = Append(down, m)
    BY <1>3
  <2>2. m \notin Snaps
    BY Sorts DEF Replies
  <2>3. QED
    BY <1>1, <2>1, <2>2, KnowReplied
<1>4. QED
  BY <1>2, <1>3, CreateEffects

LEMMA KnowNext ==
  ASSUME BasicInv, KnowInv, [ViewNext]_viewVars
  PROVE  KnowInv'
<1>1. CASE TouchStep
  BY <1>1, StillSteps DEF TouchStep
<1>2. CASE PageStep
  BY <1>2, SocketOpensKnow, SocketClosesKnow, HandleKnow, StateAnswerKnow, StillSteps DEF PageStep
<1>3. CASE ServerStep
  BY <1>3, HandleClientKnow, CreatedKnow, CreateRepliesKnow, ForwardKnow, ConnEndsKnow,
     StillSteps DEF ServerStep
<1>4. CASE OthersStep
  BY <1>4, ControlKnow, EndKnow DEF OthersStep
<1>5. CASE UNCHANGED viewVars
  BY <1>5, StillSteps
<1>6. QED
  BY <1>1, <1>2, <1>3, <1>4, <1>5 DEF ViewNext

LEMMA KnowInit == ViewInit => KnowInv
<1> SUFFICES ASSUME ViewInit PROVE KnowInv
  OBVIOUS
<1>1. /\ alive = {} /\ ev = <<>> /\ down = <<>> /\ state = NoState
      /\ \A s \in Sessions : hold[s] = 0 /\ remote.holder[s] = "free"
  BY DEF ViewInit, Free
<1>2. state.t = "none" /\ \A s \in Sessions : state.holder[s] = "free"
  BY <1>1 DEF NoState, Free
<1>3. QED
  BY <1>1, <1>2 DEF KnowInv, HolderInv, OpenInv, UnusedInv, FreshInv

LEMMA KnowledgeFollows == BasicInv /\ KnowInv => KnowledgeSettles
<1> SUFFICES ASSUME BasicInv, KnowInv, conn \in alive, ev = <<>>, down = <<>>
             PROVE  /\ \A s \in Sessions \ (untold \cup stale.open) :
                         s \in remote.list \ remote.exited <=> s \in Running
                    /\ \A s \in live \ stale.held : remote.holder[s] = Seen(hold[s])
  BY DEF KnowledgeSettles
<1>1. \A W : Silent(ev, down, W)
  BY DEF Silent, Quiet
<1>2. QED
  BY <1>1 DEF KnowInv, HolderInv, OpenInv

\* When nothing is on its way to the page it lists the open sessions and knows who
\* controls each, for any number of sessions, connections and messages and however
\* the steps of closes and ends, answers, events and lists crossed, but for the
\* sessions whose last word came with an answer older than what it had been told.
THEOREM PhonesKnow == ViewSpec => []KnowledgeSettles
<1>1. ViewInit => BasicInv /\ KnowInv
  BY BasicInit, KnowInit
<1>2. BasicInv /\ KnowInv /\ [ViewNext]_viewVars => (BasicInv /\ KnowInv)'
  BY BasicNext, KnowNext
<1>3. BasicInv /\ KnowInv => KnowledgeSettles
  BY KnowledgeFollows
<1>4. QED
  BY <1>1, <1>2, <1>3, PTL DEF ViewSpec
=============================================================================
