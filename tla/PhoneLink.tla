----------------------------- MODULE PhoneLink -----------------------------
(***************************************************************************)
(* How a phone gets to its desktop and stays with it: mobile.js from boot  *)
(* to the WebSocket's life cycle, with the server's answers.  A request is *)
(* served at one time and answered at another, and either may be lost; the *)
(* page's handlers run to the next await.  The page state is one record,   *)
(* and a handler is a function from record to record.                      *)
(***************************************************************************)
EXTENDS Integers, FiniteSets

CONSTANTS
    MaxCalls,   \* bound: requests in flight, one of a kind
    MaxChanges  \* bound: failures of the network, changes of the server and the pairing

ASSUME BoundsAssumption == MaxCalls \in Nat \ {0} /\ MaxChanges \in Nat

VARIABLES
    ph,      \* the page (Remote.*)
    calls,   \* requests in flight
    net,     \* the desktop can be reached
    moved,   \* the server now answers at another address: 410 {moved}
    cookie,  \* the phone's cookie is that of a paired device
    codeOk,  \* the desktop shows a pairing code that is still good
    changes

vars == <<ph, calls, net, moved, cookie, codeOk, changes>>

Screens == {"boot", "pair", "dash", "term", "offline", "moved"}
Kinds == {"me", "pair", "start", "resume", "auth"}
Results == {"wait", "ok", "401", "moved", "net"}

\* code: a pairing code is in the address; enterCode: one was when the /api/me
\* in flight was asked.  ws: "dead" is a socket the page still takes for open; "kicked" one the
\* server has closed with 4001 before the page was told.
Pages == [screen : Screens, view : BOOLEAN, stopped : BOOLEAN, offlineTimer : BOOLEAN,
          ws : {"none", "opening", "open", "dead", "kicked"}, reconnectTimer : BOOLEAN,
          wsAttempt : 0..3, pingTimer : BOOLEAN, code : BOOLEAN,
          enterCode : BOOLEAN, pendingSession : BOOLEAN, stateLoaded : BOOLEAN]

Asked(kind) == \E c \in calls : c.kind = kind
Ask(kind) == calls \cup {[kind |-> kind, res |-> "wait"]}
CanAsk(kind) == ~Asked(kind) /\ Cardinality(calls) < MaxCalls

Init ==
    /\ ph \in {p \in Pages :
                 /\ p.screen = "boot" /\ p.ws = "none" /\ p.wsAttempt = 0
                 /\ p.enterCode = p.code
                 /\ ~(p.view \/ p.stopped \/ p.offlineTimer \/ p.reconnectTimer
                      \/ p.pingTimer \/ p.stateLoaded)}
    /\ calls = {[kind |-> "me", res |-> "wait"]}
    /\ net \in BOOLEAN /\ cookie \in BOOLEAN
    /\ moved = FALSE /\ codeOk = FALSE /\ changes = 0

Server == <<net, moved, cookie, codeOk, changes>>

-----------------------------------------------------------------------------
(***************************************************************************)
(* What the handlers are made of                                           *)
(***************************************************************************)

CloseWs(p) == [p EXCEPT !.ws = "none", !.pingTimer = FALSE]

\* Mutant of Connect: a stopped page connects.
ConnectMutant(p) == [CloseWs(p) EXCEPT !.ws = "opening", !.reconnectTimer = FALSE]

Connect(p) ==
    IF p.stopped THEN p
    ELSE [CloseWs(p) EXCEPT !.ws = "opening", !.reconnectTimer = FALSE]

ScheduleReconnect(p) ==
    IF p.stopped THEN p
    ELSE [p EXCEPT !.reconnectTimer = TRUE,
                   !.wsAttempt = IF p.wsAttempt < 3 THEN p.wsAttempt + 1 ELSE 3]

OnClose(p) == ScheduleReconnect(CloseWs(p))

Unauthorized(p) == [CloseWs(p) EXCEPT !.stopped = TRUE, !.view = FALSE, !.screen = "pair"]

ShowMoved(p) ==
    [CloseWs(p) EXCEPT !.stopped = TRUE, !.offlineTimer = FALSE, !.screen = "moved"]

ShowOffline(p) == [p EXCEPT !.screen = "offline", !.offlineTimer = TRUE]

\* The session of a notification's link: opened once the list was read; a
\* session that is gone leaves the screen as it is.
OpenPendingSession(p, gone) ==
    IF ~p.pendingSession \/ ~p.stateLoaded THEN p
    ELSE IF gone THEN [p EXCEPT !.pendingSession = FALSE]
    ELSE [p EXCEPT !.pendingSession = FALSE, !.view = TRUE, !.screen = "term"]

LoadedState(p, res) ==
    CASE res = "ok" -> [p EXCEPT !.stateLoaded = TRUE]
      [] res = "401" -> Unauthorized(p)
      [] res = "moved" -> ShowMoved(p)
      [] res = "net" -> p

\* checkAlive: a page that comes back may hold a dead socket it takes for open.
CheckAlive(p) ==
    IF p.ws \in {"none", "opening"} THEN Connect([p EXCEPT !.wsAttempt = 0])
    ELSE [p EXCEPT !.pingTimer = TRUE]

-----------------------------------------------------------------------------
(***************************************************************************)
(* Answers                                                                 *)
(***************************************************************************)
Answered(kind, res) == [kind |-> kind, res |-> res] \in calls
Done(kind, res) == calls \ {[kind |-> kind, res |-> res]}

\* enterOnce after its await: /api/me, and the code the address had before, decide
\* the screen.
EnterOnce(res) ==
    LET asked == [ph EXCEPT !.enterCode = FALSE]
        here == [asked EXCEPT !.offlineTimer = FALSE]
    IN /\ Answered("me", res) /\ res # "wait"
       /\ \/ res = "moved" /\ ph' = ShowMoved(asked) /\ calls' = Done("me", res)
          \/ res = "net" /\ ph' = ShowOffline(asked) /\ calls' = Done("me", res)
          \/ /\ res = "ok" /\ ~ph.enterCode
             /\ ph' = [here EXCEPT !.screen = "dash"]
             /\ calls' = Done("me", res) \cup {[kind |-> "start", res |-> "wait"]}
          \/ /\ res = "401" \/ (res = "ok" /\ ph.enterCode)
             /\ ph' = [here EXCEPT !.screen = "pair"]
             /\ calls' = Done("me", res)
       /\ UNCHANGED Server

\* Mutant of Started: a state that could not be read ends the start.
StartedMutant(res) ==
    /\ Answered("start", res) /\ res # "wait"
    /\ ph' = IF res = "ok" THEN OpenPendingSession(Connect(LoadedState(ph, res)), FALSE)
             ELSE LoadedState(ph, res)
    /\ calls' = Done("start", res)
    /\ UNCHANGED Server

\* start, after its await: connect, whatever the answer was, and the link.
Started(res) ==
    /\ Answered("start", res) /\ res # "wait"
    /\ \E gone \in BOOLEAN :
         ph' = OpenPendingSession(Connect(LoadedState(ph, res)), gone)
    /\ calls' = Done("start", res)
    /\ UNCHANGED Server

Resumed(res) ==
    /\ Answered("resume", res) /\ res # "wait"
    /\ ph' = LoadedState(ph, res)
    /\ calls' = Done("resume", res)
    /\ UNCHANGED Server

\* submitPair: the cookie comes with the answer; the code leaves the address bar.
Paired(res) ==
    /\ Answered("pair", res) /\ res # "wait"
    /\ \/ /\ res = "ok"
          /\ ph' = [ph EXCEPT !.stopped = FALSE, !.code = FALSE, !.screen = "dash"]
          /\ calls' = Done("pair", res) \cup {[kind |-> "start", res |-> "wait"]}
          /\ cookie' = TRUE
       \/ /\ res # "ok"
          /\ ph' = IF res = "moved" THEN ShowMoved(ph) ELSE ph
          /\ calls' = Done("pair", res)
          /\ UNCHANGED cookie
    /\ UNCHANGED <<net, moved, codeOk, changes>>

\* scheduleReconnect, after its await of /api/me.
Authorized(res) ==
    /\ Answered("auth", res) /\ res # "wait"
    /\ ph' = CASE res = "401" -> Unauthorized(ph)
               [] res = "moved" -> Connect(ShowMoved(ph))
               [] OTHER -> Connect(ph)
    /\ calls' = Done("auth", res)
    /\ UNCHANGED Server

-----------------------------------------------------------------------------
(***************************************************************************)
(* Timers, events and the user                                             *)
(***************************************************************************)
\* enter(): one /api/me at a time; the code is read before it is asked.
Enter(p) ==
    IF Asked("me") THEN ph' = p /\ UNCHANGED calls
    ELSE ph' = [p EXCEPT !.enterCode = p.code] /\ calls' = Ask("me")

OfflineTick ==
    /\ ph.offlineTimer
    /\ Enter([ph EXCEPT !.offlineTimer = FALSE])
    /\ UNCHANGED Server

OfflineRetry ==
    /\ ph.screen = "offline"
    /\ Enter([ph EXCEPT !.offlineTimer = FALSE])
    /\ UNCHANGED Server

\* Mutant of Reconnect: the authorization is never asked for.
ReconnectMutant ==
    /\ ph.reconnectTimer
    /\ ph' = Connect([ph EXCEPT !.reconnectTimer = FALSE])
    /\ UNCHANGED <<calls, Server>>

\* The reconnect timer: a refused upgrade looks like a lost network, so after
\* a few failures the page asks whether it is still authorized.
Reconnect ==
    /\ ph.reconnectTimer
    /\ LET p == [ph EXCEPT !.reconnectTimer = FALSE]
       IN \/ ph.wsAttempt >= 3 /\ ~Asked("auth") /\ ph' = p /\ calls' = Ask("auth")
          \/ ph.wsAttempt < 3 /\ ph' = Connect(p) /\ UNCHANGED calls
    /\ UNCHANGED Server

PingTimeout ==
    /\ ph.pingTimer
    /\ ph' = Connect([ph EXCEPT !.wsAttempt = 0])
    /\ UNCHANGED <<calls, Server>>

\* The page becomes visible.
VisibilityChange ==
    /\ ~ph.stopped /\ ph.screen # "pair" /\ CanAsk("resume")
    /\ ph' = CheckAlive(ph)
    /\ calls' = Ask("resume")
    /\ UNCHANGED Server

\* A link of the app while it is open: a notification's session, a pairing code.
HashChange(session, code) ==
    LET p == [ph EXCEPT !.pendingSession = session \/ ph.pendingSession]
    IN /\ session \/ code
       /\ \/ code /\ ph' = [p EXCEPT !.code = TRUE, !.screen = "pair"]
          \/ ~code /\ ph.screen # "pair" /\ \E gone \in BOOLEAN : ph' = OpenPendingSession(p, gone)
          \/ ~code /\ ph.screen = "pair" /\ ph' = p
       /\ UNCHANGED <<calls, Server>>

SubmitPair ==
    /\ ph.screen = "pair" /\ CanAsk("pair")
    /\ calls' = Ask("pair")
    /\ UNCHANGED <<ph, Server>>

ToTerm ==
    /\ ph.screen = "dash" /\ (ph.stateLoaded \/ ph.ws \in {"open", "dead"})
    /\ ph' = [ph EXCEPT !.view = TRUE, !.screen = "term"]
    /\ UNCHANGED <<calls, Server>>

ToDash ==
    /\ ph.screen = "term"
    /\ ph' = [ph EXCEPT !.view = FALSE, !.screen = "dash"]
    /\ UNCHANGED <<calls, Server>>

-----------------------------------------------------------------------------
(***************************************************************************)
(* The socket                                                              *)
(***************************************************************************)
Upgradable == net /\ cookie /\ ~moved

WsOpens ==
    /\ ph.ws = "opening" /\ Upgradable
    /\ ph' = [ph EXCEPT !.ws = "open", !.wsAttempt = 0]
    /\ UNCHANGED <<calls, Server>>

WsRefused ==
    /\ ph.ws = "opening" /\ ~Upgradable
    /\ ph' = OnClose(ph)
    /\ UNCHANGED <<calls, Server>>

\* The end of a socket reaches the page.
WsEnds ==
    /\ ph.ws = "dead" /\ net
    /\ ph' = OnClose(ph)
    /\ UNCHANGED <<calls, Server>>

WsKicked ==
    /\ ph.ws = "kicked"
    /\ ph' = Unauthorized(ph)
    /\ UNCHANGED <<calls, Server>>

Pong ==
    /\ ph.pingTimer /\ ph.ws = "open" /\ net
    /\ ph' = [ph EXCEPT !.pingTimer = FALSE]
    /\ UNCHANGED <<calls, Server>>

-----------------------------------------------------------------------------
(***************************************************************************)
(* The desktop and the network                                             *)
(***************************************************************************)
Verdict(kind) ==
    IF ~net THEN "net"
    ELSE IF moved THEN "moved"
    ELSE IF (IF kind = "pair" THEN codeOk ELSE cookie) THEN "ok" ELSE "401"

\* A pairing code is used up when it is served, even if the answer is lost.
Serve(kind) ==
    /\ Answered(kind, "wait")
    /\ calls' = Done(kind, "wait") \cup {[kind |-> kind, res |-> Verdict(kind)]}
    /\ codeOk' = (codeOk /\ ~(kind = "pair" /\ Verdict(kind) = "ok"))
    /\ UNCHANGED <<ph, net, moved, cookie, changes>>

Change == changes < MaxChanges /\ changes' = changes + 1

LoseAnswer(kind) ==
    /\ Answered(kind, "ok") /\ ~net
    /\ calls' = Done(kind, "ok") \cup {[kind |-> kind, res |-> "net"]}
    /\ UNCHANGED <<ph, Server>>

NetDown ==
    /\ net /\ net' = FALSE /\ Change
    /\ ph' = IF ph.ws \in {"open", "kicked"} THEN [ph EXCEPT !.ws = "dead"] ELSE ph
    /\ UNCHANGED <<calls, moved, cookie, codeOk>>

\* The browser's "online" event may or may not come with it.
NetUp ==
    /\ ~net /\ net' = TRUE
    /\ \/ UNCHANGED ph
       \/ ~ph.stopped /\ ph.ws = "none" /\ ph' = Connect([ph EXCEPT !.wsAttempt = 0])
    /\ UNCHANGED <<calls, moved, cookie, codeOk, changes>>

\* The user revokes the phone on the desktop.
Revoke ==
    /\ cookie /\ cookie' = FALSE /\ Change
    /\ ph' = IF ph.ws = "open" THEN [ph EXCEPT !.ws = "kicked"] ELSE ph
    /\ UNCHANGED <<calls, net, moved, codeOk>>

\* The user switches the server to HTTPS: the old address only redirects.
Move ==
    /\ ~moved /\ moved' = TRUE /\ Change
    /\ ph' = IF ph.ws = "open" THEN [ph EXCEPT !.ws = "dead"] ELSE ph
    /\ UNCHANGED <<calls, net, cookie, codeOk>>

PairingCode == /\ codeOk' = ~codeOk /\ Change /\ UNCHANGED <<ph, calls, net, moved, cookie>>

-----------------------------------------------------------------------------
AnswerStep ==
    \E res \in Results :
      EnterOnce(res) \/ Started(res) \/ Resumed(res) \/ Paired(res) \/ Authorized(res)
ServeStep == \E kind \in Kinds : Serve(kind)
SocketStep == WsOpens \/ WsRefused \/ WsEnds \/ WsKicked
UserStep ==
    \/ OfflineRetry \/ VisibilityChange \/ SubmitPair \/ ToTerm \/ ToDash
    \/ \E session, code \in BOOLEAN : HashChange(session, code)
WorldStep ==
    \/ NetDown \/ NetUp \/ Revoke \/ Move \/ PairingCode
    \/ \E kind \in Kinds : LoseAnswer(kind)

Next ==
    \/ AnswerStep \/ ServeStep \/ SocketStep \/ UserStep \/ WorldStep
    \/ OfflineTick \/ Reconnect \/ PingTimeout \/ Pong

\* Timers fire, requests are served and answered (or fail) at last, and the end
\* of a socket reaches the page while the network is there: server.rs ends a
\* silent connection after PONG_TIMEOUT.
Fairness ==
    /\ \A kind \in Kinds : WF_vars(Serve(kind))
    /\ \A res \in Results :
         /\ WF_vars(EnterOnce(res)) /\ WF_vars(Started(res)) /\ WF_vars(Resumed(res))
         /\ WF_vars(Paired(res)) /\ WF_vars(Authorized(res))
    /\ WF_vars(SocketStep) /\ WF_vars(OfflineTick) /\ WF_vars(Reconnect)

Spec == Init /\ [][Next]_vars /\ Fairness
-----------------------------------------------------------------------------
\* Types of the page and of its requests; a ping under way belongs to a socket.
TypeOK ==
    /\ ph \in Pages
    /\ calls \subseteq [kind : Kinds, res : Results]
    /\ {net, moved, cookie, codeOk} \subseteq BOOLEAN
    /\ changes \in 0..MaxChanges
    /\ ph.pingTimer => ph.ws # "none"

\* A page that was revoked or moved holds no socket and opens none, whatever
\* timer, answer or event was still to come: it would ask the old address, or
\* with a dead cookie, for ever.
StoppedIsQuiet == ph.stopped => ph.ws = "none"

\* Once the network is there to stay, a page that shows its sessions, or that
\* the desktop is out of reach, gets a socket without the user, or learns why
\* it may not.  `stopped` is part of it: see README on the page that a late 401
\* stops after it was paired.
Reconnects ==
    <>[]net => ((ph.screen \in {"dash", "term", "offline"} /\ ph.ws = "none")
                  ~> (ph.ws = "open" \/ ph.screen \in {"pair", "moved"} \/ ph.stopped))

\* A phone that was revoked is told so, even if the 4001 was lost with the
\* connection: the refused upgrades make it ask.
RevokedIsTold ==
    <>[]net => ((~cookie /\ ph.screen \in {"dash", "term"})
                  ~> (cookie \/ ph.stopped \/ ph.screen \in {"pair", "moved"}))
=============================================================================
