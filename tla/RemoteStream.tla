----------------------------- MODULE RemoteStream -----------------------------
(***************************************************************************)
(* A session's output on a phone (pty.rs append_emitted and remote_sub,    *)
(* remote/server.rs run_ws_conn, mobile/mobile.js):                        *)
(*                                                                         *)
(*   emitter -> tap (ring of TAP_CAP chunks) -> connection loop -> socket  *)
(*           -> handle() -> xterm                                          *)
(*                                                                         *)
(* A unit is one chunk (one append_emitted); chunk n of a session has      *)
(* offset n.  append_emitted numbers a chunk, stores it and sends it to    *)
(* the tap under one lock, and remote_sub takes its snapshot and           *)
(* subscribes under that lock, so each is one step.                        *)
(*                                                                         *)
(* One phone; its requests and the server's messages travel in order on    *)
(* one connection, and are lost when it breaks.                            *)
(***************************************************************************)
EXTENDS Integers, Sequences

CONSTANTS
  Sessions,
  NoSession,
  TapCap,    \* TAP_CAP: chunks a slow receiver may fall behind
  TailCap,   \* TAIL_BYTES: chunks of scrollback in a snapshot
  NetCap,    \* messages the socket buffers before send() has to wait
  ReqCap,    \* bound: requests of the phone on their way
  MaxOut,    \* bound: chunks of each session
  MaxDrops   \* bound: connections that break

ASSUME RemoteAssumption ==
  /\ {TapCap, TailCap, NetCap, ReqCap, MaxOut} \subseteq Nat \ {0}
  /\ MaxDrops \in Nat
  /\ NoSession \notin Sessions

VARIABLES
  total,    \* total[s]: chunks emitted
  chan,     \* "open"; "closed": out of PtyManager.chans; "gone": its threads ended too
  sub,      \* the connection loop's subscription, or NoSub
  net,      \* messages from the server to the phone
  req,      \* messages from the phone to the server
  online,   \* Remote.ws is open
  viewId,   \* Remote.viewId
  snapOff,  \* Remote.snapOff
  text,     \* what Remote.term shows since it was last reset
  drops

sessionVars == <<total, chan>>
phoneVars == <<viewId, snapOff, text>>
vars == <<sessionVars, sub, net, req, online, phoneVars, drops>>

NoSub == [id |-> NoSession, next |-> 0]
NullOff == -1

Snap(s, lo, off) == [t |-> "snap", id |-> s, lo |-> lo, off |-> off]
Data(s, off) == [t |-> "data", id |-> s, lo |-> off, off |-> off]

Chunks(s, lo, hi) == [i \in 1..(hi - lo) |-> <<s, lo + i - 1>>]

Init ==
  /\ total = [s \in Sessions |-> 0]
  /\ chan = [s \in Sessions |-> "open"]
  /\ sub = NoSub /\ net = <<>> /\ req = <<>> /\ online = FALSE
  /\ viewId = NoSession /\ snapOff = NullOff /\ text = <<>>
  /\ drops = 0

-----------------------------------------------------------------------------
(* Sessions *)

\* append_emitted: the chunk gets its offset and is in the tap
Emit(s) ==
  /\ chan[s] # "gone" /\ total[s] < MaxOut
  /\ total' = [total EXCEPT ![s] = @ + 1]
  /\ UNCHANGED <<chan, sub, net, req, online, phoneVars, drops>>

\* PtyManager::close takes the session out of chans; its threads still flush ...
CloseSession(s) ==
  /\ chan[s] = "open"
  /\ chan' = [chan EXCEPT ![s] = "closed"]
  /\ UNCHANGED <<total, sub, net, req, online, phoneVars, drops>>

\* ... and when they end the tap has no sender left
EndThreads(s) ==
  /\ chan[s] = "closed"
  /\ chan' = [chan EXCEPT ![s] = "gone"]
  /\ UNCHANGED <<total, sub, net, req, online, phoneVars, drops>>

-----------------------------------------------------------------------------
(* The connection loop of the server *)

\* A message can only be sent when the socket takes it; a phone that takes none
\* for SEND_TIMEOUT loses its connection (Drop).
CanSend == online /\ Len(net) < NetCap

\* where tail_text starts
TailStart(s) == IF total[s] > TailCap THEN total[s] - TailCap ELSE 0

\* SessionChan::remote_sub, and the snapshot message the loop sends for it
Subscribe(s) ==
  /\ sub' = [id |-> s, next |-> total[s]]
  /\ net' = Append(net, Snap(s, TailStart(s), total[s]))

RecvSub ==
  /\ CanSend /\ req # <<>> /\ Head(req) # NoSession
  /\ req' = Tail(req)
  /\ IF chan[Head(req)] = "open"
       THEN Subscribe(Head(req))
       ELSE sub' = NoSub /\ UNCHANGED net
  /\ UNCHANGED <<sessionVars, online, phoneVars, drops>>

RecvUnsub ==
  /\ online /\ req # <<>> /\ Head(req) = NoSession
  /\ req' = Tail(req)
  /\ sub' = NoSub
  /\ UNCHANGED <<sessionVars, net, online, phoneVars, drops>>

Behind == IF sub = NoSub THEN 0 ELSE total[sub.id] - sub.next

\* mutant: a receiver that lagged goes on with the oldest chunk of the ring
ForwardChunkMutant ==
  /\ CanSend /\ Behind > 0
  /\ LET n == IF Behind > TapCap THEN total[sub.id] - TapCap ELSE sub.next
     IN  /\ net' = Append(net, Data(sub.id, n))
         /\ sub' = [sub EXCEPT !.next = n + 1]
  /\ UNCHANGED <<sessionVars, req, online, phoneVars, drops>>

\* Step::Chunk(Ok)
ForwardChunk ==
  /\ CanSend /\ Behind \in 1..TapCap
  /\ net' = Append(net, Data(sub.id, sub.next))
  /\ sub' = [sub EXCEPT !.next = @ + 1]
  /\ UNCHANGED <<sessionVars, req, online, phoneVars, drops>>

\* Step::Chunk(Lagged): a snapshot replaces what the ring has lost
Resync ==
  /\ CanSend /\ Behind > TapCap
  /\ IF chan[sub.id] = "open"
       THEN Subscribe(sub.id)
       ELSE sub' = NoSub /\ UNCHANGED net
  /\ UNCHANGED <<sessionVars, req, online, phoneVars, drops>>

\* Step::Chunk(Closed): the ring is empty and has no sender
TapClosed ==
  /\ online /\ sub # NoSub /\ Behind = 0 /\ chan[sub.id] = "gone"
  /\ sub' = NoSub
  /\ UNCHANGED <<sessionVars, net, req, online, phoneVars, drops>>

-----------------------------------------------------------------------------
(* The phone *)

\* Remote.subscribe: nothing is sent while offline
SendSub(s) ==
  /\ snapOff' = NullOff
  /\ IF online THEN Len(req) < ReqCap /\ req' = Append(req, s) ELSE UNCHANGED req

OpenView(s) ==
  /\ viewId' = s /\ text' = <<>>
  /\ SendSub(s)
  /\ UNCHANGED <<sessionVars, sub, net, online, drops>>

CloseView ==
  /\ viewId # NoSession
  /\ viewId' = NoSession /\ snapOff' = NullOff /\ text' = <<>>
  /\ IF online THEN Len(req) < ReqCap /\ req' = Append(req, NoSession)
               ELSE UNCHANGED req
  /\ UNCHANGED <<sessionVars, sub, net, online, drops>>

\* the socket closes, or connect() replaces it: what is on its way is lost
Drop ==
  /\ online /\ drops < MaxDrops
  /\ drops' = drops + 1
  /\ online' = FALSE /\ net' = <<>> /\ req' = <<>> /\ sub' = NoSub
  /\ UNCHANGED <<sessionVars, phoneVars>>

\* mutant: the new connection does not subscribe again
ConnectMutant ==
  /\ ~online
  /\ online' = TRUE
  /\ UNCHANGED <<sessionVars, sub, net, req, phoneVars, drops>>

\* ws.onopen: the session on the screen is subscribed again
Connect ==
  /\ ~online
  /\ online' = TRUE
  /\ IF viewId # NoSession
       THEN snapOff' = NullOff /\ req' = <<viewId>>
       ELSE UNCHANGED <<snapOff, req>>
  /\ UNCHANGED <<sessionVars, sub, net, viewId, text, drops>>

\* handle({t: 'snap'}): the terminal is reset and shows the snapshot
HandleSnap ==
  /\ net # <<>> /\ Head(net).t = "snap"
  /\ net' = Tail(net)
  /\ IF Head(net).id = viewId
       THEN /\ snapOff' = Head(net).off
            /\ text' = Chunks(viewId, Head(net).lo, Head(net).off)
       ELSE UNCHANGED <<snapOff, text>>
  /\ UNCHANGED <<sessionVars, sub, req, online, viewId, drops>>

\* which chunks handle({t: 'data'}) writes (shouldKeepChunk)
Keep(m) == m.id = viewId /\ snapOff # NullOff /\ m.off >= snapOff

HandleData ==
  /\ net # <<>> /\ Head(net).t = "data"
  /\ net' = Tail(net)
  /\ text' = IF Keep(Head(net)) THEN Append(text, <<Head(net).id, Head(net).off>>)
                                ELSE text
  /\ UNCHANGED <<sessionVars, sub, req, online, viewId, snapOff, drops>>

-----------------------------------------------------------------------------
Server == RecvSub \/ RecvUnsub \/ ForwardChunk \/ Resync \/ TapClosed
Phone == CloseView \/ Drop \/ Connect \/ HandleSnap \/ HandleData
Next ==
  \/ Server \/ Phone
  \/ \E s \in Sessions : Emit(s) \/ CloseSession(s) \/ EndThreads(s) \/ OpenView(s)

\* The connection loop runs, the phone handles what arrives, and it reconnects
\* for as long as the page is open (scheduleReconnect).
Fairness ==
  /\ WF_vars(RecvSub) /\ WF_vars(RecvUnsub)
  /\ WF_vars(ForwardChunk) /\ WF_vars(Resync)
  /\ WF_vars(HandleSnap) /\ WF_vars(HandleData)
  /\ WF_vars(Connect)

SafetySpec == Init /\ [][Next]_vars
Spec == SafetySpec /\ Fairness
-----------------------------------------------------------------------------
(* Properties *)

Msg == [t : {"snap", "data"}, id : Sessions, lo : Nat, off : Nat]

\* Every variable has its type.
TypeOK ==
  /\ total \in [Sessions -> Nat]
  /\ chan \in [Sessions -> {"open", "closed", "gone"}]
  /\ sub \in [id : Sessions \cup {NoSession}, next : Nat]
  /\ net \in Seq(Msg) /\ req \in Seq(Sessions \cup {NoSession})
  /\ online \in BOOLEAN
  /\ viewId \in Sessions \cup {NoSession} /\ snapOff \in Nat \cup {NullOff}
  /\ text \in Seq(Sessions \X Nat)
  /\ drops \in Nat

\* Whatever the phone does to its views and however often it lags behind or is
\* cut off, its screen is a window of the output of the session it looks at:
\* nothing missing, nothing twice, nothing of another session, never set back by
\* a late snapshot (mobile.js handle, server.rs Step::Chunk).
Window == INSTANCE LiveWindow WITH
  emitted <- total, of <- viewId, synced <- snapOff # NullOff
ScreenIsWindow == Window!Spec

\* A phone that stays with an open session gets to see the end of its output,
\* through lags and broken connections (server.rs resync, mobile.js onopen).
Shown(s) == Window!EndOf(text) = total[s] /\ snapOff # NullOff
PhoneCatchesUp ==
  \A s \in Sessions :
    viewId = s ~> (viewId # s \/ chan[s] # "open" \/ Shown(s))
=============================================================================
