----------------------------- MODULE PhoneView -----------------------------
(***************************************************************************)
(* What a phone knows of the sessions and of who controls them, and what   *)
(* it does with it (mobile.js: handle, the view, control, new sessions),   *)
(* over the connections of server.rs.  A connection answers its requests   *)
(* directly; events come by way of a broadcast queue, so that an answer    *)
(* may overtake them, and an old connection ends some time after the page  *)
(* gave it up, releasing what it holds.  /api/state is a request on its    *)
(* own.  A session ends in steps of two threads (pty.rs: close, the reader *)
(* and the emitter), and events and lists may come between them.  Sizes,   *)
(* names and the other statuses are left out (PtyControl has the sizes),   *)
(* and controlReleasing, which only silences a toast.                      *)
(***************************************************************************)
EXTENDS Integers, Sequences, FiniteSets, SequencesExt

CONSTANTS
    Sessions, First,  \* sessions there may be; those open at first
    MaxConns,         \* bound: connections of the page
    MaxReqs,          \* bound: sessions the page asks for
    MaxUp, MaxEv, MaxDown, \* bounds: messages in the queues up, ev and down
    MaxActs,          \* bound: what the user does
    MaxOthers         \* bound: what the desktop and other phones do

ASSUME ViewAssumption ==
    /\ IsFiniteSet(Sessions) /\ First \subseteq Sessions
    /\ "none" \notin Sessions
    /\ {MaxConns, MaxReqs, MaxUp, MaxEv, MaxDown, MaxActs, MaxOthers} \subseteq Nat

VARIABLES
    remote,   \* the page (Remote.*)
    frames,   \* its requestAnimationFrame callbacks of requestControl
    state,    \* the /api/state request, or NoState
    conn,     \* the connection of the page's open socket, or 0
    opened,   \* connections opened so far
    up, ev, down, \* its requests, its broadcast events, its socket
    alive,    \* connections whose task runs in the server
    live,     \* the server: sessions with a channel (chans)
    dying,    \* closed ones that still have their entry in metas
    ended,    \* those with an entry whose shell has ended (meta.exited)
    untold,   \* those that ended and whose emitter has not sent Exited yet
    hold,     \* hold[s]: 0, Other or a connection
    making,   \* the create request under way: NoMake or a record
    used,     \* sessions there have been
    acts, others,
    stale,    \* history: what an overtaken answer may have told the page wrongly
    wish,     \* history: the new session the user still waits for, or 0
    lost      \* history: sessions the page saw taken since the user last asked

page == <<remote, frames, state, stale, wish, lost>>
bounds == <<acts, others>>
sessions == <<live, dying, ended, untold>>
server == <<alive, sessions, hold, making, used>>
link == <<conn, opened, up, ev, down>>
viewVars == <<page, server, link, bounds>>

None == "none"
Other == -1
Seen(h) == IF h = 0 THEN "free" ELSE IF h = Other THEN "other" ELSE "me"
NoMake == [n |-> 0, req |-> 0, id |-> None]

Sure == [open |-> {}, held |-> {}]
Free == [s \in Sessions |-> "free"]

\* The sessions that are open.
Running == live \ ended

\* ctx.backend.sessions(): what metas has.  `told` is history: the sessions on it,
\* as open ones, whose end every phone has been told already.
List == [t |-> "sessions", list |-> live \cup dying, exited |-> ended, told |-> dying \ (ended \cup untold),
         holder |-> [s \in Sessions |-> Seen(hold[s])]]

\* `changed` is history: of which sessions something was told after the answer was made.
NoState == [t |-> "none", list |-> {}, exited |-> {}, changed |-> Sure, holder |-> Free]

ViewInit ==
    /\ remote = [view |-> None, wanted |-> None, pending |-> None,
             create |-> 0, reqs |-> 0, list |-> {}, exited |-> {},
             holder |-> Free]
    /\ frames = {} /\ state = NoState
    /\ conn = 0 /\ opened = 0 /\ up = <<>> /\ ev = <<>> /\ down = <<>>
    /\ alive = {} /\ live = First /\ hold = [s \in Sessions |-> 0]
    /\ dying = {} /\ ended = {} /\ untold = {}
    /\ making = NoMake /\ used = First /\ acts = 0 /\ others = 0
    /\ stale = Sure /\ wish = 0 /\ lost = {}

EvRoom == Len(ev) < MaxEv
DownRoom == Len(down) < MaxDown
CanSend == conn # 0
Msg(t, id) == [t |-> t, id |-> id, req |-> 0]

\* Remote.send: nothing without an open socket; what is sent to a connection
\* that has ended is lost.
Send(msg) ==
    /\ CanSend => Len(up) < MaxUp
    /\ up' = IF conn \in alive THEN Append(up, msg) ELSE up

Act == acts < MaxActs /\ acts' = acts + 1

-----------------------------------------------------------------------------
(***************************************************************************)
(* Pieces of the page                                                      *)
(***************************************************************************)
Holding(p, id) == id # None /\ p.holder[id] = "me"
WantsControl(p) == p.view # None /\ p.wanted = p.view /\ Holding(p, p.view)

FailControlRequest(p) ==
    IF p.pending = None THEN p
    ELSE [p EXCEPT !.pending = None,
                   !.wanted = IF @ = p.pending /\ ~Holding(p, p.pending) THEN None ELSE @]

\* Mutant of ApplyControl: the wish outlives the loss.
ApplyControlMutant(p, id, who) ==
    [p EXCEPT !.holder[id] = who, !.pending = IF @ = id /\ who # "free" THEN None ELSE @]

\* applyControl
ApplyControl(p, id, who) ==
    [p EXCEPT !.holder[id] = who,
              !.pending = IF @ = id /\ who # "free" THEN None ELSE @,
              !.wanted = IF @ = id /\ who = "other" THEN None ELSE @]

NoteControlHolder(p, id, who) == IF p.holder[id] = who THEN p ELSE ApplyControl(p, id, who)

\* A list says who holds each of its sessions; what it changes is applied.
Noted(p, list, holder) ==
    LET news == {s \in list : p.holder[s] # holder[s]}
    IN [p EXCEPT !.holder = [s \in Sessions |-> IF s \in list THEN holder[s] ELSE @[s]],
                 !.pending = IF @ \in news /\ holder[@] # "free" THEN None ELSE @,
                 !.wanted = IF @ \in news /\ holder[@] = "other" THEN None ELSE @]

\* Mutant of SetSessions: a list without a holder tells nothing of control.
SetSessionsMutant(p, list, exited, holder) ==
    [Noted(p, {s \in list : holder[s] # "free"}, holder) EXCEPT !.list = list, !.exited = exited]

\* setSessions
SetSessions(p, list, exited, holder) ==
    [Noted(p, list, holder) EXCEPT !.list = list, !.exited = exited]

Upsert(p, id) == [p EXCEPT !.list = @ \cup {id}, !.exited = @ \ {id}]

\* openView and the subscription it sends
OpenedView(p, id) == [p EXCEPT !.view = id]

TookAway(p, q) == {s \in Sessions : p.holder[s] # "other" /\ q.holder[s] = "other"}

-----------------------------------------------------------------------------
(***************************************************************************)
(* The user and the page's timers                                          *)
(***************************************************************************)
\* A card of the list, or a notification's link while another view is open.
OpenView(s) ==
    /\ Act
    /\ s \in remote.list \ {remote.view}
    /\ remote' = OpenedView(remote, s)
    /\ Send(Msg("sub", s))
    /\ UNCHANGED <<frames, state, stale, wish, lost, server, conn, opened, ev, down, others>>

\* Mutant of CloseView: the page still waits for the session it asked for.
CloseViewMutant ==
    /\ Act
    /\ remote.view # None
    /\ remote' = [remote EXCEPT !.wanted = None, !.pending = None, !.view = None]
    /\ IF Holding(remote, remote.view) THEN Send(Msg("release", remote.view)) ELSE UNCHANGED up
    /\ wish' = 0
    /\ UNCHANGED <<frames, state, stale, lost, server, conn, opened, ev, down, others>>

\* closeView: what is held is given back, a create answer to come is dropped.
CloseView ==
    /\ Act
    /\ remote.view # None
    /\ remote' = [remote EXCEPT !.create = 0, !.wanted = None, !.pending = None, !.view = None]
    /\ IF Holding(remote, remote.view) THEN Send(Msg("release", remote.view)) ELSE UNCHANGED up
    /\ wish' = 0
    /\ UNCHANGED <<frames, state, stale, lost, server, conn, opened, ev, down, others>>

\* showNewSessionSheet: a session is asked for
CreateSession ==
    /\ Act
    /\ remote.reqs < MaxReqs /\ CanSend
    /\ LET req == remote.reqs + 1
       IN /\ remote' = [remote EXCEPT !.create = req, !.reqs = req]
          /\ Send([t |-> "create", id |-> None, req |-> req])
          /\ wish' = req
    /\ UNCHANGED <<frames, state, stale, lost, server, conn, opened, ev, down, others>>

CreateTimeout ==
    /\ remote.create # 0
    /\ remote' = [remote EXCEPT !.create = 0] /\ wish' = 0
    /\ UNCHANGED <<frames, state, stale, lost, server, link, bounds>>

\* toggleControl
ToggleControl ==
    /\ Act
    /\ remote.view # None
    /\ IF Holding(remote, remote.view)
         THEN /\ remote' = [remote EXCEPT !.wanted = None, !.pending = None]
              /\ Send(Msg("release", remote.view))
              /\ UNCHANGED <<frames, lost>>
         ELSE /\ remote' = [remote EXCEPT !.wanted = remote.view, !.pending = remote.view]
              /\ frames' = frames \cup {[id |-> remote.view, press |-> TRUE]}
              /\ lost' = lost \ {remote.view}
              /\ UNCHANGED up
    /\ UNCHANGED <<state, stale, wish, server, conn, opened, ev, down, others>>

\* scheduleControlResend: the phone was turned
Resend ==
    /\ Act
    /\ WantsControl(remote)
    /\ remote' = [remote EXCEPT !.pending = remote.view]
    /\ frames' = frames \cup {[id |-> remote.view, press |-> FALSE]}
    /\ UNCHANGED <<state, stale, wish, lost, server, link, others>>

\* requestControl, in the frame after it was called
Frame(f) ==
    /\ f \in frames
    /\ frames' = frames \ {f}
    /\ \/ /\ remote.view = f.id /\ CanSend
          /\ Send(Msg("control", f.id))
          /\ UNCHANGED remote
       \/ /\ remote.view # f.id \/ ~CanSend
          /\ remote' = FailControlRequest(remote)
          /\ UNCHANGED up
    /\ UNCHANGED <<state, stale, wish, lost, server, conn, opened, ev, down, bounds>>

ControlTimeout ==
    /\ remote.pending # None /\ remote' = FailControlRequest(remote)
    /\ UNCHANGED <<frames, state, stale, wish, lost, server, link, bounds>>

-----------------------------------------------------------------------------
(***************************************************************************)
(* The socket                                                              *)
(***************************************************************************)
\* A new socket opens; run_ws_conn has subscribed to the events and sent the
\* list.  The page subscribes again, and asks again for the control it had.
SocketOpens ==
    /\ conn = 0 /\ opened < MaxConns
    /\ opened' = opened + 1 /\ conn' = opened + 1 /\ alive' = alive \cup {opened + 1}
    /\ ev' = <<>> /\ down' = <<List>>
    /\ up' = IF remote.view = None THEN <<>> ELSE <<Msg("sub", remote.view)>>
    /\ IF WantsControl(remote)
         THEN /\ remote' = [remote EXCEPT !.pending = remote.view]
              /\ frames' = frames \cup {[id |-> remote.view, press |-> FALSE]}
         ELSE UNCHANGED <<remote, frames>>
    /\ UNCHANGED <<state, stale, wish, lost, sessions, hold, making, used, bounds>>

\* The page learns that its socket ended, or gives it up.
SocketCloses ==
    /\ conn # 0
    /\ conn' = 0 /\ up' = <<>> /\ ev' = <<>> /\ down' = <<>>
    /\ UNCHANGED <<page, server, opened, bounds>>

\* handle: a session, a holder or an end comes with a message
Handled(m) ==
    CASE m.t = "sessions" -> SetSessions(remote, m.list, m.exited, m.holder)
      [] m.t = "created" -> Upsert(remote, m.id)
      [] m.t = "createResult" ->
           IF m.req # remote.create THEN remote
           ELSE OpenedView(Upsert([remote EXCEPT !.create = 0], m.id), m.id)
      [] m.t = "exited" -> [remote EXCEPT !.exited = @ \cup ({m.id} \cap remote.list)]
      [] m.t = "snap" -> IF m.id # remote.view THEN remote ELSE NoteControlHolder(remote, m.id, m.holder)
      [] m.t = "control" -> ApplyControl(remote, m.id, m.holder)
      [] m.t = "error" ->
           IF m.req # 0 /\ m.req = remote.create THEN [remote EXCEPT !.create = 0]
           ELSE FailControlRequest(remote)

\* A list tells anew of all that is open and of who holds what it lists, an event of
\* what it is about; a create answer may be for a session that has ended.
StaleAfter(m) ==
    CASE m.t = "sessions" -> [open |-> m.told, held |-> stale.held \ m.list]
      [] m.t \in {"created", "exited"} -> [stale EXCEPT !.open = @ \ {m.id}]
      [] m.t = "control" -> [stale EXCEPT !.held = @ \ {m.id}]
      [] m.t = "createResult" /\ m.req = remote.create -> [stale EXCEPT !.open = @ \cup ({m.id} \ Running)]
      [] OTHER -> stale

Handle ==
    /\ down # <<>>
    /\ remote' = Handled(Head(down))
    /\ down' = Tail(down)
    /\ lost' = lost \cup TookAway(remote, remote')
    /\ stale' = StaleAfter(Head(down))
    /\ IF remote'.view # remote.view THEN Send(Msg("sub", remote'.view)) ELSE UNCHANGED up
    /\ UNCHANGED <<frames, state, wish, server, conn, opened, ev, bounds>>

-----------------------------------------------------------------------------
(***************************************************************************)
(* /api/state                                                              *)
(***************************************************************************)
\* loadState: at the start, and whenever the page becomes visible; a page that
\* still has its socket subscribes again.
LoadState ==
    /\ Act
    /\ state = NoState
    /\ state' = [NoState EXCEPT !.t = "asked"]
    /\ IF remote.view # None THEN Send(Msg("sub", remote.view)) ELSE UNCHANGED up
    /\ UNCHANGED <<remote, frames, stale, wish, lost, server, conn, opened, ev, down, others>>

StateServed ==
    /\ state.t = "asked"
    /\ state' = [t |-> "served", list |-> List.list, exited |-> List.exited, holder |-> List.holder,
                 changed |-> [open |-> List.told, held |-> {}]]
    /\ UNCHANGED <<remote, frames, stale, wish, lost, server, link, bounds>>

\* What is told now is newer than the answer on its way.
About(msgs, tags) == {msgs[i].id : i \in {j \in DOMAIN msgs : msgs[j].t \in tags}}

Overtaken(msgs) ==
    IF state.t # "served" THEN state
    ELSE [state EXCEPT !.changed = [open |-> @.open \cup About(msgs, {"created", "exited"}),
                                    held |-> @.held \cup About(msgs, {"control"})]]

StateAnswer ==
    /\ state.t # "none"
    /\ state' = NoState
    /\ \/ /\ state.t # "asked"
          /\ remote' = SetSessions(remote, state.list, state.exited, state.holder)
          /\ stale' = [state.changed EXCEPT !.held = @ \cup (stale.held \ state.list)]
          /\ lost' = lost \cup TookAway(remote, remote')
       \/ UNCHANGED <<remote, stale, lost>>
    /\ UNCHANGED <<frames, wish, server, link, bounds>>

-----------------------------------------------------------------------------
(***************************************************************************)
(* The server                                                              *)
(***************************************************************************)
\* An event goes to every connection; ours gets it by its queue.
Emit(msgs) == /\ ev' = IF conn \in alive THEN ev \o msgs ELSE ev
              /\ state' = Overtaken(msgs)

Reply(msg) == down' = Append(down, msg)
Err(req) == [t |-> "error", id |-> None, req |-> req]
Control(s, h) == [t |-> "control", id |-> s, req |-> 0, holder |-> Seen(h)]

\* Step::Client
HandleClient ==
    /\ conn \in alive /\ up # <<>> /\ DownRoom /\ EvRoom
    /\ up' = Tail(up)
    /\ LET m == Head(up)
       IN \/ /\ m.t = "sub"
             /\ IF m.id \in live
                  THEN Reply([t |-> "snap", id |-> m.id, req |-> 0, holder |-> Seen(hold[m.id])])
                  ELSE Reply(Err(0))
             /\ UNCHANGED <<hold, making, ev, state>>
          \/ /\ m.t = "control"
             /\ IF m.id \in live
                  THEN /\ hold' = [hold EXCEPT ![m.id] = conn]
                       /\ Emit(<<Control(m.id, conn)>>) /\ UNCHANGED down
                  ELSE Reply(Err(0)) /\ UNCHANGED <<hold, ev, state>>
             /\ UNCHANGED making
          \/ /\ m.t = "release"
             /\ IF hold[m.id] > 0
                  THEN hold' = [hold EXCEPT ![m.id] = 0] /\ Emit(<<Control(m.id, 0)>>)
                  ELSE UNCHANGED <<hold, ev, state>>
             /\ UNCHANGED <<making, down>>
          \/ /\ m.t = "create"
             /\ IF making.n = conn
                  THEN Reply(Err(m.req)) /\ UNCHANGED making
                  ELSE making' = [n |-> conn, req |-> m.req, id |-> None] /\ UNCHANGED down
             /\ UNCHANGED <<hold, ev, state>>
    /\ UNCHANGED <<remote, frames, stale, wish, lost, alive, sessions, used, conn, opened, bounds>>

\* The blocking task of Create: the session is there, with its event ...
Created ==
    /\ making.n # 0 /\ making.id = None /\ EvRoom
    /\ \E s \in Sessions \ used :
         /\ live' = live \cup {s} /\ used' = used \cup {s}
         /\ making' = [making EXCEPT !.id = s]
         /\ Emit(<<Msg("created", s)>>)
    /\ UNCHANGED <<remote, frames, stale, wish, lost, alive, dying, ended, untold, hold,
                   conn, opened, up, down, bounds>>

\* Step::Created: ... and its result, or an error, reaches the connection.
CreateReplies ==
    /\ making.n # 0 /\ DownRoom
    /\ making' = NoMake
    /\ IF making.n # conn \/ conn \notin alive THEN UNCHANGED down
       ELSE IF making.id = None THEN Reply(Err(making.req))
       ELSE Reply([t |-> "createResult", id |-> making.id, req |-> making.req])
    /\ UNCHANGED <<page, alive, sessions, hold, used, conn, opened, up, ev, bounds>>

\* Step::Event
ForwardEvent ==
    /\ ev # <<>> /\ conn \in alive /\ DownRoom
    /\ ev' = Tail(ev)
    /\ down' = Append(down, Head(ev))
    /\ UNCHANGED <<page, server, conn, opened, up, bounds>>

\* Step::Event, Lagged: the oldest events are gone, the list makes up for them.
Lagged ==
    /\ ev # <<>> /\ conn \in alive /\ DownRoom
    /\ ev' = Tail(ev)
    /\ down' = Append(down, List)
    /\ UNCHANGED <<page, server, conn, opened, up, bounds>>

Held(n) == {s \in Sessions : hold[s] = n}
Freed(n) == [s \in Sessions |-> IF hold[s] = n THEN 0 ELSE hold[s]]

\* run_ws: a connection ends, and gives back what it holds, in any order.
ConnEnds(n) ==
    /\ n \in alive
    /\ alive' = alive \ {n}
    /\ hold' = Freed(n)
    /\ \E told \in SetToSeqs({Control(s, 0) : s \in Held(n)}) :
         /\ ev' = IF conn \in alive' THEN ev \o told ELSE ev
         /\ state' = Overtaken(told)
    /\ UNCHANGED <<remote, frames, stale, wish, lost, sessions, making, used, conn, opened, up, down, bounds>>

-----------------------------------------------------------------------------
(***************************************************************************)
(* The desktop and the other phones                                        *)
(***************************************************************************)
OthersAct == others < MaxOthers /\ others' = others + 1 /\ EvRoom

OtherTakes(s) ==
    /\ OthersAct /\ s \in live /\ hold[s] # Other
    /\ hold' = [hold EXCEPT ![s] = Other] /\ Emit(<<Control(s, Other)>>)
    /\ UNCHANGED <<remote, frames, stale, wish, lost, alive, sessions, making, used,
                   conn, opened, up, down, acts>>

\* The desktop's button, or the other phone's.
Released(s) ==
    /\ OthersAct /\ hold[s] # 0
    /\ hold' = [hold EXCEPT ![s] = 0] /\ Emit(<<Control(s, 0)>>)
    /\ UNCHANGED <<remote, frames, stale, wish, lost, alive, sessions, making, used,
                   conn, opened, up, down, acts>>

\* close: the channel goes, the shell is killed; its emitter will tell the end ...
CloseStarts(s) ==
    /\ OthersAct /\ s \in live
    /\ live' = live \ {s} /\ dying' = dying \cup {s}
    /\ untold' = IF s \in ended THEN untold ELSE untold \cup {s}
    /\ UNCHANGED <<page, alive, ended, hold, making, used, link, acts>>

\* ... and only then the entry of metas and the control.
CloseEnds(s) ==
    /\ s \in dying /\ EvRoom
    /\ dying' = dying \ {s} /\ ended' = ended \ {s}
    /\ hold' = [hold EXCEPT ![s] = 0]
    /\ IF hold[s] = 0 THEN UNCHANGED <<ev, state>> ELSE Emit(<<Control(s, 0)>>)
    /\ UNCHANGED <<remote, frames, stale, wish, lost, alive, live, untold, making, used,
                   conn, opened, up, down, bounds>>

\* The reader comes to the end of the output: the shell ended by itself, or by close.
ShellEnds(s) ==
    /\ \/ s \in live \ ended /\ OthersAct /\ untold' = untold \cup {s}
       \/ s \in dying \ ended /\ UNCHANGED <<untold, others>>
    /\ ended' = ended \cup {s}
    /\ UNCHANGED <<page, alive, live, dying, hold, making, used, link, acts>>

\* The emitter has passed on the rest of the output.
ExitNotice(s) ==
    /\ s \in untold /\ EvRoom
    /\ untold' = untold \ {s}
    /\ Emit(<<Msg("exited", s)>>)
    /\ UNCHANGED <<remote, frames, stale, wish, lost, alive, live, dying, ended, hold, making, used,
                   conn, opened, up, down, bounds>>

-----------------------------------------------------------------------------
TouchStep ==
    \/ CloseView \/ CreateSession \/ ToggleControl \/ Resend \/ LoadState
    \/ \E s \in Sessions : OpenView(s)
PageStep ==
    \/ SocketOpens \/ SocketCloses \/ Handle \/ StateAnswer \/ CreateTimeout \/ ControlTimeout
    \/ \E f \in frames : Frame(f)
ServerStep ==
    \/ HandleClient \/ Created \/ CreateReplies \/ ForwardEvent \/ Lagged \/ StateServed
    \/ \E n \in alive : ConnEnds(n)
OthersStep ==
    \E s \in Sessions : \/ OtherTakes(s) \/ Released(s)
                       \/ CloseStarts(s) \/ CloseEnds(s) \/ ShellEnds(s) \/ ExitNotice(s)

ViewNext == TouchStep \/ PageStep \/ ServerStep \/ OthersStep

ViewSpec == ViewInit /\ [][ViewNext]_viewVars
-----------------------------------------------------------------------------

\* When nothing is on its way to the page it is right: it lists the open sessions,
\* and knows who controls each, however answers, events, lists, connections and
\* the steps of a close crossed.  It may be wrong only of a session of which it took,
\* and has heard nothing since, an answer made before something it had been told: an
\* /api/state answer, a create answer for a session that ended, or a list read after
\* a session's end was told and before close took its entry (README, deviations).
KnowledgeSettles ==
    (conn \in alive /\ ev = <<>> /\ down = <<>>) =>
        /\ \A s \in Sessions \ (untold \cup stale.open) :
             s \in remote.list \ remote.exited <=> s \in Running
        /\ \A s \in live \ stale.held : remote.holder[s] = Seen(hold[s])

\* An answer opens the view only for the session the user still waits for: one that
\* comes after its time-out, or after the user went back or asked for another, does not.
LateCreateStays ==
    [][(remote'.view \notin {remote.view, None} /\ Len(down') < Len(down)) => Head(down).req = wish]_viewVars

\* A page that saw another device take a session starts no request for it by itself,
\* however it is turned or reconnected, until the user asks again: two phones do not
\* take a session from one another for ever (applyControl).
NoPingPong ==
    [][\A f \in frames' \ frames : ~f.press => f.id \notin lost]_viewVars
=============================================================================
