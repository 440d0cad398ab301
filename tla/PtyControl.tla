------------------------------ MODULE PtyControl ------------------------------
(***************************************************************************)
(* Who decides the size of a session's PTY (pty.rs controls, chans; the    *)
(* connections of remote/server.rs that take and give back control).       *)
(*                                                                         *)
(* The desktop resizes a session unless a phone holds control of it; while *)
(* one does, the desktop's wish is only remembered and comes back with the *)
(* release.  Every operation on `controls` runs under one lock and is one  *)
(* step, except that close() works without it until its end, so that       *)
(* take_control is split where close() can come in between.                *)
(*                                                                         *)
(* A size is one number (the columns; rows go the same way).               *)
(***************************************************************************)
EXTENDS Integers, FiniteSets

CONSTANTS
  Sessions, Devices,
  Sizes,            \* sizes the desktop and the phones ask for
  FirstSize,        \* the size a session starts with
  Narrow, Wide,     \* CONTROL_COLS
  MaxConns,         \* bound: connections of one run of the server
  MaxLive,          \* bound: connections whose tasks run at a time
  MaxServers        \* bound: runs of the server

ASSUME ControlAssumption ==
  /\ Sizes \subseteq Nat /\ FirstSize \in Nat \ {0}
  /\ Narrow \in Nat \ {0} /\ Wide \in Nat /\ Narrow <= Wide
  /\ MaxConns \in Nat /\ MaxLive \in Nat /\ MaxServers \in Nat

VARIABLES
  chans,     \* sessions in PtyManager.chans
  closing,   \* sessions whose close() has not yet come to `controls`
  size,      \* size[s]: the size of the PTY
  controls,  \* controls[s]: the Control entry, or NoHold
  lock,      \* the take_control that holds the controls lock, or NoTake
  conns,     \* connections whose task still runs
  server,    \* which run of the server it is
  nextConn,  \* Ctx::next_conn of this run
  wish       \* history: wish[s], the size the desktop last asked for

vars == <<chans, closing, size, controls, lock, conns, server, nextConn, wish>>

NoHold == [held |-> FALSE]
NoTake == [on |-> FALSE]
\* `run` is history: the run of the server whose connection took the hold
Hold(c, desktop) ==
  [held |-> TRUE, dev |-> c.dev, conn |-> c.id, run |-> c.run, desktop |-> desktop]

Free == ~lock.on

Clamp(n) == IF n < Narrow THEN Narrow ELSE IF n > Wide THEN Wide ELSE n

Init ==
  /\ chans = Sessions /\ closing = {}
  /\ size = [s \in Sessions |-> FirstSize]
  /\ controls = [s \in Sessions |-> NoHold]
  /\ lock = NoTake
  /\ conns = {} /\ server = 1 /\ nextConn = 1
  /\ wish = [s \in Sessions |-> FirstSize]

-----------------------------------------------------------------------------
(* The desktop *)


\* PtyManager::resize
Resize(s, n) ==
  /\ n # 0 /\ Free /\ s \in chans
  /\ wish' = [wish EXCEPT ![s] = n]
  /\ IF controls[s].held
       THEN controls' = [controls EXCEPT ![s].desktop = n] /\ UNCHANGED size
       ELSE size' = [size EXCEPT ![s] = n] /\ UNCHANGED controls
  /\ UNCHANGED <<chans, closing, lock, conns, server, nextConn>>

\* PtyManager::release_where: the holds on S go, the desktop's sizes come back
\* (apply_size finds nothing to resize when the session is closed)
ReleaseAll(S) ==
  /\ controls' = [s \in Sessions |-> IF s \in S THEN NoHold ELSE controls[s]]
  /\ size' = [s \in Sessions |->
                IF s \in S \cap chans THEN controls[s].desktop ELSE size[s]]

HeldByDevice(d) == {s \in Sessions : controls[s].held /\ controls[s].dev = d}
HeldByConn(n) == {s \in Sessions : controls[s].held /\ controls[s].conn = n}

\* PtyManager::release_control, the desktop's button
ReleaseControl(s) ==
  /\ Free /\ controls[s].held
  /\ ReleaseAll({s})
  /\ UNCHANGED <<chans, closing, lock, conns, server, nextConn, wish>>

\* PtyManager::close: the session leaves chans, under no other lock ...
CloseChan(s) ==
  /\ s \in chans
  /\ chans' = chans \ {s} /\ closing' = closing \cup {s}
  /\ UNCHANGED <<size, controls, lock, conns, server, nextConn, wish>>

\* ... and at its end the control entry goes
CloseControl(s) ==
  /\ Free /\ s \in closing
  /\ closing' = closing \ {s}
  /\ controls' = [controls EXCEPT ![s] = NoHold]
  /\ UNCHANGED <<chans, size, lock, conns, server, nextConn, wish>>

\* remote_revoke_device, or a device that expired: its holds go first, its
\* connections end when they hear of it
ReleaseDevice(d) ==
  /\ Free /\ HeldByDevice(d) # {}
  /\ ReleaseAll(HeldByDevice(d))
  /\ UNCHANGED <<chans, closing, lock, conns, server, nextConn, wish>>

-----------------------------------------------------------------------------
(* Connections *)

\* run_ws: a connection gets its number
Connect(d) ==
  /\ nextConn <= MaxConns /\ Cardinality(conns) < MaxLive
  /\ conns' = conns \cup {[dev |-> d, run |-> server, id |-> nextConn, up |-> TRUE]}
  /\ nextConn' = nextConn + 1
  /\ UNCHANGED <<chans, closing, size, controls, lock, server, wish>>

\* RemoteHub::stop and start: the new run counts its connections from 1 again;
\* the old ones end when they see the shutdown
RestartServer ==
  /\ server < MaxServers
  /\ server' = server + 1 /\ nextConn' = 1
  /\ UNCHANGED <<chans, closing, size, controls, lock, conns, wish>>


\* ClientMsg::Control: PtyManager::take_control takes the lock and reads the
\* size; there is none when the session is closed
TakeBegin(c, s, n) ==
  /\ c.up /\ Free /\ s \in chans
  /\ lock' = [on |-> TRUE, by |-> c, of |-> s, want |-> n, cur |-> size[s]]
  /\ UNCHANGED <<chans, closing, size, controls, conns, server, nextConn, wish>>

\* mutant: the desktop's size is the current one, whoever set it
TakeEndMutant ==
  /\ lock.on
  /\ LET s == lock.of
     IN  /\ controls' = [controls EXCEPT ![s] = Hold(lock.by, lock.cur)]
         /\ size' = IF s \in chans THEN [size EXCEPT ![s] = Clamp(lock.want)] ELSE size
  /\ lock' = NoTake
  /\ UNCHANGED <<chans, closing, conns, server, nextConn, wish>>

\* take_control: the entry is made and the size applied; the first taker finds
\* the desktop's size in the PTY, later ones in the entry they replace
TakeEnd ==
  /\ lock.on
  /\ LET s == lock.of
         desktop == IF controls[s].held THEN controls[s].desktop ELSE lock.cur
     IN  /\ controls' = [controls EXCEPT ![s] = Hold(lock.by, desktop)]
         /\ size' = IF s \in chans THEN [size EXCEPT ![s] = Clamp(lock.want)] ELSE size
  /\ lock' = NoTake
  /\ UNCHANGED <<chans, closing, conns, server, nextConn, wish>>

\* ClientMsg::Release: release_control_by_device
ReleaseByDevice(c, s) ==
  /\ c.up /\ Free /\ controls[s].held /\ controls[s].dev = c.dev
  /\ ReleaseAll({s})
  /\ UNCHANGED <<chans, closing, lock, conns, server, nextConn, wish>>

\* run_ws_conn returns: the phone left, was revoked, went silent, or the server
\* stops (not while a take_control of this connection runs)
ConnEnds(c) ==
  /\ c.up /\ ~(lock.on /\ lock.by = c)
  /\ conns' = (conns \ {c}) \cup {[c EXCEPT !.up = FALSE]}
  /\ UNCHANGED <<chans, closing, size, controls, lock, server, nextConn, wish>>

\* mutant: the task ends without giving the holds back
ConnReleasesMutant(c) ==
  /\ ~c.up /\ Free
  /\ conns' = conns \ {c}
  /\ UNCHANGED <<controls, size, chans, closing, lock, server, nextConn, wish>>

\* run_ws: release_conn, which goes by the number of the connection alone
ConnReleases(c) ==
  /\ ~c.up /\ Free
  /\ conns' = conns \ {c}
  /\ ReleaseAll(HeldByConn(c.id))
  /\ UNCHANGED <<chans, closing, lock, server, nextConn, wish>>

-----------------------------------------------------------------------------
Desktop ==
  \E s \in Sessions :
    \/ \E n \in Sizes : Resize(s, n)
    \/ ReleaseControl(s) \/ CloseChan(s) \/ CloseControl(s)

Connections ==
  \/ RestartServer \/ TakeEnd
  \/ \E d \in Devices : Connect(d) \/ ReleaseDevice(d)
  \/ \E c \in conns :
       \/ ConnEnds(c) \/ ConnReleases(c)
       \/ \E s \in Sessions : ReleaseByDevice(c, s) \/ \E n \in Sizes : TakeBegin(c, s, n)

Next == Desktop \/ Connections

\* A task that got the lock goes on, and one whose loop ended gets to its end
\* (it waits for the lock, which the others keep giving back).
Fairness ==
  /\ WF_vars(TakeEnd)
  /\ SF_vars(\E c \in conns : ConnReleases(c))

SafetySpec == Init /\ [][Next]_vars
Spec == SafetySpec /\ Fairness
-----------------------------------------------------------------------------
(* Properties *)

Conn == [dev : Devices, run : Nat, id : Nat, up : BOOLEAN]
Holding == [held : {TRUE}, dev : Devices, conn : Nat, run : Nat, desktop : Nat \ {0}]
Taking == [on : {TRUE}, by : Conn, of : Sessions, want : Nat, cur : Nat \ {0}]

\* Every variable has its type, sizes are never zero.
TypeOK ==
  /\ chans \subseteq Sessions /\ closing \subseteq Sessions
  /\ size \in [Sessions -> Nat \ {0}] /\ wish \in [Sessions -> Nat \ {0}]
  /\ controls \in [Sessions -> Holding \cup {NoHold}]
  /\ lock \in Taking \cup {NoTake}
  /\ conns \subseteq Conn
  /\ server \in Nat /\ nextConn \in Nat

\* The PTY of an open session has the size the desktop last asked for, unless a
\* phone holds it; then the entry remembers that size, through any number of
\* phones that take it from one another, and the release brings it back.
DesktopSizeKept ==
  \A s \in chans :
    IF controls[s].held THEN controls[s].desktop = wish[s] ELSE size[s] = wish[s]

\* A phone cannot make a PTY unusably small or large, whatever it asks for.
HeldSizeInRange ==
  \A s \in chans : controls[s].held => size[s] \in Narrow..Wide

\* A hold never outlives its connections: while there is one, a connection of
\* that device and number still runs and will release it.
HoldHasConnection ==
  \A s \in Sessions :
    controls[s].held =>
      \E c \in conns : c.dev = controls[s].dev /\ c.id = controls[s].conn
                       /\ c.run = controls[s].run

\* Once close() is through, the closed session has no control entry and gets none
\* (the banner on the desktop would never go), whatever take_control runs next.
ClosedIsFree ==
  \A s \in Sessions : s \notin chans \cup closing => ~controls[s].held

\* The inductive invariant: the four above, what the running take_control has read is
\* still so, its connection is still there, and a session is open or being closed.
LockInv ==
  lock.on =>
    /\ lock.by \in conns /\ lock.by.up
    /\ lock.of \in chans \cup closing
    /\ lock.of \in chans => lock.cur = size[lock.of]
CloseInv == closing \cap chans = {}
ControlInv ==
  CloseInv /\ DesktopSizeKept /\ HeldSizeInRange /\ HoldHasConnection /\ ClosedIsFree /\ LockInv

\* A device none of whose connections is up any more loses its holds.
Away(d) == \A c \in conns : c.dev = d => ~c.up
HoldsEnd ==
  \A d \in Devices :
    Away(d) ~> (~Away(d) \/ \A s \in Sessions : controls[s].held => controls[s].dev # d)
=============================================================================
