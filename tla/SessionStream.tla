---------------------------- MODULE SessionStream ----------------------------
(***************************************************************************)
(* The output path of one terminal session, from the PTY to the desktop    *)
(* webview (src-tauri/src/pty.rs, renderer/terminal-view.js, app.js):      *)
(*                                                                         *)
(*   shell -> reader thread -> pending -> emitter thread -> "ta:data"      *)
(*         -> webview listener -> xterm -> ack_data -> outstanding         *)
(*                                                                         *)
(* A unit of output is an abstract run of bytes; the units the shell       *)
(* writes are numbered 0, 1, 2, ... so that a piece of output is the range *)
(* off .. off+len-1 and its contents need not be represented.  Offsets are *)
(* those of the emitted text (ChanInner::total).                           *)
(*                                                                         *)
(* Each action is one critical section of ChanInner's mutex, or one        *)
(* callback of the webview's event loop.                                   *)
(***************************************************************************)
EXTENDS Integers, Sequences, FiniteSets

CONSTANTS
  MaxOut,       \* bound: units the shell writes
  ReadMax,      \* units one read() returns at most (the reader's buf)
  PendingCap,   \* PENDING_CAP
  EmitChunk,    \* EMIT_CHUNK
  FlowHigh,     \* FLOW_HIGH
  ScrollCap,    \* SCROLLBACK_CAP
  ScrollSlack,  \* SCROLLBACK_SLACK
  QueueCap,     \* FROZEN_QUEUE_CAP
  CarryMax,     \* units of an incomplete character carve_utf8 can leave behind
  MaxReloads    \* bound: webview reloads

ASSUME SizesAssumption ==
  /\ {MaxOut, ReadMax, PendingCap, EmitChunk, FlowHigh, ScrollCap, QueueCap}
       \subseteq Nat \ {0}
  /\ {ScrollSlack, CarryMax, MaxReloads} \subseteq Nat

VARIABLES
  \* ChanInner
  pending,      \* units the reader pushed and the emitter has not taken
  scroll,       \* first offset the scrollback still holds: it is scroll..total-1
  total,        \* offset the next emitted piece gets
  outstanding,  \* emitted and not acknowledged, as the backend counts it
  closed,       \* shell ended or session closed
  open,         \* the session is in PtyManager.chans (close() removes it)
  asleep,       \* threads blocked in Condvar::wait
  \* reader thread
  rpc, held, got,
  \* emitter thread
  epc, batch, carry, piece, closedNow,
  \* "ta:data" events on their way, and the webview's view of the session
  bus, wv, queue, snap, screen, xbuf, ackNet, reloads,
  \* history: whether output that no ack will come for was emitted since
  \* outstanding was last reset; whether a queue overflow threw away output that
  \* is not in the snapshot; units the reader threw away because of a close
  leaked, spilled, dropped

chanVars    == <<pending, scroll, total, outstanding, closed, open, asleep>>
readerVars  == <<rpc, held, got, dropped>>
emitterVars == <<epc, batch, carry, piece, closedNow>>
viewVars    == <<bus, wv, queue, snap, screen, xbuf, ackNet, reloads>>
histVars    == <<leaked, spilled>>
vars == <<chanVars, readerVars, emitterVars, viewVars, histVars>>

Piece == [off : Nat, len : Nat]
NoPiece == [off |-> 0, len |-> 0]
End(p) == p.off + p.len
NoSnap == [lo |-> 0, off |-> 0]

Threads == {"reader", "emitter"}

Least(a, b) == IF a < b THEN a ELSE b
\* u64::saturating_sub
SatSub(a, b) == IF a > b THEN a - b ELSE 0

LenSum(q) ==
  LET sum[i \in 0..Len(q)] == IF i = 0 THEN 0 ELSE sum[i - 1] + q[i].len
  IN  sum[Len(q)]

Init ==
  /\ pending = 0 /\ scroll = 0 /\ total = 0 /\ outstanding = 0
  /\ closed = FALSE /\ open = TRUE /\ asleep = {}
  /\ rpc = "read" /\ held = 0 /\ got = 0 /\ dropped = 0
  /\ epc = "wait" /\ batch = 0 /\ carry = 0 /\ piece = NoPiece /\ closedNow = FALSE
  /\ bus = <<>> /\ wv = "none" /\ queue = <<>> /\ snap = NoSnap /\ screen = <<>>
  /\ xbuf = <<>> /\ ackNet = <<>> /\ reloads = 0
  /\ leaked = FALSE /\ spilled = FALSE

-----------------------------------------------------------------------------
(* Reader thread *)

\* reader.read() returns n units
Read(n) ==
  /\ rpc = "read"
  /\ got + n <= MaxOut
  /\ held' = n
  /\ got' = got + n
  /\ rpc' = "push"
  /\ UNCHANGED <<dropped, chanVars, emitterVars, viewVars, histVars>>

\* reader.read() returns 0 or an error: the shell ended
ReadEof ==
  /\ rpc = "read"
  /\ rpc' = "mark"
  /\ UNCHANGED <<held, got, dropped, chanVars, emitterVars, viewVars, histVars>>

\* pending is full: sleep on the condition variable
PushWait ==
  /\ rpc = "push" /\ "reader" \notin asleep
  /\ pending >= PendingCap /\ ~closed
  /\ asleep' = asleep \cup {"reader"}
  /\ UNCHANGED <<pending, scroll, total, outstanding, closed, open,
                 readerVars, emitterVars, viewVars, histVars>>

\* room, or closed: push what was read, or give up
Push ==
  /\ rpc = "push" /\ "reader" \notin asleep
  /\ pending < PendingCap \/ closed
  /\ held' = 0
  /\ IF closed
       THEN /\ rpc' = "mark" /\ dropped' = dropped + held
            /\ UNCHANGED <<pending, asleep>>
       ELSE /\ pending' = pending + held /\ rpc' = "read" /\ asleep' = {}
            /\ UNCHANGED dropped
  /\ UNCHANGED <<got, scroll, total, outstanding, closed, open,
                 emitterVars, viewVars, histVars>>

\* mutant: the reader ends without a notification
MarkClosedMutant ==
  /\ rpc = "mark"
  /\ rpc' = "done"
  /\ closed' = TRUE
  /\ UNCHANGED <<asleep, pending, scroll, total, outstanding, open, held, got, dropped,
                 emitterVars, viewVars, histVars>>

\* end of the reader thread: the channel is closed and everyone is notified
MarkClosed ==
  /\ rpc = "mark"
  /\ rpc' = "done"
  /\ closed' = TRUE /\ asleep' = {}
  /\ UNCHANGED <<pending, scroll, total, outstanding, open, held, got, dropped,
                 emitterVars, viewVars, histVars>>

-----------------------------------------------------------------------------
(* Emitter thread *)

\* 1) nothing to send and not closed: sleep
EmitterSleep ==
  /\ epc = "wait" /\ "emitter" \notin asleep
  /\ pending = 0 /\ ~closed
  /\ asleep' = asleep \cup {"emitter"}
  /\ UNCHANGED <<pending, scroll, total, outstanding, closed, open,
                 readerVars, emitterVars, viewVars, histVars>>

\* 1) something to send (then 2) collects for a while), or nothing and closed
EmitterWake ==
  /\ epc = "wait" /\ "emitter" \notin asleep
  /\ pending > 0 \/ closed
  /\ epc' = IF pending = 0 THEN "end" ELSE "flow"
  /\ UNCHANGED <<batch, carry, piece, closedNow, chanVars, readerVars, viewVars, histVars>>

\* 3) too much unacknowledged: sleep until an ack, a close or the deadline
FlowSleep ==
  /\ epc = "flow" /\ "emitter" \notin asleep
  /\ outstanding >= FlowHigh /\ ~closed
  /\ asleep' = asleep \cup {"emitter"}
  /\ UNCHANGED <<pending, scroll, total, outstanding, closed, open,
                 readerVars, emitterVars, viewVars, histVars>>


\* 3) take everything pending; carve_utf8 keeps back the units of a character
\*    that has not arrived whole; notify the reader that pending is empty
TakePending ==
  /\ \E rest \in 0..Least(CarryMax, carry + pending) :
       /\ carry' = rest
       /\ batch' = carry + pending - rest
  /\ pending' = 0
  /\ closedNow' = closed
  /\ asleep' = {}
  /\ epc' = IF batch' > 0 THEN "append" ELSE "check"
  /\ UNCHANGED <<scroll, total, closed, open, piece, readerVars, viewVars, spilled>>

\* mutant: what is emitted is not gated by what is unacknowledged
FlowTakeMutant ==
  /\ epc = "flow" /\ "emitter" \notin asleep
  /\ UNCHANGED <<outstanding, leaked>>
  /\ TakePending

FlowTake ==
  /\ epc = "flow" /\ "emitter" \notin asleep
  /\ outstanding < FlowHigh \/ closed
  /\ UNCHANGED <<outstanding, leaked>>
  /\ TakePending

\* mutant: past the deadline the emitter only waits again
FlowStallMutant ==
  /\ epc = "flow"
  /\ outstanding >= FlowHigh /\ ~closed
  /\ asleep' = asleep \ {"emitter"}
  /\ UNCHANGED <<pending, scroll, total, outstanding, closed, open,
                 readerVars, emitterVars, viewVars, histVars>>

\* 3) no ack until stall_deadline: the acks are taken for lost, and the take
\*    goes on (wait_timeout returns without a notification)
FlowStall ==
  /\ epc = "flow"
  /\ outstanding >= FlowHigh /\ ~closed
  /\ outstanding' = 0 /\ leaked' = FALSE
  /\ TakePending

\* SessionChan::append_emitted: offset, outstanding and scrollback, in one lock
AppendEmitted ==
  LET len == Least(EmitChunk, batch)
  IN  /\ epc = "append"
      /\ piece' = [off |-> total, len |-> len]
      /\ total' = total + len
      /\ outstanding' = outstanding + len
      /\ scroll' = IF total' - scroll > ScrollCap + ScrollSlack
                     THEN total' - ScrollCap ELSE scroll
      /\ batch' = batch - len
      /\ epc' = "send"
      /\ UNCHANGED <<pending, closed, open, asleep, carry, closedNow,
                     readerVars, viewVars, histVars>>

\* app.emit("ta:data"), outside the lock; nobody hears it while the page loads
EmitData ==
  /\ epc = "send"
  /\ epc' = IF batch > 0 THEN "append" ELSE "check"
  /\ IF wv = "down"
       THEN leaked' = TRUE /\ UNCHANGED bus
       ELSE bus' = Append(bus, piece) /\ UNCHANGED leaked
  /\ piece' = NoPiece
  /\ UNCHANGED <<batch, carry, closedNow, chanVars, readerVars, spilled,
                 wv, queue, snap, screen, xbuf, ackNet, reloads>>

\* mutant: leaves the loop as soon as the channel is closed
EmitterCheckMutant ==
  /\ epc = "check"
  /\ epc' = IF closed THEN "end" ELSE "wait"
  /\ UNCHANGED <<batch, carry, piece, closedNow, chanVars, readerVars, viewVars, histVars>>

\* leave the loop when the channel was closed at the take and nothing came since
EmitterCheck ==
  /\ epc = "check"
  /\ epc' = IF closedNow /\ pending = 0 THEN "end" ELSE "wait"
  /\ UNCHANGED <<batch, carry, piece, closedNow, chanVars, readerVars, viewVars, histVars>>

\* the exit notices: status exited, "ta:exit", PtyEvent::Exited
EmitExit ==
  /\ epc = "end"
  /\ epc' = "done"
  /\ UNCHANGED <<batch, carry, piece, closedNow, chanVars, readerVars, viewVars, histVars>>

-----------------------------------------------------------------------------
(* Commands of the webview, run by the backend *)

\* PtyManager::close
Close ==
  /\ open
  /\ open' = FALSE /\ closed' = TRUE /\ asleep' = {}
  /\ UNCHANGED <<pending, scroll, total, outstanding,
                 readerVars, emitterVars, viewVars, histVars>>

\* PtyManager::ack_data
AckData ==
  /\ ackNet # <<>>
  /\ ackNet' = Tail(ackNet)
  /\ IF open
       THEN outstanding' = SatSub(outstanding, Head(ackNet)) /\ asleep' = {}
       ELSE UNCHANGED <<outstanding, asleep>>
  /\ UNCHANGED <<pending, scroll, total, closed, open, bus, wv, queue, snap, screen,
                 xbuf, reloads, readerVars, emitterVars, histVars>>

\* mutant: the snapshot does not write off what the old page never acknowledged
GetScrollbackMutant ==
  /\ wv = "frozen"
  /\ wv' = "restoring"
  /\ snap' = IF open THEN [lo |-> scroll, off |-> total] ELSE NoSnap
  /\ leaked' = FALSE
  /\ UNCHANGED <<outstanding, asleep, pending, scroll, total, closed, open, bus, queue,
                 screen, xbuf, ackNet, reloads, readerVars, emitterVars, spilled>>

\* PtyManager::scrollback: the snapshot, taken and answered while the view is frozen
GetScrollback ==
  /\ wv = "frozen"
  /\ wv' = "restoring"
  /\ IF open
       THEN /\ snap' = [lo |-> scroll, off |-> total]
            /\ outstanding' = 0 /\ asleep' = {} /\ leaked' = FALSE
       ELSE /\ snap' = NoSnap
            /\ UNCHANGED <<outstanding, asleep, leaked>>
  /\ UNCHANGED <<pending, scroll, total, closed, open, bus, queue, screen, xbuf, ackNet,
                 reloads, readerVars, emitterVars, spilled>>

-----------------------------------------------------------------------------
(* Webview *)

\* TerminalView.create after create_session answered: live from the start
CreateView ==
  /\ wv = "none" /\ open
  /\ wv' = "live"
  /\ UNCHANGED <<bus, queue, snap, screen, xbuf, ackNet, reloads,
                 chanVars, readerVars, emitterVars, histVars>>

\* adoptRemoteSession, or boot() after a reload: frozen until the snapshot is in
CreateFrozenView ==
  /\ wv \in {"none", "down"} /\ open
  /\ wv' = "frozen"
  /\ UNCHANGED <<bus, queue, snap, screen, xbuf, ackNet, reloads,
                 chanVars, readerVars, emitterVars, histVars>>

\* the page goes away with its listeners, its queue and its xterm buffers;
\* acks already sent to the backend still arrive
Reload ==
  /\ wv # "down" /\ reloads < MaxReloads
  /\ reloads' = reloads + 1
  /\ wv' = "down"
  /\ bus' = <<>> /\ queue' = <<>> /\ screen' = <<>> /\ xbuf' = <<>> /\ snap' = NoSnap
  /\ leaked' = (leaked \/ bus \o queue \o xbuf # <<>>)
  /\ UNCHANGED <<ackNet, chanVars, readerVars, emitterVars, spilled>>

\* TerminalView.dispose after close_session answered
Dispose ==
  /\ ~open /\ wv \in {"frozen", "restoring", "live"}
  /\ wv' = "none"
  /\ queue' = <<>> /\ screen' = <<>> /\ xbuf' = <<>> /\ snap' = NoSnap
  /\ leaked' = (leaked \/ queue \o xbuf # <<>>)
  /\ UNCHANGED <<bus, ackNet, reloads, chanVars, readerVars, emitterVars, spilled>>

\* how many of its oldest pieces feed() drops from the frozen queue to fit
\* FROZEN_QUEUE_CAP: each one with which the rest is too long, never the newest
Excess(q) ==
  Cardinality({i \in 1..(Len(q) - 1) : LenSum(SubSeq(q, i, Len(q))) > QueueCap})

\* TerminalView.feed
FeedNoView ==
  /\ bus # <<>> /\ wv = "none"
  /\ bus' = Tail(bus)
  /\ leaked' = TRUE
  /\ UNCHANGED <<wv, queue, snap, screen, xbuf, ackNet, reloads, spilled,
                 chanVars, readerVars, emitterVars>>

FeedFrozen ==
  /\ bus # <<>> /\ wv \in {"frozen", "restoring"}
  /\ bus' = Tail(bus)
  /\ LET q == Append(queue, Head(bus))
         n == Excess(q)
         unsaved == \E i \in 1..n : End(q[i]) > snap.off
     IN  /\ queue' = SubSeq(q, n + 1, Len(q))
         /\ leaked' = (leaked \/ unsaved)
         /\ spilled' = (spilled \/ (wv = "restoring" /\ unsaved))
  /\ UNCHANGED <<wv, snap, screen, xbuf, ackNet, reloads,
                 chanVars, readerVars, emitterVars>>

FeedLive ==
  /\ bus # <<>> /\ wv = "live"
  /\ bus' = Tail(bus)
  /\ screen' = Append(screen, Head(bus))
  /\ xbuf' = Append(xbuf, Head(bus))
  /\ UNCHANGED <<wv, queue, snap, ackNet, reloads, histVars,
                 chanVars, readerVars, emitterVars>>

\* xterm has consumed a piece: its write callback sends the ack
XtermConsume ==
  /\ xbuf # <<>>
  /\ xbuf' = Tail(xbuf)
  /\ ackNet' = Append(ackNet, Head(xbuf).len)
  /\ UNCHANGED <<bus, wv, queue, snap, screen, reloads, histVars,
                 chanVars, readerVars, emitterVars>>

\* TerminalView.restore: the snapshot, then the queued pieces that start at or
\* after its end; the others are duplicates and are dropped without an ack (they
\* are the head of the queue, which holds pieces in the order of their offsets)
SnapText == IF snap.off > snap.lo THEN <<[off |-> snap.lo, len |-> snap.off - snap.lo]>>
                                  ELSE <<>>
FreshMutant(p) == p.off > snap.off
Fresh(p) == p.off >= snap.off

Stale == Cardinality({i \in 1..Len(queue) : ~Fresh(queue[i])})

Restore ==
  /\ wv = "restoring"
  /\ wv' = "live"
  /\ LET kept == SubSeq(queue, Stale + 1, Len(queue))
     IN  /\ screen' = SnapText \o kept
         /\ xbuf' = xbuf \o kept
  /\ queue' = <<>>
  /\ UNCHANGED <<bus, snap, ackNet, reloads, histVars,
                 chanVars, readerVars, emitterVars>>

\* get_scrollback failed: restore(id, null) keeps the whole queue
RestoreFailed ==
  /\ wv = "frozen"
  /\ wv' = "live"
  /\ screen' = queue
  /\ xbuf' = xbuf \o queue
  /\ queue' = <<>>
  /\ UNCHANGED <<bus, snap, ackNet, reloads, histVars,
                 chanVars, readerVars, emitterVars>>

-----------------------------------------------------------------------------
Reader == ReadEof \/ PushWait \/ Push \/ MarkClosed \/ \E n \in 1..ReadMax : Read(n)

Emitter ==
  \/ EmitterSleep \/ EmitterWake \/ FlowSleep \/ FlowTake \/ FlowStall
  \/ AppendEmitted \/ EmitData \/ EmitterCheck \/ EmitExit

Webview ==
  \/ CreateView \/ CreateFrozenView \/ Reload \/ Dispose
  \/ FeedNoView \/ FeedFrozen \/ FeedLive \/ XtermConsume
  \/ GetScrollback \/ Restore \/ RestoreFailed \/ AckData \/ Close

Next == Reader \/ Emitter \/ Webview

\* The two threads run; the shell, the user and the webview need not.
Fairness ==
  /\ WF_vars(Push) /\ WF_vars(MarkClosed)
  /\ WF_vars(EmitterWake) /\ WF_vars(FlowTake) /\ WF_vars(FlowStall)
  /\ WF_vars(AppendEmitted) /\ WF_vars(EmitData)
  /\ WF_vars(EmitterCheck) /\ WF_vars(EmitExit)

SafetySpec == Init /\ [][Next]_vars
Spec == SafetySpec /\ Fairness
-----------------------------------------------------------------------------
(* Properties *)

\* Every variable has its type.
TypeOK ==
  /\ pending \in Nat /\ scroll \in Nat /\ total \in Nat /\ outstanding \in Nat
  /\ closed \in BOOLEAN /\ open \in BOOLEAN /\ asleep \subseteq Threads
  /\ rpc \in {"read", "push", "mark", "done"} /\ held \in Nat /\ got \in Nat
  /\ epc \in {"wait", "flow", "append", "send", "check", "end", "done"}
  /\ batch \in Nat /\ carry \in Nat /\ piece \in Piece /\ closedNow \in BOOLEAN
  /\ bus \in Seq(Piece) /\ queue \in Seq(Piece) /\ screen \in Seq(Piece)
  /\ xbuf \in Seq(Piece) /\ ackNet \in Seq(Nat)
  /\ wv \in {"none", "down", "frozen", "restoring", "live"}
  /\ snap \in [lo : Nat, off : Nat]
  /\ reloads \in Nat /\ dropped \in Nat /\ leaked \in BOOLEAN /\ spilled \in BOOLEAN

\* The exit notices of a session whose shell ended by itself come after all of
\* its output was emitted, but for an incomplete character at its very end
\* (pty.rs: "sent after the remaining output has all been flushed").
ExitAfterFlush ==
  epc = "done" /\ open => /\ total + carry = got
                          /\ carry <= CarryMax

\* Memory stays bounded however fast the shell writes and however dead the
\* webview is.  The reader stops at PENDING_CAP, so that pending is at most the
\* last read above it.  The emitter waits while FLOW_HIGH is unacknowledged, so
\* that one take, with what carve_utf8 had kept back, comes on top of less than
\* that; a close lets one more through.  The scrollback keeps CAP + SLACK.
TakeMax == PendingCap - 1 + ReadMax
BoundedMemory ==
  /\ pending <= TakeMax
  /\ outstanding < FlowHigh + CarryMax + (IF closed THEN 2 * TakeMax ELSE TakeMax)
  /\ total - scroll <= ScrollCap + ScrollSlack

\* The inductive invariant behind ExitAfterFlush and BoundedMemory: where every
\* unit the reader got is, what each program counter says of the buffers, and
\* that a take made after the close is the last one.
Accounted == total + (batch + carry + pending) + (held + dropped) = got
ReaderInv ==
  /\ held <= ReadMax
  /\ rpc # "push" => held = 0
  /\ rpc = "done" => closed
  /\ open /\ closed => rpc = "done"
  /\ open => dropped = 0
EmitterInv ==
  /\ carry <= CarryMax
  /\ epc \notin {"append", "send"} => batch = 0
  /\ epc = "append" => batch > 0
  /\ epc \in {"end", "done"} => closed /\ pending = 0
  /\ closedNow => closed /\ pending = 0 /\ epc \notin {"wait", "flow"}
FlowInv ==
  /\ pending <= TakeMax
  /\ outstanding + batch + carry
       < FlowHigh + CarryMax + (IF closedNow THEN 2 * TakeMax ELSE TakeMax)
  /\ scroll <= total /\ total - scroll <= ScrollCap + ScrollSlack
StreamInv == Accounted /\ ReaderInv /\ EmitterInv /\ FlowInv

\* Flow control never waits for an ack that cannot come: unless output was lost
\* with a page, a closed view or a dropped queue entry since the last reset, all
\* that the backend counts as unacknowledged is on its way to or from the webview.
AckTotal == LenSum([i \in 1..Len(ackNet) |-> [off |-> 0, len |-> ackNet[i]]])
DebtIsInFlight ==
  ~leaked /\ ~closed =>
    outstanding <= piece.len + LenSum(bus) + LenSum(queue) + LenSum(xbuf) + AckTotal

\* What the terminal shows is the emitted stream without a gap and in order,
\* unless a queue overflow threw away output newer than the snapshot; the only
\* overlap there can be is right after the snapshot, by pieces it already holds.
ScreenContiguous ==
  ~spilled =>
    \A i \in 2..Len(screen) :
      \/ screen[i].off = End(screen[i - 1])
      \/ /\ i = 2 /\ snap.off > 0 /\ End(screen[1]) = snap.off
         /\ End(screen[2]) <= snap.off

\* Output the reader pushed is taken by the emitter, acks or no acks.
PendingDrains == (pending > 0) ~> (pending = 0)

\* A closed channel leads to the exit notices, whatever the emitter waits for.
ExitFollowsClose == closed ~> (epc = "done")
=============================================================================
