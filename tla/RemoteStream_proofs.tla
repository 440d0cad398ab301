------------------------- MODULE RemoteStream_proofs -------------------------
(***************************************************************************)
(* Proof that RemoteStream implements LiveWindow, for any number of        *)
(* sessions, any capacities of the tap, the snapshot and the socket, and   *)
(* any number of broken connections.                                       *)
(*                                                                         *)
(* The invariant says how the four places a chunk passes fit together: the *)
(* channel (total), the subscription (sub.next), the messages on their way *)
(* (net) and the screen (text).  For one session they never go back, and   *)
(* between two neighbours nothing is left out unless a snapshot follows.   *)
(***************************************************************************)
EXTENDS RemoteStream, TLAPS

\* The number of the chunk that comes after what a message holds.
After(m) == IF m.t = "snap" THEN m.off ELSE m.off + 1

Subscribed(s) == sub # NoSub /\ sub.id = s

\* No message for session s at positions lo..hi of queue q.
Silent(q, s, lo, hi) == \A k \in lo..hi : q[k].id # s

SubInv == sub # NoSub => sub.id \in Sessions /\ sub.next <= total[sub.id]

MsgInv ==
  \A i \in DOMAIN net :
    /\ net[i].lo <= net[i].off /\ After(net[i]) <= total[net[i].id]
    /\ net[i].t = "snap" /\ net[i].lo = net[i].off => net[i].off = 0

\* Messages of one session go on where the one before ended, or are a snapshot
\* that reaches at least as far.
OrderInv ==
  \A i, j \in DOMAIN net :
    i < j /\ net[i].id = net[j].id =>
      /\ After(net[i]) <= net[j].off
      /\ net[j].t = "data" /\ Silent(net, net[j].id, i + 1, j - 1) =>
           net[j].off = After(net[i])

\* The subscription goes on where the last message ended.
SourceInv ==
  sub # NoSub =>
    \A i \in DOMAIN net :
      net[i].id = sub.id =>
        /\ After(net[i]) <= sub.next
        /\ Silent(net, sub.id, i + 1, Len(net)) => After(net[i]) = sub.next

\* The screen is not ahead of anything that is still to come.
ScreenInv ==
  /\ viewId = NoSession => text = <<>> /\ snapOff = NullOff
  /\ viewId # NoSession => Window!EndOf(text) <= total[viewId]
  /\ snapOff # NullOff => snapOff <= Window!EndOf(text)
  /\ \A j \in DOMAIN net : net[j].id = viewId => Window!EndOf(text) <= net[j].off
  /\ Subscribed(viewId) => Window!EndOf(text) <= sub.next

\* A synced screen ends where the next message, or the subscription, goes on.
SyncInv ==
  snapOff # NullOff =>
    /\ \A j \in DOMAIN net :
         net[j].id = viewId /\ net[j].t = "data" /\ Silent(net, viewId, 1, j - 1) =>
           net[j].off = Window!EndOf(text)
    /\ Subscribed(viewId) /\ Silent(net, viewId, 1, Len(net)) =>
         Window!EndOf(text) = sub.next

LinkInv == ~online => net = <<>> /\ sub = NoSub

FlowInv == SubInv /\ MsgInv /\ OrderInv /\ SourceInv /\ ScreenInv /\ SyncInv /\ LinkInv

RemoteInv == TypeOK /\ FlowInv

-----------------------------------------------------------------------------
(* Queues of messages and the text *)

LEMMA TailIndex ==
  ASSUME NEW q \in Seq(Msg), q # <<>>
  PROVE  /\ Tail(q) \in Seq(Msg) /\ Len(Tail(q)) = Len(q) - 1
         /\ \A i \in DOMAIN Tail(q) : i + 1 \in DOMAIN q /\ Tail(q)[i] = q[i + 1]
         /\ 1 \in DOMAIN q /\ Head(q) = q[1] /\ Head(q) \in Msg
  OBVIOUS

LEMMA AppendIndex ==
  ASSUME NEW q \in Seq(Msg), NEW m \in Msg
  PROVE  /\ Append(q, m) \in Seq(Msg) /\ Len(Append(q, m)) = Len(q) + 1
         /\ DOMAIN Append(q, m) = 1..(Len(q) + 1)
         /\ \A i \in DOMAIN q : Append(q, m)[i] = q[i]
         /\ Append(q, m)[Len(q) + 1] = m
  OBVIOUS

LEMMA MsgType ==
  ASSUME NEW q \in Seq(Msg), NEW i \in DOMAIN q
  PROVE  /\ q[i] \in Msg /\ i \in 1..Len(q)
         /\ q[i].t \in {"snap", "data"} /\ q[i].id \in Sessions
         /\ q[i].lo \in Nat /\ q[i].off \in Nat /\ After(q[i]) \in Nat
<1>1. q[i] \in Msg /\ i \in 1..Len(q)
  OBVIOUS
<1>2. QED
  BY <1>1 DEF Msg, After

\* What is silent in a queue without its first message.
LEMMA SilentTail ==
  ASSUME NEW q \in Seq(Msg), q # <<>>, NEW s, NEW lo \in Nat \ {0}, NEW hi \in Int,
         hi <= Len(q) - 1
  PROVE  Silent(Tail(q), s, lo, hi) <=> Silent(q, s, lo + 1, hi + 1)
<1>1. ASSUME Silent(Tail(q), s, lo, hi), NEW k \in (lo + 1)..(hi + 1)
      PROVE  q[k].id # s
  <2>1. k - 1 \in lo..hi /\ k - 1 \in DOMAIN Tail(q)
    BY TailIndex
  <2>2. Tail(q)[k - 1] = q[(k - 1) + 1]
    BY <2>1, TailIndex
  <2>3. QED
    BY <1>1, <2>1, <2>2 DEF Silent
<1>2. ASSUME Silent(q, s, lo + 1, hi + 1), NEW k \in lo..hi
      PROVE  Tail(q)[k].id # s
  <2>1. k \in DOMAIN Tail(q) /\ k + 1 \in (lo + 1)..(hi + 1)
    BY TailIndex
  <2>2. QED
    BY <1>2, <2>1, TailIndex DEF Silent
<1>3. QED
  BY <1>1, <1>2 DEF Silent

\* What is silent in a queue with a message more.
LEMMA SilentAppend ==
  ASSUME NEW q \in Seq(Msg), NEW m \in Msg, NEW s, NEW lo \in Nat \ {0}, NEW hi \in Int,
         hi <= Len(q)
  PROVE  Silent(Append(q, m), s, lo, hi) <=> Silent(q, s, lo, hi)
<1>1. \A k \in lo..hi : k \in DOMAIN q
  OBVIOUS
<1>2. QED
  BY <1>1, AppendIndex DEF Silent

LEMMA EndOfEmpty == Window!EndOf(<<>>) = 0
  BY DEF Window!EndOf

LEMMA EndOfType ==
  ASSUME NEW t \in Seq(Sessions \X Nat)
  PROVE  Window!EndOf(t) \in Nat
<1>1. CASE t = <<>>
  BY <1>1 DEF Window!EndOf
<1>2. CASE t # <<>>
  <2>1. t[Len(t)] \in Sessions \X Nat
    BY <1>2
  <2>2. QED
    BY <1>2, <2>1 DEF Window!EndOf
<1>3. QED
  BY <1>1, <1>2

LEMMA EndOfAppend ==
  ASSUME NEW t \in Seq(Sessions \X Nat), NEW s \in Sessions, NEW n \in Nat
  PROVE  /\ Append(t, <<s, n>>) \in Seq(Sessions \X Nat)
         /\ Window!EndOf(Append(t, <<s, n>>)) = n + 1
<1>1. <<s, n>> \in Sessions \X Nat
  OBVIOUS
<1>2. /\ Append(t, <<s, n>>) \in Seq(Sessions \X Nat)
      /\ Len(Append(t, <<s, n>>)) = Len(t) + 1
      /\ Append(t, <<s, n>>)[Len(t) + 1] = <<s, n>>
  BY <1>1
<1>3. Append(t, <<s, n>>) # <<>>
  BY <1>2
<1>4. QED
  BY <1>2, <1>3 DEF Window!EndOf

\* A snapshot ends where it says.
LEMMA EndOfChunks ==
  ASSUME NEW s \in Sessions, NEW lo \in Nat, NEW hi \in Nat, lo <= hi, lo = hi => hi = 0
  PROVE  /\ Chunks(s, lo, hi) \in Seq(Sessions \X Nat)
         /\ Window!EndOf(Chunks(s, lo, hi)) = hi
<1> DEFINE t == Chunks(s, lo, hi)
<1>1. hi - lo \in Nat
  OBVIOUS
<1>2. \A i \in 1..(hi - lo) : <<s, lo + i - 1>> \in Sessions \X Nat
  OBVIOUS
<1>3. t \in [1..(hi - lo) -> Sessions \X Nat] /\ DOMAIN t = 1..(hi - lo)
  BY <1>2 DEF Chunks
<1>4. t \in Seq(Sessions \X Nat) /\ Len(t) = hi - lo
  BY <1>1, <1>3
<1>5. CASE lo = hi
  <2>1. t = <<>>
    BY <1>4, <1>5
  <2>2. QED
    BY <1>4, <1>5, <2>1, EndOfEmpty
<1>6. CASE lo < hi
  <2>1. hi - lo \in 1..(hi - lo) /\ t # <<>>
    BY <1>1, <1>4, <1>6
  <2>2. t[hi - lo] = <<s, lo + (hi - lo) - 1>>
    BY <2>1 DEF Chunks
  <2>3. QED
    BY <1>4, <2>1, <2>2 DEF Window!EndOf
<1>7. QED
  BY <1>5, <1>6

-----------------------------------------------------------------------------
(* The queue from the server to the phone *)

\* Whatever is taken off the queue, what is left of it fits.
LEMMA TakeKeepsQueue ==
  ASSUME RemoteInv, net # <<>>, net' = Tail(net), UNCHANGED <<total, sub>>
  PROVE  MsgInv' /\ OrderInv' /\ SourceInv'
<1> USE DEF RemoteInv, FlowInv
<1>1. net \in Seq(Msg) /\ Len(net) \in Nat /\ Len(net) >= 1
  BY DEF TypeOK
<1>2. /\ Len(net') = Len(net) - 1
      /\ DOMAIN net' = 1..(Len(net) - 1) /\ DOMAIN net = 1..Len(net)
      /\ \A i \in DOMAIN net' : i + 1 \in DOMAIN net /\ net'[i] = net[i + 1]
  <2>1. net' \in Seq(Msg) /\ Len(net') = Len(net) - 1
    BY <1>1, TailIndex
  <2>2. QED
    BY <1>1, <2>1, TailIndex
<1>3. MsgInv'
  BY <1>2 DEF MsgInv
<1>4. OrderInv'
  <2> SUFFICES ASSUME NEW i \in DOMAIN net', NEW j \in DOMAIN net',
                      i < j, net'[i].id = net'[j].id
               PROVE  /\ After(net'[i]) <= net'[j].off
                      /\ net'[j].t = "data" /\ Silent(net', net'[j].id, i + 1, j - 1) =>
                           net'[j].off = After(net'[i])
    BY DEF OrderInv
  <2>1. i + 1 \in DOMAIN net /\ j + 1 \in DOMAIN net /\ i + 1 < j + 1
    BY <1>2
  <2>2. net'[i] = net[i + 1] /\ net'[j] = net[j + 1]
    BY <1>2
  <2>3. After(net[i + 1]) <= net[j + 1].off
    BY <2>1, <2>2 DEF OrderInv
  <2>4. ASSUME net'[j].t = "data", Silent(net', net'[j].id, i + 1, j - 1)
        PROVE  net'[j].off = After(net'[i])
    <3>1. i + 1 \in Nat \ {0} /\ j - 1 \in Int /\ j - 1 <= Len(net) - 1
      BY <1>1, <1>2
    <3>2. Silent(net, net'[j].id, (i + 1) + 1, (j - 1) + 1)
      BY <1>1, <2>4, <3>1, SilentTail
    <3>3. (j - 1) + 1 = (j + 1) - 1
      BY <1>2
    <3>4. Silent(net, net[j + 1].id, (i + 1) + 1, (j + 1) - 1)
      BY <2>2, <3>2, <3>3
    <3>5. QED
      BY <2>1, <2>2, <2>4, <3>4 DEF OrderInv
  <2>5. QED
    BY <2>2, <2>3, <2>4
<1>5. SourceInv'
  <2> SUFFICES ASSUME sub # NoSub, NEW i \in DOMAIN net', net'[i].id = sub.id
               PROVE  /\ After(net'[i]) <= sub.next
                      /\ Silent(net', sub.id, i + 1, Len(net')) => After(net'[i]) = sub.next
    BY DEF SourceInv
  <2>1. i + 1 \in DOMAIN net /\ net'[i] = net[i + 1]
    BY <1>2
  <2>2. ASSUME Silent(net', sub.id, i + 1, Len(net'))
        PROVE  Silent(net, sub.id, (i + 1) + 1, Len(net))
    <3>1. i + 1 \in Nat \ {0} /\ Len(net') \in Int /\ Len(net') <= Len(net) - 1
      BY <1>1, <1>2
    <3>2. Silent(net, sub.id, (i + 1) + 1, Len(net') + 1)
      BY <1>1, <2>2, <3>1, SilentTail
    <3>3. Len(net') + 1 = Len(net)
      BY <1>1, <1>2
    <3>4. QED
      BY <3>2, <3>3
  <2>3. QED
    BY <2>1, <2>2 DEF SourceInv
<1>6. QED
  BY <1>3, <1>4, <1>5

\* A message the server may append: a snapshot of all there is, or the next
\* chunk of the subscription.
Appendable(m) ==
  /\ m.lo <= m.off /\ After(m) <= total[m.id]
  /\ m.t = "snap" /\ m.lo = m.off => m.off = 0
  /\ \/ m.t = "snap" /\ m.off = total[m.id]
     \/ m.t = "data" /\ Subscribed(m.id) /\ m.off = sub.next

\* Whatever the server appends, the queue still fits.
LEMMA AppendKeepsQueue ==
  ASSUME RemoteInv, NEW m \in Msg, Appendable(m),
         net' = Append(net, m), sub' = [id |-> m.id, next |-> After(m)],
         UNCHANGED total
  PROVE  SubInv' /\ MsgInv' /\ OrderInv' /\ SourceInv'
<1> USE DEF RemoteInv, FlowInv
<1>1. net \in Seq(Msg) /\ Len(net) \in Nat
  BY DEF TypeOK
<1>2. /\ m.t \in {"snap", "data"} /\ m.id \in Sessions
      /\ m.lo \in Nat /\ m.off \in Nat /\ After(m) \in Nat
  BY DEF Msg, After
<1>3. /\ Len(net') = Len(net) + 1 /\ DOMAIN net' = 1..(Len(net) + 1)
      /\ DOMAIN net = 1..Len(net)
      /\ (\A i \in DOMAIN net : net'[i] = net[i]) /\ net'[Len(net) + 1] = m
  BY <1>1, AppendIndex
<1>4. sub'.id = m.id /\ sub'.next = After(m) /\ sub' # NoSub
  <2>1. m.id # NoSession
    BY <1>2, RemoteAssumption
  <2>2. QED
    BY <2>1 DEF NoSub
<1>5. \A i \in DOMAIN net' : i \in DOMAIN net \/ i = Len(net) + 1
  BY <1>1, <1>3
<1>6. SubInv'
  BY <1>2, <1>4 DEF SubInv, Appendable
<1>7. MsgInv'
  BY <1>3, <1>5 DEF MsgInv, Appendable
<1>8. \A i \in DOMAIN net : net[i].id = m.id => After(net[i]) <= m.off
  BY <1>2 DEF Appendable, MsgInv, SourceInv, Subscribed
<1>9. m.t = "data" =>
        \A i \in DOMAIN net : net[i].id = m.id /\ Silent(net, m.id, i + 1, Len(net)) =>
          After(net[i]) = m.off
  BY <1>2 DEF Appendable, SourceInv, Subscribed
<1>10. OrderInv'
  <2> SUFFICES ASSUME NEW i \in DOMAIN net', NEW j \in DOMAIN net',
                      i < j, net'[i].id = net'[j].id
               PROVE  /\ After(net'[i]) <= net'[j].off
                      /\ net'[j].t = "data" /\ Silent(net', net'[j].id, i + 1, j - 1) =>
                           net'[j].off = After(net'[i])
    BY DEF OrderInv
  <2>1. i \in DOMAIN net /\ net'[i] = net[i] /\ i + 1 \in Nat \ {0}
    BY <1>1, <1>3
  <2>2. CASE j \in DOMAIN net
    <3>1. net'[j] = net[j] /\ j - 1 \in Int /\ j - 1 <= Len(net)
      BY <1>1, <1>3, <2>2
    <3>2. Silent(net', net'[j].id, i + 1, j - 1) <=> Silent(net, net[j].id, i + 1, j - 1)
      BY <1>1, <2>1, <3>1, SilentAppend
    <3>3. QED
      BY <2>1, <2>2, <3>1, <3>2 DEF OrderInv
  <2>3. CASE j = Len(net) + 1
    <3>1. net'[j] = m /\ j - 1 = Len(net)
      BY <1>1, <1>3, <2>3
    <3>2. Silent(net', m.id, i + 1, Len(net)) <=> Silent(net, m.id, i + 1, Len(net))
      BY <1>1, <2>1, SilentAppend
    <3>3. QED
      BY <1>8, <1>9, <2>1, <3>1, <3>2
  <2>4. QED
    BY <1>5, <2>2, <2>3
<1>11. SourceInv'
  <2> SUFFICES ASSUME NEW i \in DOMAIN net', net'[i].id = m.id
               PROVE  /\ After(net'[i]) <= After(m)
                      /\ Silent(net', m.id, i + 1, Len(net')) => After(net'[i]) = After(m)
    BY <1>4 DEF SourceInv
  <2>1. CASE i \in DOMAIN net
    <3>1. net'[i] = net[i] /\ After(net[i]) \in Nat
      BY <1>1, <1>3, <2>1, MsgType
    <3>2. After(net[i]) <= After(m)
      BY <1>2, <1>8, <2>1, <3>1 DEF After
    <3>3. ~Silent(net', m.id, i + 1, Len(net'))
      <4>1. Len(net) + 1 \in (i + 1)..Len(net') /\ net'[Len(net) + 1].id = m.id
        BY <1>1, <1>3, <2>1
      <4>2. QED
        BY <4>1 DEF Silent
    <3>4. QED
      BY <3>1, <3>2, <3>3
  <2>2. CASE i = Len(net) + 1
    BY <1>2, <1>3, <2>2
  <2>3. QED
    BY <1>5, <2>1, <2>2
<1>12. QED
  BY <1>6, <1>7, <1>10, <1>11

-----------------------------------------------------------------------------
(* The screen *)

LEMMA AppendKeepsScreen ==
  ASSUME RemoteInv, NEW m \in Msg, Appendable(m),
         net' = Append(net, m), sub' = [id |-> m.id, next |-> After(m)],
         UNCHANGED <<total, viewId, snapOff, text>>
  PROVE  ScreenInv' /\ SyncInv'
<1> USE DEF RemoteInv, FlowInv
<1>1. net \in Seq(Msg) /\ Len(net) \in Nat
  BY DEF TypeOK
<1>2. /\ m.t \in {"snap", "data"} /\ m.id \in Sessions
      /\ m.lo \in Nat /\ m.off \in Nat /\ After(m) \in Nat /\ m.off <= After(m)
  BY DEF Msg, After
<1>3. /\ Len(net') = Len(net) + 1 /\ DOMAIN net' = 1..(Len(net) + 1)
      /\ DOMAIN net = 1..Len(net)
      /\ (\A i \in DOMAIN net : net'[i] = net[i]) /\ net'[Len(net) + 1] = m
  BY <1>1, AppendIndex
<1>4. Subscribed(viewId)' <=> m.id = viewId
  <2>1. m.id # NoSession
    BY <1>2, RemoteAssumption
  <2>2. sub' # NoSub /\ sub'.id = m.id
    BY <2>1 DEF NoSub
  <2>3. QED
    BY <2>2 DEF Subscribed
<1>5. \A j \in DOMAIN net' : j \in DOMAIN net \/ j = Len(net) + 1
  BY <1>1, <1>3
<1>6. Window!EndOf(text) \in Nat
  BY EndOfType DEF TypeOK
<1>7. m.id = viewId => Window!EndOf(text) <= m.off
  <2>1. m.id = viewId => viewId # NoSession
    BY <1>2, RemoteAssumption
  <2>2. QED
    BY <2>1 DEF Appendable, ScreenInv
<1>8. ScreenInv'
  <2>1. (\A j \in DOMAIN net : net[j].id = viewId => Window!EndOf(text) <= net[j].off)'
    BY <1>3, <1>5, <1>7 DEF ScreenInv
  <2>2. Subscribed(viewId)' => Window!EndOf(text) <= sub'.next
    BY <1>2, <1>4, <1>6, <1>7
  <2>3. Window!EndOf(text)' = Window!EndOf(text)
    BY DEF Window!EndOf
  <2>4. QED
    BY <2>1, <2>2, <2>3 DEF ScreenInv
<1>9. SyncInv'
  <2> SUFFICES ASSUME snapOff # NullOff
               PROVE  /\ \A j \in DOMAIN net' :
                           net'[j].id = viewId /\ net'[j].t = "data"
                           /\ Silent(net', viewId, 1, j - 1) =>
                             net'[j].off = Window!EndOf(text)
                      /\ ~(Subscribed(viewId)' /\ Silent(net', viewId, 1, Len(net')))
    BY DEF SyncInv, Window!EndOf
  <2>1. ASSUME NEW j \in DOMAIN net', net'[j].id = viewId, net'[j].t = "data",
               Silent(net', viewId, 1, j - 1)
        PROVE  net'[j].off = Window!EndOf(text)
    <3>1. j - 1 \in Int /\ j - 1 <= Len(net)
      BY <1>1, <1>3
    <3>2. Silent(net, viewId, 1, j - 1)
      BY <1>1, <2>1, <3>1, SilentAppend
    <3>3. CASE j \in DOMAIN net
      BY <1>3, <2>1, <3>2, <3>3 DEF SyncInv
    <3>4. CASE j = Len(net) + 1
      <4>1. net'[j] = m /\ j - 1 = Len(net)
        BY <1>1, <1>3, <3>4
      <4>2. Subscribed(viewId) /\ m.off = sub.next
        BY <2>1, <4>1 DEF Appendable
      <4>3. QED
        BY <3>2, <4>1, <4>2 DEF SyncInv
    <3>5. QED
      BY <1>5, <3>3, <3>4
  <2>2. m.id = viewId => ~Silent(net', viewId, 1, Len(net'))
    <3>1. Len(net) + 1 \in 1..Len(net')
      BY <1>1, <1>3
    <3>2. QED
      BY <1>3, <3>1 DEF Silent
  <2>3. QED
    BY <1>4, <2>1, <2>2
<1>10. QED
  BY <1>8, <1>9

\* A message that is shown leaves the screen at its end.
LEMMA ShownKeepsScreen ==
  ASSUME RemoteInv, net # <<>>, net' = Tail(net), UNCHANGED <<total, sub, viewId>>,
         Head(net).id = viewId, Window!EndOf(text)' = After(Head(net)),
         snapOff' \in Nat, snapOff' <= After(Head(net))
  PROVE  ScreenInv' /\ SyncInv'
<1> USE DEF RemoteInv, FlowInv
<1>1. net \in Seq(Msg) /\ Len(net) \in Nat /\ Len(net) >= 1
  BY DEF TypeOK
<1>2. /\ Len(net') = Len(net) - 1
      /\ DOMAIN net' = 1..(Len(net) - 1) /\ DOMAIN net = 1..Len(net)
      /\ \A i \in DOMAIN net' : i + 1 \in DOMAIN net /\ net'[i] = net[i + 1]
      /\ 1 \in DOMAIN net /\ Head(net) = net[1]
  <2>1. net' \in Seq(Msg) /\ Len(net') = Len(net) - 1
    BY <1>1, TailIndex
  <2>2. QED
    BY <1>1, <2>1, TailIndex
<1>3. net[1].id = viewId /\ viewId \in Sessions /\ viewId # NoSession
  BY <1>1, <1>2, MsgType, RemoteAssumption
<1>4. \A j \in DOMAIN net' : net'[j].id = viewId => After(net[1]) <= net'[j].off
  <2> SUFFICES ASSUME NEW j \in DOMAIN net', net'[j].id = viewId
               PROVE  After(net[1]) <= net'[j].off
    OBVIOUS
  <2>1. j + 1 \in DOMAIN net /\ 1 < j + 1 /\ net'[j] = net[j + 1]
    BY <1>2
  <2>2. QED
    BY <1>2, <1>3, <2>1 DEF OrderInv
<1>5. Subscribed(viewId) => After(net[1]) <= sub.next
  BY <1>2, <1>3 DEF SourceInv, Subscribed
<1>6. ScreenInv'
  <2>1. (viewId # NoSession => Window!EndOf(text) <= total[viewId])'
    BY <1>2, <1>3 DEF MsgInv
  <2>2. (\A j \in DOMAIN net : net[j].id = viewId => Window!EndOf(text) <= net[j].off)'
    BY <1>2, <1>4
  <2>3. (Subscribed(viewId) => Window!EndOf(text) <= sub.next)'
    BY <1>2, <1>5 DEF Subscribed
  <2>4. QED
    BY <1>3, <2>1, <2>2, <2>3 DEF ScreenInv
<1>7. SyncInv'
  <2>1. ASSUME NEW j \in DOMAIN net', net'[j].id = viewId, net'[j].t = "data",
               Silent(net', viewId, 1, j - 1)
        PROVE  net'[j].off = After(net[1])
    <3>1. j - 1 \in Int /\ j - 1 <= Len(net) - 1 /\ 1 \in Nat \ {0}
      BY <1>1, <1>2
    <3>2. Silent(net, viewId, 1 + 1, (j - 1) + 1)
      BY <1>1, <2>1, <3>1, SilentTail
    <3>3. j + 1 \in DOMAIN net /\ 1 < j + 1 /\ net'[j] = net[j + 1]
          /\ (j - 1) + 1 = (j + 1) - 1
      BY <1>2
    <3>4. Silent(net, viewId, 1 + 1, (j + 1) - 1)
      BY <3>2, <3>3
    <3>5. QED
      BY <1>2, <1>3, <2>1, <3>3, <3>4 DEF OrderInv
  <2>2. ASSUME Subscribed(viewId), Silent(net', viewId, 1, Len(net'))
        PROVE  After(net[1]) = sub.next
    <3>1. Len(net') \in Int /\ Len(net') <= Len(net) - 1 /\ Len(net') + 1 = Len(net)
          /\ 1 \in Nat \ {0}
      BY <1>1, <1>2
    <3>2. Silent(net, viewId, 1 + 1, Len(net') + 1)
      BY <1>1, <2>2, <3>1, SilentTail
    <3>3. Silent(net, sub.id, 1 + 1, Len(net))
      BY <2>2, <3>1, <3>2 DEF Subscribed
    <3>4. QED
      BY <1>2, <1>3, <2>2, <3>3 DEF SourceInv, Subscribed
  <2>3. Subscribed(viewId)' <=> Subscribed(viewId)
    BY DEF Subscribed
  <2>4. QED
    BY <1>2, <2>1, <2>2, <2>3 DEF SyncInv
<1>8. QED
  BY <1>6, <1>7

\* A message that is not shown: it is of another session, or not awaited.
LEMMA SkippedKeepsScreen ==
  ASSUME RemoteInv, net # <<>>, net' = Tail(net),
         UNCHANGED <<total, sub, viewId, snapOff, text>>,
         Head(net).id # viewId \/ snapOff = NullOff
  PROVE  ScreenInv' /\ SyncInv'
<1> USE DEF RemoteInv, FlowInv
<1>1. net \in Seq(Msg) /\ Len(net) \in Nat /\ Len(net) >= 1
  BY DEF TypeOK
<1>2. /\ Len(net') = Len(net) - 1
      /\ DOMAIN net' = 1..(Len(net) - 1) /\ DOMAIN net = 1..Len(net)
      /\ \A i \in DOMAIN net' : i + 1 \in DOMAIN net /\ net'[i] = net[i + 1]
      /\ 1 \in DOMAIN net /\ Head(net) = net[1]
  <2>1. net' \in Seq(Msg) /\ Len(net') = Len(net) - 1
    BY <1>1, TailIndex
  <2>2. QED
    BY <1>1, <2>1, TailIndex
<1>3. Subscribed(viewId)' <=> Subscribed(viewId)
  BY DEF Subscribed
<1>4. Window!EndOf(text)' = Window!EndOf(text)
  BY DEF Window!EndOf
<1>5. ScreenInv'
  BY <1>2, <1>3, <1>4 DEF ScreenInv
<1>6. ASSUME Head(net).id # viewId, NEW hi \in Int, hi <= Len(net) - 1,
             Silent(net', viewId, 1, hi)
      PROVE  Silent(net, viewId, 1, hi + 1)
  <2>1. Silent(net, viewId, 1 + 1, hi + 1)
    BY <1>1, <1>6, SilentTail
  <2>2. \A k \in 1..(hi + 1) : k = 1 \/ k \in (1 + 1)..(hi + 1)
    BY <1>6
  <2>3. QED
    BY <1>2, <1>6, <2>1, <2>2 DEF Silent
<1>7. CASE Head(net).id # viewId
  <2>1. ASSUME snapOff # NullOff, NEW j \in DOMAIN net',
               net'[j].id = viewId, net'[j].t = "data", Silent(net', viewId, 1, j - 1)
        PROVE  net'[j].off = Window!EndOf(text)
    <3>1. j - 1 \in Int /\ j - 1 <= Len(net) - 1 /\ (j - 1) + 1 = (j + 1) - 1
      BY <1>1, <1>2
    <3>2. Silent(net, viewId, 1, (j - 1) + 1)
      BY <1>6, <1>7, <2>1, <3>1
    <3>3. j + 1 \in DOMAIN net /\ net'[j] = net[j + 1]
          /\ Silent(net, viewId, 1, (j + 1) - 1)
      BY <1>2, <3>1, <3>2
    <3>4. QED
      BY <2>1, <3>3 DEF SyncInv
  <2>2. ASSUME snapOff # NullOff, Subscribed(viewId), Silent(net', viewId, 1, Len(net'))
        PROVE  Window!EndOf(text) = sub.next
    <3>1. Len(net') \in Int /\ Len(net') <= Len(net) - 1 /\ Len(net') + 1 = Len(net)
      BY <1>1, <1>2
    <3>2. Silent(net, viewId, 1, Len(net') + 1)
      BY <1>6, <1>7, <2>2, <3>1
    <3>3. Silent(net, viewId, 1, Len(net))
      BY <3>1, <3>2
    <3>4. QED
      BY <2>2, <3>3 DEF SyncInv
  <2>3. SyncInv'
    BY <1>2, <1>3, <1>4, <2>1, <2>2 DEF SyncInv
  <2>4. QED
    BY <1>5, <2>3
<1>8. CASE snapOff = NullOff
  BY <1>5, <1>8 DEF SyncInv
<1>9. QED
  BY <1>7, <1>8

-----------------------------------------------------------------------------
(* The invariant *)

LEMMA InitRemote == Init => RemoteInv
<1> SUFFICES ASSUME Init PROVE RemoteInv
  OBVIOUS
<1>1. TypeOK
  <2>1. /\ total \in [Sessions -> Nat] /\ drops \in Nat
        /\ chan \in [Sessions -> {"open", "closed", "gone"}]
        /\ sub \in [id : Sessions \cup {NoSession}, next : Nat]
    BY DEF Init, NoSub
  <2>2. /\ net \in Seq(Msg) /\ req \in Seq(Sessions \cup {NoSession})
        /\ text \in Seq(Sessions \X Nat)
    BY DEF Init
  <2>3. /\ online \in BOOLEAN /\ viewId \in Sessions \cup {NoSession}
        /\ snapOff \in Nat \cup {NullOff}
    BY DEF Init
  <2>4. QED
    BY <2>1, <2>2, <2>3 DEF TypeOK
<1>2. SubInv /\ MsgInv /\ OrderInv /\ SourceInv /\ LinkInv
  BY DEF Init, SubInv, MsgInv, OrderInv, SourceInv, LinkInv
<1>3. ScreenInv /\ SyncInv
  BY EndOfEmpty DEF Init, ScreenInv, SyncInv, Subscribed
<1>4. QED
  BY <1>1, <1>2, <1>3 DEF RemoteInv, FlowInv

\* The end of a subscription asks less of the queue and the screen.
LEMMA UnsubscribeKeepsFlow ==
  ASSUME RemoteInv, sub' = NoSub, UNCHANGED <<total, net, online, phoneVars>>
  PROVE  FlowInv'
<1> USE DEF RemoteInv, FlowInv, phoneVars
<1>1. SubInv' /\ SourceInv'
  BY DEF SubInv, SourceInv
<1>2. MsgInv' /\ OrderInv' /\ LinkInv'
  BY DEF MsgInv, OrderInv, Silent, LinkInv
<1>3. ~Subscribed(viewId)' /\ Window!EndOf(text)' = Window!EndOf(text)
  BY DEF Subscribed, Window!EndOf
<1>4. ScreenInv' /\ SyncInv'
  BY <1>3 DEF ScreenInv, SyncInv, Silent
<1>5. QED
  BY <1>1, <1>2, <1>4

\* So does a broken connection.
LEMMA DropKeepsFlow == ASSUME RemoteInv, Drop PROVE FlowInv'
<1> USE DEF RemoteInv, FlowInv, Drop, sessionVars, phoneVars
<1>1. SubInv' /\ MsgInv' /\ OrderInv' /\ SourceInv' /\ LinkInv'
  BY DEF SubInv, MsgInv, OrderInv, SourceInv, LinkInv
<1>2. ~Subscribed(viewId)' /\ Window!EndOf(text)' = Window!EndOf(text)
  BY DEF Subscribed, Window!EndOf
<1>3. ScreenInv' /\ SyncInv'
  BY <1>2 DEF ScreenInv, SyncInv
<1>4. QED
  BY <1>1, <1>3

\* A chunk more, or the end of a session, changes nothing that is on its way.
LEMMA SessionKeepsFlow ==
  ASSUME RemoteInv, total' \in [Sessions -> Nat],
         \A s \in Sessions : total[s] <= total'[s],
         UNCHANGED <<sub, net, online, phoneVars>>
  PROVE  FlowInv'
<1> USE DEF RemoteInv, FlowInv, phoneVars
<1>1. total \in [Sessions -> Nat] /\ sub.next \in Nat /\ Window!EndOf(text) \in Nat
  BY EndOfType DEF TypeOK
<1>2. SubInv'
  BY <1>1 DEF SubInv
<1>3. MsgInv'
  <2> SUFFICES ASSUME NEW i \in DOMAIN net PROVE After(net[i]) <= total'[net[i].id]
    BY DEF MsgInv
  <2>1. net[i].id \in Sessions /\ After(net[i]) \in Nat
    BY MsgType DEF TypeOK
  <2>2. After(net[i]) <= total[net[i].id] /\ total[net[i].id] <= total'[net[i].id]
    BY <2>1 DEF MsgInv
  <2>3. QED
    BY <1>1, <2>1, <2>2
<1>4. OrderInv' /\ SourceInv' /\ LinkInv'
  BY DEF OrderInv, SourceInv, Silent, LinkInv
<1>5. Subscribed(viewId)' = Subscribed(viewId) /\ Window!EndOf(text)' = Window!EndOf(text)
  BY DEF Subscribed, Window!EndOf
<1>6. ScreenInv'
  <2>1. viewId # NoSession => Window!EndOf(text) <= total'[viewId]
    <3>1. viewId # NoSession => viewId \in Sessions
      BY DEF TypeOK
    <3>2. QED
      BY <1>1, <3>1 DEF ScreenInv
  <2>2. QED
    BY <1>5, <2>1 DEF ScreenInv
<1>7. SyncInv'
  BY <1>5 DEF SyncInv, Silent
<1>8. QED
  BY <1>2, <1>3, <1>4, <1>6, <1>7

\* A view that is opened or closed is empty and awaits a snapshot.
LEMMA TurnKeepsFlow ==
  ASSUME RemoteInv, viewId' \in Sessions \cup {NoSession}, snapOff' = NullOff,
         text' = <<>>, UNCHANGED <<total, sub, net, online>>
  PROVE  FlowInv'
<1> USE DEF RemoteInv, FlowInv
<1>1. SubInv' /\ MsgInv' /\ OrderInv' /\ SourceInv' /\ LinkInv'
  BY DEF SubInv, MsgInv, OrderInv, SourceInv, LinkInv, Silent
<1>2. Window!EndOf(text)' = 0
  BY EndOfEmpty
<1>3. ScreenInv'
  <2>1. viewId' # NoSession => total[viewId'] \in Nat
    BY DEF TypeOK
  <2>2. \A j \in DOMAIN net : net[j].off \in Nat
    BY MsgType DEF TypeOK
  <2>3. sub.next \in Nat
    BY DEF TypeOK
  <2>4. QED
    BY <1>2, <2>1, <2>2, <2>3 DEF ScreenInv
<1>4. SyncInv'
  BY DEF SyncInv
<1>5. QED
  BY <1>1, <1>3, <1>4

LEMMA ConnectKeepsFlow == ASSUME RemoteInv, Connect PROVE FlowInv'
<1> USE DEF RemoteInv, FlowInv, Connect, sessionVars
<1>1. net = <<>> /\ sub = NoSub
  BY DEF LinkInv
<1>2. SubInv' /\ MsgInv' /\ OrderInv' /\ SourceInv' /\ LinkInv'
  BY <1>1 DEF SubInv, MsgInv, OrderInv, SourceInv, LinkInv
<1>3. ~Subscribed(viewId)' /\ Window!EndOf(text)' = Window!EndOf(text)
  BY <1>1 DEF Subscribed, Window!EndOf
<1>4. ScreenInv' /\ SyncInv'
  BY <1>1, <1>3 DEF ScreenInv, SyncInv
<1>5. QED
  BY <1>2, <1>4

\* A message the server appends keeps the invariant.
LEMMA AppendKeepsInv ==
  ASSUME RemoteInv, NEW m \in Msg, Appendable(m),
         net' = Append(net, m), sub' = [id |-> m.id, next |-> After(m)],
         req' \in Seq(Sessions \cup {NoSession}), CanSend,
         UNCHANGED <<sessionVars, online, phoneVars, drops>>
  PROVE  RemoteInv'
<1> USE DEF sessionVars, phoneVars
<1>1. SubInv' /\ MsgInv' /\ OrderInv' /\ SourceInv'
  BY AppendKeepsQueue
<1>2. ScreenInv' /\ SyncInv'
  BY AppendKeepsScreen
<1>3. LinkInv'
  BY DEF LinkInv, CanSend
<1>4. TypeOK'
  <2>1. m.id \in Sessions /\ After(m) \in Nat
    BY DEF Msg, After
  <2>2. net' \in Seq(Msg)
    BY DEF RemoteInv, TypeOK
  <2>3. sub' \in [id : Sessions \cup {NoSession}, next : Nat]
    BY <2>1
  <2>4. QED
    BY <2>2, <2>3 DEF RemoteInv, TypeOK
<1>5. QED
  BY <1>1, <1>2, <1>3, <1>4 DEF RemoteInv, FlowInv

LEMMA SubscribeKeepsInv ==
  ASSUME RemoteInv, NEW s \in Sessions, Subscribe(s),
         req' \in Seq(Sessions \cup {NoSession}), CanSend,
         UNCHANGED <<sessionVars, online, phoneVars, drops>>
  PROVE  RemoteInv'
<1> DEFINE m == Snap(s, TailStart(s), total[s])
<1>1. total[s] \in Nat /\ TailCap \in Nat \ {0}
  BY RemoteAssumption DEF RemoteInv, TypeOK
<1>2. /\ TailStart(s) \in Nat /\ TailStart(s) <= total[s]
      /\ TailStart(s) = total[s] => total[s] = 0
  BY <1>1 DEF TailStart
<1>3. m.t = "snap" /\ m.id = s /\ m.lo = TailStart(s) /\ m.off = total[s]
  BY DEF Snap
<1>4. m \in Msg
  BY <1>1, <1>2 DEF Snap, Msg
<1>5. After(m) = total[s]
  BY <1>3 DEF After
<1>6. net' = Append(net, m) /\ sub' = [id |-> m.id, next |-> After(m)]
  BY <1>3, <1>5 DEF Subscribe
<1> HIDE DEF m
<1>7. Appendable(m)
  BY <1>1, <1>2, <1>3, <1>5 DEF Appendable
<1>8. QED
  BY <1>4, <1>6, <1>7, AppendKeepsInv

LEMMA UnsubscribeKeepsInv ==
  ASSUME RemoteInv, sub' = NoSub, UNCHANGED net,
         req' \in Seq(Sessions \cup {NoSession}),
         UNCHANGED <<sessionVars, online, phoneVars, drops>>
  PROVE  RemoteInv'
<1> USE DEF sessionVars
<1>1. FlowInv'
  BY UnsubscribeKeepsFlow
<1>2. TypeOK'
  BY DEF RemoteInv, TypeOK, NoSub, phoneVars
<1>3. QED
  BY <1>1, <1>2 DEF RemoteInv

LEMMA RequestTaken ==
  ASSUME RemoteInv, req # <<>>
  PROVE  /\ Head(req) \in Sessions \cup {NoSession}
         /\ Tail(req) \in Seq(Sessions \cup {NoSession})
  BY DEF RemoteInv, TypeOK

LEMMA RequestMade ==
  ASSUME RemoteInv, NEW s \in Sessions \cup {NoSession}
  PROVE  /\ Append(req, s) \in Seq(Sessions \cup {NoSession})
         /\ <<s>> \in Seq(Sessions \cup {NoSession})
         /\ req \in Seq(Sessions \cup {NoSession})
<1>1. req \in Seq(Sessions \cup {NoSession})
  BY DEF RemoteInv, TypeOK
<1>2. QED
  BY <1>1

LEMMA RecvSubKeeps == ASSUME RemoteInv, RecvSub PROVE RemoteInv'
<1>1. Head(req) \in Sessions /\ req' \in Seq(Sessions \cup {NoSession})
  BY RequestTaken DEF RecvSub
<1>2. CASE chan[Head(req)] = "open"
  BY <1>1, <1>2, SubscribeKeepsInv DEF RecvSub
<1>3. CASE chan[Head(req)] # "open"
  BY <1>1, <1>3, UnsubscribeKeepsInv DEF RecvSub
<1>4. QED
  BY <1>2, <1>3

LEMMA RecvUnsubKeeps == ASSUME RemoteInv, RecvUnsub PROVE RemoteInv'
  BY RequestTaken, UnsubscribeKeepsInv DEF RecvUnsub

LEMMA ForwardChunkKeeps == ASSUME RemoteInv, ForwardChunk PROVE RemoteInv'
<1>1. sub # NoSub
  BY DEF ForwardChunk, Behind
<1>2. sub.id \in Sessions /\ sub.next \in Nat /\ total[sub.id] \in Nat
  BY <1>1 DEF RemoteInv, FlowInv, SubInv, TypeOK
<1>3. sub.next < total[sub.id]
  BY <1>1, <1>2, RemoteAssumption DEF ForwardChunk, Behind
<1> DEFINE m == Data(sub.id, sub.next)
<1>4. /\ m.t = "data" /\ m.id = sub.id /\ m.lo = sub.next /\ m.off = sub.next
      /\ m \in Msg
  BY <1>2 DEF Data, Msg
<1>5. After(m) = sub.next + 1
  BY <1>4 DEF After
<1>6. sub = [id |-> sub.id, next |-> sub.next]
  BY DEF RemoteInv, TypeOK
<1>7. net' = Append(net, m) /\ sub' = [id |-> m.id, next |-> After(m)]
  BY <1>4, <1>5, <1>6 DEF ForwardChunk
<1>8. req' \in Seq(Sessions \cup {NoSession}) /\ CanSend
      /\ UNCHANGED <<sessionVars, online, phoneVars, drops>>
  BY DEF ForwardChunk, RemoteInv, TypeOK
<1> HIDE DEF m
<1>9. Appendable(m)
  BY <1>1, <1>2, <1>3, <1>4, <1>5 DEF Appendable, Subscribed
<1>10. QED
  BY <1>4, <1>7, <1>8, <1>9, AppendKeepsInv

LEMMA ResyncKeeps == ASSUME RemoteInv, Resync PROVE RemoteInv'
<1>1. sub # NoSub
  BY RemoteAssumption DEF Resync, Behind
<1>2. sub.id \in Sessions /\ req' \in Seq(Sessions \cup {NoSession})
  BY <1>1 DEF Resync, RemoteInv, FlowInv, SubInv, TypeOK
<1>3. CASE chan[sub.id] = "open"
  BY <1>2, <1>3, SubscribeKeepsInv DEF Resync
<1>4. CASE chan[sub.id] # "open"
  BY <1>2, <1>4, UnsubscribeKeepsInv DEF Resync
<1>5. QED
  BY <1>3, <1>4

LEMMA TapClosedKeeps == ASSUME RemoteInv, TapClosed PROVE RemoteInv'
<1>1. req' \in Seq(Sessions \cup {NoSession})
  BY DEF TapClosed, RemoteInv, TypeOK
<1>2. QED
  BY <1>1, UnsubscribeKeepsInv DEF TapClosed

LEMMA SessionKeeps ==
  ASSUME RemoteInv, NEW s \in Sessions, Emit(s) \/ CloseSession(s) \/ EndThreads(s)
  PROVE  RemoteInv'
<1>1. total' \in [Sessions -> Nat] /\ \A r \in Sessions : total[r] <= total'[r]
  <2>1. total \in [Sessions -> Nat]
    BY DEF RemoteInv, TypeOK
  <2>2. CASE Emit(s)
    BY <2>1, <2>2 DEF Emit
  <2>3. CASE CloseSession(s) \/ EndThreads(s)
    BY <2>1, <2>3 DEF CloseSession, EndThreads
  <2>4. QED
    BY <2>2, <2>3
<1>2. chan' \in [Sessions -> {"open", "closed", "gone"}]
  BY DEF Emit, CloseSession, EndThreads, RemoteInv, TypeOK
<1>3. UNCHANGED <<sub, net, req, online, phoneVars, drops>>
  BY DEF Emit, CloseSession, EndThreads
<1>4. FlowInv'
  BY <1>1, <1>3, SessionKeepsFlow
<1>5. TypeOK'
  BY <1>1, <1>2, <1>3 DEF RemoteInv, TypeOK, phoneVars
<1>6. QED
  BY <1>4, <1>5 DEF RemoteInv

LEMMA OpenViewKeeps ==
  ASSUME RemoteInv, NEW s \in Sessions, OpenView(s)
  PROVE  RemoteInv'
<1>1. /\ viewId' = s /\ text' = <<>> /\ snapOff' = NullOff
      /\ UNCHANGED <<total, chan, sub, net, online, drops>>
  BY DEF OpenView, SendSub, sessionVars
<1>2. req' \in Seq(Sessions \cup {NoSession})
  BY RequestMade DEF OpenView, SendSub
<1>3. FlowInv'
  BY <1>1, TurnKeepsFlow
<1>4. text' \in Seq(Sessions \X Nat)
  BY <1>1
<1>5. TypeOK'
  BY <1>1, <1>2, <1>4 DEF RemoteInv, TypeOK
<1>6. QED
  BY <1>3, <1>5 DEF RemoteInv

LEMMA CloseViewKeeps == ASSUME RemoteInv, CloseView PROVE RemoteInv'
<1>1. /\ viewId' = NoSession /\ text' = <<>> /\ snapOff' = NullOff
      /\ UNCHANGED <<total, chan, sub, net, online, drops>>
  BY DEF CloseView, sessionVars
<1>2. req' \in Seq(Sessions \cup {NoSession})
  BY RequestMade DEF CloseView
<1>3. FlowInv'
  BY <1>1, TurnKeepsFlow
<1>4. text' \in Seq(Sessions \X Nat)
  BY <1>1
<1>5. TypeOK'
  BY <1>1, <1>2, <1>4 DEF RemoteInv, TypeOK
<1>6. QED
  BY <1>3, <1>5 DEF RemoteInv

LEMMA DropKeeps == ASSUME RemoteInv, Drop PROVE RemoteInv'
<1>1. FlowInv'
  BY DropKeepsFlow
<1>2. TypeOK'
  <2>1. /\ net' \in Seq(Msg) /\ req' \in Seq(Sessions \cup {NoSession})
        /\ sub' \in [id : Sessions \cup {NoSession}, next : Nat]
    BY DEF Drop, NoSub
  <2>2. drops' \in Nat /\ online' \in BOOLEAN
    <3>1. drops \in Nat
      BY DEF RemoteInv, TypeOK
    <3>2. drops' = drops + 1 /\ online' = FALSE
      BY DEF Drop
    <3>3. drops' \in Nat
      BY <3>1, <3>2
    <3>4. online' \in BOOLEAN
      BY <3>2
    <3>5. QED
      BY <3>3, <3>4
  <2>3. UNCHANGED <<total, chan, viewId, snapOff, text>>
    BY DEF Drop, sessionVars, phoneVars
  <2>4. QED
    BY <2>1, <2>2, <2>3 DEF RemoteInv, TypeOK
<1>3. QED
  BY <1>1, <1>2 DEF RemoteInv

LEMMA ConnectKeeps == ASSUME RemoteInv, Connect PROVE RemoteInv'
<1>1. FlowInv'
  BY ConnectKeepsFlow
<1>2. TypeOK'
  <2>1. req' \in Seq(Sessions \cup {NoSession})
    <3>1. viewId \in Sessions \cup {NoSession}
      BY DEF RemoteInv, TypeOK
    <3>2. QED
      BY <3>1, RequestMade DEF Connect
  <2>2. snapOff' \in Nat \cup {NullOff}
    BY DEF Connect, RemoteInv, TypeOK
  <2>3. QED
    BY <2>1, <2>2 DEF Connect, RemoteInv, TypeOK, sessionVars
<1>3. QED
  BY <1>1, <1>2 DEF RemoteInv

\* What is known of the message the phone takes next.
LEMMA HeadOfNet ==
  ASSUME RemoteInv, net # <<>>
  PROVE  /\ Tail(net) \in Seq(Msg) /\ Head(net) = net[1] /\ 1 \in DOMAIN net
         /\ Head(net).t \in {"snap", "data"} /\ Head(net).id \in Sessions
         /\ Head(net).id # NoSession
         /\ Head(net).lo \in Nat /\ Head(net).off \in Nat
         /\ Head(net).lo <= Head(net).off
         /\ After(Head(net)) <= total[Head(net).id]
         /\ Head(net).t = "snap" /\ Head(net).lo = Head(net).off => Head(net).off = 0
<1>1. net \in Seq(Msg)
  BY DEF RemoteInv, TypeOK
<1>2. Tail(net) \in Seq(Msg) /\ 1 \in DOMAIN net /\ Head(net) = net[1]
  BY <1>1, TailIndex
<1>3. QED
  BY <1>1, <1>2, MsgType, RemoteAssumption DEF RemoteInv, FlowInv, MsgInv

LEMMA HandleSnapKeeps == ASSUME RemoteInv, HandleSnap PROVE RemoteInv'
<1> DEFINE m == Head(net)
<1>1. /\ net # <<>> /\ net' = Tail(net) /\ m.t = "snap"
      /\ UNCHANGED <<total, chan, sub, req, online, viewId, drops>>
  BY DEF HandleSnap, sessionVars
<1>2. MsgInv' /\ OrderInv' /\ SourceInv'
  BY <1>1, TakeKeepsQueue
<1>3. SubInv' /\ LinkInv'
  BY <1>1 DEF RemoteInv, FlowInv, SubInv, LinkInv
<1>4. CASE m.id = viewId
  <2>1. snapOff' = m.off /\ text' = Chunks(viewId, m.lo, m.off) /\ m.off \in Nat
    BY <1>1, <1>4, HeadOfNet DEF HandleSnap
  <2>2. Chunks(viewId, m.lo, m.off) \in Seq(Sessions \X Nat)
        /\ Window!EndOf(Chunks(viewId, m.lo, m.off)) = m.off
    BY <1>1, <1>4, HeadOfNet, EndOfChunks
  <2>3. Window!EndOf(text)' = Window!EndOf(Chunks(viewId, m.lo, m.off))
    BY <2>1 DEF Window!EndOf
  <2>4. After(m) = m.off
    BY <1>1 DEF After
  <2>5. ScreenInv' /\ SyncInv'
    BY <1>1, <1>4, <2>1, <2>2, <2>3, <2>4, ShownKeepsScreen
  <2>6. TypeOK'
    BY <1>1, <2>1, <2>2, HeadOfNet DEF RemoteInv, TypeOK
  <2>7. QED
    BY <1>2, <1>3, <2>5, <2>6 DEF RemoteInv, FlowInv
<1>5. CASE m.id # viewId
  <2>1. UNCHANGED <<snapOff, text>>
    BY <1>5 DEF HandleSnap
  <2>2. ScreenInv' /\ SyncInv'
    BY <1>1, <1>5, <2>1, SkippedKeepsScreen
  <2>3. TypeOK'
    BY <1>1, <2>1, HeadOfNet DEF RemoteInv, TypeOK
  <2>4. QED
    BY <1>2, <1>3, <2>2, <2>3 DEF RemoteInv, FlowInv
<1>6. QED
  BY <1>4, <1>5

\* A chunk the phone writes is the next one.
LEMMA KeptIsNext ==
  ASSUME RemoteInv, net # <<>>, Head(net).t = "data", Head(net).id = viewId,
         snapOff # NullOff
  PROVE  Head(net).off = Window!EndOf(text) /\ Keep(Head(net))
<1>1. Head(net) = net[1] /\ 1 \in DOMAIN net
  BY HeadOfNet
<1>2. Silent(net, viewId, 1, 1 - 1)
  BY DEF Silent
<1>3. Head(net).off = Window!EndOf(text)
  BY <1>1, <1>2 DEF RemoteInv, FlowInv, SyncInv
<1>4. snapOff <= Head(net).off
  BY <1>3 DEF RemoteInv, FlowInv, ScreenInv
<1>5. snapOff \in Int /\ Head(net).off \in Int
  BY HeadOfNet DEF RemoteInv, TypeOK, NullOff
<1>6. QED
  BY <1>3, <1>4, <1>5 DEF Keep

LEMMA HandleDataKeeps == ASSUME RemoteInv, HandleData PROVE RemoteInv'
<1> DEFINE m == Head(net)
<1>1. /\ net # <<>> /\ net' = Tail(net) /\ m.t = "data"
      /\ UNCHANGED <<total, chan, sub, req, online, viewId, snapOff, drops>>
  BY DEF HandleData, sessionVars
<1>2. MsgInv' /\ OrderInv' /\ SourceInv'
  BY <1>1, TakeKeepsQueue
<1>3. SubInv' /\ LinkInv'
  BY <1>1 DEF RemoteInv, FlowInv, SubInv, LinkInv
<1>4. CASE Keep(m)
  <2>1. m.id = viewId /\ snapOff # NullOff
    BY <1>4 DEF Keep
  <2>2. text' = Append(text, <<m.id, m.off>>)
    BY <1>4 DEF HandleData
  <2>3. text' \in Seq(Sessions \X Nat) /\ Window!EndOf(Append(text, <<m.id, m.off>>)) = m.off + 1
    BY <1>1, <2>2, HeadOfNet, EndOfAppend DEF RemoteInv, TypeOK
  <2>4. Window!EndOf(text)' = After(m)
    BY <1>1, <2>2, <2>3 DEF After, Window!EndOf
  <2>5. snapOff \in Nat /\ snapOff <= After(m)
    <3>1. snapOff \in Nat
      BY <2>1 DEF RemoteInv, TypeOK
    <3>2. snapOff <= m.off /\ m.off \in Nat
      BY <1>1, <1>4, HeadOfNet, <3>1 DEF Keep
    <3>3. QED
      BY <1>1, <3>1, <3>2 DEF After
  <2>6. ScreenInv' /\ SyncInv'
    BY <1>1, <2>1, <2>4, <2>5, ShownKeepsScreen
  <2>7. TypeOK'
    BY <1>1, <2>3, HeadOfNet DEF RemoteInv, TypeOK
  <2>8. QED
    BY <1>2, <1>3, <2>6, <2>7 DEF RemoteInv, FlowInv
<1>5. CASE ~Keep(m)
  <2>1. UNCHANGED text
    BY <1>5 DEF HandleData
  <2>2. m.id # viewId \/ snapOff = NullOff
    BY <1>1, <1>5, KeptIsNext
  <2>3. ScreenInv' /\ SyncInv'
    BY <1>1, <2>1, <2>2, SkippedKeepsScreen
  <2>4. TypeOK'
    BY <1>1, <2>1, HeadOfNet DEF RemoteInv, TypeOK
  <2>5. QED
    BY <1>2, <1>3, <2>3, <2>4 DEF RemoteInv, FlowInv
<1>6. QED
  BY <1>4, <1>5

LEMMA StutterKeeps == ASSUME RemoteInv, UNCHANGED vars PROVE RemoteInv'
<1> USE DEF vars, sessionVars, phoneVars
<1>1. TypeOK'
  BY DEF RemoteInv, TypeOK
<1>2. SubInv' /\ MsgInv' /\ OrderInv' /\ SourceInv' /\ LinkInv'
  BY DEF RemoteInv, FlowInv, SubInv, MsgInv, OrderInv, SourceInv, Silent, LinkInv
<1>3. ScreenInv' /\ SyncInv'
  BY DEF RemoteInv, FlowInv, ScreenInv, SyncInv, Silent, Subscribed, Window!EndOf
<1>4. QED
  BY <1>1, <1>2, <1>3 DEF RemoteInv, FlowInv

\* In every reachable state the variables have their types, and channel,
\* subscription, messages on their way and screen of a phone fit together
\* (server.rs run_ws_conn, mobile.js handle).
THEOREM RemoteFlowFits == SafetySpec => []RemoteInv
<1>1. RemoteInv /\ [Next]_vars => RemoteInv'
  <2> SUFFICES ASSUME RemoteInv, [Next]_vars PROVE RemoteInv'
    OBVIOUS
  <2>1. CASE Server
    BY <2>1, RecvSubKeeps, RecvUnsubKeeps, ForwardChunkKeeps, ResyncKeeps,
       TapClosedKeeps DEF Server
  <2>2. CASE Phone
    BY <2>2, CloseViewKeeps, DropKeeps, ConnectKeeps, HandleSnapKeeps,
       HandleDataKeeps DEF Phone
  <2>3. ASSUME NEW s \in Sessions, Emit(s) \/ CloseSession(s) \/ EndThreads(s)
        PROVE  RemoteInv'
    BY <2>3, SessionKeeps
  <2>4. ASSUME NEW s \in Sessions, OpenView(s)
        PROVE  RemoteInv'
    BY <2>4, OpenViewKeeps
  <2>5. CASE UNCHANGED vars
    BY <2>5, StutterKeeps
  <2>6. QED
    BY <2>1, <2>2, <2>3, <2>4, <2>5 DEF Next
<1>2. QED
  BY <1>1, InitRemote, PTL DEF SafetySpec

-----------------------------------------------------------------------------
(* Every step of the stream is a step of the window, or none *)

LEMMA SameText == ASSUME NEW s, NEW lo, NEW hi PROVE Chunks(s, lo, hi) = Window!Chunks(s, lo, hi)
  BY DEF Chunks, Window!Chunks

LEMMA HandleSnapLoads ==
  ASSUME RemoteInv, HandleSnap
  PROVE  Window!Load \/ UNCHANGED Window!vars
<1> DEFINE m == Head(net)
<1>1. net # <<>> /\ m.t = "snap" /\ UNCHANGED <<total, viewId>>
  BY DEF HandleSnap, sessionVars
<1>2. CASE m.id = viewId
  <2>1. /\ viewId \in Sessions /\ viewId # NoSession
        /\ m.lo \in Nat /\ m.off \in Nat /\ m.lo <= m.off
        /\ m.off <= total[viewId] /\ total[viewId] \in Nat
        /\ m.lo = m.off => m.off = 0
    BY <1>1, <1>2, HeadOfNet DEF After, RemoteInv, TypeOK
  <2>2. Window!EndOf(text) <= m.off /\ Window!EndOf(text) \in Nat
    BY <1>1, <1>2, HeadOfNet, EndOfType DEF RemoteInv, TypeOK, FlowInv, ScreenInv
  <2>3. m.off \in Window!EndOf(text)..total[viewId] /\ m.lo \in 0..m.off
    BY <2>1, <2>2
  <2>4. text' = Window!Chunks(viewId, m.lo, m.off)
    BY <1>2, SameText DEF HandleSnap
  <2>5. (snapOff # NullOff)' = TRUE
    BY <1>2, <2>1 DEF HandleSnap, NullOff
  <2>6. QED
    BY <1>1, <2>1, <2>3, <2>4, <2>5 DEF Window!Load
<1>3. CASE m.id # viewId
  BY <1>1, <1>3 DEF HandleSnap, Window!vars
<1>4. QED
  BY <1>2, <1>3

LEMMA HandleDataExtends ==
  ASSUME RemoteInv, HandleData
  PROVE  Window!Extend \/ UNCHANGED Window!vars
<1> DEFINE m == Head(net)
<1>1. net # <<>> /\ m.t = "data" /\ UNCHANGED <<total, viewId, snapOff>>
  BY DEF HandleData, sessionVars
<1>2. CASE Keep(m)
  <2>1. m.id = viewId /\ snapOff # NullOff
    BY <1>2 DEF Keep
  <2>2. viewId \in Sessions /\ m.off + 1 <= total[viewId] /\ m.off \in Nat
        /\ total[viewId] \in Nat
    BY <1>1, <2>1, HeadOfNet DEF After, RemoteInv, TypeOK
  <2>3. m.off = Window!EndOf(text)
    BY <1>1, <2>1, KeptIsNext
  <2>4. text' = Append(text, <<viewId, Window!EndOf(text)>>)
    BY <1>2, <2>1, <2>3 DEF HandleData
  <2>5. QED
    BY <1>1, <2>1, <2>2, <2>3, <2>4 DEF Window!Extend
<1>3. CASE ~Keep(m)
  BY <1>1, <1>3 DEF HandleData, Window!vars
<1>4. QED
  BY <1>2, <1>3

LEMMA StepImplements ==
  ASSUME RemoteInv, [Next]_vars
  PROVE  [Window!Next]_(Window!vars)
<1>1. ASSUME NEW s \in Sessions, Emit(s)
      PROVE  Window!Emit
  BY <1>1 DEF Emit, Window!Emit, phoneVars
<1>2. ASSUME NEW s \in Sessions, OpenView(s)
      PROVE  Window!Turn
  BY <1>2 DEF OpenView, SendSub, Window!Turn, sessionVars
<1>3. CASE CloseView
  BY <1>3 DEF CloseView, Window!Turn, Window!Next, sessionVars
<1>4. CASE Connect
  <2>1. CASE viewId # NoSession
    BY <1>4, <2>1 DEF Connect, Window!Freeze, Window!Next, sessionVars
  <2>2. CASE viewId = NoSession
    BY <1>4, <2>2 DEF Connect, Window!vars, sessionVars
  <2>3. QED
    BY <2>1, <2>2
<1>5. CASE HandleSnap \/ HandleData
  BY <1>5, HandleSnapLoads, HandleDataExtends DEF Window!Next
<1>6. CASE Server
  BY <1>6 DEF Server, RecvSub, RecvUnsub, ForwardChunk, Resync, TapClosed,
     Window!vars, sessionVars, phoneVars
<1>7. CASE Drop
  BY <1>7 DEF Drop, Window!vars, sessionVars, phoneVars
<1>8. ASSUME NEW s \in Sessions, CloseSession(s) \/ EndThreads(s)
      PROVE  UNCHANGED Window!vars
  BY <1>8 DEF CloseSession, EndThreads, Window!vars, phoneVars
<1>9. CASE UNCHANGED vars
  BY <1>9 DEF vars, Window!vars, sessionVars, phoneVars
<1>10. QED
  BY <1>1, <1>2, <1>3, <1>4, <1>5, <1>6, <1>7, <1>8, <1>9
     DEF Next, Phone, Window!Next

\* Whatever the phone does to its views, however often it lags or is cut off:
\* its screen is a window of one session's output that grows at its end or is
\* replaced by a snapshot that reaches at least as far (mobile.js handle,
\* server.rs Step::Chunk, pty.rs remote_sub).
THEOREM RemoteStreamIsLiveWindow == SafetySpec => ScreenIsWindow
<1>1. Init => Window!Init
  BY DEF Init, Window!Init
<1>2. RemoteInv /\ [Next]_vars => [Window!Next]_(Window!vars)
  BY StepImplements
<1>3. QED
  BY <1>1, <1>2, RemoteFlowFits, PTL DEF SafetySpec, ScreenIsWindow, Window!Spec
=============================================================================
