------------------------ MODULE SessionStream_proofs ------------------------
(***************************************************************************)
(* Proofs about SessionStream: types, the flush before the exit notices,   *)
(* the memory bounds, that the screen is contiguous, and that flow control *)
(* never waits for an ack that cannot come, for every size of the buffers. *)
(***************************************************************************)
EXTENDS SessionStream, FiniteSetTheorems, SequenceTheorems, TLAPS

LEMMA SizesAreNat ==
  /\ MaxOut \in Nat /\ ReadMax \in Nat /\ ReadMax > 0 /\ PendingCap \in Nat /\ PendingCap > 0
  /\ EmitChunk \in Nat /\ EmitChunk > 0 /\ FlowHigh \in Nat /\ FlowHigh > 0
  /\ ScrollCap \in Nat /\ ScrollCap > 0 /\ QueueCap \in Nat /\ ScrollSlack \in Nat
  /\ CarryMax \in Nat /\ MaxReloads \in Nat
  BY SizesAssumption

\* feed() never drops the newest piece of the frozen queue, so what it keeps is
\* a suffix of the queue.
LEMMA ExcessRange ==
  ASSUME NEW q \in Seq(Piece), q # <<>>
  PROVE  Excess(q) \in 0..(Len(q) - 1)
<1> DEFINE S == {i \in 1..(Len(q) - 1) : LenSum(SubSeq(q, i, Len(q))) > QueueCap}
<1>1. Len(q) \in Nat /\ Len(q) > 0
  OBVIOUS
<1>2. IsFiniteSet(1..(Len(q) - 1)) /\ Cardinality(1..(Len(q) - 1)) = Len(q) - 1
  <2>1. 1 \in Int /\ Len(q) - 1 \in Int
    BY <1>1
  <2>2. Cardinality(1..(Len(q) - 1)) = IF 1 > Len(q) - 1 THEN 0 ELSE (Len(q) - 1) - 1 + 1
    BY <2>1, FS_Interval
  <2>3. QED
    BY <1>1, <2>1, <2>2, FS_Interval
<1>3. S \subseteq 1..(Len(q) - 1)
  OBVIOUS
<1>4. IsFiniteSet(S) /\ Cardinality(S) <= Len(q) - 1
  BY <1>2, <1>3, FS_Subset
<1>5. Cardinality(S) \in Nat
  BY <1>4, FS_CardinalityType
<1>6. QED
  BY <1>1, <1>4, <1>5 DEF Excess

LEMMA StaleRange ==
  ASSUME queue \in Seq(Piece)
  PROVE  Stale \in 0..Len(queue)
<1> DEFINE S == {i \in 1..Len(queue) : ~Fresh(queue[i])}
<1>1. Len(queue) \in Nat
  OBVIOUS
<1>2. IsFiniteSet(1..Len(queue)) /\ Cardinality(1..Len(queue)) = Len(queue)
  <2>1. Cardinality(1..Len(queue)) = IF 1 > Len(queue) THEN 0 ELSE Len(queue) - 1 + 1
    BY <1>1, FS_Interval
  <2>2. QED
    BY <1>1, <2>1, FS_Interval
<1>3. IsFiniteSet(S) /\ Cardinality(S) <= Len(queue)
  BY <1>2, FS_Subset
<1>4. Cardinality(S) \in Nat
  BY <1>3, FS_CardinalityType
<1>5. QED
  BY <1>1, <1>3, <1>4 DEF Stale

\* One more piece in a queue of pieces.
LEMMA AppendType ==
  ASSUME NEW S, NEW s \in Seq(S), NEW e \in S
  PROVE  /\ Append(s, e) \in Seq(S) /\ Append(s, e) # <<>>
         /\ Len(Append(s, e)) \in Nat
  BY AppendProperties

-----------------------------------------------------------------------------
(* Types *)

LEMMA NoneTypes == NoPiece \in Piece /\ NoSnap \in [lo : Nat, off : Nat]
  BY DEF NoPiece, NoSnap, Piece

LEMMA TypeInit == Init => TypeOK
<1> SUFFICES ASSUME Init PROVE TypeOK
  OBVIOUS
<1>1. piece \in Piece /\ snap \in [lo : Nat, off : Nat]
  BY NoneTypes DEF Init
<1>2. /\ bus \in Seq(Piece) /\ queue \in Seq(Piece) /\ screen \in Seq(Piece)
      /\ xbuf \in Seq(Piece) /\ ackNet \in Seq(Nat)
  BY DEF Init
<1>3. closed \in BOOLEAN /\ open \in BOOLEAN /\ closedNow \in BOOLEAN
      /\ leaked \in BOOLEAN /\ spilled \in BOOLEAN
  BY Zenon DEF Init
<1>4. QED
  BY <1>1, <1>2, <1>3 DEF Init, TypeOK

LEMMA TypeNext == TypeOK /\ [Next]_vars => TypeOK'
<1> SUFFICES ASSUME TypeOK, [Next]_vars PROVE TypeOK'
  OBVIOUS
<1> USE SizesAreNat DEF TypeOK, chanVars, readerVars, emitterVars, viewVars, histVars
<1>1. ASSUME NEW n \in 1..ReadMax, Read(n) PROVE TypeOK'
  BY <1>1 DEF Read
<1>2. CASE ReadEof
  BY <1>2 DEF ReadEof
<1>3. CASE PushWait
  BY <1>3 DEF PushWait, Threads
<1>4. CASE Push
  BY <1>4 DEF Push
<1>5. CASE MarkClosed
  BY <1>5 DEF MarkClosed
<1>6. CASE EmitterSleep
  BY <1>6 DEF EmitterSleep, Threads
<1>7. CASE EmitterWake
  BY <1>7 DEF EmitterWake
<1>8. CASE FlowSleep
  BY <1>8 DEF FlowSleep, Threads
<1>9. CASE FlowTake
  BY <1>9 DEF FlowTake, TakePending, Least
<1>10. CASE FlowStall
  <2>1. PICK rest \in 0..Least(CarryMax, carry + pending) :
          carry' = rest /\ batch' = carry + pending - rest
    BY <1>10 DEF FlowStall, TakePending
  <2>2. carry' \in Nat /\ batch' \in Nat
    BY <2>1 DEF Least
  <2>3. QED
    BY <1>10, <2>2 DEF FlowStall, TakePending
<1>11. CASE AppendEmitted
  BY <1>11 DEF AppendEmitted, Least, Piece
<1>12. CASE EmitData
  <2>1. bus' \in Seq(Piece) /\ piece' \in Piece
    <3>1. Append(bus, piece) \in Seq(Piece)
      BY AppendType
    <3>2. bus' = bus \/ bus' = Append(bus, piece)
      BY <1>12 DEF EmitData
    <3>3. piece' = NoPiece
      BY <1>12 DEF EmitData
    <3>4. QED
      BY <3>1, <3>2, <3>3, NoneTypes
  <2>2. leaked' \in BOOLEAN
    BY <1>12, Zenon DEF EmitData
  <2>3. QED
    BY <1>12, <2>1, <2>2 DEF EmitData
<1>13. CASE EmitterCheck
  BY <1>13 DEF EmitterCheck
<1>14. CASE EmitExit
  BY <1>14 DEF EmitExit
<1>15. CASE CreateView
  BY <1>15 DEF CreateView
<1>16. CASE CreateFrozenView
  BY <1>16 DEF CreateFrozenView
<1>17. CASE Reload
  BY <1>17 DEF Reload, NoSnap
<1>18. CASE Dispose
  BY <1>18 DEF Dispose, NoSnap
<1>19. CASE FeedNoView
  BY <1>19 DEF FeedNoView
<1>20. CASE FeedFrozen
  <2> DEFINE q == Append(queue, Head(bus))
  <2>1. Head(bus) \in Piece /\ Tail(bus) \in Seq(Piece)
    BY <1>20 DEF FeedFrozen
  <2>2. q \in Seq(Piece) /\ q # <<>> /\ Len(q) \in Nat
    BY <2>1, AppendType
  <2> HIDE DEF q
  <2>3. Excess(q) \in 0..(Len(q) - 1)
    BY <2>2, ExcessRange
  <2>4. SubSeq(q, Excess(q) + 1, Len(q)) \in Seq(Piece)
    BY <2>2, <2>3, SubSeqProperties
  <2>5. bus' \in Seq(Piece) /\ queue' \in Seq(Piece)
    BY <1>20, <2>1, <2>4 DEF FeedFrozen, q
  <2>6. leaked' \in BOOLEAN /\ spilled' \in BOOLEAN
    BY <1>20, Zenon DEF FeedFrozen
  <2>7. QED
    BY <1>20, <2>5, <2>6 DEF FeedFrozen
<1>21. CASE FeedLive
  BY <1>21 DEF FeedLive
<1>22. CASE XtermConsume
  <2>1. Head(xbuf) \in Piece /\ Tail(xbuf) \in Seq(Piece)
    BY <1>22 DEF XtermConsume
  <2>2. Head(xbuf).len \in Nat
    BY <2>1 DEF Piece
  <2>3. QED
    BY <1>22, <2>1, <2>2 DEF XtermConsume
<1>23. CASE GetScrollback
  <2>1. snap' \in [lo : Nat, off : Nat]
    BY <1>23, NoneTypes DEF GetScrollback
  <2>2. leaked' \in BOOLEAN
    BY <1>23, Zenon DEF GetScrollback
  <2>3. QED
    BY <1>23, <2>1, <2>2 DEF GetScrollback
<1>24. CASE Restore
  <2> DEFINE kept == SubSeq(queue, Stale + 1, Len(queue))
  <2>1. Stale \in 0..Len(queue) /\ Len(queue) \in Nat
    BY StaleRange
  <2>2. kept \in Seq(Piece)
    BY <2>1, SubSeqProperties
  <2>3. snap.off \in Nat /\ snap.lo \in Nat
    OBVIOUS
  <2>4. SnapText \in Seq(Piece)
    <3>1. CASE snap.off > snap.lo
      <4>1. [off |-> snap.lo, len |-> snap.off - snap.lo] \in Piece
        BY <2>3, <3>1 DEF Piece
      <4>2. QED
        BY <3>1, <4>1 DEF SnapText
    <3>2. QED
      BY <3>1 DEF SnapText
  <2>5. screen' \in Seq(Piece) /\ xbuf' \in Seq(Piece)
    BY <1>24, <2>2, <2>4, ConcatProperties DEF Restore
  <2>6. QED
    BY <1>24, <2>5 DEF Restore
<1>25. CASE RestoreFailed
  BY <1>25 DEF RestoreFailed
<1>26. CASE AckData
  BY <1>26 DEF AckData, SatSub
<1>27. CASE Close
  BY <1>27 DEF Close
<1>28. CASE UNCHANGED vars
  BY <1>28 DEF vars
<1>29. QED
  BY <1>1, <1>2, <1>3, <1>4, <1>5, <1>6, <1>7, <1>8, <1>9, <1>10, <1>11, <1>12, <1>13, <1>14, <1>15, <1>16, <1>17, <1>18, <1>19, <1>20, <1>21, <1>22, <1>23, <1>24, <1>25, <1>26, <1>27, <1>28 DEF Next, Reader, Emitter, Webview

\* Every variable keeps its type: for one, the counters the code subtracts from
\* (outstanding, an unsigned integer) never go below zero.
THEOREM StreamTypes == SafetySpec => []TypeOK
<1>1. QED
  BY TypeInit, TypeNext, PTL DEF SafetySpec

-----------------------------------------------------------------------------
(* The invariant *)

LEMMA InvInit == Init => StreamInv
  BY SizesAreNat DEF Init, StreamInv, Accounted, ReaderInv, EmitterInv, FlowInv, TakeMax

\* The arithmetic of an ack.
LEMMA AckBound ==
  ASSUME NEW o0 \in Nat, NEW o \in Nat, NEW b \in Nat, NEW r \in Nat, NEW m \in Nat,
         o <= o0, o0 + b + r < m
  PROVE  o + b + r < m
  OBVIOUS

\* What the take does to the counters; what is outstanding before it is FLOW_HIGH
\* only when the channel is closed.
LEMMA InvTake ==
  ASSUME TypeOK, StreamInv, TakePending, epc = "flow", outstanding' \in Nat,
         outstanding' < FlowHigh \/ (closed /\ outstanding' = outstanding),
         held' = held, got' = got, dropped' = dropped, rpc' = rpc
  PROVE  StreamInv'
<1> USE SizesAreNat
<1>t. /\ pending \in Nat /\ scroll \in Nat /\ total \in Nat /\ outstanding \in Nat
      /\ held \in Nat /\ got \in Nat /\ batch \in Nat /\ carry \in Nat /\ dropped \in Nat
      /\ TakeMax \in Nat /\ closed \in BOOLEAN /\ closedNow \in BOOLEAN
  BY DEF TypeOK, TakeMax
<1>1. PICK rest \in 0..Least(CarryMax, carry + pending) :
        carry' = rest /\ batch' = carry + pending - rest
  BY DEF TakePending
<1>2. /\ rest \in Nat /\ rest <= CarryMax /\ rest <= carry + pending
  BY <1>1 DEF Least, TypeOK
<1>3. /\ carry' \in Nat /\ batch' \in Nat /\ carry' <= CarryMax
      /\ batch' + carry' = carry + pending /\ batch' <= carry + pending
  BY <1>1, <1>2 DEF TypeOK
<1>4. /\ pending' = 0 /\ closedNow' = closed /\ total' = total /\ scroll' = scroll
      /\ closed' = closed /\ open' = open
      /\ epc' = IF batch' > 0 THEN "append" ELSE "check"
  BY DEF TakePending
<1>5. batch = 0 /\ ~closedNow
  BY DEF StreamInv, EmitterInv, TypeOK
<1>6. pending <= TakeMax /\ carry <= CarryMax /\ CarryMax \in Nat /\ FlowHigh \in Nat
  BY DEF StreamInv, EmitterInv, FlowInv
<1>7. Accounted'
  <2>1. batch' + carry' + pending' = batch + carry + pending
    <3>1. pending' = 0 /\ batch = 0
      BY <1>4, <1>5
    <3>2. batch' + carry' + pending' = batch' + carry'
      BY <1>3, <3>1
    <3>3. batch + carry + pending = carry + pending
      BY <1>t, <3>1
    <3>4. QED
      BY <1>3, <3>2, <3>3
  <2>2. QED
    BY <1>4, <2>1 DEF StreamInv, Accounted
<1>8. ReaderInv'
  BY <1>4 DEF StreamInv, ReaderInv
<1>9. EmitterInv'
  <2>1. epc' \notin {"append", "send"} => batch' = 0
    BY <1>3, <1>4
  <2>2. QED
    BY <1>3, <1>4, <2>1 DEF EmitterInv
<1>10. FlowInv'
  <2>0. outstanding + 0 + carry < FlowHigh + CarryMax + TakeMax
    BY <1>5 DEF StreamInv, FlowInv
  <2>1. outstanding + carry < FlowHigh + CarryMax + TakeMax
    BY <1>t, <1>6, <2>0
  <2>b. /\ outstanding' < FlowHigh =>
             /\ outstanding' + batch' + carry' < FlowHigh + CarryMax + TakeMax
             /\ outstanding' + batch' + carry' < FlowHigh + CarryMax + 2 * TakeMax
        /\ outstanding' = outstanding =>
             outstanding' + batch' + carry' < FlowHigh + CarryMax + 2 * TakeMax
    <3>1. PICK o \in Nat, b \in Nat, k \in Nat : o = outstanding' /\ b = batch' /\ k = carry'
      BY <1>3
    <3>2. b + k = carry + pending
      BY <1>3, <3>1
    <3>3. /\ o < FlowHigh => /\ o + b + k < FlowHigh + CarryMax + TakeMax
                             /\ o + b + k < FlowHigh + CarryMax + 2 * TakeMax
          /\ o = outstanding => o + b + k < FlowHigh + CarryMax + 2 * TakeMax
      BY <1>t, <1>6, <2>1, <3>2 DEF TakeMax
    <3>4. QED
      BY <3>1, <3>3
  <2>2. outstanding' + batch' + carry'
          < FlowHigh + CarryMax + (IF closedNow' THEN 2 * TakeMax ELSE TakeMax)
    <3>1. CASE outstanding' < FlowHigh
      BY <2>b, <3>1
    <3>2. CASE closed /\ outstanding' = outstanding
      <4>1. outstanding' + batch' + carry' < FlowHigh + CarryMax + 2 * TakeMax
        BY <2>b, <3>2
      <4>2. QED
        BY <1>4, <3>2, <4>1
    <3>3. QED
      BY <3>1, <3>2
  <2>3. QED
    BY <1>t, <1>4, <2>2 DEF StreamInv, FlowInv
<1>11. QED
  BY <1>7, <1>8, <1>9, <1>10 DEF StreamInv

\* A callback of the webview that leaves the session alone.
LEMMA InvView ==
  ASSUME StreamInv, UNCHANGED <<chanVars, readerVars, emitterVars>>
  PROVE  StreamInv'
  BY DEF StreamInv, Accounted, ReaderInv, EmitterInv, FlowInv, TakeMax,
         chanVars, readerVars, emitterVars

LEMMA InvNext == TypeOK /\ StreamInv /\ [Next]_vars => StreamInv'
<1> SUFFICES ASSUME TypeOK, StreamInv, [Next]_vars PROVE StreamInv'
  OBVIOUS
<1> USE SizesAreNat DEF StreamInv, Accounted, ReaderInv, EmitterInv, FlowInv,
        TakeMax, chanVars, readerVars, emitterVars
<1>t. /\ pending \in Nat /\ scroll \in Nat /\ total \in Nat /\ outstanding \in Nat
      /\ held \in Nat /\ got \in Nat /\ batch \in Nat /\ carry \in Nat /\ dropped \in Nat
      /\ TakeMax \in Nat /\ closed \in BOOLEAN /\ open \in BOOLEAN /\ closedNow \in BOOLEAN
      /\ rpc \in {"read", "push", "mark", "done"}
      /\ epc \in {"wait", "flow", "append", "send", "check", "end", "done"}
  BY DEF TypeOK
<1>1. ASSUME NEW n \in 1..ReadMax, Read(n) PROVE StreamInv'
  BY <1>t, <1>1 DEF Read
<1>2. CASE ReadEof
  BY <1>t, <1>2 DEF ReadEof
<1>3. CASE PushWait
  BY <1>t, <1>3 DEF PushWait
<1>4. CASE Push
  <2>1. CASE closed
    BY <1>t, <1>4, <2>1 DEF Push
  <2>2. CASE ~closed
    BY <1>t, <1>4, <2>2 DEF Push
  <2>3. QED
    BY <2>1, <2>2
<1>5. CASE MarkClosed
  BY <1>t, <1>5 DEF MarkClosed
<1>6. CASE EmitterSleep
  BY <1>t, <1>6 DEF EmitterSleep
<1>7. CASE EmitterWake
  BY <1>t, <1>7 DEF EmitterWake
<1>8. CASE FlowSleep
  BY <1>t, <1>8 DEF FlowSleep
<1>9. CASE FlowTake
  <2>1. outstanding' = outstanding /\ TakePending /\ epc = "flow"
        /\ (outstanding < FlowHigh \/ closed) /\ UNCHANGED readerVars
    BY <1>9 DEF FlowTake, TakePending
  <2>2. QED
    BY <1>t, <2>1, InvTake
<1>10. CASE FlowStall
  <2>1. outstanding' = 0 /\ TakePending /\ epc = "flow" /\ UNCHANGED readerVars
    BY <1>10 DEF FlowStall, TakePending
  <2>2. QED
    BY <1>t, <2>1, InvTake
<1>11. CASE AppendEmitted
  <2> DEFINE len == Least(EmitChunk, batch)
  <2>1. len \in Nat /\ len <= batch
    BY <1>t DEF Least
  <2>2. /\ total' = total + len /\ outstanding' = outstanding + len
        /\ batch' = batch - len /\ epc = "append" /\ epc' = "send"
        /\ scroll' = IF total' - scroll > ScrollCap + ScrollSlack
                       THEN total' - ScrollCap ELSE scroll
        /\ UNCHANGED <<pending, closed, open, carry, closedNow, readerVars>>
    BY <1>11 DEF AppendEmitted
  <2> HIDE DEF len
  <2>3. scroll' <= total' /\ total' - scroll' <= ScrollCap + ScrollSlack
    BY <1>t, <2>1, <2>2
  <2>4. QED
    BY <1>t, <2>1, <2>2, <2>3
<1>12. CASE EmitData
  BY <1>t, <1>12 DEF EmitData
<1>13. CASE EmitterCheck
  BY <1>t, <1>13 DEF EmitterCheck
<1>14. CASE EmitExit
  BY <1>t, <1>14 DEF EmitExit
<1>15. CASE AckData
  <2>1. Head(ackNet) \in Nat
    BY <1>15 DEF AckData, TypeOK
  <2>2. outstanding' \in Nat /\ outstanding' <= outstanding
    BY <1>t, <1>15, <2>1 DEF AckData, SatSub
  <2>3. UNCHANGED <<pending, scroll, total, closed, open, readerVars, emitterVars>>
    BY <1>15 DEF AckData
  <2>4. outstanding' + batch' + carry'
          < FlowHigh + CarryMax + (IF closedNow' THEN 2 * TakeMax ELSE TakeMax)
    <3> DEFINE m == FlowHigh + CarryMax + (IF closedNow THEN 2 * TakeMax ELSE TakeMax)
    <3>1. m \in Nat /\ outstanding + batch + carry < m
      BY <1>t
    <3> HIDE DEF m
    <3>2. outstanding' + batch + carry < m
      BY <1>t, <2>2, <3>1, AckBound
    <3>3. QED
      BY <2>3, <3>2 DEF m
  <2>5. Accounted' /\ ReaderInv' /\ EmitterInv'
    BY <2>3
  <2>6. QED
    BY <2>3, <2>4, <2>5
<1>16. CASE Close
  BY <1>t, <1>16 DEF Close
<1>17. CASE GetScrollback
  BY <1>t, <1>17 DEF GetScrollback
<1>18. CASE CreateView \/ CreateFrozenView \/ Reload \/ Dispose
  BY <1>18, InvView DEF CreateView, CreateFrozenView, Reload, Dispose
<1>19. CASE FeedNoView \/ FeedFrozen \/ FeedLive
  BY <1>19, InvView DEF FeedNoView, FeedFrozen, FeedLive
<1>20. CASE XtermConsume \/ Restore \/ RestoreFailed
  BY <1>20, InvView DEF XtermConsume, Restore, RestoreFailed
<1>21. CASE UNCHANGED vars
  BY <1>21, InvView DEF vars
<1>22. QED
  BY <1>1, <1>2, <1>3, <1>4, <1>5, <1>6, <1>7, <1>8, <1>9, <1>10, <1>11, <1>12, <1>13,
     <1>14, <1>15, <1>16, <1>17, <1>18, <1>19, <1>20, <1>21
     DEF Next, Reader, Emitter, Webview

\* Where every unit of output is, for every size of the buffers: the inductive
\* invariant the two theorems below are read off from.
THEOREM StreamIsAccounted == SafetySpec => [](TypeOK /\ StreamInv)
<1>1. Init => TypeOK /\ StreamInv
  BY TypeInit, InvInit
<1>2. TypeOK /\ StreamInv /\ [Next]_vars => (TypeOK /\ StreamInv)'
  BY TypeNext, InvNext
<1>3. QED
  BY <1>1, <1>2, PTL DEF SafetySpec

\* The exit notices of a session that ended by itself come after its whole output
\* (the emitter thread leaves its loop only with everything taken and emitted).
THEOREM ExitComesLast == SafetySpec => []ExitAfterFlush
<1>1. TypeOK /\ StreamInv => ExitAfterFlush
  BY SizesAreNat DEF TypeOK, StreamInv, Accounted, ReaderInv, EmitterInv, ExitAfterFlush
<1>2. QED
  BY <1>1, StreamIsAccounted, PTL

\* However fast the shell writes and whatever the webview does, the session's
\* buffers keep the bounds of PENDING_CAP, FLOW_HIGH and SCROLLBACK_CAP.
THEOREM MemoryIsBounded == SafetySpec => []BoundedMemory
<1>1. TypeOK /\ StreamInv => BoundedMemory
  BY SizesAreNat DEF TypeOK, StreamInv, FlowInv, EmitterInv, BoundedMemory, TakeMax
<1>2. QED
  BY <1>1, StreamIsAccounted, PTL

-----------------------------------------------------------------------------
(***************************************************************************)
(* The screen is contiguous                                                *)
(*                                                                         *)
(* A piece passes three places after it got its offset: the emitter        *)
(* (piece), the events on their way (bus) and the queue of a frozen view.  *)
(* Each place is a run of adjoining pieces that ends where the next place  *)
(* begins, and the last ends at total.  A snapshot ends between two        *)
(* pieces, and nothing is missing between it and the queue unless the      *)
(* queue overflowed.                                                       *)
(***************************************************************************)

\* The pieces of q adjoin, in order, and the last ends at offset to.
Run(q, to) ==
  \A i \in DOMAIN q :
    /\ End(q[i]) <= to
    /\ i = Len(q) => End(q[i]) = to
    /\ \A j \in DOMAIN q :
         /\ i < j => End(q[i]) <= q[j].off
         /\ j = i + 1 => q[j].off = End(q[i])

\* Where a run that ends at offset to begins.
From(q, to) == IF q = <<>> THEN to ELSE q[1].off

SendFrom == IF epc = "send" THEN piece.off ELSE total
BusFrom == From(bus, SendFrom)
QueueFrom == From(queue, BusFrom)

\* A piece is older than the snapshot or newer, never both.
Clear(p) == p.off >= snap.off \/ End(p) <= snap.off

RunsInv ==
  /\ epc = "send" => End(piece) = total
  /\ Run(bus, SendFrom) /\ Run(queue, BusFrom)

ClearInv ==
  /\ snap.off <= total
  /\ epc = "send" => Clear(piece)
  /\ \A i \in DOMAIN bus : Clear(bus[i])
  /\ \A i \in DOMAIN queue : Clear(queue[i])

StageInv ==
  /\ wv = "down" => bus = <<>>
  /\ wv \in {"none", "down", "live"} => queue = <<>>
  /\ wv # "live" => screen = <<>>
  /\ wv \in {"none", "down", "frozen"} => snap = NoSnap

\* Nothing is missing between the snapshot and the queue.
JoinInv == wv = "restoring" /\ ~spilled /\ snap.lo < snap.off => QueueFrom <= snap.off

\* Nothing is missing between the screen and what is still to come; the screen
\* may hold some of that already when it is no more than the snapshot.
TailInv ==
  wv = "live" /\ ~spilled /\ screen # <<>> =>
    \/ End(screen[Len(screen)]) = BusFrom
    \/ /\ Len(screen) = 1 /\ snap.off > 0 /\ End(screen[1]) = snap.off
       /\ BusFrom <= snap.off

ScreenInv ==
  RunsInv /\ ClearInv /\ StageInv /\ JoinInv /\ TailInv /\ ScreenContiguous

-----------------------------------------------------------------------------
(* Runs of pieces *)

LEMMA PieceType ==
  ASSUME NEW p \in Piece
  PROVE  p.off \in Nat /\ p.len \in Nat /\ End(p) \in Nat /\ p.off <= End(p)
  BY DEF Piece, End

LEMMA PieceAt ==
  ASSUME NEW q \in Seq(Piece), NEW i \in DOMAIN q
  PROVE  /\ q[i] \in Piece /\ i \in 1..Len(q)
         /\ q[i].off \in Nat /\ End(q[i]) \in Nat /\ q[i].off <= End(q[i])
<1>1. q[i] \in Piece /\ i \in 1..Len(q)
  OBVIOUS
<1>2. QED
  BY <1>1, PieceType

LEMMA RunEmpty == ASSUME NEW to PROVE Run(<<>>, to) /\ From(<<>>, to) = to
  BY DEF Run, From

LEMMA FromType ==
  ASSUME NEW q \in Seq(Piece), NEW to \in Nat
  PROVE  From(q, to) \in Nat
<1>1. CASE q = <<>>
  BY <1>1 DEF From
<1>2. CASE q # <<>>
  <2>1. 1 \in DOMAIN q
    BY <1>2
  <2>2. QED
    BY <1>2, <2>1, PieceAt DEF From
<1>3. QED
  BY <1>1, <1>2

LEMMA RunBound ==
  ASSUME NEW q \in Seq(Piece), NEW to \in Nat, Run(q, to)
  PROVE  From(q, to) <= to
<1>1. CASE q = <<>>
  BY <1>1 DEF From
<1>2. CASE q # <<>>
  <2>1. 1 \in DOMAIN q
    BY <1>2
  <2>2. q[1].off <= End(q[1]) /\ End(q[1]) <= to /\ q[1].off \in Nat /\ End(q[1]) \in Nat
    BY <2>1, PieceAt DEF Run
  <2>3. QED
    BY <1>2, <2>2 DEF From
<1>3. QED
  BY <1>1, <1>2

LEMMA AppendPiece ==
  ASSUME NEW q \in Seq(Piece), NEW p \in Piece
  PROVE  /\ Append(q, p) \in Seq(Piece) /\ Append(q, p) # <<>>
         /\ Len(q) \in Nat /\ Len(Append(q, p)) = Len(q) + 1
         /\ DOMAIN q = 1..Len(q) /\ DOMAIN Append(q, p) = 1..(Len(q) + 1)
         /\ \A i \in DOMAIN q : Append(q, p)[i] = q[i]
         /\ Append(q, p)[Len(q) + 1] = p
  BY AppendProperties

LEMMA TailPiece ==
  ASSUME NEW q \in Seq(Piece), q # <<>>
  PROVE  /\ Tail(q) \in Seq(Piece) /\ Len(q) \in Nat /\ Len(q) > 0
         /\ Len(Tail(q)) = Len(q) - 1
         /\ DOMAIN q = 1..Len(q) /\ DOMAIN Tail(q) = 1..(Len(q) - 1)
         /\ \A i \in DOMAIN Tail(q) : i + 1 \in DOMAIN q /\ Tail(q)[i] = q[i + 1]
         /\ 1 \in DOMAIN q /\ Head(q) = q[1] /\ Head(q) \in Piece
  BY HeadTailProperties

LEMMA RunAppend ==
  ASSUME NEW q \in Seq(Piece), NEW p \in Piece, Run(q, p.off)
  PROVE  /\ Run(Append(q, p), End(p))
         /\ From(Append(q, p), End(p)) = From(q, p.off)
<1> DEFINE r == Append(q, p)
<1>1. /\ Len(r) = Len(q) + 1 /\ DOMAIN r = 1..(Len(q) + 1) /\ DOMAIN q = 1..Len(q)
      /\ r # <<>> /\ Len(q) \in Nat
      /\ (\A i \in DOMAIN q : r[i] = q[i]) /\ r[Len(q) + 1] = p
  BY AppendPiece
<1> HIDE DEF r
<1>2. p.off \in Nat /\ End(p) \in Nat /\ p.off <= End(p)
  BY PieceType
<1>3. \A i \in DOMAIN r : i \in DOMAIN q \/ i = Len(q) + 1
  BY <1>1
<1>4. ASSUME NEW i \in DOMAIN r
      PROVE  End(r[i]) <= End(p) /\ (i = Len(r) => End(r[i]) = End(p))
  <2>1. CASE i \in DOMAIN q
    <3>1. End(q[i]) <= p.off /\ End(q[i]) \in Nat
      BY <2>1, PieceAt DEF Run
    <3>2. QED
      BY <1>1, <1>2, <2>1, <3>1
  <2>2. CASE i = Len(q) + 1
    BY <1>1, <1>2, <2>2
  <2>3. QED
    BY <1>3, <2>1, <2>2
<1>5. ASSUME NEW i \in DOMAIN r, NEW j \in DOMAIN r
      PROVE  /\ i < j => End(r[i]) <= r[j].off
             /\ j = i + 1 => r[j].off = End(r[i])
  <2>1. CASE j \in DOMAIN q
    <3>1. i < j => i \in DOMAIN q
      BY <1>1, <2>1
    <3>2. j = i + 1 => i \in DOMAIN q
      BY <1>1, <2>1
    <3>3. QED
      BY <1>1, <2>1, <3>1, <3>2 DEF Run
  <2>2. CASE j = Len(q) + 1
    <3>1. i < j => i \in DOMAIN q
      BY <1>1, <2>2
    <3>2. j = i + 1 => i \in DOMAIN q /\ i = Len(q)
      BY <1>1, <2>2
    <3>3. QED
      BY <1>1, <2>2, <3>1, <3>2 DEF Run
  <2>3. QED
    BY <1>3, <2>1, <2>2
<1>6. Run(r, End(p))
  BY <1>4, <1>5 DEF Run
<1>7. From(r, End(p)) = From(q, p.off)
  <2>1. CASE q = <<>>
    <3>1. r[1] = p
      BY <1>1, <2>1
    <3>2. QED
      BY <1>1, <2>1, <3>1 DEF From
  <2>2. CASE q # <<>>
    <3>1. 1 \in DOMAIN q
      BY <2>2
    <3>2. QED
      BY <1>1, <2>2, <3>1 DEF From
  <2>3. QED
    BY <2>1, <2>2
<1>8. QED
  BY <1>6, <1>7 DEF r

LEMMA RunTail ==
  ASSUME NEW q \in Seq(Piece), NEW to \in Nat, q # <<>>, Run(q, to)
  PROVE  /\ Run(Tail(q), to)
         /\ From(Tail(q), to) = End(Head(q))
         /\ Head(q).off = From(q, to)
<1> DEFINE r == Tail(q)
<1>1. /\ Len(q) \in Nat /\ Len(q) > 0 /\ Len(r) = Len(q) - 1 /\ r \in Seq(Piece)
      /\ DOMAIN q = 1..Len(q) /\ DOMAIN r = 1..(Len(q) - 1)
      /\ \A i \in DOMAIN r : i + 1 \in DOMAIN q /\ r[i] = q[i + 1]
      /\ 1 \in DOMAIN q /\ Head(q) = q[1]
  BY TailPiece
<1> HIDE DEF r
<1>2. ASSUME NEW i \in DOMAIN r
      PROVE  End(r[i]) <= to /\ (i = Len(r) => End(r[i]) = to)
  <2>1. i = Len(r) => i + 1 = Len(q)
    BY <1>1
  <2>2. QED
    BY <1>1, <2>1 DEF Run
<1>3. ASSUME NEW i \in DOMAIN r, NEW j \in DOMAIN r
      PROVE  /\ i < j => End(r[i]) <= r[j].off
             /\ j = i + 1 => r[j].off = End(r[i])
  <2>1. /\ i < j => i + 1 < j + 1
        /\ j = i + 1 => j + 1 = (i + 1) + 1
    BY <1>1
  <2>2. QED
    BY <1>1, <2>1 DEF Run
<1>4. Run(r, to)
  BY <1>2, <1>3 DEF Run
<1>5. From(r, to) = End(q[1])
  <2>1. CASE r = <<>>
    <3>1. Len(q) = 1
      BY <1>1, <2>1
    <3>2. QED
      BY <1>1, <2>1, <3>1 DEF From, Run
  <2>2. CASE r # <<>>
    <3>1. 1 \in DOMAIN r
      BY <1>1, <2>2
    <3>2. r[1] = q[2] /\ 2 \in DOMAIN q
      BY <1>1, <3>1
    <3>3. q[2].off = End(q[1])
      BY <1>1, <3>2 DEF Run
    <3>4. QED
      BY <2>2, <3>2, <3>3 DEF From
  <2>3. QED
    BY <2>1, <2>2
<1>6. QED
  BY <1>1, <1>4, <1>5 DEF From, r

LEMMA LengthLeft ==
  ASSUME NEW l \in Nat, NEW n \in 0..l
  PROVE  /\ n + 1 <= l => l - (n + 1) + 1 = l - n
         /\ ~(n + 1 <= l) => l - n = 0
         /\ l - n \in Nat
  OBVIOUS

LEMMA NoneLeft ==
  ASSUME NEW l \in Nat, NEW n \in 0..l, l - n = 0
  PROVE  n = l
  OBVIOUS

LEMMA SubSeqPiece ==
  ASSUME NEW q \in Seq(Piece), NEW n \in 0..Len(q)
  PROVE  /\ SubSeq(q, n + 1, Len(q)) \in Seq(Piece)
         /\ Len(q) \in Nat /\ DOMAIN q = 1..Len(q)
         /\ Len(SubSeq(q, n + 1, Len(q))) = Len(q) - n
         /\ DOMAIN SubSeq(q, n + 1, Len(q)) = 1..(Len(q) - n)
         /\ \A i \in DOMAIN SubSeq(q, n + 1, Len(q)) :
              i + n \in DOMAIN q /\ SubSeq(q, n + 1, Len(q))[i] = q[i + n]
<1>1. Len(q) \in Nat /\ DOMAIN q = 1..Len(q)
  OBVIOUS
<1>2. /\ SubSeq(q, n + 1, Len(q)) \in Seq(Piece)
      /\ Len(SubSeq(q, n + 1, Len(q))) = IF n + 1 <= Len(q) THEN Len(q) - (n + 1) + 1 ELSE 0
      /\ \A i \in 1..(Len(q) - (n + 1) + 1) : SubSeq(q, n + 1, Len(q))[i] = q[(n + 1) + i - 1]
  BY <1>1, SubSeqProperties
<1>3. Len(SubSeq(q, n + 1, Len(q))) = Len(q) - n
  <2> DEFINE r == SubSeq(q, n + 1, Len(q))
  <2>1. /\ n + 1 <= Len(q) => Len(r) = Len(q) - (n + 1) + 1
        /\ ~(n + 1 <= Len(q)) => Len(r) = 0
    BY <1>2
  <2> HIDE DEF r
  <2>2. Len(r) = Len(q) - n
    BY <1>1, <2>1, LengthLeft
  <2>3. QED
    BY <2>2 DEF r
<1>4. DOMAIN SubSeq(q, n + 1, Len(q)) = 1..(Len(q) - n)
  <2> DEFINE r == SubSeq(q, n + 1, Len(q))
  <2>1. r \in Seq(Piece) /\ Len(r) = Len(q) - n
    BY <1>2, <1>3
  <2> HIDE DEF r
  <2>2. DOMAIN r = 1..Len(r)
    BY <2>1
  <2>3. QED
    BY <2>1, <2>2 DEF r
<1>5. \A i \in 1..(Len(q) - n) : (n + 1) + i - 1 = i + n /\ i + n \in 1..Len(q)
                                 /\ i \in 1..(Len(q) - (n + 1) + 1)
  BY <1>1
<1>6. QED
  BY <1>1, <1>2, <1>3, <1>4, <1>5

LEMMA RunSub ==
  ASSUME NEW q \in Seq(Piece), NEW to \in Nat, Run(q, to), NEW n \in 0..Len(q)
  PROVE  /\ Run(SubSeq(q, n + 1, Len(q)), to)
         /\ From(SubSeq(q, n + 1, Len(q)), to) = IF n = 0 THEN From(q, to) ELSE End(q[n])
<1> DEFINE r == SubSeq(q, n + 1, Len(q))
<1>1. /\ r \in Seq(Piece) /\ Len(q) \in Nat /\ DOMAIN q = 1..Len(q)
      /\ Len(r) = Len(q) - n /\ DOMAIN r = 1..(Len(q) - n)
      /\ \A i \in DOMAIN r : i + n \in DOMAIN q /\ r[i] = q[i + n]
  BY SubSeqPiece
<1> HIDE DEF r
<1>2. ASSUME NEW i \in DOMAIN r
      PROVE  End(r[i]) <= to /\ (i = Len(r) => End(r[i]) = to)
  <2>1. i = Len(r) => i + n = Len(q)
    BY <1>1
  <2>2. QED
    BY <1>1, <2>1 DEF Run
<1>3. ASSUME NEW i \in DOMAIN r, NEW j \in DOMAIN r
      PROVE  /\ i < j => End(r[i]) <= r[j].off
             /\ j = i + 1 => r[j].off = End(r[i])
  <2>1. /\ i < j => i + n < j + n
        /\ j = i + 1 => j + n = (i + n) + 1
    BY <1>1
  <2>2. QED
    BY <1>1, <2>1 DEF Run
<1>4. Run(r, to)
  BY <1>2, <1>3 DEF Run
<1>5. CASE r = <<>>
  <2>1. n = Len(q)
    <3>1. Len(r) = 0
      BY <1>5, EmptySeq
    <3>2. Len(q) \in Nat /\ Len(q) - n = 0
      BY <1>1, <3>1, Zenon
    <3>3. QED
      BY <3>2, NoneLeft
  <2>2. n = 0 => q = <<>>
    <3>1. q # <<>> => Len(q) # 0
      BY EmptySeq
    <3>2. QED
      BY <2>1, <3>1
  <2>3. n # 0 => End(q[n]) = to
    <3>1. n # 0 => n \in DOMAIN q
      BY <1>1
    <3>2. QED
      BY <2>1, <3>1 DEF Run
  <2>4. QED
    BY <1>4, <1>5, <2>2, <2>3 DEF From, r
<1>6. CASE r # <<>>
  <2>1. 1 \in DOMAIN r /\ 1 + n \in DOMAIN q /\ r[1] = q[1 + n]
    BY <1>1, <1>6
  <2>2. q # <<>>
    BY <2>1
  <2>3. n # 0 => n \in DOMAIN q /\ q[1 + n].off = End(q[n])
    BY <1>1, <2>1 DEF Run
  <2>4. From(r, to) = q[1 + n].off
    BY <1>6, <2>1 DEF From
  <2>5. n = 0 => From(q, to) = q[1 + n].off
    BY <2>2 DEF From
  <2>6. QED
    BY <1>4, <2>3, <2>4, <2>5 DEF r
<1>7. QED
  BY <1>5, <1>6

\* A set of positions that has all below any it has is an initial segment.
LEMMA InitialSegment ==
  ASSUME NEW n \in Nat, NEW D \in SUBSET (1..n),
         \A j \in D : \A i \in 1..n : i < j => i \in D
  PROVE  Cardinality(D) \in 0..n /\ D = 1..Cardinality(D)
<1> DEFINE k == Cardinality(D)
<1>1. ASSUME NEW m \in 0..n PROVE IsFiniteSet(1..m) /\ Cardinality(1..m) = m
  <2>1. m \in Int /\ 1 \in Int /\ (1 > m => m = 0) /\ m - 1 + 1 = m
    OBVIOUS
  <2>2. IsFiniteSet(1..m) /\ Cardinality(1..m) = IF 1 > m THEN 0 ELSE m - 1 + 1
    BY <2>1, FS_Interval
  <2>3. QED
    BY <2>1, <2>2
<1>2. n \in 0..n
  OBVIOUS
<1>3. IsFiniteSet(D) /\ k <= n /\ k \in Nat
  <2>1. IsFiniteSet(1..n) /\ Cardinality(1..n) = n
    BY <1>1, <1>2
  <2>2. IsFiniteSet(D) /\ Cardinality(D) <= Cardinality(1..n)
    BY <2>1, FS_Subset
  <2>3. k \in Nat
    BY <2>2, FS_CardinalityType
  <2>4. QED
    BY <2>1, <2>2, <2>3
<1> HIDE DEF k
<1>4. ASSUME NEW j \in D PROVE j <= k
  <2>1. j \in 0..n /\ 1..j \subseteq D
    <3>1. \A i \in 1..j : i \in 1..n /\ (i < j \/ i = j)
      OBVIOUS
    <3>2. QED
      BY <3>1
  <2>2. Cardinality(1..j) <= Cardinality(D)
    BY <1>3, <2>1, FS_Subset
  <2>3. QED
    BY <1>1, <2>1, <2>2 DEF k
<1>5. ASSUME NEW i \in 1..k PROVE i \in D
  <2> SUFFICES ASSUME i \notin D PROVE FALSE
    OBVIOUS
  <2>1. i \in 1..n /\ i - 1 \in 0..n
    BY <1>3
  <2>2. D \subseteq 1..(i - 1)
    <3>1. ASSUME NEW j \in D PROVE j \in 1..(i - 1)
      <4>1. j \in 1..n /\ ~(i < j) /\ j # i
        BY <2>1
      <4>2. QED
        BY <2>1, <4>1
    <3>2. QED
      BY <3>1
  <2>3. Cardinality(D) <= Cardinality(1..(i - 1))
    BY <1>1, <2>1, <2>2, FS_Subset
  <2>4. k <= i - 1
    BY <1>1, <2>1, <2>3 DEF k
  <2>5. QED
    BY <1>3, <2>1, <2>4
<1>6. D = 1..k
  <2>1. \A j \in D : j \in 1..k
    <3>1. \A j \in D : j \in 1..n
      OBVIOUS
    <3>2. QED
      BY <1>3, <1>4, <3>1
  <2>2. QED
    BY <1>5, <2>1
<1>7. QED
  BY <1>3, <1>6 DEF k

\* restore() keeps the part of the queue from the first fresh piece on.
LEMMA StaleIsHead ==
  ASSUME queue \in Seq(Piece), snap.off \in Nat, NEW to \in Nat, Run(queue, to)
  PROVE  /\ Stale \in 0..Len(queue)
         /\ Stale > 0 => queue[Stale].off < snap.off
         /\ \A i \in (Stale + 1)..Len(queue) : queue[i].off >= snap.off
<1> DEFINE D == {i \in 1..Len(queue) : ~Fresh(queue[i])}
<1>1. Len(queue) \in Nat /\ DOMAIN queue = 1..Len(queue)
  OBVIOUS
<1>2. \A i \in 1..Len(queue) : i \in D <=> queue[i].off < snap.off
  <2>1. \A i \in 1..Len(queue) : queue[i].off \in Nat
    BY <1>1, PieceAt
  <2>2. QED
    BY <2>1 DEF Fresh
<1>3. ASSUME NEW j \in D, NEW i \in 1..Len(queue), i < j
      PROVE  i \in D
  <2>1. j \in 1..Len(queue) /\ queue[j].off < snap.off
    BY <1>2
  <2>2. End(queue[i]) <= queue[j].off
    BY <1>1, <1>3, <2>1 DEF Run
  <2>3. queue[i].off <= End(queue[i]) /\ queue[i].off \in Nat /\ End(queue[i]) \in Nat
        /\ queue[j].off \in Nat
    BY <1>1, <2>1, PieceAt
  <2>4. queue[i].off < snap.off
    BY <2>1, <2>2, <2>3
  <2>5. QED
    BY <1>2, <2>4
<1>4. Cardinality(D) \in 0..Len(queue) /\ D = 1..Cardinality(D)
  <2>1. D \in SUBSET (1..Len(queue))
    OBVIOUS
  <2> HIDE DEF D
  <2>2. QED
    BY <1>1, <1>3, <2>1, InitialSegment
<1>5. Stale = Cardinality(D)
  BY DEF Stale
<1> HIDE DEF D
<1>6. Stale \in 0..Len(queue) /\ D = 1..Stale
  BY <1>4, <1>5
<1>7. Stale > 0 => Stale \in D /\ Stale \in 1..Len(queue)
  BY <1>1, <1>6
<1>8. \A i \in (Stale + 1)..Len(queue) : i \in 1..Len(queue) /\ i \notin D
  BY <1>1, <1>6
<1>9. ASSUME NEW i \in (Stale + 1)..Len(queue)
      PROVE  queue[i].off >= snap.off
  <2>1. i \in 1..Len(queue) /\ i \notin D
    BY <1>8
  <2>2. queue[i].off \in Nat /\ ~(queue[i].off < snap.off)
    BY <1>1, <1>2, <2>1, PieceAt
  <2>3. QED
    BY <2>2
<1>10. QED
  BY <1>2, <1>6, <1>7, <1>9

LEMMA RunAdjoins ==
  ASSUME NEW q \in Seq(Piece), NEW to, Run(q, to)
  PROVE  /\ \A i \in 2..Len(q) : q[i].off = End(q[i - 1])
         /\ q # <<>> => End(q[Len(q)]) = to
<1>1. Len(q) \in Nat /\ DOMAIN q = 1..Len(q)
  OBVIOUS
<1>2. ASSUME NEW i \in 2..Len(q) PROVE q[i].off = End(q[i - 1])
  <2>1. i \in DOMAIN q /\ i - 1 \in DOMAIN q /\ i = (i - 1) + 1
    BY <1>1
  <2>2. QED
    BY <2>1 DEF Run
<1>3. q # <<>> => Len(q) \in DOMAIN q
  BY <1>1, EmptySeq
<1>4. QED
  BY <1>2, <1>3 DEF Run

-----------------------------------------------------------------------------
(* The steps *)

LEMMA Offsets ==
  ASSUME TypeOK, RunsInv
  PROVE  /\ total \in Nat /\ piece \in Piece /\ snap.off \in Nat /\ snap.lo \in Nat
         /\ bus \in Seq(Piece) /\ queue \in Seq(Piece) /\ screen \in Seq(Piece)
         /\ SendFrom \in Nat /\ BusFrom \in Nat /\ QueueFrom \in Nat
         /\ QueueFrom <= BusFrom /\ BusFrom <= SendFrom /\ SendFrom <= total
<1>1. /\ total \in Nat /\ piece \in Piece /\ snap.off \in Nat /\ snap.lo \in Nat
      /\ bus \in Seq(Piece) /\ queue \in Seq(Piece) /\ screen \in Seq(Piece)
  BY DEF TypeOK
<1>2. SendFrom \in Nat /\ SendFrom <= total
  BY <1>1, PieceType DEF SendFrom, RunsInv
<1>3. BusFrom \in Nat /\ BusFrom <= SendFrom
  BY <1>1, <1>2, FromType, RunBound DEF BusFrom, RunsInv
<1>4. QueueFrom \in Nat /\ QueueFrom <= BusFrom
  BY <1>1, <1>3, FromType, RunBound DEF QueueFrom, RunsInv
<1>5. QED
  BY <1>1, <1>2, <1>3, <1>4

viewPath == <<bus, queue, snap, screen, wv, spilled>>

\* A step that leaves the way to the screen alone.
LEMMA QuietKeeps ==
  ASSUME TypeOK, ScreenInv, UNCHANGED viewPath, SendFrom' = SendFrom,
         total' \in Nat, total <= total',
         epc' = "send" => End(piece') = total' /\ Clear(piece')
  PROVE  ScreenInv'
<1> USE DEF viewPath
<1>1. BusFrom' = BusFrom /\ QueueFrom' = QueueFrom
  BY DEF BusFrom, QueueFrom
<1>2. RunsInv'
  BY <1>1 DEF ScreenInv, RunsInv
<1>3. ClearInv'
  <2>1. snap.off <= total'
    BY DEF ScreenInv, ClearInv, TypeOK
  <2>2. QED
    BY <2>1 DEF ScreenInv, ClearInv, Clear
<1>4. StageInv' /\ ScreenContiguous'
  BY DEF ScreenInv, StageInv, ScreenContiguous
<1>5. JoinInv' /\ TailInv'
  BY <1>1 DEF ScreenInv, JoinInv, TailInv
<1>6. QED
  BY <1>2, <1>3, <1>4, <1>5 DEF ScreenInv

LEMMA EmitDataKeeps == ASSUME TypeOK, ScreenInv, EmitData PROVE ScreenInv'
<1>1. /\ epc = "send" /\ epc' # "send" /\ total' = total
      /\ UNCHANGED <<queue, snap, screen, wv, spilled>>
  BY DEF EmitData, chanVars
<1>2. SendFrom = piece.off /\ SendFrom' = End(piece) /\ End(piece) = total
  BY <1>1 DEF SendFrom, ScreenInv, RunsInv
<1>3. CASE wv = "down"
  <2>1. bus = <<>> /\ bus' = <<>> /\ queue = <<>> /\ screen = <<>>
    BY <1>3 DEF EmitData, ScreenInv, StageInv
  <2>2. RunsInv'
    BY <1>1, <2>1 DEF RunsInv, Run
  <2>3. ClearInv'
    BY <1>1, <2>1 DEF ScreenInv, ClearInv
  <2>4. StageInv' /\ JoinInv' /\ TailInv' /\ ScreenContiguous'
    BY <1>1, <1>3, <2>1 DEF ScreenInv, StageInv, JoinInv, TailInv, ScreenContiguous
  <2>5. QED
    BY <2>2, <2>3, <2>4 DEF ScreenInv
<1>4. CASE wv # "down"
  <2>1. bus' = Append(bus, piece)
    BY <1>4 DEF EmitData
  <2>2. bus \in Seq(Piece) /\ piece \in Piece /\ Run(bus, piece.off)
    BY <1>2 DEF TypeOK, ScreenInv, RunsInv
  <2>3. Run(bus', SendFrom') /\ From(bus', SendFrom') = From(bus, SendFrom)
    BY <1>2, <2>1, <2>2, RunAppend
  <2>4. BusFrom' = BusFrom /\ QueueFrom' = QueueFrom
    BY <1>1, <2>3 DEF BusFrom, QueueFrom
  <2>5. RunsInv'
    BY <1>1, <2>3, <2>4 DEF ScreenInv, RunsInv
  <2>6. ClearInv'
    <3>1. \A i \in DOMAIN bus' : (i \in DOMAIN bus /\ bus'[i] = bus[i]) \/ bus'[i] = piece
      <4>1. /\ DOMAIN bus' = 1..(Len(bus) + 1) /\ DOMAIN bus = 1..Len(bus)
            /\ Len(bus) \in Nat /\ (\A i \in DOMAIN bus : bus'[i] = bus[i])
            /\ bus'[Len(bus) + 1] = piece
        BY <2>1, <2>2, AppendPiece
      <4>2. \A i \in 1..(Len(bus) + 1) : i \in 1..Len(bus) \/ i = Len(bus) + 1
        BY <4>1
      <4>3. QED
        BY <4>1, <4>2
    <3>2. Clear(piece) /\ \A i \in DOMAIN bus : Clear(bus[i])
      BY <1>1 DEF ScreenInv, ClearInv
    <3>3. \A i \in DOMAIN bus' : Clear(bus'[i])
      BY <3>1, <3>2
    <3>4. QED
      BY <1>1, <3>3 DEF ScreenInv, ClearInv, Clear
  <2>7. StageInv' /\ ScreenContiguous'
    BY <1>1, <1>4 DEF ScreenInv, StageInv, ScreenContiguous
  <2>8. JoinInv' /\ TailInv'
    BY <1>1, <2>4 DEF ScreenInv, JoinInv, TailInv
  <2>9. QED
    BY <2>5, <2>6, <2>7, <2>8 DEF ScreenInv
<1>5. QED
  BY <1>3, <1>4

\* The emitter and what it has sent are left alone.
emitPath == <<epc, piece, total>>

LEMMA SendKept == ASSUME UNCHANGED emitPath PROVE SendFrom' = SendFrom
  BY DEF emitPath, SendFrom

\* A view comes or goes, and is empty.
LEMMA TurnKeeps ==
  ASSUME TypeOK, ScreenInv, UNCHANGED emitPath,
         queue' = <<>>, screen' = <<>>, snap' = NoSnap,
         bus' = bus \/ bus' = <<>>, wv' = "down" => bus' = <<>>
  PROVE  ScreenInv'
<1>1. SendFrom' = SendFrom
  BY SendKept
<1>2. RunsInv'
  <2>1. Run(bus', SendFrom')
    BY <1>1, RunEmpty DEF ScreenInv, RunsInv
  <2>2. Run(queue', BusFrom')
    BY RunEmpty
  <2>3. QED
    BY <2>1, <2>2 DEF emitPath, RunsInv, ScreenInv
<1>3. snap'.off = 0
  BY DEF NoSnap
<1>4. ClearInv'
  <2>1. total \in Nat /\ piece.off \in Nat /\ \A i \in DOMAIN bus : bus[i].off \in Nat
    BY PieceAt, PieceType DEF TypeOK
  <2>2. \A i \in DOMAIN bus' : bus'[i].off \in Nat
    BY <2>1
  <2>3. QED
    BY <1>3, <2>1, <2>2 DEF emitPath, ClearInv, Clear
<1>5. StageInv' /\ JoinInv' /\ TailInv' /\ ScreenContiguous'
  BY DEF StageInv, JoinInv, TailInv, ScreenContiguous, NoSnap
<1>6. QED
  BY <1>2, <1>4, <1>5 DEF ScreenInv

LEMMA CreateKeeps ==
  ASSUME TypeOK, ScreenInv, CreateView \/ CreateFrozenView
  PROVE  ScreenInv'
<1>1. /\ wv \in {"none", "down"} /\ wv' # "down"
      /\ UNCHANGED <<bus, queue, screen, snap>> /\ UNCHANGED emitPath
  BY DEF CreateView, CreateFrozenView, emitPath, chanVars, emitterVars
<1>2. queue = <<>> /\ screen = <<>> /\ snap = NoSnap
  BY <1>1 DEF ScreenInv, StageInv
<1>3. QED
  BY <1>1, <1>2, TurnKeeps

LEMMA ReloadKeeps ==
  ASSUME TypeOK, ScreenInv, Reload \/ Dispose
  PROVE  ScreenInv'
<1>1. /\ queue' = <<>> /\ screen' = <<>> /\ snap' = NoSnap
      /\ (bus' = bus \/ bus' = <<>>) /\ (wv' = "down" => bus' = <<>>)
      /\ UNCHANGED emitPath
  BY DEF Reload, Dispose, emitPath, chanVars, emitterVars
<1>2. QED
  BY <1>1, TurnKeeps

\* What is known when an event reaches the view.
LEMMA EventArrives ==
  ASSUME TypeOK, ScreenInv, bus # <<>>, bus' = Tail(bus), UNCHANGED emitPath
  PROVE  /\ Head(bus) \in Piece /\ Head(bus).off = BusFrom /\ Clear(Head(bus))
         /\ SendFrom' = SendFrom /\ Run(bus', SendFrom) /\ BusFrom' = End(Head(bus))
         /\ \A i \in DOMAIN bus' : Clear(bus'[i])
<1>1. bus \in Seq(Piece) /\ SendFrom \in Nat /\ Run(bus, SendFrom)
  BY Offsets DEF ScreenInv, RunsInv
<1>2. SendFrom' = SendFrom
  BY SendKept
<1>3. /\ Run(Tail(bus), SendFrom) /\ From(Tail(bus), SendFrom) = End(Head(bus))
      /\ Head(bus).off = From(bus, SendFrom)
  BY <1>1, RunTail
<1>4. /\ 1 \in DOMAIN bus /\ Head(bus) = bus[1] /\ Head(bus) \in Piece
      /\ \A i \in DOMAIN bus' : i + 1 \in DOMAIN bus /\ bus'[i] = bus[i + 1]
  BY <1>1, TailPiece
<1>5. Clear(Head(bus)) /\ \A i \in DOMAIN bus' : Clear(bus'[i])
  BY <1>4 DEF ScreenInv, ClearInv
<1>6. QED
  BY <1>2, <1>3, <1>4, <1>5 DEF BusFrom

LEMMA FeedNoViewKeeps == ASSUME TypeOK, ScreenInv, FeedNoView PROVE ScreenInv'
<1>1. /\ bus # <<>> /\ wv = "none" /\ bus' = Tail(bus) /\ UNCHANGED emitPath
      /\ UNCHANGED <<queue, snap, screen, wv, spilled>>
  BY DEF FeedNoView, emitPath, chanVars, emitterVars
<1>2. queue = <<>> /\ screen = <<>>
  BY <1>1 DEF ScreenInv, StageInv
<1>3. /\ Run(bus', SendFrom) /\ SendFrom' = SendFrom
      /\ \A i \in DOMAIN bus' : Clear(bus'[i])
  BY <1>1, EventArrives
<1>4. RunsInv'
  <2>1. Run(queue', BusFrom')
    BY <1>1, <1>2, RunEmpty
  <2>2. QED
    BY <1>1, <1>3, <2>1 DEF emitPath, ScreenInv, RunsInv
<1>5. ClearInv'
  BY <1>1, <1>2, <1>3 DEF emitPath, ScreenInv, ClearInv, Clear
<1>6. StageInv' /\ JoinInv' /\ TailInv' /\ ScreenContiguous'
  BY <1>1, <1>2 DEF ScreenInv, StageInv, JoinInv, TailInv, ScreenContiguous
<1>7. QED
  BY <1>4, <1>5, <1>6 DEF ScreenInv

LEMMA FeedFrozenKeeps == ASSUME TypeOK, ScreenInv, FeedFrozen PROVE ScreenInv'
<1> DEFINE h == Head(bus)
           q == Append(queue, h)
           n == Excess(q)
<1>1. /\ bus # <<>> /\ wv \in {"frozen", "restoring"} /\ bus' = Tail(bus)
      /\ queue' = SubSeq(q, n + 1, Len(q)) /\ UNCHANGED emitPath
      /\ UNCHANGED <<snap, screen, wv>>
  BY DEF FeedFrozen, emitPath, chanVars, emitterVars
<1>2. spilled' = (spilled \/ (wv = "restoring" /\ \E i \in 1..n : End(q[i]) > snap.off))
  BY DEF FeedFrozen
<1>3. /\ h \in Piece /\ h.off = BusFrom /\ Clear(h)
      /\ SendFrom' = SendFrom /\ Run(bus', SendFrom) /\ BusFrom' = End(h)
      /\ \A i \in DOMAIN bus' : Clear(bus'[i])
  BY <1>1, EventArrives
<1>4. queue \in Seq(Piece) /\ Run(queue, h.off)
  BY <1>3 DEF TypeOK, ScreenInv, RunsInv
<1>5. /\ q \in Seq(Piece) /\ q # <<>> /\ DOMAIN q = 1..(Len(queue) + 1)
      /\ Len(queue) \in Nat /\ DOMAIN queue = 1..Len(queue)
      /\ (\A i \in DOMAIN queue : q[i] = queue[i]) /\ q[Len(queue) + 1] = h
  BY <1>3, <1>4, AppendPiece
<1>6. Run(q, End(h)) /\ From(q, End(h)) = QueueFrom
  BY <1>3, <1>4, RunAppend DEF QueueFrom
<1>7. \A i \in DOMAIN q : Clear(q[i])
  <2>1. \A i \in DOMAIN q : i \in DOMAIN queue \/ i = Len(queue) + 1
    BY <1>5
  <2>2. QED
    BY <1>3, <1>5, <2>1 DEF ScreenInv, ClearInv
<1> HIDE DEF h, q
<1>8. n \in 0..(Len(q) - 1) /\ Len(q) \in Nat
  BY <1>5, ExcessRange
<1> HIDE DEF n
<1>9. n \in 0..Len(q) /\ End(h) \in Nat
  BY <1>3, <1>8, PieceType
<1>10. /\ Run(queue', BusFrom')
       /\ QueueFrom' = IF n = 0 THEN QueueFrom ELSE End(q[n])
  BY <1>1, <1>3, <1>5, <1>6, <1>9, RunSub DEF QueueFrom
<1>11. \A i \in DOMAIN queue' : Clear(queue'[i])
  BY <1>1, <1>5, <1>7, <1>9, SubSeqPiece
<1>12. RunsInv'
  BY <1>1, <1>3, <1>10 DEF emitPath, ScreenInv, RunsInv
<1>13. ClearInv'
  BY <1>1, <1>3, <1>11 DEF emitPath, ScreenInv, ClearInv, Clear
<1>14. StageInv' /\ TailInv' /\ ScreenContiguous'
  <2>1. screen = <<>>
    BY <1>1 DEF ScreenInv, StageInv
  <2>2. QED
    BY <1>1, <2>1 DEF ScreenInv, StageInv, TailInv, ScreenContiguous
<1>15. JoinInv'
  <2> SUFFICES ASSUME wv = "restoring", ~spilled', snap.lo < snap.off
               PROVE  QueueFrom' <= snap.off
    BY <1>1 DEF JoinInv
  <2>1. ~spilled /\ \A i \in 1..n : ~(End(q[i]) > snap.off)
    BY <1>2
  <2>2. CASE n = 0
    BY <1>10, <2>1, <2>2 DEF ScreenInv, JoinInv
  <2>3. CASE n # 0
    <3>1. n \in 1..n /\ n \in DOMAIN q
      BY <1>5, <1>8, <2>3
    <3>2. End(q[n]) \in Nat /\ snap.off \in Nat
      BY <1>5, <3>1, PieceAt DEF TypeOK
    <3>3. End(q[n]) <= snap.off
      BY <2>1, <3>1, <3>2
    <3>4. QED
      BY <1>10, <2>3, <3>3
  <2>4. QED
    BY <2>2, <2>3
<1>16. QED
  BY <1>12, <1>13, <1>14, <1>15 DEF ScreenInv

LEMMA FeedLiveKeeps == ASSUME TypeOK, ScreenInv, FeedLive PROVE ScreenInv'
<1> DEFINE h == Head(bus)
<1>1. /\ bus # <<>> /\ wv = "live" /\ bus' = Tail(bus) /\ screen' = Append(screen, h)
      /\ UNCHANGED emitPath /\ UNCHANGED <<queue, snap, wv, spilled>>
  BY DEF FeedLive, emitPath, chanVars, emitterVars, histVars
<1>2. /\ h \in Piece /\ h.off = BusFrom /\ Clear(h)
      /\ SendFrom' = SendFrom /\ Run(bus', SendFrom) /\ BusFrom' = End(h)
      /\ \A i \in DOMAIN bus' : Clear(bus'[i])
  BY <1>1, EventArrives
<1>3. queue = <<>> /\ screen \in Seq(Piece)
  BY <1>1 DEF TypeOK, ScreenInv, StageInv
<1>4. /\ Len(screen') = Len(screen) + 1 /\ Len(screen) \in Nat
      /\ DOMAIN screen = 1..Len(screen)
      /\ (\A i \in DOMAIN screen : screen'[i] = screen[i]) /\ screen'[Len(screen) + 1] = h
  BY <1>1, <1>2, <1>3, AppendPiece
<1> HIDE DEF h
<1>5. RunsInv'
  <2>1. Run(queue', BusFrom')
    BY <1>1, <1>3, RunEmpty
  <2>2. QED
    BY <1>1, <1>2, <2>1 DEF emitPath, ScreenInv, RunsInv
<1>6. ClearInv'
  BY <1>1, <1>2, <1>3 DEF emitPath, ScreenInv, ClearInv, Clear
<1>7. StageInv' /\ JoinInv'
  BY <1>1 DEF ScreenInv, StageInv, JoinInv
<1>8. TailInv'
  BY <1>2, <1>4 DEF TailInv
<1>9. ScreenContiguous'
  <2> SUFFICES ASSUME ~spilled, NEW i \in 2..(Len(screen) + 1)
               PROVE  \/ screen'[i].off = End(screen'[i - 1])
                      \/ /\ i = 2 /\ snap.off > 0 /\ End(screen'[1]) = snap.off
                         /\ End(screen'[2]) <= snap.off
    BY <1>1, <1>4 DEF ScreenContiguous
  <2>1. CASE i \in 2..Len(screen)
    <3>1. i \in DOMAIN screen /\ i - 1 \in DOMAIN screen /\ 1 \in DOMAIN screen
          /\ 2 \in DOMAIN screen
      BY <1>4, <2>1
    <3>2. QED
      BY <1>4, <2>1, <3>1 DEF ScreenInv, ScreenContiguous
  <2>2. CASE i = Len(screen) + 1
    <3>1. Len(screen) >= 1 /\ screen # <<>> /\ i - 1 = Len(screen)
          /\ i - 1 \in DOMAIN screen /\ 1 \in DOMAIN screen
      BY <1>4, <2>2
    <3>2. screen'[i] = h /\ screen'[i - 1] = screen[Len(screen)] /\ screen'[1] = screen[1]
      BY <1>4, <2>2, <3>1
    <3>3. CASE End(screen[Len(screen)]) = BusFrom
      BY <1>2, <3>2, <3>3
    <3>4. CASE /\ Len(screen) = 1 /\ snap.off > 0 /\ End(screen[1]) = snap.off
               /\ BusFrom <= snap.off
      <4>1. h.off \in Nat /\ snap.off \in Nat
        BY <1>2, PieceType DEF TypeOK
      <4>2. h.off = snap.off \/ End(h) <= snap.off
        BY <1>2, <3>4, <4>1 DEF Clear
      <4>3. i = 2
        BY <2>2, <3>4
      <4>4. QED
        BY <3>2, <3>4, <4>2, <4>3
    <3>5. QED
      BY <1>1, <3>1, <3>3, <3>4 DEF ScreenInv, TailInv
  <2>3. QED
    BY <1>4, <2>1, <2>2
<1>10. QED
  BY <1>5, <1>6, <1>7, <1>8, <1>9 DEF ScreenInv

LEMMA GetScrollbackKeeps == ASSUME TypeOK, ScreenInv, GetScrollback PROVE ScreenInv'
<1>1. /\ wv = "frozen" /\ wv' = "restoring" /\ UNCHANGED emitPath
      /\ UNCHANGED <<bus, queue, screen, spilled>>
      /\ snap' = [lo |-> scroll, off |-> total] \/ snap' = NoSnap
  BY DEF GetScrollback, emitPath, emitterVars
<1>2. SendFrom' = SendFrom /\ BusFrom' = BusFrom /\ QueueFrom' = QueueFrom
  BY <1>1, SendKept DEF BusFrom, QueueFrom
<1>3. RunsInv'
  BY <1>1, <1>2 DEF emitPath, ScreenInv, RunsInv
<1>4. /\ total \in Nat /\ piece \in Piece /\ bus \in Seq(Piece) /\ queue \in Seq(Piece)
      /\ SendFrom \in Nat /\ BusFrom \in Nat /\ QueueFrom \in Nat
      /\ QueueFrom <= BusFrom /\ BusFrom <= SendFrom /\ SendFrom <= total
  BY Offsets DEF ScreenInv
<1>5. ClearInv'
  <2>1. CASE snap' = [lo |-> scroll, off |-> total]
    <3>1. snap'.off = total
      BY <2>1
    <3>2. epc = "send" => End(piece) <= total
      BY <1>4 DEF ScreenInv, RunsInv
    <3>3. ASSUME NEW i \in DOMAIN bus PROVE End(bus[i]) <= total
      <4>1. End(bus[i]) <= SendFrom /\ End(bus[i]) \in Nat
        BY <1>4, PieceAt DEF ScreenInv, RunsInv, Run
      <4>2. QED
        BY <1>4, <4>1
    <3>4. ASSUME NEW i \in DOMAIN queue PROVE End(queue[i]) <= total
      <4>1. End(queue[i]) <= BusFrom /\ End(queue[i]) \in Nat
        BY <1>4, PieceAt DEF ScreenInv, RunsInv, Run
      <4>2. QED
        BY <1>4, <4>1
    <3>5. QED
      BY <1>1, <1>4, <3>1, <3>2, <3>3, <3>4 DEF emitPath, ClearInv, Clear
  <2>2. CASE snap' = NoSnap
    <3>1. snap'.off = 0
      BY <2>2 DEF NoSnap
    <3>2. /\ piece.off \in Nat /\ (\A i \in DOMAIN bus : bus[i].off \in Nat)
          /\ \A i \in DOMAIN queue : queue[i].off \in Nat
      BY <1>4, PieceAt, PieceType
    <3>3. QED
      BY <1>1, <1>4, <3>1, <3>2 DEF emitPath, ClearInv, Clear
  <2>3. QED
    BY <1>1, <2>1, <2>2
<1>6. StageInv' /\ TailInv' /\ ScreenContiguous'
  <2>1. screen = <<>>
    BY <1>1 DEF ScreenInv, StageInv
  <2>2. QED
    BY <1>1, <2>1 DEF StageInv, TailInv, ScreenContiguous
<1>7. JoinInv'
  <2>1. CASE snap' = [lo |-> scroll, off |-> total]
    BY <1>2, <1>4, <2>1 DEF JoinInv
  <2>2. CASE snap' = NoSnap
    BY <2>2 DEF JoinInv, NoSnap
  <2>3. QED
    BY <1>1, <2>1, <2>2
<1>8. QED
  BY <1>3, <1>5, <1>6, <1>7 DEF ScreenInv

\* The view is shown: what it had queued, if it is to be shown at all, is.
LEMMA ShownKeeps ==
  ASSUME TypeOK, ScreenInv, UNCHANGED emitPath, UNCHANGED <<bus, snap, spilled>>,
         wv' = "live", queue' = <<>>,
         ~spilled => ScreenContiguous' /\ TailInv'
  PROVE  ScreenInv'
<1>1. SendFrom' = SendFrom
  BY SendKept
<1>2. RunsInv'
  <2>1. Run(queue', BusFrom')
    BY RunEmpty
  <2>2. QED
    BY <1>1, <2>1 DEF emitPath, ScreenInv, RunsInv
<1>3. ClearInv'
  BY DEF emitPath, ScreenInv, ClearInv, Clear
<1>4. StageInv' /\ JoinInv'
  BY DEF ScreenInv, StageInv, JoinInv
<1>5. ScreenContiguous' /\ TailInv'
  BY DEF ScreenContiguous, TailInv
<1>6. QED
  BY <1>2, <1>3, <1>4, <1>5 DEF ScreenInv

\* A screen that is the queue, or the part of it that was kept.
LEMMA QueueShown ==
  ASSUME NEW q \in Seq(Piece), BusFrom' = BusFrom, Run(q, BusFrom), screen' = q
  PROVE  ScreenContiguous' /\ TailInv'
<1>1. /\ \A i \in 2..Len(q) : q[i].off = End(q[i - 1])
      /\ q # <<>> => End(q[Len(q)]) = BusFrom
  BY RunAdjoins
<1>2. QED
  BY <1>1 DEF ScreenContiguous, TailInv

LEMMA RestoreFailedKeeps == ASSUME TypeOK, ScreenInv, RestoreFailed PROVE ScreenInv'
<1>1. /\ wv' = "live" /\ screen' = queue /\ queue' = <<>> /\ UNCHANGED emitPath
      /\ UNCHANGED <<bus, snap, spilled>>
  BY DEF RestoreFailed, emitPath, chanVars, emitterVars, histVars
<1>2. BusFrom' = BusFrom
  BY <1>1, SendKept DEF BusFrom
<1>3. queue \in Seq(Piece) /\ Run(queue, BusFrom)
  BY DEF TypeOK, ScreenInv, RunsInv
<1>4. ScreenContiguous' /\ TailInv'
  BY <1>1, <1>2, <1>3, QueueShown
<1>5. QED
  BY <1>1, <1>4, ShownKeeps

LEMMA ConsPiece ==
  ASSUME NEW p \in Piece, NEW r \in Seq(Piece)
  PROVE  /\ Len(<<p>> \o r) = Len(r) + 1 /\ Len(r) \in Nat /\ (<<p>> \o r)[1] = p
         /\ \A i \in 2..(Len(r) + 1) : i - 1 \in DOMAIN r /\ (<<p>> \o r)[i] = r[i - 1]
<1>1. <<p>> \in Seq(Piece) /\ Len(<<p>>) = 1 /\ <<p>>[1] = p
  OBVIOUS
<1>2. Len(r) \in Nat /\ DOMAIN r = 1..Len(r)
  OBVIOUS
<1> DEFINE s == <<p>>
<1> HIDE DEF s
<1>3. /\ Len(s \o r) = Len(s) + Len(r)
      /\ \A i \in 1..(Len(s) + Len(r)) : (s \o r)[i] = IF i <= Len(s) THEN s[i] ELSE r[i - Len(s)]
  <2>1. s \in Seq(Piece)
    BY <1>1 DEF s
  <2>2. QED
    BY <2>1, ConcatProperties
<1>4. Len(s) = 1 /\ s[1] = p
  BY <1>1 DEF s
<1>5. Len(s \o r) = Len(r) + 1 /\ (s \o r)[1] = p
  BY <1>2, <1>3, <1>4
<1>6. ASSUME NEW i \in 2..(Len(r) + 1)
      PROVE  i - 1 \in DOMAIN r /\ (s \o r)[i] = r[i - 1]
  <2>1. i \in 1..(Len(s) + Len(r)) /\ ~(i <= Len(s)) /\ i - Len(s) = i - 1
    BY <1>2, <1>4
  <2>2. QED
    BY <1>2, <1>3, <2>1
<1>7. QED
  BY <1>2, <1>5, <1>6 DEF s

\* A screen that is the snapshot and then the queued pieces that are newer.
LEMMA SnapshotShown ==
  ASSUME NEW p \in Piece, NEW r \in Seq(Piece), BusFrom' = BusFrom, snap' = snap,
         Run(r, BusFrom), screen' = <<p>> \o r,
         End(p) = snap.off, snap.off > 0,
         r # <<>> => r[1].off = snap.off, r = <<>> => BusFrom <= snap.off
  PROVE  ScreenContiguous' /\ TailInv'
<1>1. /\ Len(screen') = Len(r) + 1 /\ Len(r) \in Nat /\ screen'[1] = p
      /\ \A i \in 2..(Len(r) + 1) : i - 1 \in DOMAIN r /\ screen'[i] = r[i - 1]
  BY ConsPiece
<1>2. /\ \A i \in 2..Len(r) : r[i].off = End(r[i - 1])
      /\ r # <<>> => End(r[Len(r)]) = BusFrom
  BY RunAdjoins
<1>3. ScreenContiguous'
  <2> SUFFICES ASSUME NEW i \in 2..(Len(r) + 1)
               PROVE  screen'[i].off = End(screen'[i - 1])
    BY <1>1 DEF ScreenContiguous
  <2>1. CASE i = 2
    <3>1. r # <<>> /\ i - 1 = 1
      BY <1>1, <2>1
    <3>2. QED
      BY <1>1, <2>1, <3>1
  <2>2. CASE i # 2
    <3>1. i - 1 \in 2..Len(r) /\ i - 1 \in 2..(Len(r) + 1) /\ (i - 1) - 1 = i - 2
      BY <1>1, <2>2
    <3>2. screen'[i] = r[i - 1] /\ screen'[i - 1] = r[(i - 1) - 1]
      BY <1>1, <3>1
    <3>3. QED
      BY <1>2, <3>1, <3>2
  <2>3. QED
    BY <2>1, <2>2
<1>4. TailInv'
  <2>1. CASE r = <<>>
    <3>1. Len(r) = 0
      BY <2>1, EmptySeq
    <3>2. Len(screen') = 1
      BY <1>1, <3>1
    <3>3. QED
      BY <1>1, <2>1, <3>2 DEF TailInv
  <2>2. CASE r # <<>>
    <3>1. Len(r) # 0
      BY <2>2, EmptySeq
    <3>2. Len(screen') \in 2..(Len(r) + 1) /\ Len(screen') - 1 = Len(r)
      BY <1>1, <3>1
    <3>3. screen'[Len(screen')] = r[Len(r)]
      BY <1>1, <3>2
    <3>4. QED
      BY <1>2, <2>2, <3>3 DEF TailInv
  <2>3. QED
    BY <2>1, <2>2
<1>5. QED
  BY <1>3, <1>4

LEMMA RestoreKeeps == ASSUME TypeOK, ScreenInv, Restore PROVE ScreenInv'
<1> DEFINE kept == SubSeq(queue, Stale + 1, Len(queue))
<1>1. /\ wv = "restoring" /\ wv' = "live" /\ screen' = SnapText \o kept /\ queue' = <<>>
      /\ UNCHANGED emitPath /\ UNCHANGED <<bus, snap, spilled>>
  BY DEF Restore, emitPath, chanVars, emitterVars, histVars
<1>2. BusFrom' = BusFrom
  BY <1>1, SendKept DEF BusFrom
<1>3. /\ queue \in Seq(Piece) /\ Run(queue, BusFrom) /\ snap.off \in Nat /\ snap.lo \in Nat
      /\ BusFrom \in Nat /\ QueueFrom \in Nat /\ QueueFrom <= BusFrom
  BY Offsets DEF ScreenInv, RunsInv
<1>4. /\ Stale \in 0..Len(queue)
      /\ Stale > 0 => queue[Stale].off < snap.off
      /\ \A i \in (Stale + 1)..Len(queue) : queue[i].off >= snap.off
  BY <1>3, StaleIsHead
<1>5. /\ Run(kept, BusFrom)
      /\ From(kept, BusFrom) = IF Stale = 0 THEN QueueFrom ELSE End(queue[Stale])
  BY <1>3, <1>4, RunSub DEF QueueFrom
<1>6. /\ kept \in Seq(Piece) /\ Len(queue) \in Nat /\ DOMAIN queue = 1..Len(queue)
      /\ DOMAIN kept = 1..(Len(queue) - Stale)
      /\ \A i \in DOMAIN kept : i + Stale \in DOMAIN queue /\ kept[i] = queue[i + Stale]
  BY <1>3, <1>4, SubSeqPiece
<1>7. kept # <<>> => 1 \in DOMAIN kept
  BY <1>6
<1> HIDE DEF kept
<1>8. kept # <<>> => kept[1].off \in Nat /\ kept[1].off >= snap.off
                     /\ From(kept, BusFrom) = kept[1].off
  <2> SUFFICES ASSUME kept # <<>>
               PROVE  kept[1].off \in Nat /\ kept[1].off >= snap.off
                      /\ From(kept, BusFrom) = kept[1].off
    OBVIOUS
  <2>1. kept[1] = queue[1 + Stale] /\ 1 + Stale \in DOMAIN queue
    BY <1>6, <1>7
  <2>2. 1 + Stale \in (Stale + 1)..Len(queue)
    BY <1>4, <1>6, <2>1
  <2>3. queue[1 + Stale].off >= snap.off
    BY <1>4, <2>2
  <2>4. kept[1].off \in Nat
    BY <1>6, <1>7, PieceAt
  <2>5. QED
    BY <2>1, <2>3, <2>4 DEF From
<1>9. ~spilled => ScreenContiguous' /\ TailInv'
  <2> SUFFICES ASSUME ~spilled PROVE ScreenContiguous' /\ TailInv'
    OBVIOUS
  <2>1. CASE ~(snap.off > snap.lo)
    <3>1. screen' = kept
      BY <1>1, <1>6, <2>1, ConcatEmptySeq DEF SnapText
    <3>2. QED
      BY <1>2, <1>5, <1>6, <3>1, QueueShown
  <2>2. CASE snap.off > snap.lo
    <3> DEFINE p == [off |-> snap.lo, len |-> snap.off - snap.lo]
    <3>1. p \in Piece /\ End(p) = snap.off
      BY <1>3, <2>2 DEF Piece, End
    <3>2. screen' = <<p>> \o kept /\ snap.off > 0
      BY <1>1, <1>3, <2>2 DEF SnapText
    <3> HIDE DEF p
    <3>3. From(kept, BusFrom) <= snap.off
      <4>1. QueueFrom <= snap.off
        BY <1>1, <1>3, <2>2 DEF ScreenInv, JoinInv
      <4>2. ASSUME Stale # 0 PROVE End(queue[Stale]) <= snap.off
        <5>1. Stale \in DOMAIN queue /\ queue[Stale].off < snap.off
          BY <1>4, <1>6, <4>2
        <5>2. queue[Stale].off \in Nat
          BY <1>3, <5>1, PieceAt
        <5>3. Clear(queue[Stale])
          BY <5>1 DEF ScreenInv, ClearInv
        <5>4. QED
          BY <1>3, <5>1, <5>2, <5>3 DEF Clear
      <4>3. QED
        BY <1>5, <4>1, <4>2
    <3>4. kept # <<>> => kept[1].off = snap.off
      BY <1>3, <1>8, <3>3
    <3>5. kept = <<>> => BusFrom <= snap.off
      BY <3>3 DEF From
    <3>6. QED
      BY <1>1, <1>2, <1>5, <1>6, <3>1, <3>2, <3>4, <3>5, SnapshotShown
  <2>3. QED
    BY <2>1, <2>2
<1>10. QED
  BY <1>1, <1>9, ShownKeeps

\* append_emitted gives the next piece the offset the stream has reached.
LEMMA AppendEmittedKeeps == ASSUME TypeOK, ScreenInv, AppendEmitted PROVE ScreenInv'
<1> DEFINE len == Least(EmitChunk, batch)
<1>1. /\ epc = "append" /\ epc' = "send"
      /\ piece' = [off |-> total, len |-> len] /\ total' = total + len
      /\ UNCHANGED viewPath
  BY DEF AppendEmitted, viewVars, histVars, viewPath
<1>2. total \in Nat /\ len \in Nat /\ snap.off <= total /\ snap.off \in Nat
  BY SizesAreNat DEF TypeOK, Least, ScreenInv, ClearInv
<1> HIDE DEF len
<1>3. piece'.off = total /\ End(piece') = total'
  BY <1>1 DEF End
<1>4. SendFrom = total /\ SendFrom' = total
  BY <1>1, <1>3 DEF SendFrom
<1>5. total' \in Nat /\ total <= total' /\ piece'.off >= snap.off
  BY <1>1, <1>2, <1>3
<1>6. QED
  BY <1>1, <1>3, <1>4, <1>5, QuietKeeps DEF Clear

\* A step that neither sends nor shows anything.
LEMMA IdleKeeps ==
  ASSUME TypeOK, ScreenInv, UNCHANGED viewPath, UNCHANGED <<piece, total>>,
         epc' = epc \/ (epc # "send" /\ epc' # "send")
  PROVE  ScreenInv'
<1>1. SendFrom' = SendFrom
  BY DEF SendFrom
<1>2. total' \in Nat /\ total <= total'
  BY DEF TypeOK
<1>3. epc' = "send" => End(piece') = total' /\ Clear(piece')
  BY DEF ScreenInv, RunsInv, ClearInv
<1>4. QED
  BY <1>1, <1>2, <1>3, QuietKeeps

LEMMA TakeKeeps == ASSUME TypeOK, ScreenInv, FlowTake \/ FlowStall PROVE ScreenInv'
<1>1. /\ epc = "flow" /\ epc' # "send"
      /\ UNCHANGED viewPath /\ UNCHANGED <<piece, total>>
  BY DEF FlowTake, FlowStall, TakePending, viewPath, viewVars
<1>2. QED
  BY <1>1, IdleKeeps

LEMMA ScreenNext == TypeOK /\ ScreenInv /\ [Next]_vars => ScreenInv'
<1> SUFFICES ASSUME TypeOK, ScreenInv, [Next]_vars PROVE ScreenInv'
  OBVIOUS
<1>1. CASE Reader
  <2>1. UNCHANGED viewPath /\ UNCHANGED <<piece, total, epc>>
    BY <1>1 DEF Reader, Read, ReadEof, PushWait, Push, MarkClosed,
                chanVars, emitterVars, viewVars, histVars, viewPath
  <2>2. QED
    BY <2>1, IdleKeeps
<1>2. CASE EmitterSleep \/ EmitterWake \/ FlowSleep \/ EmitterCheck \/ EmitExit
  <2>1. /\ UNCHANGED viewPath /\ UNCHANGED <<piece, total>>
        /\ epc' = epc \/ (epc # "send" /\ epc' # "send")
    BY <1>2 DEF EmitterSleep, EmitterWake, FlowSleep, EmitterCheck, EmitExit,
                chanVars, emitterVars, viewVars, histVars, viewPath
  <2>2. QED
    BY <2>1, IdleKeeps
<1>3. CASE XtermConsume \/ AckData \/ Close
  <2>1. UNCHANGED viewPath /\ UNCHANGED <<piece, total, epc>>
    BY <1>3 DEF XtermConsume, AckData, Close,
                chanVars, emitterVars, viewVars, histVars, viewPath
  <2>2. QED
    BY <2>1, IdleKeeps
<1>4. CASE UNCHANGED vars
  <2>1. UNCHANGED viewPath /\ UNCHANGED <<piece, total, epc>>
    BY <1>4 DEF vars, chanVars, emitterVars, viewVars, histVars, viewPath
  <2>2. QED
    BY <2>1, IdleKeeps
<1>5. CASE Emitter
  BY <1>2, <1>5, TakeKeeps, AppendEmittedKeeps, EmitDataKeeps DEF Emitter
<1>6. CASE Webview
  BY <1>3, <1>6, CreateKeeps, ReloadKeeps, FeedNoViewKeeps, FeedFrozenKeeps,
     FeedLiveKeeps, GetScrollbackKeeps, RestoreKeeps, RestoreFailedKeeps DEF Webview
<1>7. QED
  BY <1>1, <1>4, <1>5, <1>6 DEF Next

LEMMA ScreenInit == Init => ScreenInv
<1> SUFFICES ASSUME Init PROVE ScreenInv
  OBVIOUS
<1>1. /\ epc = "wait" /\ bus = <<>> /\ queue = <<>> /\ screen = <<>> /\ wv = "none"
      /\ snap = NoSnap /\ total = 0 /\ snap.off = 0
  BY DEF Init, NoSnap
<1>2. RunsInv
  BY <1>1, RunEmpty DEF RunsInv
<1>3. ClearInv
  BY <1>1 DEF ClearInv
<1>4. StageInv /\ JoinInv /\ TailInv /\ ScreenContiguous
  BY <1>1 DEF StageInv, JoinInv, TailInv, ScreenContiguous
<1>5. QED
  BY <1>2, <1>3, <1>4 DEF ScreenInv

\* What the terminal shows is the emitted stream without a gap and in order,
\* whatever the sizes of the chunks, the scrollback and the frozen queue, unless
\* that queue threw away output newer than the snapshot (terminal-view.js feed
\* and restore, pty.rs append_emitted and scrollback).
THEOREM ScreenIsContiguous == SafetySpec => []ScreenContiguous
<1>1. Init => TypeOK /\ ScreenInv
  BY TypeInit, ScreenInit
<1>2. TypeOK /\ ScreenInv /\ [Next]_vars => TypeOK' /\ ScreenInv'
  BY TypeNext, ScreenNext
<1>3. ScreenInv => ScreenContiguous
  BY DEF ScreenInv
<1>4. QED
  BY <1>1, <1>2, <1>3, PTL DEF SafetySpec

-----------------------------------------------------------------------------
(***************************************************************************)
(* Flow control does not wait for acks that cannot come                    *)
(*                                                                         *)
(* The pieces that are sent, on their way and queued adjoin, so their      *)
(* lengths add up to a difference of offsets: what is unacknowledged is at *)
(* most what lies between the start of the queue and the end of the        *)
(* stream, and what xterm holds or has acknowledged.                       *)
(***************************************************************************)

LEMMA Induction ==
  ASSUME NEW S, 0 \in S, \A n \in Nat : n \in S => n + 1 \in S
  PROVE  \A n \in Nat : n \in S
<1> SUFFICES ASSUME ~(\A n \in Nat : n \in S) PROVE FALSE
  OBVIOUS
<1> DEFINE Bad == {n \in Nat : n \notin S}
<1>1. Bad \subseteq Nat /\ Bad # {}
  OBVIOUS
<1>2. IsWellFoundedOn(OpToRel(<, Nat), Nat)
  BY NatLessThanWellFounded
<1>3. PICK m \in Bad : \A b \in Bad : ~(<<b, m>> \in OpToRel(<, Nat))
  BY <1>1, <1>2, WFMin
<1>4. m \in Nat /\ m # 0 /\ m - 1 \in Nat /\ m - 1 < m
  OBVIOUS
<1>5. m - 1 \notin Bad
  BY <1>3, <1>4 DEF OpToRel
<1>6. (m - 1) + 1 = m
  BY <1>4
<1> QED BY <1>4, <1>5, <1>6

\* The lengths of the first pieces of q added up.
IsSumTo(f, q, n) == f = [i \in 0..n |-> IF i = 0 THEN 0 ELSE f[i - 1] + q[i].len]
IsSum(f, q) == IsSumTo(f, q, Len(q))

LEMMA SumExists == ASSUME NEW q \in Seq(Piece) PROVE \E f : IsSum(f, q)
<1> DEFINE S == {n \in Nat : \E f : IsSumTo(f, q, n)}
<1>1. 0 \in S
  <2>1. [i \in 0..0 |-> 0] = [i \in 0..0 |-> IF i = 0 THEN 0 ELSE [j \in 0..0 |-> 0][i - 1] + q[i].len]
    OBVIOUS
  <2> QED BY <2>1 DEF IsSumTo
<1>2. ASSUME NEW n \in Nat, n \in S PROVE n + 1 \in S
  <2>1. PICK f : f = [i \in 0..n |-> IF i = 0 THEN 0 ELSE f[i - 1] + q[i].len]
    BY <1>2 DEF IsSumTo
  <2> DEFINE g == [i \in 0..(n + 1) |-> IF i = n + 1 THEN f[n] + q[n + 1].len ELSE f[i]]
  <2>2. ASSUME NEW i \in 0..(n + 1)
        PROVE  g[i] = IF i = 0 THEN 0 ELSE g[i - 1] + q[i].len
    <3>1. CASE i = n + 1
      <4>1. i # 0 /\ i - 1 = n /\ g[i] = f[n] + q[n + 1].len /\ g[n] = f[n]
        BY <3>1
      <4> QED BY <3>1, <4>1
    <3>2. CASE i # n + 1
      <4>1. i \in 0..n /\ g[i] = f[i]
        BY <3>2
      <4>2. i # 0 => i - 1 \in 0..(n + 1) /\ i - 1 # n + 1 /\ g[i - 1] = f[i - 1]
        BY <4>1
      <4>3. f[i] = IF i = 0 THEN 0 ELSE f[i - 1] + q[i].len
        BY <2>1, <4>1
      <4> QED BY <4>1, <4>2, <4>3
    <3> QED BY <3>1, <3>2
  <2>3. g = [i \in 0..(n + 1) |-> g[i]]
    OBVIOUS
  <2> HIDE DEF g
  <2>4. g = [i \in 0..(n + 1) |-> IF i = 0 THEN 0 ELSE g[i - 1] + q[i].len]
    BY <2>2, <2>3
  <2>5. IsSumTo(g, q, n + 1)
    BY <2>4 DEF IsSumTo
  <2>6. \E e : IsSumTo(e, q, n + 1)
    BY <2>5
  <2> QED BY <2>6
<1> HIDE DEF S
<1>3. \A n \in Nat : n \in S
  BY <1>1, <1>2, Induction
<1>4. Len(q) \in Nat
  OBVIOUS
<1> QED BY <1>3, <1>4 DEF S, IsSum

LEMMA SumSteps ==
  ASSUME NEW q \in Seq(Piece), NEW f, IsSum(f, q)
  PROVE  /\ f[0] = 0
         /\ \A i \in 0..Len(q) : f[i] \in Nat
         /\ \A i \in 1..Len(q) : f[i] = f[i - 1] + q[i].len
<1>1. \A i \in 0..Len(q) : f[i] = IF i = 0 THEN 0 ELSE f[i - 1] + q[i].len
  BY DEF IsSum, IsSumTo
<1>2. Len(q) \in Nat
  OBVIOUS
<1>3. f[0] = 0
  BY <1>1, <1>2
<1>4. \A i \in 1..Len(q) : f[i] = f[i - 1] + q[i].len
  BY <1>1, <1>2
<1> DEFINE S == {n \in Nat : n <= Len(q) => f[n] \in Nat}
<1>5. 0 \in S
  BY <1>3
<1>6. ASSUME NEW n \in Nat, n \in S PROVE n + 1 \in S
  <2> SUFFICES ASSUME n + 1 <= Len(q) PROVE f[n + 1] \in Nat
    OBVIOUS
  <2>1. n <= Len(q) /\ n + 1 \in 1..Len(q) /\ (n + 1) - 1 = n
    BY <1>2
  <2>2. q[n + 1].len \in Nat
    BY <2>1, PieceAt, PieceType
  <2>3. f[n] \in Nat
    BY <1>6, <2>1
  <2>4. f[n + 1] = f[n] + q[n + 1].len
    BY <1>4, <2>1
  <2> QED BY <2>2, <2>3, <2>4
<1> HIDE DEF S
<1>7. \A n \in Nat : n \in S
  BY <1>5, <1>6, Induction
<1>8. \A i \in 0..Len(q) : f[i] \in Nat
  BY <1>2, <1>7 DEF S
<1> QED BY <1>3, <1>4, <1>8

LEMMA LenSumIs ==
  ASSUME NEW q \in Seq(Piece)
  PROVE  \E f : IsSum(f, q) /\ LenSum(q) = f[Len(q)] /\ LenSum(q) \in Nat
<1> DEFINE h == CHOOSE f : IsSum(f, q)
<1>1. IsSum(h, q)
  BY SumExists
<1>2. LenSum(q) = h[Len(q)]
  BY DEF LenSum, IsSum, IsSumTo
<1>3. h[Len(q)] \in Nat
  <2>1. Len(q) \in 0..Len(q)
    OBVIOUS
  <2> HIDE DEF h
  <2> QED BY <1>1, <2>1, SumSteps
<1> QED BY <1>1, <1>2, <1>3

\* From k on, q has the lengths of r.
Agrees(q, k, r) == /\ k + Len(r) <= Len(q)
                   /\ \A i \in 1..Len(r) : q[k + i].len = r[i].len

LEMMA SumShift ==
  ASSUME NEW q \in Seq(Piece), NEW f, IsSum(f, q), NEW r \in Seq(Piece), NEW g, IsSum(g, r),
         NEW k \in Nat, Agrees(q, k, r)
  PROVE  f[k + Len(r)] = f[k] + g[Len(r)]
<1> DEFINE S == {m \in Nat : m <= Len(r) => f[k + m] = f[k] + g[m]}
<1>1. Len(q) \in Nat /\ Len(r) \in Nat /\ k + Len(r) <= Len(q)
  BY DEF Agrees
<1>2. /\ g[0] = 0 /\ (\A i \in 0..Len(q) : f[i] \in Nat) /\ (\A i \in 0..Len(r) : g[i] \in Nat)
      /\ \A i \in 1..Len(q) : f[i] = f[i - 1] + q[i].len
      /\ \A i \in 1..Len(r) : g[i] = g[i - 1] + r[i].len
  BY SumSteps
<1>3. 0 \in S
  <2>1. k \in 0..Len(q) /\ k + 0 = k
    BY <1>1
  <2> QED BY <1>2, <2>1
<1>4. ASSUME NEW m \in Nat, m \in S PROVE m + 1 \in S
  <2> SUFFICES ASSUME m + 1 <= Len(r) PROVE f[k + (m + 1)] = f[k] + g[m + 1]
    OBVIOUS
  <2>1. /\ k + (m + 1) \in 1..Len(q) /\ m + 1 \in 1..Len(r) /\ m <= Len(r)
        /\ (k + (m + 1)) - 1 = k + m /\ (m + 1) - 1 = m
        /\ k \in 0..Len(q) /\ m \in 0..Len(r)
    BY <1>1
  <2>2. f[k + (m + 1)] = f[k + m] + q[k + (m + 1)].len /\ g[m + 1] = g[m] + r[m + 1].len
    BY <1>2, <2>1
  <2>3. f[k + m] = f[k] + g[m]
    BY <1>4, <2>1
  <2>4. q[k + (m + 1)].len = r[m + 1].len /\ r[m + 1].len \in Nat
    BY <2>1, PieceAt, PieceType DEF Agrees
  <2>5. f[k] \in Nat /\ g[m] \in Nat
    BY <1>2, <2>1
  <2>6. \A a, b, l \in Nat : (a + b) + l = a + (b + l)
    OBVIOUS
  <2>7. f[k + (m + 1)] = (f[k] + g[m]) + r[m + 1].len /\ g[m + 1] = g[m] + r[m + 1].len
    BY <2>2, <2>3, <2>4
  <2> QED BY <2>4, <2>5, <2>6, <2>7
<1> HIDE DEF S
<1>5. Len(r) \in S
  BY <1>1, <1>3, <1>4, Induction
<1> QED BY <1>1, <1>5 DEF S

\* The lengths of two parts add up to the length of the whole.
Joins(q, a, b) == Len(q) = Len(a) + Len(b) /\ Agrees(q, 0, a) /\ Agrees(q, Len(a), b)

LEMMA SumSplit ==
  ASSUME NEW q \in Seq(Piece), NEW a \in Seq(Piece), NEW b \in Seq(Piece), Joins(q, a, b)
  PROVE  LenSum(q) = LenSum(a) + LenSum(b)
<1>1. Len(q) \in Nat /\ Len(a) \in Nat /\ Len(b) \in Nat /\ Len(q) = Len(a) + Len(b)
  BY DEF Joins
<1>2. PICK f : IsSum(f, q) /\ LenSum(q) = f[Len(q)]
  BY LenSumIs
<1>3. PICK g : IsSum(g, a) /\ LenSum(a) = g[Len(a)] /\ LenSum(a) \in Nat
  BY LenSumIs
<1>4. PICK h : IsSum(h, b) /\ LenSum(b) = h[Len(b)]
  BY LenSumIs
<1>5. f[0] = 0
  BY <1>2, SumSteps
<1>6. 0 + Len(a) = Len(a) /\ 0 + g[Len(a)] = g[Len(a)]
  BY <1>1, <1>3
<1>7. f[0 + Len(a)] = f[0] + g[Len(a)]
  <2>1. 0 \in Nat /\ Agrees(q, 0, a)
    BY DEF Joins
  <2> QED BY <1>2, <1>3, <2>1, SumShift
<1>8. f[Len(a) + Len(b)] = f[Len(a)] + h[Len(b)]
  <2>1. Agrees(q, Len(a), b)
    BY DEF Joins
  <2> QED BY <1>1, <1>2, <1>4, <2>1, SumShift
<1> QED BY <1>1, <1>2, <1>3, <1>4, <1>5, <1>6, <1>7, <1>8

LEMMA SumOne ==
  ASSUME NEW q \in Seq(Piece), Len(q) = 1 PROVE LenSum(q) = q[1].len
<1>1. PICK f : IsSum(f, q) /\ LenSum(q) = f[Len(q)]
  BY LenSumIs
<1>2. f[0] = 0 /\ f[1] = f[0] + q[1].len
  <2>1. 1 \in 1..Len(q) /\ 1 - 1 = 0
    OBVIOUS
  <2> QED BY <1>1, <2>1, SumSteps
<1>3. q[1].len \in Nat
  BY PieceAt, PieceType
<1> QED BY <1>1, <1>2, <1>3

LEMMA SumEmpty == LenSum(<<>>) = 0
<1>1. <<>> \in Seq(Piece) /\ Len(<<>>) = 0
  OBVIOUS
<1>2. PICK f : IsSum(f, <<>>) /\ LenSum(<<>>) = f[Len(<<>>)]
  BY <1>1, LenSumIs
<1>3. f[0] = 0
  BY <1>1, <1>2, SumSteps
<1> QED BY <1>1, <1>2, <1>3

LEMMA SumAppend ==
  ASSUME NEW q \in Seq(Piece), NEW p \in Piece
  PROVE  LenSum(Append(q, p)) = LenSum(q) + p.len
<1>1. /\ Append(q, p) \in Seq(Piece) /\ Len(Append(q, p)) = Len(q) + 1 /\ DOMAIN q = 1..Len(q)
      /\ (\A i \in DOMAIN q : Append(q, p)[i] = q[i]) /\ Append(q, p)[Len(q) + 1] = p
  BY AppendPiece
<1>2. <<p>> \in Seq(Piece) /\ Len(<<p>>) = 1 /\ <<p>>[1] = p /\ \A i \in 1..Len(<<p>>) : i = 1
  OBVIOUS
<1>3. LenSum(<<p>>) = p.len
  BY <1>2, SumOne
<1> DEFINE r == Append(q, p)
           b == <<p>>
<1> HIDE DEF r, b
<1>4. Joins(r, q, b)
  <2>1. Len(q) \in Nat /\ r \in Seq(Piece) /\ Len(r) = Len(q) + 1 /\ Len(b) = 1 /\ b[1] = p
        /\ (\A i \in 1..Len(q) : r[i] = q[i]) /\ r[Len(q) + 1] = p
    BY <1>1, <1>2 DEF r, b
  <2>2. Agrees(r, 0, q)
    BY <2>1 DEF Agrees
  <2>3. Agrees(r, Len(q), b)
    BY <2>1 DEF Agrees
  <2> QED BY <2>1, <2>2, <2>3 DEF Joins
<1>5. r \in Seq(Piece) /\ b \in Seq(Piece) /\ LenSum(b) = p.len
  BY <1>1, <1>2, <1>3 DEF r, b
<1>6. LenSum(r) = LenSum(q) + p.len
  BY <1>4, <1>5, SumSplit
<1> QED BY <1>6 DEF r

LEMMA SumTail ==
  ASSUME NEW q \in Seq(Piece), q # <<>>
  PROVE  LenSum(q) = Head(q).len + LenSum(Tail(q))
<1>1. /\ Tail(q) \in Seq(Piece) /\ Len(q) \in Nat /\ Len(q) > 0 /\ Len(Tail(q)) = Len(q) - 1
      /\ DOMAIN Tail(q) = 1..(Len(q) - 1)
      /\ \A i \in DOMAIN Tail(q) : Tail(q)[i] = q[i + 1]
      /\ Head(q) = q[1] /\ Head(q) \in Piece
  BY TailPiece
<1> DEFINE a == <<Head(q)>>
           t == Tail(q)
<1>2. a \in Seq(Piece) /\ Len(a) = 1 /\ a[1] = q[1]
  BY <1>1
<1>3. LenSum(a) = Head(q).len
  BY <1>1, <1>2, SumOne
<1> HIDE DEF a, t
<1>4. t \in Seq(Piece) /\ Len(t) = Len(q) - 1 /\ \A i \in 1..(Len(q) - 1) : t[i] = q[i + 1]
  BY <1>1 DEF t
<1>5. Agrees(q, 0, a)
  BY <1>1, <1>2 DEF Agrees
<1>6. Agrees(q, Len(a), t)
  <2>1. \A i \in 1..Len(t) : i \in 1..(Len(q) - 1) /\ Len(a) + i = i + 1
    BY <1>1, <1>2, <1>4
  <2>2. Len(a) + Len(t) <= Len(q)
    BY <1>1, <1>2, <1>4
  <2> QED BY <1>4, <2>1, <2>2 DEF Agrees
<1>7. Joins(q, a, t)
  BY <1>1, <1>2, <1>4, <1>5, <1>6 DEF Joins
<1>8. LenSum(q) = Head(q).len + LenSum(t)
  BY <1>2, <1>3, <1>4, <1>7, SumSplit
<1> QED BY <1>8 DEF t

LEMMA SumConcat ==
  ASSUME NEW q \in Seq(Piece), NEW r \in Seq(Piece)
  PROVE  q \o r \in Seq(Piece) /\ LenSum(q \o r) = LenSum(q) + LenSum(r)
<1>1. /\ q \o r \in Seq(Piece) /\ Len(q \o r) = Len(q) + Len(r)
      /\ \A i \in 1..Len(q) + Len(r) : (q \o r)[i] = IF i <= Len(q) THEN q[i] ELSE r[i - Len(q)]
  BY ConcatProperties
<1>2. Len(q) \in Nat /\ Len(r) \in Nat
  OBVIOUS
<1>3. \A i \in 1..Len(q) : (q \o r)[i] = q[i]
  BY <1>1, <1>2
<1>4. \A i \in 1..Len(r) : (q \o r)[Len(q) + i] = r[i]
  <2>1. \A i \in 1..Len(r) : Len(q) + i \in 1..Len(q) + Len(r) /\ ~(Len(q) + i <= Len(q))
                             /\ (Len(q) + i) - Len(q) = i
    BY <1>2
  <2> QED BY <1>1, <2>1
<1> DEFINE s == q \o r
<1>5. s \in Seq(Piece) /\ Len(s) = Len(q) + Len(r)
  BY <1>1
<1>6. Agrees(s, 0, q)
  <2>1. \A i \in 1..Len(q) : 0 + i = i
    BY <1>2
  <2> QED BY <1>2, <1>3, <1>5, <2>1 DEF Agrees
<1>7. Agrees(s, Len(q), r)
  BY <1>2, <1>4, <1>5 DEF Agrees
<1> HIDE DEF s
<1>8. Joins(s, q, r)
  BY <1>5, <1>6, <1>7 DEF Joins
<1>9. LenSum(s) = LenSum(q) + LenSum(r)
  BY <1>5, <1>8, SumSplit
<1> QED BY <1>5, <1>9 DEF s

\* The lengths of a run add up to the stretch of offsets it covers.
LEMMA SumRun ==
  ASSUME NEW q \in Seq(Piece), NEW to \in Nat, Run(q, to)
  PROVE  From(q, to) + LenSum(q) = to
<1>1. CASE q = <<>>
  BY <1>1, SumEmpty DEF From
<1>2. CASE q # <<>>
  <2>1. PICK f : IsSum(f, q) /\ LenSum(q) = f[Len(q)]
    BY LenSumIs
  <2>2. /\ f[0] = 0 /\ (\A i \in 0..Len(q) : f[i] \in Nat)
        /\ \A i \in 1..Len(q) : f[i] = f[i - 1] + q[i].len
    BY <2>1, SumSteps
  <2>3. Len(q) \in Nat /\ Len(q) > 0 /\ DOMAIN q = 1..Len(q) /\ 1 \in DOMAIN q
    BY <1>2, TailPiece
  <2> DEFINE S == {n \in Nat : n + 1 <= Len(q) => q[1].off + f[n + 1] = End(q[n + 1])}
  <2>4. 0 \in S
    <3>1. 1 \in 1..Len(q) /\ 1 - 1 = 0 /\ q[1].off \in Nat /\ q[1].len \in Nat
      BY <2>3, PieceAt, PieceType
    <3>2. f[1] = q[1].len
      BY <2>2, <3>1
    <3> QED BY <3>1, <3>2 DEF End
  <2>5. ASSUME NEW n \in Nat, n \in S PROVE n + 1 \in S
    <3> SUFFICES ASSUME (n + 1) + 1 <= Len(q)
                 PROVE  q[1].off + f[(n + 1) + 1] = End(q[(n + 1) + 1])
      OBVIOUS
    <3> DEFINE m == n + 1
    <3>1. m \in DOMAIN q /\ m + 1 \in DOMAIN q /\ (m + 1) - 1 = m /\ m <= Len(q) /\ m \in 0..Len(q)
      BY <2>3
    <3>2. q[1].off + f[m] = End(q[m])
      BY <2>5, <3>1
    <3> HIDE DEF m
    <3>3. q[m + 1].off = End(q[m])
      BY <3>1 DEF Run
    <3>4. f[m + 1] = f[m] + q[m + 1].len
      BY <2>2, <2>3, <3>1
    <3>5. q[1].off \in Nat /\ f[m] \in Nat /\ q[m + 1].len \in Nat
      BY <2>2, <2>3, <3>1, PieceAt, PieceType
    <3>6. q[1].off + (f[m] + q[m + 1].len) = (q[1].off + f[m]) + q[m + 1].len
      <4>1. \A a, b, l \in Nat : a + (b + l) = (a + b) + l
        OBVIOUS
      <4> QED BY <3>5, <4>1
    <3>7. q[1].off + f[m + 1] = (q[1].off + f[m]) + q[m + 1].len
      BY <3>4, <3>6, Zenon
    <3>8. q[1].off + f[m + 1] = q[m + 1].off + q[m + 1].len
      BY <3>2, <3>3, <3>7
    <3>9. q[1].off + f[m + 1] = End(q[m + 1])
      BY <3>8 DEF End
    <3> QED BY <3>9 DEF m
  <2> HIDE DEF S
  <2>6. \A n \in Nat : n \in S
    BY <2>4, <2>5, Induction
  <2>7. q[1].off + f[Len(q)] = End(q[Len(q)])
    <3> DEFINE n == Len(q) - 1
    <3>1. n \in Nat /\ n + 1 = Len(q) /\ n + 1 <= Len(q)
      BY <2>3
    <3> HIDE DEF n
    <3>2. n \in S
      BY <2>6, <3>1
    <3>3. q[1].off + f[n + 1] = End(q[n + 1])
      BY <3>1, <3>2 DEF S
    <3> QED BY <3>1, <3>3
  <2>8. End(q[Len(q)]) = to
    BY <1>2, RunAdjoins
  <2> QED BY <1>2, <2>1, <2>7, <2>8 DEF From
<1> QED BY <1>1, <1>2

\* Acks on their way, as pieces.
AckPieces(a) == [i \in 1..Len(a) |-> [off |-> 0, len |-> a[i]]]

LEMMA AckType ==
  ASSUME NEW a \in Seq(Nat)
  PROVE  /\ AckPieces(a) \in Seq(Piece) /\ Len(AckPieces(a)) = Len(a)
         /\ \A i \in 1..Len(a) : AckPieces(a)[i].len = a[i]
<1>1. Len(a) \in Nat /\ \A i \in 1..Len(a) : a[i] \in Nat
  OBVIOUS
<1>2. \A i \in 1..Len(a) : [off |-> 0, len |-> a[i]] \in Piece
  BY <1>1 DEF Piece
<1>3. AckPieces(a) \in [1..Len(a) -> Piece]
  BY <1>2 DEF AckPieces
<1>4. AckPieces(a) \in Seq(Piece) /\ Len(AckPieces(a)) = Len(a)
  BY <1>1, <1>3, SeqDef, LenProperties
<1>5. \A i \in 1..Len(a) : AckPieces(a)[i].len = a[i]
  BY DEF AckPieces
<1> QED BY <1>4, <1>5

LEMMA AckAppend ==
  ASSUME NEW a \in Seq(Nat), NEW n \in Nat
  PROVE  LenSum(AckPieces(Append(a, n))) = LenSum(AckPieces(a)) + n
<1> DEFINE c == Append(a, n)
           p == [off |-> 0, len |-> n]
           b == <<p>>
           q == AckPieces(a)
           r == AckPieces(c)
<1>1. /\ c \in Seq(Nat) /\ Len(c) = Len(a) + 1 /\ Len(a) \in Nat
      /\ (\A i \in 1..Len(a) : c[i] = a[i]) /\ c[Len(a) + 1] = n
  BY AppendProperties
<1>2. p \in Piece /\ p.len = n
  BY DEF Piece
<1> HIDE DEF c, p
<1>3. b \in Seq(Piece) /\ Len(b) = 1 /\ b[1].len = n
  BY <1>2
<1>4. LenSum(b) = n
  BY <1>3, SumOne
<1>5. /\ q \in Seq(Piece) /\ Len(q) = Len(a) /\ \A i \in 1..Len(a) : q[i].len = a[i]
  BY AckType
<1>6. /\ r \in Seq(Piece) /\ Len(r) = Len(a) + 1 /\ \A i \in 1..(Len(a) + 1) : r[i].len = c[i]
  BY <1>1, AckType
<1> HIDE DEF b, q, r
<1>7. Agrees(r, 0, q)
  BY <1>1, <1>5, <1>6 DEF Agrees
<1>8. Agrees(r, Len(q), b)
  BY <1>1, <1>3, <1>5, <1>6 DEF Agrees
<1>9. Joins(r, q, b)
  BY <1>1, <1>3, <1>5, <1>6, <1>7, <1>8 DEF Joins
<1>10. LenSum(r) = LenSum(q) + n
  BY <1>3, <1>4, <1>5, <1>6, <1>9, SumSplit
<1> QED BY <1>10 DEF c, q, r

LEMMA AckTail ==
  ASSUME NEW a \in Seq(Nat), a # <<>>
  PROVE  LenSum(AckPieces(a)) = Head(a) + LenSum(AckPieces(Tail(a)))
<1> DEFINE t == Tail(a)
           p == [off |-> 0, len |-> Head(a)]
           b == <<p>>
           q == AckPieces(a)
           r == AckPieces(t)
<1>1. /\ t \in Seq(Nat) /\ Len(a) \in Nat /\ Len(a) > 0 /\ Len(t) = Len(a) - 1
      /\ (\A i \in 1..(Len(a) - 1) : t[i] = a[i + 1]) /\ Head(a) = a[1] /\ Head(a) \in Nat
  BY HeadTailProperties
<1>2. p \in Piece /\ p.len = a[1]
  BY <1>1 DEF Piece
<1> HIDE DEF t, p
<1>3. b \in Seq(Piece) /\ Len(b) = 1 /\ b[1].len = a[1]
  BY <1>2
<1>4. LenSum(b) = a[1]
  BY <1>3, SumOne
<1>5. /\ q \in Seq(Piece) /\ Len(q) = Len(a) /\ \A i \in 1..Len(a) : q[i].len = a[i]
  BY AckType
<1>6. /\ r \in Seq(Piece) /\ Len(r) = Len(a) - 1 /\ \A i \in 1..(Len(a) - 1) : r[i].len = t[i]
  BY <1>1, AckType
<1> HIDE DEF b, q, r
<1>7. Agrees(q, 0, b)
  BY <1>1, <1>3, <1>5 DEF Agrees
<1>8. Agrees(q, Len(b), r)
  <2>1. \A i \in 1..Len(r) : i \in 1..(Len(a) - 1) /\ Len(b) + i = i + 1 /\ i + 1 \in 1..Len(a)
    BY <1>1, <1>3, <1>6
  <2>2. Len(b) + Len(r) <= Len(q)
    BY <1>1, <1>3, <1>5, <1>6
  <2> QED BY <1>1, <1>5, <1>6, <2>1, <2>2 DEF Agrees
<1>9. Joins(q, b, r)
  BY <1>1, <1>3, <1>5, <1>6, <1>7, <1>8 DEF Joins
<1>10. LenSum(q) = a[1] + LenSum(r)
  BY <1>3, <1>4, <1>5, <1>6, <1>9, SumSplit
<1> QED BY <1>1, <1>10 DEF q, r, t

\* The debt of a page that restores counts from the snapshot; that of any other
\* has the acks and what xterm holds besides.
DebtInv ==
  /\ ~open => closed
  /\ ~leaked /\ ~closed =>
       /\ wv = "restoring" => outstanding + snap.off <= total /\ outstanding + QueueFrom <= total
       /\ wv # "restoring" => outstanding + QueueFrom <= total + (LenSum(xbuf) + AckTotal)

LEMMA DebtTypes ==
  ASSUME TypeOK, ScreenInv
  PROVE  /\ outstanding \in Nat /\ total \in Nat /\ QueueFrom \in Nat /\ QueueFrom <= total
         /\ snap.off \in Nat /\ snap.off <= total /\ LenSum(xbuf) \in Nat /\ AckTotal \in Nat
         /\ AckTotal = LenSum(AckPieces(ackNet))
<1>1. AckTotal = LenSum(AckPieces(ackNet))
  BY DEF AckTotal, AckPieces
<1>2. AckPieces(ackNet) \in Seq(Piece)
  BY AckType DEF TypeOK
<1>3. LenSum(AckPieces(ackNet)) \in Nat
  BY <1>2, LenSumIs
<1>4. LenSum(xbuf) \in Nat
  BY LenSumIs DEF TypeOK
<1>5. RunsInv /\ snap.off <= total
  BY DEF ScreenInv, ClearInv
<1> QED BY <1>1, <1>3, <1>4, <1>5, Offsets DEF TypeOK

LEMMA DebtCovered == ASSUME TypeOK, ScreenInv, DebtInv PROVE DebtIsInFlight
<1> SUFFICES ASSUME ~leaked, ~closed
             PROVE  outstanding <= piece.len + LenSum(bus) + LenSum(queue) + LenSum(xbuf) + AckTotal
  BY DEF DebtIsInFlight
<1>1. /\ piece \in Piece /\ SendFrom \in Nat /\ BusFrom \in Nat /\ QueueFrom \in Nat
      /\ bus \in Seq(Piece) /\ queue \in Seq(Piece) /\ total \in Nat
      /\ Run(bus, SendFrom) /\ Run(queue, BusFrom)
  BY Offsets DEF ScreenInv, RunsInv
<1>2. BusFrom + LenSum(bus) = SendFrom /\ QueueFrom + LenSum(queue) = BusFrom
  BY <1>1, SumRun DEF BusFrom, QueueFrom
<1>3. total <= SendFrom + piece.len
  <2>1. epc = "send" => SendFrom = piece.off /\ piece.off + piece.len = total
    BY DEF SendFrom, ScreenInv, RunsInv, End
  <2>2. epc # "send" => SendFrom = total
    BY DEF SendFrom
  <2>3. piece.len \in Nat
    BY <1>1, PieceType
  <2> QED BY <1>1, <2>1, <2>2, <2>3
<1>4. outstanding + QueueFrom <= total + (LenSum(xbuf) + AckTotal)
  BY DebtTypes DEF DebtInv
<1>5. /\ LenSum(bus) \in Nat /\ LenSum(queue) \in Nat /\ piece.len \in Nat /\ outstanding \in Nat
      /\ LenSum(xbuf) \in Nat /\ AckTotal \in Nat
  BY <1>1, LenSumIs, PieceType, DebtTypes
<1>6. \A o, t, f, b, s, p, lb, lq, x, a \in Nat :
        b + lb = s /\ f + lq = b /\ t <= s + p /\ o + f <= t + (x + a) => o <= p + lb + lq + x + a
  OBVIOUS
<1> QED BY <1>1, <1>2, <1>3, <1>4, <1>5, <1>6

\* A step that leaves the view alone, and emits at least as much as it owes, or
\* writes the debt off.
LEMMA DebtKeeps ==
  ASSUME TypeOK, ScreenInv, DebtInv, UNCHANGED <<snap, wv, xbuf, ackNet>>, QueueFrom' = QueueFrom,
         ~open' => closed', outstanding' \in Nat, total' \in Nat, total <= total',
         ~leaked' /\ ~closed' =>
            outstanding' = 0 \/ (~leaked /\ ~closed /\ outstanding' + total <= outstanding + total')
  PROVE  DebtInv'
<1>1. /\ outstanding \in Nat /\ total \in Nat /\ QueueFrom \in Nat /\ QueueFrom <= total
      /\ snap.off \in Nat /\ snap.off <= total /\ LenSum(xbuf) \in Nat /\ AckTotal \in Nat
  BY DebtTypes
<1>2. AckTotal' = AckTotal
  BY DEF AckTotal
<1>3. ASSUME ~leaked', ~closed'
      PROVE  /\ wv = "restoring" => outstanding' + snap.off <= total' /\ outstanding' + QueueFrom <= total'
             /\ wv # "restoring" => outstanding' + QueueFrom <= total' + (LenSum(xbuf) + AckTotal)
  <2>1. CASE outstanding' = 0
    BY <1>1, <2>1
  <2>2. CASE ~leaked /\ ~closed /\ outstanding' + total <= outstanding + total'
    <3>1. \A o, n, t, u, f, x \in Nat : n + t <= o + u /\ o + f <= t + x => n + f <= u + x
      OBVIOUS
    <3>2. \A o, n, t, u, f \in Nat : n + t <= o + u /\ o + f <= t => n + f <= u
      OBVIOUS
    <3>3. LenSum(xbuf) + AckTotal \in Nat
      BY <1>1
    <3>4. wv = "restoring" => outstanding + snap.off <= total /\ outstanding + QueueFrom <= total
      BY <2>2 DEF DebtInv
    <3>5. wv # "restoring" => outstanding + QueueFrom <= total + (LenSum(xbuf) + AckTotal)
      BY <2>2 DEF DebtInv
    <3>6. CASE wv = "restoring"
      <4>1. outstanding + snap.off <= total /\ outstanding + QueueFrom <= total
        BY <3>4, <3>6
      <4> QED BY <1>1, <2>2, <3>2, <3>6, <4>1
    <3>7. CASE wv # "restoring"
      <4>1. outstanding + QueueFrom <= total + (LenSum(xbuf) + AckTotal)
        BY <3>5, <3>7
      <4> QED BY <1>1, <2>2, <3>1, <3>3, <3>7, <4>1
    <3> QED BY <3>6, <3>7
  <2> QED BY <1>3, <2>1, <2>2
<1> QED BY <1>2, <1>3 DEF DebtInv

emitSent == <<epc, piece, total, bus, queue>>

LEMMA FromKept == ASSUME UNCHANGED emitSent PROVE QueueFrom' = QueueFrom
<1>1. SendFrom' = SendFrom
  BY DEF emitSent, SendFrom
<1> QED BY <1>1 DEF emitSent, BusFrom, QueueFrom

LEMMA DebtEmitter ==
  ASSUME TypeOK, TypeOK', ScreenInv, DebtInv, Emitter PROVE DebtInv'
<1>1. UNCHANGED <<snap, wv, xbuf, ackNet, queue>>
  BY DEF Emitter, EmitterSleep, EmitterWake, FlowSleep, FlowTake, FlowStall, TakePending,
         AppendEmitted, EmitData, EmitterCheck, EmitExit, viewVars
<1>2. UNCHANGED <<open, closed>>
  BY DEF Emitter, EmitterSleep, EmitterWake, FlowSleep, FlowTake, FlowStall, TakePending,
         AppendEmitted, EmitData, EmitterCheck, EmitExit, chanVars
<1>3. outstanding' \in Nat /\ total' \in Nat /\ total \in Nat /\ outstanding \in Nat
  BY DEF TypeOK
<1>4. CASE AppendEmitted
  <2> DEFINE len == Least(EmitChunk, batch)
  <2>1. /\ total' = total + len /\ outstanding' = outstanding + len /\ piece'.off = total
        /\ epc # "send" /\ epc' = "send" /\ UNCHANGED <<bus, leaked>>
    BY <1>4 DEF AppendEmitted, viewVars, histVars
  <2>2. len \in Nat
    BY SizesAreNat DEF Least, TypeOK
  <2> HIDE DEF len
  <2>3. QueueFrom' = QueueFrom
    BY <1>1, <2>1 DEF SendFrom, BusFrom, QueueFrom
  <2>4. total <= total' /\ outstanding' + total <= outstanding + total'
    BY <1>3, <2>1, <2>2
  <2> QED BY <1>1, <1>2, <1>3, <2>1, <2>3, <2>4, DebtKeeps DEF DebtInv
<1>5. CASE EmitData
  <2>1. UNCHANGED <<total, outstanding>> /\ epc = "send" /\ epc' # "send"
    BY <1>5 DEF EmitData, chanVars
  <2>2. CASE wv = "down"
    <3>1. leaked'
      BY <1>5, <2>2 DEF EmitData
    <3> QED BY <1>2, <3>1 DEF DebtInv
  <2>3. CASE wv # "down"
    <3>1. bus' = Append(bus, piece) /\ UNCHANGED leaked
      BY <1>5, <2>3 DEF EmitData
    <3>2. SendFrom = piece.off /\ SendFrom' = End(piece)
      BY <2>1 DEF SendFrom, ScreenInv, RunsInv
    <3>3. bus \in Seq(Piece) /\ piece \in Piece /\ Run(bus, piece.off)
      BY <3>2 DEF TypeOK, ScreenInv, RunsInv
    <3>4. From(bus', SendFrom') = From(bus, SendFrom)
      BY <3>1, <3>2, <3>3, RunAppend
    <3>5. QueueFrom' = QueueFrom
      BY <1>1, <3>4 DEF BusFrom, QueueFrom
    <3>6. total <= total' /\ outstanding' + total <= outstanding + total'
      BY <1>3, <2>1
    <3> QED BY <1>1, <1>2, <1>3, <3>1, <3>5, <3>6, DebtKeeps DEF DebtInv
  <2> QED BY <2>2, <2>3
<1>6. CASE FlowStall
  <2>1. /\ outstanding' = 0 /\ UNCHANGED <<total, bus>> /\ epc # "send" /\ epc' # "send"
    BY <1>6 DEF FlowStall, TakePending, viewVars
  <2>2. QueueFrom' = QueueFrom
    BY <1>1, <2>1 DEF SendFrom, BusFrom, QueueFrom
  <2>3. total <= total'
    BY <1>3, <2>1
  <2> QED BY <1>1, <1>2, <1>3, <2>1, <2>2, <2>3, DebtKeeps DEF DebtInv
<1>7. CASE EmitterSleep \/ EmitterWake \/ FlowSleep \/ FlowTake \/ EmitterCheck \/ EmitExit
  <2>1. /\ UNCHANGED <<total, outstanding, bus, leaked>>
        /\ (epc' = epc /\ piece' = piece) \/ (epc # "send" /\ epc' # "send")
    BY <1>7 DEF EmitterSleep, EmitterWake, FlowSleep, FlowTake, TakePending, EmitterCheck, EmitExit,
                chanVars, viewVars, histVars, emitterVars
  <2>2. QueueFrom' = QueueFrom
    BY <1>1, <2>1 DEF SendFrom, BusFrom, QueueFrom
  <2>3. total <= total' /\ outstanding' + total <= outstanding + total'
    BY <1>3, <2>1
  <2> QED BY <1>1, <1>2, <1>3, <2>1, <2>2, <2>3, DebtKeeps DEF DebtInv
<1> QED BY <1>4, <1>5, <1>6, <1>7 DEF Emitter

\* A step beside the output path.
LEMMA DebtBeside ==
  ASSUME TypeOK, ScreenInv, DebtInv, UNCHANGED emitSent,
         UNCHANGED <<snap, wv, xbuf, ackNet, outstanding, leaked>>,
         closed => closed', ~open' => ~open \/ closed'
  PROVE  DebtInv'
<1>1. QueueFrom' = QueueFrom /\ total' = total /\ outstanding \in Nat /\ total \in Nat
  BY FromKept DEF emitSent, TypeOK
<1>2. ~open' => closed'
  BY DEF DebtInv
<1>3. total <= total' /\ outstanding' + total <= outstanding + total'
  BY <1>1
<1> QED BY <1>1, <1>2, <1>3, DebtKeeps

LEMMA DebtReader ==
  ASSUME TypeOK, ScreenInv, DebtInv, Reader \/ Close \/ UNCHANGED vars PROVE DebtInv'
<1>1. /\ UNCHANGED emitSent /\ UNCHANGED <<snap, wv, xbuf, ackNet, outstanding, leaked>>
      /\ (closed => closed') /\ (~open' => ~open \/ closed')
  <2>1. CASE Reader
    BY <2>1 DEF Reader, Read, ReadEof, PushWait, Push, MarkClosed, chanVars, emitterVars, viewVars,
                histVars, emitSent
  <2>2. CASE Close
    BY <2>2 DEF Close, emitterVars, viewVars, histVars, emitSent
  <2>3. CASE UNCHANGED vars
    BY <2>3 DEF vars, chanVars, emitterVars, viewVars, histVars, emitSent
  <2> QED BY <2>1, <2>2, <2>3
<1> QED BY <1>1, DebtBeside

\* xterm has consumed a piece, or its ack arrives.
LEMMA DebtAcks ==
  ASSUME TypeOK, TypeOK', ScreenInv, DebtInv, XtermConsume \/ AckData PROVE DebtInv'
<1>1. /\ outstanding \in Nat /\ total \in Nat /\ QueueFrom \in Nat /\ snap.off \in Nat
      /\ LenSum(xbuf) \in Nat /\ AckTotal \in Nat
  BY DebtTypes
<1>2. AckTotal = LenSum(AckPieces(ackNet)) /\ AckTotal' = LenSum(AckPieces(ackNet'))
  BY DEF AckTotal, AckPieces
<1>3. UNCHANGED emitSent /\ UNCHANGED <<snap, wv, leaked, open, closed>>
  BY DEF XtermConsume, AckData, emitSent, chanVars, emitterVars, histVars
<1>4. QueueFrom' = QueueFrom /\ total' = total
  BY <1>3, FromKept DEF emitSent
<1>5. CASE XtermConsume
  <2>1. xbuf # <<>> /\ xbuf' = Tail(xbuf) /\ ackNet' = Append(ackNet, Head(xbuf).len)
        /\ outstanding' = outstanding
    BY <1>5 DEF XtermConsume, chanVars
  <2>2. Head(xbuf) \in Piece /\ Head(xbuf).len \in Nat /\ xbuf \in Seq(Piece) /\ ackNet \in Seq(Nat)
    BY <2>1, TailPiece, PieceType DEF TypeOK
  <2>3. LenSum(xbuf) = Head(xbuf).len + LenSum(xbuf')
    BY <2>1, <2>2, SumTail
  <2>4. AckTotal' = AckTotal + Head(xbuf).len
    BY <1>2, <2>1, <2>2, AckAppend
  <2>5. LenSum(xbuf') \in Nat
    BY LenSumIs DEF TypeOK
  <2>6. LenSum(xbuf') + AckTotal' = LenSum(xbuf) + AckTotal
    BY <1>1, <2>2, <2>3, <2>4, <2>5
  <2> QED BY <1>3, <1>4, <2>1, <2>6 DEF DebtInv
<1>6. CASE AckData
  <2>1. ackNet # <<>> /\ ackNet' = Tail(ackNet) /\ xbuf' = xbuf
        /\ (open => outstanding' = SatSub(outstanding, Head(ackNet)))
    BY <1>6 DEF AckData
  <2>2. ackNet \in Seq(Nat) /\ Head(ackNet) \in Nat
    BY <2>1, HeadTailProperties DEF TypeOK
  <2>3. AckTotal = Head(ackNet) + AckTotal'
    BY <1>2, <2>1, <2>2, AckTail
  <2>4. AckTotal' \in Nat
    <3>1. AckPieces(ackNet') \in Seq(Piece)
      BY AckType DEF TypeOK
    <3> QED BY <1>2, <3>1, LenSumIs
  <2>5. CASE ~open
    BY <1>3, <2>5 DEF DebtInv
  <2>6. CASE open
    <3>1. \/ outstanding' = 0
          \/ outstanding' + Head(ackNet) = outstanding
      BY <1>1, <2>1, <2>2, <2>6 DEF SatSub
    <3>2. ASSUME ~leaked, ~closed
          PROVE  /\ wv = "restoring" => outstanding' + snap.off <= total /\ outstanding' + QueueFrom <= total
                 /\ wv # "restoring" => outstanding' + QueueFrom <= total + (LenSum(xbuf) + AckTotal')
      <4>1. CASE outstanding' = 0
        BY <1>1, <2>4, <4>1, DebtTypes
      <4>2. CASE outstanding' + Head(ackNet) = outstanding
        <5>1. outstanding' \in Nat
          BY DEF TypeOK
        <5>2. wv = "restoring" => outstanding + snap.off <= total /\ outstanding + QueueFrom <= total
          BY <3>2 DEF DebtInv
        <5>3. wv # "restoring" => outstanding + QueueFrom <= total + (LenSum(xbuf) + AckTotal)
          BY <3>2 DEF DebtInv
        <5>4. \A n, h, f, t, x, a \in Nat :
                 /\ (n + h) + f <= t + (x + (h + a)) => n + f <= t + (x + a)
                 /\ (n + h) + f <= t => n + f <= t
          OBVIOUS
        <5> QED BY <1>1, <2>2, <2>3, <2>4, <4>2, <5>1, <5>2, <5>3, <5>4
      <4> QED BY <3>1, <4>1, <4>2
    <3> QED BY <1>3, <1>4, <2>1, <3>2 DEF DebtInv
  <2> QED BY <2>5, <2>6
<1> QED BY <1>5, <1>6

\* A view comes or goes.
LEMMA DebtTurns ==
  ASSUME TypeOK, TypeOK', ScreenInv, ScreenInv', DebtInv,
         CreateView \/ CreateFrozenView \/ Reload \/ Dispose \/ FeedNoView
  PROVE  DebtInv'
<1>1. UNCHANGED <<outstanding, total, closed, open, ackNet, epc, piece>>
  BY DEF CreateView, CreateFrozenView, Reload, Dispose, FeedNoView, chanVars, emitterVars
<1>2. CASE CreateView \/ CreateFrozenView
  <2>1. /\ UNCHANGED <<bus, queue, snap, xbuf, leaked>>
        /\ wv # "restoring" /\ wv' # "restoring"
    BY <1>2 DEF CreateView, CreateFrozenView, histVars
  <2>2. QueueFrom' = QueueFrom
    BY <1>1, <2>1, FromKept DEF emitSent
  <2>3. AckTotal' = AckTotal
    BY <1>1 DEF AckTotal
  <2> QED BY <1>1, <2>1, <2>2, <2>3 DEF DebtInv
<1>3. CASE Reload
  <2>1. /\ bus' = <<>> /\ queue' = <<>> /\ xbuf' = <<>> /\ wv' = "down"
        /\ leaked' = (leaked \/ bus \o queue \o xbuf # <<>>)
    BY <1>3 DEF Reload
  <2>2. CASE leaked'
    BY <1>1, <2>2 DEF DebtInv
  <2>3. CASE ~leaked'
    <3>1. ~leaked /\ bus \o queue \o xbuf = <<>>
      BY <2>1, <2>3
    <3>2. bus = <<>> /\ queue = <<>> /\ xbuf = <<>>
      <4>1. bus \in Seq(Piece) /\ queue \in Seq(Piece) /\ xbuf \in Seq(Piece)
        BY DEF TypeOK
      <4>2. \A a, b \in Seq(Piece) : a \o b = <<>> => a = <<>> /\ b = <<>>
        <5>1. ASSUME NEW a \in Seq(Piece), NEW b \in Seq(Piece), a \o b = <<>>
              PROVE  a = <<>> /\ b = <<>>
          <6>1. Len(a \o b) = Len(a) + Len(b) /\ Len(a) \in Nat /\ Len(b) \in Nat
            BY ConcatProperties
          <6>2. Len(a) = 0 /\ Len(b) = 0
            BY <5>1, <6>1
          <6> QED BY <6>2, EmptySeq
        <5> QED BY <5>1
      <4>3. bus \o queue \in Seq(Piece)
        BY <4>1
      <4> QED BY <3>1, <4>1, <4>2, <4>3
    <3>3. UNCHANGED emitSent /\ xbuf' = xbuf
      BY <1>1, <2>1, <3>2 DEF emitSent
    <3>4. QueueFrom' = QueueFrom /\ AckTotal' = AckTotal
      BY <1>1, <3>3, FromKept DEF AckTotal
    <3>5. ~closed => outstanding + QueueFrom <= total + (LenSum(xbuf) + AckTotal)
      BY <3>1, DebtTypes DEF DebtInv
    <3> QED BY <1>1, <2>1, <3>3, <3>4, <3>5 DEF DebtInv
  <2> QED BY <2>2, <2>3
<1>4. CASE Dispose
  BY <1>1, <1>4 DEF DebtInv, Dispose
<1>5. CASE FeedNoView
  BY <1>1, <1>5 DEF DebtInv, FeedNoView
<1> QED BY <1>2, <1>3, <1>4, <1>5

\* An event reaches a live view.
LEMMA DebtLive ==
  ASSUME TypeOK, TypeOK', ScreenInv, DebtInv, FeedLive PROVE DebtInv'
<1>1. /\ bus # <<>> /\ bus' = Tail(bus) /\ xbuf' = Append(xbuf, Head(bus)) /\ wv = "live" /\ wv' = "live"
      /\ UNCHANGED <<outstanding, total, closed, open, ackNet, leaked, queue>> /\ UNCHANGED emitPath
  BY DEF FeedLive, chanVars, emitterVars, histVars, emitPath
<1>2. queue = <<>>
  BY <1>1 DEF ScreenInv, StageInv
<1>3. Head(bus) \in Piece /\ Head(bus).off = BusFrom /\ BusFrom' = End(Head(bus))
  BY <1>1, EventArrives
<1>4. QueueFrom = Head(bus).off /\ QueueFrom' = Head(bus).off + Head(bus).len
  BY <1>1, <1>2, <1>3 DEF QueueFrom, From, End
<1>5. LenSum(xbuf') = LenSum(xbuf) + Head(bus).len
  BY <1>1, <1>3, SumAppend DEF TypeOK
<1>6. AckTotal' = AckTotal
  BY <1>1 DEF AckTotal
<1>7. ~leaked /\ ~closed => outstanding + QueueFrom <= total + (LenSum(xbuf) + AckTotal)
  BY <1>1 DEF DebtInv
<1>8. \A o, f, l, t, x, a \in Nat : o + f <= t + (x + a) => o + (f + l) <= t + ((x + l) + a)
  OBVIOUS
<1>9. Head(bus).off \in Nat /\ Head(bus).len \in Nat
  BY <1>3, PieceType
<1>10. ~leaked /\ ~closed => outstanding + QueueFrom' <= total + (LenSum(xbuf') + AckTotal)
  BY <1>4, <1>5, <1>7, <1>8, <1>9, DebtTypes
<1> QED BY <1>1, <1>6, <1>10 DEF DebtInv

\* An event reaches a frozen view: what its queue drops was in the snapshot, or
\* counts as leaked.
LEMMA DebtFrozen ==
  ASSUME TypeOK, TypeOK', ScreenInv, DebtInv, FeedFrozen PROVE DebtInv'
<1> DEFINE h == Head(bus)
           q == Append(queue, h)
           n == Excess(q)
<1>1. /\ bus # <<>> /\ wv \in {"frozen", "restoring"} /\ bus' = Tail(bus)
      /\ queue' = SubSeq(q, n + 1, Len(q)) /\ UNCHANGED emitPath
      /\ UNCHANGED <<snap, wv, xbuf, ackNet, outstanding, total, closed, open>>
      /\ leaked' = (leaked \/ \E i \in 1..n : End(q[i]) > snap.off)
  BY DEF FeedFrozen, emitPath, chanVars, emitterVars
<1>2. h \in Piece /\ h.off = BusFrom /\ SendFrom' = SendFrom /\ BusFrom' = End(h)
  BY <1>1, EventArrives
<1>3. queue \in Seq(Piece) /\ Run(queue, h.off)
  BY <1>2 DEF TypeOK, ScreenInv, RunsInv
<1>4. q \in Seq(Piece) /\ q # <<>> /\ DOMAIN q = 1..Len(q)
  BY <1>2, <1>3, AppendPiece
<1>5. Run(q, End(h)) /\ From(q, End(h)) = QueueFrom
  BY <1>2, <1>3, RunAppend DEF QueueFrom
<1> HIDE DEF h, q
<1>6. n \in 0..(Len(q) - 1) /\ Len(q) \in Nat
  BY <1>4, ExcessRange
<1> HIDE DEF n
<1>7. n \in 0..Len(q) /\ End(h) \in Nat
  BY <1>2, <1>6, PieceType
<1>8. QueueFrom' = IF n = 0 THEN QueueFrom ELSE End(q[n])
  BY <1>1, <1>2, <1>4, <1>5, <1>7, RunSub DEF QueueFrom
<1>9. ~leaked' => ~leaked /\ (QueueFrom' = QueueFrom \/ QueueFrom' <= snap.off)
  <2> SUFFICES ASSUME ~leaked', n # 0 PROVE ~leaked /\ QueueFrom' <= snap.off
    BY <1>1, <1>8
  <2>1. n \in 1..n /\ n \in DOMAIN q
    BY <1>4, <1>6
  <2>2. End(q[n]) \in Nat /\ snap.off \in Nat
    BY <1>4, <2>1, PieceAt DEF TypeOK
  <2>3. ~(End(q[n]) > snap.off)
    BY <1>1, <2>1
  <2>4. \A a, b \in Nat : ~(a > b) => a <= b
    OBVIOUS
  <2>5. End(q[n]) <= snap.off
    BY <2>2, <2>3, <2>4
  <2>6. QueueFrom' = End(q[n])
    BY <1>8
  <2> QED BY <1>1, <2>5, <2>6
<1>10. AckTotal' = AckTotal
  BY <1>1 DEF AckTotal
<1>11. /\ outstanding \in Nat /\ total \in Nat /\ QueueFrom \in Nat /\ snap.off \in Nat
       /\ LenSum(xbuf) \in Nat /\ AckTotal \in Nat
  BY DebtTypes
<1>12. QueueFrom' \in Nat
  BY <1>4, <1>6, <1>8, <1>11, PieceAt
<1>13. ASSUME ~leaked', ~closed', wv = "restoring"
       PROVE  outstanding + snap.off <= total /\ outstanding + QueueFrom' <= total
  <2>1. outstanding + snap.off <= total /\ outstanding + QueueFrom <= total
    BY <1>1, <1>9, <1>13 DEF DebtInv
  <2>2. \A o, f, t \in Nat : \A g \in Nat : g <= f /\ o + f <= t => o + g <= t
    OBVIOUS
  <2>3. QueueFrom' = QueueFrom \/ QueueFrom' <= snap.off
    BY <1>9, <1>13
  <2> QED BY <1>11, <1>12, <2>1, <2>2, <2>3
<1>14. ASSUME ~leaked', ~closed', wv = "frozen"
       PROVE  outstanding + QueueFrom' <= total + (LenSum(xbuf) + AckTotal)
  <2>1. outstanding + QueueFrom <= total + (LenSum(xbuf) + AckTotal)
    BY <1>1, <1>9, <1>14 DEF DebtInv
  <2>2. snap.off = 0
    BY <1>14 DEF ScreenInv, StageInv, NoSnap
  <2>3. QueueFrom' <= QueueFrom
    BY <1>9, <1>11, <1>12, <1>14, <2>2
  <2>4. \A o, f, g, t \in Nat : g <= f /\ o + f <= t => o + g <= t
    OBVIOUS
  <2>5. total + (LenSum(xbuf) + AckTotal) \in Nat
    BY <1>11
  <2> QED BY <1>11, <1>12, <2>1, <2>3, <2>4, <2>5
<1> QED BY <1>1, <1>10, <1>13, <1>14 DEF DebtInv

\* The snapshot writes the debt off.
LEMMA DebtSnapshot ==
  ASSUME TypeOK, ScreenInv, DebtInv, GetScrollback PROVE DebtInv'
<1>1. wv' = "restoring" /\ UNCHANGED emitSent /\ UNCHANGED <<total, open, closed>>
  BY DEF GetScrollback, emitSent, emitterVars
<1>2. CASE ~open
  BY <1>1, <1>2 DEF DebtInv
<1>3. CASE open
  <2>1. outstanding' = 0 /\ snap'.off = total
    BY <1>3 DEF GetScrollback
  <2>2. QueueFrom' = QueueFrom /\ QueueFrom \in Nat /\ total \in Nat /\ QueueFrom <= total
    BY <1>1, FromKept, DebtTypes
  <2>3. outstanding' + snap'.off <= total' /\ outstanding' + QueueFrom' <= total'
    BY <1>1, <2>1, <2>2
  <2> QED BY <1>1, <1>3, <2>3 DEF DebtInv
<1> QED BY <1>2, <1>3

\* The queue, or a later part of it, is written to xterm.
LEMMA DebtWritten ==
  ASSUME TypeOK, ScreenInv, NEW kept \in Seq(Piece), Run(kept, BusFrom),
         wv' = "live", queue' = <<>>, xbuf' = xbuf \o kept,
         UNCHANGED <<bus, ackNet, outstanding, total, open, closed, leaked>>, UNCHANGED emitPath,
         ~open => closed,
         ~leaked /\ ~closed =>
            outstanding + From(kept, BusFrom) <= total + (LenSum(xbuf) + AckTotal)
  PROVE  DebtInv'
<1>1. BusFrom \in Nat
  BY Offsets DEF ScreenInv
<1>2. From(kept, BusFrom) + LenSum(kept) = BusFrom
  BY <1>1, SumRun
<1>3. From(kept, BusFrom) \in Nat /\ LenSum(kept) \in Nat
  BY <1>1, FromType, LenSumIs
<1>4. QueueFrom' = BusFrom
  BY SendKept DEF BusFrom, QueueFrom, From
<1>5. LenSum(xbuf') = LenSum(xbuf) + LenSum(kept)
  BY SumConcat DEF TypeOK
<1>6. AckTotal' = AckTotal
  BY DEF AckTotal
<1>7. \A o, f, l, t, x, a \in Nat : o + f <= t + (x + a) => o + (f + l) <= t + ((x + l) + a)
  OBVIOUS
<1>8. ~leaked /\ ~closed => outstanding + BusFrom <= total + (LenSum(xbuf') + AckTotal)
  BY <1>2, <1>3, <1>5, <1>7, DebtTypes
<1> QED BY <1>4, <1>6, <1>8 DEF DebtInv

LEMMA DebtRestoreFailed ==
  ASSUME TypeOK, ScreenInv, DebtInv, RestoreFailed PROVE DebtInv'
<1>1. /\ wv = "frozen" /\ wv' = "live" /\ queue' = <<>> /\ xbuf' = xbuf \o queue
      /\ UNCHANGED <<bus, ackNet, outstanding, total, open, closed, leaked>> /\ UNCHANGED emitPath
  BY DEF RestoreFailed, chanVars, emitterVars, histVars, emitPath
<1>2. queue \in Seq(Piece) /\ Run(queue, BusFrom)
  BY DEF TypeOK, ScreenInv, RunsInv
<1>3. (~open => closed) /\ (~leaked /\ ~closed =>
         outstanding + From(queue, BusFrom) <= total + (LenSum(xbuf) + AckTotal))
  BY <1>1 DEF DebtInv, QueueFrom
<1> QED BY <1>1, <1>2, <1>3, DebtWritten

\* The pieces restore() drops as duplicates were written off with the snapshot.
LEMMA DebtRestore ==
  ASSUME TypeOK, ScreenInv, DebtInv, Restore PROVE DebtInv'
<1> DEFINE kept == SubSeq(queue, Stale + 1, Len(queue))
<1>1. /\ wv = "restoring" /\ wv' = "live" /\ queue' = <<>> /\ xbuf' = xbuf \o kept
      /\ UNCHANGED <<bus, ackNet, outstanding, total, open, closed, leaked>> /\ UNCHANGED emitPath
  BY DEF Restore, chanVars, emitterVars, histVars, emitPath
<1>2. /\ queue \in Seq(Piece) /\ Run(queue, BusFrom) /\ snap.off \in Nat
      /\ BusFrom \in Nat /\ QueueFrom \in Nat /\ QueueFrom <= BusFrom
  BY Offsets DEF ScreenInv, RunsInv
<1>3. Stale \in 0..Len(queue) /\ (Stale > 0 => queue[Stale].off < snap.off)
  BY <1>2, StaleIsHead
<1>4. /\ Run(kept, BusFrom)
      /\ From(kept, BusFrom) = IF Stale = 0 THEN QueueFrom ELSE End(queue[Stale])
  BY <1>2, <1>3, RunSub DEF QueueFrom
<1>5. kept \in Seq(Piece) /\ Len(queue) \in Nat /\ DOMAIN queue = 1..Len(queue)
  BY <1>2, <1>3, SubSeqPiece
<1> HIDE DEF kept
<1>6. From(kept, BusFrom) = QueueFrom \/ From(kept, BusFrom) <= snap.off
  <2> SUFFICES ASSUME Stale # 0 PROVE End(queue[Stale]) <= snap.off
    BY <1>4
  <2>1. Stale \in DOMAIN queue /\ queue[Stale].off < snap.off
    BY <1>3, <1>5
  <2>2. queue[Stale].off \in Nat
    BY <1>2, <2>1, PieceAt
  <2>3. Clear(queue[Stale])
    BY <2>1 DEF ScreenInv, ClearInv
  <2> QED BY <1>2, <2>1, <2>2, <2>3 DEF Clear
<1>7. From(kept, BusFrom) \in Nat
  BY <1>2, <1>5, FromType
<1>8. ~leaked /\ ~closed => outstanding + From(kept, BusFrom) <= total
  <2>1. ~leaked /\ ~closed => outstanding + snap.off <= total /\ outstanding + QueueFrom <= total
    BY <1>1 DEF DebtInv
  <2>2. \A o, f, g, t \in Nat : g <= f /\ o + f <= t => o + g <= t
    OBVIOUS
  <2> QED BY <1>2, <1>6, <1>7, <2>1, <2>2, DebtTypes
<1>9. ~leaked /\ ~closed =>
        outstanding + From(kept, BusFrom) <= total + (LenSum(xbuf) + AckTotal)
  <2>1. \A a, t, x, y \in Nat : a <= t => a <= t + (x + y)
    OBVIOUS
  <2>2. outstanding + From(kept, BusFrom) \in Nat
    BY <1>7, DebtTypes
  <2> QED BY <1>8, <2>1, <2>2, DebtTypes
<1>10. ~open => closed
  BY DEF DebtInv
<1> QED BY <1>1, <1>4, <1>5, <1>9, <1>10, DebtWritten

LEMMA DebtNext ==
  ASSUME TypeOK, TypeOK', ScreenInv, ScreenInv', DebtInv, [Next]_vars PROVE DebtInv'
<1>1. CASE Webview
  BY <1>1, DebtTurns, DebtLive, DebtFrozen, DebtAcks, DebtSnapshot, DebtRestore, DebtRestoreFailed,
     DebtReader DEF Webview
<1> QED BY <1>1, DebtReader, DebtEmitter DEF Next

LEMMA DebtInit == ASSUME Init PROVE DebtInv
<1>1. /\ outstanding = 0 /\ total = 0 /\ bus = <<>> /\ queue = <<>> /\ epc = "wait"
      /\ xbuf = <<>> /\ ackNet = <<>> /\ wv = "none" /\ open
  BY DEF Init
<1>2. QueueFrom = 0
  BY <1>1 DEF QueueFrom, BusFrom, SendFrom, From
<1>3. LenSum(xbuf) \in Nat /\ AckTotal \in Nat
  BY TypeInit, ScreenInit, DebtTypes
<1> QED BY <1>1, <1>2, <1>3 DEF DebtInv

\* Flow control never waits for an ack that cannot come: all that the backend
\* counts as unacknowledged is on its way to or from the webview, whatever the
\* sizes of the buffers, unless output was lost with a page, a closed view or a
\* dropped queue entry since the last reset (pty.rs append_emitted, ack_data and
\* scrollback, terminal-view.js feed and restore).
THEOREM DebtStaysInFlight == SafetySpec => []DebtIsInFlight
<1>1. Init => TypeOK /\ ScreenInv /\ DebtInv
  BY TypeInit, ScreenInit, DebtInit
<1>2. TypeOK /\ ScreenInv /\ DebtInv /\ [Next]_vars => TypeOK' /\ ScreenInv' /\ DebtInv'
  <2> SUFFICES ASSUME TypeOK, ScreenInv, DebtInv, [Next]_vars
               PROVE  TypeOK' /\ ScreenInv' /\ DebtInv'
    OBVIOUS
  <2>1. TypeOK' /\ ScreenInv'
    BY TypeNext, ScreenNext
  <2> QED BY <2>1, DebtNext
<1>3. TypeOK /\ ScreenInv /\ DebtInv => DebtIsInFlight
  BY DebtCovered
<1> QED BY <1>1, <1>2, <1>3, PTL DEF SafetySpec
=============================================================================
