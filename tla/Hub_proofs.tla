----------------------------- MODULE Hub_proofs -----------------------------
(***************************************************************************)
(* Proofs about the remote hub: who decides the size of a session's PTY    *)
(* (PtyControl), and how a phone becomes a device (Pairing).               *)
(*                                                                         *)
(* Control.  For any number of sessions, devices and connections, the      *)
(* desktop's size comes back with every release.                           *)
(*                                                                         *)
(* Pairing.  First, a code makes one device, for any number of phones,     *)
(* limits, devices there were before, and any amount of requests and       *)
(* clicks: a code that was issued is in one place at most; it can be sent, *)
(* or a phone's request that sent it is under way, or a device was made    *)
(* with it.  Then, the code a phone can read on the screen is the one the  *)
(* server takes, and stays until something ends it: the page's slots fit   *)
(* the calls that were made from them.                                     *)
(***************************************************************************)
EXTENDS PtyControl, Pairing, SequenceTheorems, TLAPS

LEMMA ClampRange == ASSUME NEW n \in Nat PROVE Clamp(n) \in Narrow..Wide /\ Clamp(n) \in Nat \ {0}
  BY ControlAssumption DEF Clamp

LEMMA NoHoldNotHolding == NoHold.held = FALSE /\ NoHold \in Holding \cup {NoHold}
  BY DEF NoHold

\* An entry that says it is held is a Holding.
LEMMA HeldIsHolding ==
  ASSUME TypeOK, NEW s \in Sessions, controls[s].held
  PROVE  controls[s] \in Holding
  BY NoHoldNotHolding DEF TypeOK

LEMMA HoldType ==
  ASSUME NEW c \in Conn, NEW n \in Nat \ {0}
  PROVE  Hold(c, n) \in Holding /\ Hold(c, n).held /\ Hold(c, n).desktop = n
         /\ Hold(c, n).dev = c.dev /\ Hold(c, n).conn = c.id /\ Hold(c, n).run = c.run
  BY DEF Hold, Holding, Conn

-----------------------------------------------------------------------------
(* Types *)

LEMMA TypeInit == Init => TypeOK
  BY ControlAssumption, NoHoldNotHolding DEF Init, TypeOK

LEMMA TypeRelease ==
  ASSUME TypeOK, NEW S \in SUBSET Sessions, \A s \in S : controls[s].held, ReleaseAll(S)
  PROVE  controls' \in [Sessions -> Holding \cup {NoHold}] /\ size' \in [Sessions -> Nat \ {0}]
<1>1. \A s \in S : controls[s].desktop \in Nat \ {0}
  <2>1. ASSUME NEW s \in S PROVE controls[s] \in Holding
    BY HeldIsHolding
  <2>2. QED
    BY <2>1 DEF Holding
<1>2. QED
  BY <1>1, NoHoldNotHolding DEF TypeOK, ReleaseAll

LEMMA TypeNext == TypeOK /\ [Next]_vars => TypeOK'
<1> SUFFICES ASSUME TypeOK, [Next]_vars PROVE TypeOK'
  OBVIOUS
<1> USE ControlAssumption
<1>1. ASSUME NEW s \in Sessions, NEW n \in Sizes, Resize(s, n) PROVE TypeOK'
  <2>1. n \in Nat \ {0}
    BY <1>1 DEF Resize
  <2>2. CASE controls[s].held
    <3>1. controls[s] \in Holding
      BY <2>2, HeldIsHolding
    <3>2. [controls[s] EXCEPT !.desktop = n] \in Holding
      BY <2>1, <3>1 DEF Holding
    <3>3. controls' \in [Sessions -> Holding \cup {NoHold}] /\ size' = size
      BY <1>1, <2>2, <3>2 DEF Resize, TypeOK
    <3>4. QED
      BY <1>1, <2>1, <3>3 DEF Resize, TypeOK
  <2>3. CASE ~controls[s].held
    BY <1>1, <2>1, <2>3 DEF Resize, TypeOK
  <2>4. QED
    BY <2>2, <2>3
<1>2. ASSUME NEW s \in Sessions, ReleaseControl(s) PROVE TypeOK'
  <2>1. controls' \in [Sessions -> Holding \cup {NoHold}] /\ size' \in [Sessions -> Nat \ {0}]
    BY <1>2, TypeRelease DEF ReleaseControl
  <2>2. QED
    BY <1>2, <2>1 DEF ReleaseControl, TypeOK
<1>3. ASSUME NEW s \in Sessions, CloseChan(s) PROVE TypeOK'
  BY <1>3 DEF CloseChan, TypeOK
<1>4. ASSUME NEW s \in Sessions, CloseControl(s) PROVE TypeOK'
  BY <1>4, NoHoldNotHolding DEF CloseControl, TypeOK
<1>5. ASSUME NEW d \in Devices, ReleaseDevice(d) PROVE TypeOK'
  <2>1. controls' \in [Sessions -> Holding \cup {NoHold}] /\ size' \in [Sessions -> Nat \ {0}]
    BY <1>5, TypeRelease DEF ReleaseDevice, HeldByDevice
  <2>2. QED
    BY <1>5, <2>1 DEF ReleaseDevice, TypeOK
<1>6. ASSUME NEW d \in Devices, Connect(d) PROVE TypeOK'
  <2>1. [dev |-> d, run |-> server, id |-> nextConn, up |-> TRUE] \in Conn
    BY DEF TypeOK, Conn
  <2>2. nextConn' \in Nat
    BY <1>6 DEF Connect, TypeOK
  <2>3. QED
    BY <1>6, <2>1, <2>2 DEF Connect, TypeOK
<1>7. CASE RestartServer
  BY <1>7 DEF RestartServer, TypeOK
<1>8. ASSUME NEW c \in conns, NEW s \in Sessions, NEW n \in Sizes, TakeBegin(c, s, n)
      PROVE TypeOK'
  <2>1. lock' \in Taking
    BY <1>8 DEF TakeBegin, TypeOK, Taking
  <2>2. QED
    BY <1>8, <2>1 DEF TakeBegin, TypeOK
<1>9. CASE TakeEnd
  <2>1. lock \in Taking
    BY <1>9 DEF TakeEnd, TypeOK, NoTake
  <2>2. /\ lock.by \in Conn /\ lock.of \in Sessions /\ lock.want \in Nat
        /\ lock.cur \in Nat \ {0}
    BY <2>1 DEF Taking
  <2> DEFINE desktop == IF controls[lock.of].held THEN controls[lock.of].desktop ELSE lock.cur
  <2>3. desktop \in Nat \ {0}
    <3>1. CASE controls[lock.of].held
      BY <2>2, <3>1, HeldIsHolding DEF Holding
    <3>2. CASE ~controls[lock.of].held
      BY <2>2, <3>2
    <3>3. QED
      BY <3>1, <3>2
  <2>4. controls' = [controls EXCEPT ![lock.of] = Hold(lock.by, desktop)]
    BY <1>9 DEF TakeEnd
  <2> HIDE DEF desktop
  <2>5. Hold(lock.by, desktop) \in Holding
    BY <2>2, <2>3, HoldType
  <2>6. controls' \in [Sessions -> Holding \cup {NoHold}]
    BY <2>4, <2>5 DEF TypeOK
  <2>7. size' \in [Sessions -> Nat \ {0}]
    BY <1>9, <2>2, ClampRange DEF TakeEnd, TypeOK
  <2>8. QED
    BY <1>9, <2>6, <2>7 DEF TakeEnd, TypeOK
<1>10. ASSUME NEW c \in conns, NEW s \in Sessions, ReleaseByDevice(c, s) PROVE TypeOK'
  <2>1. controls' \in [Sessions -> Holding \cup {NoHold}] /\ size' \in [Sessions -> Nat \ {0}]
    BY <1>10, TypeRelease DEF ReleaseByDevice
  <2>2. QED
    BY <1>10, <2>1 DEF ReleaseByDevice, TypeOK
<1>11. ASSUME NEW c \in conns, ConnEnds(c) PROVE TypeOK'
  <2>1. c \in Conn
    BY DEF TypeOK
  <2>2. [c EXCEPT !.up = FALSE] \in Conn
    BY <2>1 DEF Conn
  <2>3. QED
    BY <1>11, <2>2 DEF ConnEnds, TypeOK
<1>12. ASSUME NEW c \in conns, ConnReleases(c) PROVE TypeOK'
  <2>1. controls' \in [Sessions -> Holding \cup {NoHold}] /\ size' \in [Sessions -> Nat \ {0}]
    BY <1>12, TypeRelease DEF ConnReleases, HeldByConn
  <2>2. QED
    BY <1>12, <2>1 DEF ConnReleases, TypeOK
<1>13. CASE UNCHANGED vars
  BY <1>13 DEF vars, TypeOK
<1>14. QED
  BY <1>1, <1>2, <1>3, <1>4, <1>5, <1>6, <1>7, <1>8, <1>9, <1>10, <1>11, <1>12, <1>13
     DEF Next, Desktop, Connections

\* Every variable keeps its type: for one, no PTY is ever resized to zero.
THEOREM ControlTypes == SafetySpec => []TypeOK
<1>1. QED
  BY TypeInit, TypeNext, PTL DEF SafetySpec

-----------------------------------------------------------------------------
(* The invariant *)

LEMMA InvInit == Init => ControlInv
  BY DEF Init, ControlInv, CloseInv, DesktopSizeKept, HeldSizeInRange, HoldHasConnection,
         ClosedIsFree, LockInv, NoHold, NoTake

\* A release brings the desktop's size back, and leaves the other holds alone.
LEMMA InvRelease ==
  ASSUME TypeOK, ControlInv, Free, NEW S \in SUBSET Sessions, ReleaseAll(S),
         \A s \in S : controls[s].held,
         UNCHANGED <<chans, closing, lock, wish>>,
         \A s \in Sessions \ S : \A c \in conns :
           controls[s].held /\ c.id = controls[s].conn => c \in conns'
  PROVE  ControlInv'
<1> USE DEF CloseInv
<1>1. /\ \A s \in S : controls'[s] = NoHold
      /\ \A s \in Sessions \ S : controls'[s] = controls[s] /\ size'[s] = size[s]
      /\ \A s \in S : s \in chans => size'[s] = controls[s].desktop
  BY DEF ReleaseAll, TypeOK
<1>2. ~NoHold.held
  BY DEF NoHold
<1>3. DesktopSizeKept'
  BY <1>1, <1>2 DEF ControlInv, DesktopSizeKept, TypeOK
<1>4. HeldSizeInRange'
  BY <1>1, <1>2 DEF ControlInv, HeldSizeInRange, TypeOK
<1>5. HoldHasConnection'
  BY <1>1, <1>2 DEF ControlInv, HoldHasConnection
<1>6. ClosedIsFree'
  BY <1>1, <1>2 DEF ControlInv, ClosedIsFree
<1>7. LockInv'
  BY DEF LockInv, Free
<1>8. QED
  BY <1>3, <1>4, <1>5, <1>6, <1>7 DEF ControlInv

LEMMA InvNext == TypeOK /\ ControlInv /\ [Next]_vars => ControlInv'
<1> SUFFICES ASSUME TypeOK, ControlInv, [Next]_vars PROVE ControlInv'
  OBVIOUS
<1> USE ControlAssumption DEF ControlInv, CloseInv
<1>1. ASSUME NEW s \in Sessions, NEW n \in Sizes, Resize(s, n) PROVE ControlInv'
  <2>1. CASE controls[s].held
    <3>1. controls[s] \in Holding
      BY <2>1, HeldIsHolding
    <3>2. /\ controls'[s].held /\ controls'[s].desktop = n
          /\ controls'[s].dev = controls[s].dev /\ controls'[s].conn = controls[s].conn
          /\ controls'[s].run = controls[s].run
      BY <1>1, <2>1, <3>1 DEF Resize, TypeOK, Holding
    <3>3. /\ \A t \in Sessions \ {s} : controls'[t] = controls[t] /\ wish'[t] = wish[t]
          /\ wish'[s] = n
          /\ UNCHANGED <<chans, closing, size, lock, conns>> /\ Free
      BY <1>1, <2>1 DEF Resize, TypeOK
    <3>4. DesktopSizeKept'
      BY <3>2, <3>3 DEF DesktopSizeKept, TypeOK
    <3>5. HeldSizeInRange'
      BY <2>1, <3>2, <3>3 DEF HeldSizeInRange, TypeOK
    <3>6. HoldHasConnection'
      BY <2>1, <3>2, <3>3 DEF HoldHasConnection
    <3>7. ClosedIsFree'
      BY <2>1, <3>2, <3>3 DEF ClosedIsFree
    <3>8. LockInv'
      BY <3>3 DEF LockInv, Free
    <3>9. QED
      BY <3>3, <3>4, <3>5, <3>6, <3>7, <3>8
  <2>2. CASE ~controls[s].held
    <3>1. /\ \A t \in Sessions \ {s} : size'[t] = size[t] /\ wish'[t] = wish[t]
          /\ wish'[s] = n /\ size'[s] = n
          /\ UNCHANGED <<chans, closing, controls, lock, conns>> /\ Free
      BY <1>1, <2>2 DEF Resize, TypeOK
    <3>2. DesktopSizeKept'
      BY <2>2, <3>1 DEF DesktopSizeKept, TypeOK
    <3>3. HeldSizeInRange'
      BY <2>2, <3>1 DEF HeldSizeInRange, TypeOK
    <3>4. HoldHasConnection' /\ ClosedIsFree'
      BY <3>1 DEF HoldHasConnection, ClosedIsFree
    <3>5. LockInv'
      BY <3>1 DEF LockInv, Free
    <3>6. QED
      BY <3>1, <3>2, <3>3, <3>4, <3>5
  <2>3. QED
    BY <2>1, <2>2
<1>2. ASSUME NEW s \in Sessions, ReleaseControl(s) PROVE ControlInv'
  BY <1>2, InvRelease DEF ReleaseControl
<1>3. ASSUME NEW s \in Sessions, CloseChan(s) PROVE ControlInv'
  BY <1>3 DEF CloseChan, DesktopSizeKept, HeldSizeInRange, HoldHasConnection,
              ClosedIsFree, LockInv
<1>4. ASSUME NEW s \in Sessions, CloseControl(s) PROVE ControlInv'
  <2>1. /\ \A t \in Sessions \ {s} : controls'[t] = controls[t]
        /\ controls'[s] = NoHold /\ closing' = closing \ {s} /\ Free
        /\ UNCHANGED <<chans, size, lock, conns, wish>>
    BY <1>4 DEF CloseControl, TypeOK
  <2>2. ~NoHold.held
    BY DEF NoHold
  <2>3. DesktopSizeKept'
    BY <1>4, <2>1, <2>2 DEF DesktopSizeKept, TypeOK, CloseControl
  <2>4. HeldSizeInRange' /\ HoldHasConnection' /\ ClosedIsFree'
    BY <2>1, <2>2 DEF HeldSizeInRange, HoldHasConnection, ClosedIsFree, TypeOK
  <2>5. LockInv'
    BY <2>1 DEF LockInv, Free
  <2>6. QED
    BY <2>1, <2>3, <2>4, <2>5
<1>5. ASSUME NEW d \in Devices, ReleaseDevice(d) PROVE ControlInv'
  BY <1>5, InvRelease DEF ReleaseDevice, HeldByDevice
<1>6. ASSUME NEW d \in Devices, Connect(d) PROVE ControlInv'
  <2>1. conns \subseteq conns' /\ UNCHANGED <<chans, closing, size, controls, lock, wish>>
    BY <1>6 DEF Connect
  <2>2. QED
    BY <2>1 DEF DesktopSizeKept, HeldSizeInRange, HoldHasConnection, ClosedIsFree, LockInv
<1>7. CASE RestartServer
  BY <1>7 DEF RestartServer, DesktopSizeKept, HeldSizeInRange, HoldHasConnection,
              ClosedIsFree, LockInv
<1>8. ASSUME NEW c \in conns, NEW s \in Sessions, NEW n \in Sizes, TakeBegin(c, s, n)
      PROVE ControlInv'
  <2>1. /\ lock'.by = c /\ lock'.of = s /\ lock'.cur = size[s] /\ c.up /\ s \in chans
        /\ UNCHANGED <<chans, closing, size, controls, conns, wish>>
    BY <1>8 DEF TakeBegin
  <2>2. LockInv'
    BY <2>1 DEF LockInv
  <2>3. QED
    BY <2>1, <2>2 DEF DesktopSizeKept, HeldSizeInRange, HoldHasConnection, ClosedIsFree
<1>9. CASE TakeEnd
  <2> DEFINE s == lock.of
             desktop == IF controls[s].held THEN controls[s].desktop ELSE lock.cur
  <2>1. lock \in Taking /\ lock.on
    BY <1>9 DEF TakeEnd, TypeOK, NoTake
  <2>2. /\ lock.by \in Conn /\ s \in Sessions /\ lock.want \in Nat /\ lock.cur \in Nat \ {0}
        /\ lock.by \in conns /\ s \in chans \cup closing
        /\ s \in chans => lock.cur = size[s]
    BY <2>1 DEF Taking, LockInv
  <2>3. controls' = [controls EXCEPT ![s] = Hold(lock.by, desktop)]
    BY <1>9 DEF TakeEnd
  <2>4. /\ size' = IF s \in chans THEN [size EXCEPT ![s] = Clamp(lock.want)] ELSE size
        /\ lock' = NoTake /\ UNCHANGED <<chans, closing, conns, wish>>
    BY <1>9 DEF TakeEnd
  <2>5. desktop \in Nat \ {0}
    <3>1. CASE controls[s].held
      BY <2>2, <3>1, HeldIsHolding DEF Holding
    <3>2. CASE ~controls[s].held
      BY <2>2, <3>2
    <3>3. QED
      BY <3>1, <3>2
  <2>6. s \in chans => desktop = wish[s]
    BY <2>2 DEF DesktopSizeKept
  <2> HIDE DEF s, desktop
  <2>7. /\ controls'[s].held /\ controls'[s].desktop = desktop
        /\ controls'[s].dev = lock.by.dev /\ controls'[s].conn = lock.by.id
        /\ controls'[s].run = lock.by.run
        /\ \A t \in Sessions \ {s} : controls'[t] = controls[t]
    BY <2>2, <2>3, <2>5, HoldType DEF TypeOK
  <2>8. /\ \A t \in Sessions \ {s} : size'[t] = size[t]
        /\ s \in chans => size'[s] \in Narrow..Wide
    BY <2>2, <2>4, ClampRange DEF TypeOK
  <2>9. DesktopSizeKept'
    BY <2>4, <2>6, <2>7, <2>8 DEF DesktopSizeKept, TypeOK
  <2>10. HeldSizeInRange'
    BY <2>4, <2>7, <2>8 DEF HeldSizeInRange, TypeOK
  <2>11. HoldHasConnection' /\ ClosedIsFree'
    BY <2>2, <2>4, <2>7 DEF HoldHasConnection, ClosedIsFree
  <2>12. LockInv'
    BY <2>4 DEF LockInv, NoTake
  <2>13. QED
    BY <2>4, <2>9, <2>10, <2>11, <2>12
<1>10. ASSUME NEW c \in conns, NEW s \in Sessions, ReleaseByDevice(c, s) PROVE ControlInv'
  BY <1>10, InvRelease DEF ReleaseByDevice
<1>11. ASSUME NEW c \in conns, ConnEnds(c) PROVE ControlInv'
  <2>1. c \in Conn
    BY DEF TypeOK
  <2> DEFINE e == [c EXCEPT !.up = FALSE]
  <2>2. e.dev = c.dev /\ e.id = c.id /\ e.run = c.run
    BY <2>1 DEF Conn
  <2>3. /\ conns' = (conns \ {c}) \cup {e} /\ ~(lock.on /\ lock.by = c)
        /\ UNCHANGED <<chans, closing, size, controls, lock, wish>>
    BY <1>11 DEF ConnEnds
  <2> HIDE DEF e
  <2>4. HoldHasConnection'
    BY <2>2, <2>3 DEF HoldHasConnection
  <2>5. LockInv'
    BY <2>3 DEF LockInv
  <2>6. QED
    BY <2>3, <2>4, <2>5 DEF DesktopSizeKept, HeldSizeInRange, ClosedIsFree
<1>12. ASSUME NEW c \in conns, ConnReleases(c) PROVE ControlInv'
  <2>1. /\ Free /\ conns' = conns \ {c} /\ ReleaseAll(HeldByConn(c.id))
        /\ UNCHANGED <<chans, closing, lock, wish>>
    BY <1>12 DEF ConnReleases
  <2>2. \A s \in Sessions \ HeldByConn(c.id) : \A e \in conns :
          controls[s].held /\ e.id = controls[s].conn => e \in conns'
    BY <2>1 DEF HeldByConn
  <2>3. \A s \in HeldByConn(c.id) : controls[s].held
    BY DEF HeldByConn
  <2>4. QED
    BY <2>1, <2>2, <2>3, InvRelease DEF HeldByConn
<1>13. CASE UNCHANGED vars
  BY <1>13 DEF vars, DesktopSizeKept, HeldSizeInRange, HoldHasConnection, ClosedIsFree, LockInv
<1>14. QED
  BY <1>1, <1>2, <1>3, <1>4, <1>5, <1>6, <1>7, <1>8, <1>9, <1>10, <1>11, <1>12, <1>13
     DEF Next, Desktop, Connections

\* The invariant the four theorems below are read off from.
THEOREM ControlIsKept == SafetySpec => [](TypeOK /\ ControlInv)
<1>1. Init => TypeOK /\ ControlInv
  BY TypeInit, InvInit
<1>2. TypeOK /\ ControlInv /\ [Next]_vars => (TypeOK /\ ControlInv)'
  BY TypeNext, InvNext
<1>3. QED
  BY <1>1, <1>2, PTL DEF SafetySpec

\* The desktop gets back the size it last asked for, however many phones took
\* the session from one another in between.
THEOREM DesktopSizeComesBack == SafetySpec => []DesktopSizeKept
<1>1. TypeOK /\ ControlInv => DesktopSizeKept
  BY DEF ControlInv
<1>2. QED
  BY <1>1, ControlIsKept, PTL

\* Whatever size a phone asks for, the PTY it holds stays in CONTROL_COLS.
THEOREM HeldSizesAreClamped == SafetySpec => []HeldSizeInRange
<1>1. TypeOK /\ ControlInv => HeldSizeInRange
  BY DEF ControlInv
<1>2. QED
  BY <1>1, ControlIsKept, PTL

\* Behind every hold there is a connection that will release it.
THEOREM HoldsHaveConnections == SafetySpec => []HoldHasConnection
<1>1. TypeOK /\ ControlInv => HoldHasConnection
  BY DEF ControlInv
<1>2. QED
  BY <1>1, ControlIsKept, PTL

\* A session whose close() is through is held by nobody, for good.
THEOREM ClosedSessionsAreFree == SafetySpec => []ClosedIsFree
<1>1. TypeOK /\ ControlInv => ClosedIsFree
  BY DEF ControlInv
<1>2. QED
  BY <1>1, ControlIsKept, PTL

-----------------------------------------------------------------------------
(* The requests under way *)

\* The fields of a call: an update of one of them leaves the others.
CallFields == {"kind", "n", "live", "ready", "ok", "code", "ids", "st"}
IsCall(c) == c = [f \in CallFields |-> c[f]]

\* The phones' requests that have used up their code.
Pairs(cs) == {c \in cs : c.kind = "pair"}

CallsInv(cs) ==
  /\ \A c \in cs : IsCall(c)
  /\ \A c, d \in Pairs(cs) : c.code = d.code => c = d

\* What the page and the server do to the calls neither makes a phone's
\* request nor changes its code.
Follows(cs, ds) ==
  CallsInv(cs) => CallsInv(ds) /\ \A d \in Pairs(ds) : \E c \in Pairs(cs) : d.code = c.code

LEMMA CallIsCall == ASSUME NEW kind PROVE IsCall(Call(kind)) /\ Call(kind).kind = kind
  BY DEF IsCall, CallFields, Call

\* The answer to a call is a call, and so is any update of its fields.
LEMMA AnswerIsCall ==
  ASSUME NEW c, IsCall(c), NEW m, NEW i
  PROVE  /\ IsCall([c EXCEPT !.ready = TRUE, !.code = m, !.ids = i])
         /\ [c EXCEPT !.ready = TRUE, !.code = m, !.ids = i].kind = c.kind
  BY DEF IsCall, CallFields

LEMMA FollowsSelf == ASSUME NEW cs PROVE Follows(cs, cs)
  BY DEF Follows, CallsInv, Pairs

LEMMA FollowsLess == ASSUME NEW cs, NEW ds, ds \subseteq cs PROVE Follows(cs, ds)
  BY DEF Follows, CallsInv, Pairs

LEMMA FollowsTransitive ==
  ASSUME NEW cs, NEW ds, NEW es, Follows(cs, ds), Follows(ds, es)
  PROVE  Follows(cs, es)
  BY DEF Follows

LEMMA FollowsMore ==
  ASSUME NEW cs, NEW ds, NEW d, Follows(cs, ds), IsCall(d), d.kind # "pair"
  PROVE  Follows(cs, ds \cup {d})
  BY DEF Follows, CallsInv, Pairs

LEMMA FollowsGivenUp ==
  ASSUME NEW cs, NEW kinds
  PROVE  Follows(cs, GivenUp(cs, kinds))
<1> SUFFICES ASSUME CallsInv(cs)
             PROVE  /\ CallsInv(GivenUp(cs, kinds))
                    /\ \A d \in Pairs(GivenUp(cs, kinds)) : \E c \in Pairs(cs) : d.code = c.code
  BY DEF Follows
<1> DEFINE Up(c) == [c EXCEPT !.live = @ /\ c.kind \notin kinds]
<1>1. \A c \in cs : IsCall(Up(c)) /\ Up(c).kind = c.kind /\ Up(c).code = c.code
  BY DEF CallsInv, IsCall, CallFields
<1>2. GivenUp(cs, kinds) = {Up(c) : c \in cs}
  BY DEF GivenUp
<1> HIDE DEF Up
<1>3. QED
  BY <1>1, <1>2 DEF CallsInv, Pairs

\* The shapes of calls' in the actions: a new call of the page, an answer in
\* the place of the call, calls given up, and a new call beside these.
LEMMA FollowsNew ==
  ASSUME NEW cs, NEW ds, NEW kind, kind # "pair", Follows(cs, ds)
  PROVE  Follows(cs, ds \cup {Call(kind)})
  BY CallIsCall, FollowsMore

LEMMA FollowsAnswer ==
  ASSUME NEW cs, NEW c, NEW d, IsCall(d), d.kind # "pair"
  PROVE  Follows(cs, (cs \ {c}) \cup {d})
<1>1. Follows(cs, cs \ {c})
  BY FollowsLess
<1>2. QED
  BY <1>1, FollowsMore

LEMMA FollowsGoneOn ==
  ASSUME NEW cs, NEW ds, NEW kinds, Follows(cs, ds)
  PROVE  Follows(cs, GivenUp(ds, kinds))
  BY FollowsGivenUp, FollowsTransitive

-----------------------------------------------------------------------------
(* The inductive invariant *)

IsPairing ==
  pairing = [code |-> pairing.code, codeFails |-> pairing.codeFails,
             fails |-> pairing.fails, locked |-> pairing.locked]

Shape ==
  /\ issued \in Nat /\ IsPairing /\ pairing.code \in 0..issued
  /\ made \in Seq([code : Nat, saved : BOOLEAN])
  /\ CallsInv(calls)

\* Every code that was used up is one that was issued, and is in one place.
UsedOnce ==
  /\ \A i \in DOMAIN made : made[i].code <= issued /\ (made[i].code # 0 => made[i].code # pairing.code)
  /\ \A c \in Pairs(calls) :
       /\ c.code \in 1..issued /\ c.code # pairing.code
       /\ \A i \in DOMAIN made : made[i].code # c.code

CodeInv == Shape /\ UsedOnce /\ OneDevicePerCode

LEMMA InitCodes == PairingInit => CodeInv
<1> SUFFICES ASSUME PairingInit PROVE CodeInv
  OBVIOUS
<1>1. plan \in Plans /\ made = plan.made /\ calls = {} /\ issued = 0
  BY DEF PairingInit
<1>2. made \in Seq([code : Nat, saved : BOOLEAN]) /\ \A i \in DOMAIN made : made[i].code = 0
  BY <1>1, PlansAssumption
<1>3. pairing.code = 0 /\ IsPairing
  BY DEF PairingInit, IsPairing
<1>4. QED
  BY <1>1, <1>2, <1>3 DEF CodeInv, Shape, UsedOnce, OneDevicePerCode, CallsInv, Pairs

\* A step that leaves the codes and the devices alone, and makes no phone's request.
LEMMA CallsMoveOn ==
  ASSUME CodeInv, Follows(calls, calls'), UNCHANGED <<pairing, issued, made>>
  PROVE  CodeInv'
  BY DEF CodeInv, Shape, UsedOnce, OneDevicePerCode, Follows, IsPairing

-----------------------------------------------------------------------------
(* The codes *)

LEMMA SubmitKeeps ==
  ASSUME CodeInv, NEW p \in Phones, NEW code, SubmitPair(p, code)
  PROVE  CodeInv'
<1>0. UNCHANGED <<issued, made>>
  BY DEF SubmitPair
<1>1. CASE pairing' = [pairing EXCEPT !.code = 0] /\ UNCHANGED calls
  BY <1>0, <1>1 DEF CodeInv, Shape, UsedOnce, OneDevicePerCode, IsPairing, CallsInv, Pairs
<1>2. CASE /\ pairing.code # 0 /\ code = pairing.code /\ pairing' = Matched(p)
           /\ calls' = calls \cup {[Call("pair") EXCEPT !.code = code]}
  <2> DEFINE new == [Call("pair") EXCEPT !.code = code]
  <2>1. IsCall(new) /\ new.kind = "pair" /\ new.code = pairing.code
    BY <1>2, CallIsCall DEF IsCall, CallFields
  <2>2. calls' = calls \cup {new}
    BY <1>2
  <2> HIDE DEF new
  <2>3. Pairs(calls') = Pairs(calls) \cup {new}
    BY <2>1, <2>2 DEF Pairs
  <2>4. IsPairing' /\ pairing'.code = 0
    BY <1>2 DEF CodeInv, Shape, IsPairing, Matched
  <2>5. CallsInv(calls')
    <3>1. \A c \in calls' : IsCall(c)
      BY <2>1, <2>2 DEF CodeInv, Shape, CallsInv
    <3>2. \A c \in Pairs(calls) : c.code # new.code
      BY <2>1 DEF CodeInv, UsedOnce
    <3>3. \A c, d \in Pairs(calls) : c.code = d.code => c = d
      BY DEF CodeInv, Shape, CallsInv
    <3>4. QED
      BY <2>3, <3>1, <3>2, <3>3 DEF CallsInv
  <2>6. new.code \in 1..issued /\ \A i \in DOMAIN made : made[i].code # new.code
    BY <1>2, <2>1 DEF CodeInv, Shape, UsedOnce
  <2>7. QED
    BY <1>0, <2>3, <2>4, <2>5, <2>6 DEF CodeInv, Shape, UsedOnce, OneDevicePerCode
<1>3. CASE pairing' = Missed(p) /\ UNCHANGED calls
  <2>1. IsPairing' /\ pairing'.code \in {0, pairing.code}
    BY <1>3 DEF CodeInv, Shape, IsPairing, Missed
  <2>2. QED
    BY <1>0, <1>3, <2>1 DEF CodeInv, Shape, UsedOnce, OneDevicePerCode, CallsInv, Pairs
<1>4. QED
  BY <1>1, <1>2, <1>3 DEF SubmitPair

LEMMA AddKeeps ==
  ASSUME CodeInv, NEW c \in calls, NEW saved \in BOOLEAN, AddDevice(c, saved)
  PROVE  CodeInv'
<1> DEFINE dev == [code |-> c.code, saved |-> saved]
<1>1. /\ c \in Pairs(calls) /\ calls' = calls \ {c} /\ made' = Append(made, dev)
      /\ UNCHANGED <<pairing, issued>>
  BY DEF AddDevice, Pairs
<1>2. c.code \in 1..issued /\ c.code # pairing.code /\ \A i \in DOMAIN made : made[i].code # c.code
  BY <1>1 DEF CodeInv, UsedOnce
<1>3. /\ Len(made) \in Nat /\ DOMAIN made = 1..Len(made) /\ DOMAIN made' = 1..(Len(made) + 1)
      /\ made' \in Seq([code : Nat, saved : BOOLEAN])
      /\ made'[Len(made) + 1].code = c.code
      /\ \A i \in DOMAIN made : made'[i] = made[i]
  BY <1>1, <1>2 DEF CodeInv, Shape
<1>4. \A d \in Pairs(calls') : d \in Pairs(calls) /\ d.code # c.code
  BY <1>1 DEF CodeInv, Shape, CallsInv, Pairs
<1>5. Shape'
  BY <1>1, <1>3 DEF CodeInv, Shape, IsPairing, CallsInv, Pairs
<1>6. UsedOnce'
  <2>1. \A i \in DOMAIN made' : made'[i].code <= issued /\ (made'[i].code # 0 => made'[i].code # pairing.code)
    BY <1>2, <1>3 DEF CodeInv, UsedOnce
  <2>2. \A d \in Pairs(calls') : \A i \in DOMAIN made' : made'[i].code # d.code
    BY <1>3, <1>4 DEF CodeInv, UsedOnce
  <2>3. QED
    BY <1>1, <1>4, <2>1, <2>2 DEF CodeInv, UsedOnce
<1>7. OneDevicePerCode'
  BY <1>2, <1>3 DEF CodeInv, OneDevicePerCode
<1>8. QED
  BY <1>5, <1>6, <1>7 DEF CodeInv

LEMMA UnlockKeeps ==
  ASSUME CodeInv, NEW p \in Phones, Unlock(p)
  PROVE  CodeInv'
<1>1. pairing'.code = pairing.code /\ IsPairing' /\ UNCHANGED <<issued, made, calls>>
  BY DEF CodeInv, Shape, IsPairing, Unlock
<1>2. QED
  BY <1>1 DEF CodeInv, Shape, UsedOnce, OneDevicePerCode, CallsInv, Pairs

LEMMA IssueKeeps ==
  ASSUME CodeInv, NEW c \in calls, c.kind # "pair", Issue(c), UNCHANGED made
  PROVE  CodeInv'
<1> DEFINE answer == [c EXCEPT !.ready = TRUE, !.code = issued + 1, !.ids = devices]
<1>1. IsCall(c)
  BY DEF CodeInv, Shape, CallsInv
<1>2. IsCall(answer) /\ answer.kind = c.kind
  BY <1>1, AnswerIsCall
<1>3. /\ pairing'.code = issued + 1 /\ IsPairing' /\ issued' = issued + 1
      /\ calls' = (calls \ {c}) \cup {answer}
  BY DEF Issue, NewCode, CodeInv, Shape, IsPairing
<1> HIDE DEF answer
<1>4. Follows(calls, calls')
  BY <1>2, <1>3, FollowsAnswer
<1>5. CallsInv(calls') /\ \A d \in Pairs(calls') : \E o \in Pairs(calls) : d.code = o.code
  BY <1>4 DEF CodeInv, Shape, Follows
<1>6. Shape'
  BY <1>3, <1>5 DEF CodeInv, Shape
<1>7. UsedOnce'
  <2>1. issued \in Nat /\ \A i \in DOMAIN made : made[i].code \in Nat /\ made[i].code <= issued
    <3>1. made \in Seq([code : Nat, saved : BOOLEAN]) /\ DOMAIN made = 1..Len(made)
      BY DEF CodeInv, Shape
    <3>2. \A i \in DOMAIN made : made[i] \in [code : Nat, saved : BOOLEAN]
      BY <3>1, ElementOfSeq
    <3>3. QED
      BY <3>2 DEF CodeInv, Shape, UsedOnce
  <2>2. \A d \in Pairs(calls') : d.code \in 1..issued /\ \A i \in DOMAIN made : made[i].code # d.code
    BY <1>5 DEF CodeInv, UsedOnce
  <2>3. \A i \in DOMAIN made' : made'[i].code <= issued' /\ (made'[i].code # 0 => made'[i].code # pairing'.code)
    BY <1>3, <2>1
  <2>4. \A d \in Pairs(calls') :
          /\ d.code \in 1..issued' /\ d.code # pairing'.code
          /\ \A i \in DOMAIN made' : made'[i].code # d.code
    BY <1>3, <2>1, <2>2
  <2>5. QED
    BY <2>3, <2>4 DEF UsedOnce
<1>8. QED
  BY <1>6, <1>7 DEF CodeInv, OneDevicePerCode

-----------------------------------------------------------------------------
(* The hub serves a call: the answer takes its place. *)

LEMMA ServedFollows ==
  ASSUME NEW c, NEW d, Served(c, d), IsCall(d), d.kind # "pair"
  PROVE  Follows(calls, calls')
  BY FollowsAnswer DEF Served

LEMMA FailedFollows == ASSUME NEW c, SaveFails(c) PROVE Follows(calls, calls')
  BY FollowsLess DEF SaveFails

LEMMA ServeKeeps ==
  ASSUME CodeInv, Serve
  PROVE  CodeInv'
<1> PICK c \in calls : \/ ServeApply(c) \/ QuickApply(c) \/ ServeCode(c) \/ ServeConfig(c)
                         \/ ServeStatus(c) \/ ServeRevoke(c) \/ ServePush(c) \/ ServeOpen(c)
  BY DEF Serve
<1>0. IsCall(c)
  BY DEF CodeInv, Shape, CallsInv
<1>1. CASE ServeApply(c)
  <2>1. \A on \in BOOLEAN : /\ IsCall([c EXCEPT !.ready = TRUE, !.ok = on, !.ids = devices])
                            /\ [c EXCEPT !.ready = TRUE, !.ok = on, !.ids = devices].kind = c.kind
    BY <1>0 DEF IsCall, CallFields
  <2>2. c.kind # "pair"
    BY <1>1 DEF ServeApply, Waits
  <2>3. \/ \E on \in BOOLEAN : Served(c, [c EXCEPT !.ready = TRUE, !.ok = on, !.ids = devices])
        \/ SaveFails(c)
    BY <1>1 DEF ServeApply
  <2>4. Follows(calls, calls')
    <3>1. ASSUME NEW on \in BOOLEAN, Served(c, [c EXCEPT !.ready = TRUE, !.ok = on, !.ids = devices])
          PROVE  Follows(calls, calls')
      <4> DEFINE d == [c EXCEPT !.ready = TRUE, !.ok = on, !.ids = devices]
      <4>1. IsCall(d) /\ d.kind # "pair" /\ Served(c, d)
        BY <2>1, <2>2, <3>1
      <4> HIDE DEF d
      <4>2. QED
        BY <4>1, ServedFollows
    <3>2. QED
      BY <2>3, <3>1, FailedFollows
  <2>5. QED
    BY <1>1, <2>4, CallsMoveOn DEF ServeApply
<1>2. CASE QuickApply(c)
  <2>1. /\ IsCall([c EXCEPT !.kind = "issue", !.ready = TRUE, !.ok = FALSE])
        /\ [c EXCEPT !.kind = "issue", !.ready = TRUE, !.ok = FALSE].kind = "issue"
        /\ IsCall([c EXCEPT !.kind = "issue"]) /\ [c EXCEPT !.kind = "issue"].kind = "issue"
    BY <1>0 DEF IsCall, CallFields
  <2>2. Follows(calls, calls')
    BY <1>2, <2>1, ServedFollows DEF QuickApply
  <2>3. QED
    BY <1>2, <2>2, CallsMoveOn DEF QuickApply
<1>3. CASE ServeCode(c)
  <2>1. c.kind # "pair"
    BY <1>3 DEF ServeCode, Waits
  <2>2. /\ IsCall([c EXCEPT !.ready = TRUE, !.ok = FALSE])
        /\ [c EXCEPT !.ready = TRUE, !.ok = FALSE].kind = c.kind
    BY <1>0 DEF IsCall, CallFields
  <2>3. CASE hub.on
    BY <1>3, <2>1, <2>3, IssueKeeps DEF ServeCode
  <2>4. CASE ~hub.on
    <3>1. Follows(calls, calls')
      BY <1>3, <2>1, <2>2, <2>4, ServedFollows DEF ServeCode
    <3>2. QED
      BY <1>3, <2>4, <3>1, CallsMoveOn DEF ServeCode
  <2>5. QED
    BY <2>3, <2>4
<1>4. CASE ServeConfig(c)
  <2>1. /\ IsCall([c EXCEPT !.ready = TRUE, !.ok = hub.on, !.ids = devices])
        /\ [c EXCEPT !.ready = TRUE, !.ok = hub.on, !.ids = devices].kind = c.kind
    BY <1>0 DEF IsCall, CallFields
  <2>2. Follows(calls, calls')
    BY <1>4, <2>1, ServedFollows DEF ServeConfig, Waits
  <2>3. QED
    BY <1>4, <2>2, CallsMoveOn DEF ServeConfig, Backend
<1>5. CASE ServeStatus(c)
  <2>1. \A st : /\ IsCall([c EXCEPT !.ready = TRUE, !.st = st])
                /\ [c EXCEPT !.ready = TRUE, !.st = st].kind = c.kind
    BY <1>0 DEF IsCall, CallFields
  <2>2. c.kind # "pair"
    BY <1>5 DEF ServeStatus, Waits
  <2>3. \E st : Served(c, [c EXCEPT !.ready = TRUE, !.st = st])
    BY <1>5 DEF ServeStatus
  <2>4. Follows(calls, calls')
    BY <2>1, <2>2, <2>3, ServedFollows
  <2>5. QED
    BY <1>5, <2>4, CallsMoveOn DEF ServeStatus
<1>6. CASE ServeRevoke(c)
  <2>1. /\ IsCall([c EXCEPT !.ready = TRUE, !.ok = hub.on, !.ids = devices'])
        /\ [c EXCEPT !.ready = TRUE, !.ok = hub.on, !.ids = devices'].kind = c.kind
    BY <1>0 DEF IsCall, CallFields
  <2>2. Follows(calls, calls')
    BY <1>6, <2>1, ServedFollows, FailedFollows DEF ServeRevoke, Waits
  <2>3. QED
    BY <1>6, <2>2, CallsMoveOn DEF ServeRevoke
<1>7. CASE ServePush(c)
  <2>1. /\ IsCall([c EXCEPT !.ready = TRUE, !.ids = devices])
        /\ [c EXCEPT !.ready = TRUE, !.ids = devices].kind = c.kind
    BY <1>0 DEF IsCall, CallFields
  <2>2. Follows(calls, calls')
    BY <1>7, <2>1, ServedFollows, FailedFollows DEF ServePush, Waits
  <2>3. QED
    BY <1>7, <2>2, CallsMoveOn DEF ServePush
<1>8. CASE ServeOpen(c)
  <2>1. /\ IsCall([c EXCEPT !.ready = TRUE, !.ok = hub.push /\ hub.on])
        /\ [c EXCEPT !.ready = TRUE, !.ok = hub.push /\ hub.on].kind = c.kind
    BY <1>0 DEF IsCall, CallFields
  <2>2. Follows(calls, calls')
    BY <1>8, <2>1, ServedFollows DEF ServeOpen, Waits
  <2>3. QED
    BY <1>8, <2>2, CallsMoveOn DEF ServeOpen, Backend
<1>9. QED
  BY <1>1, <1>2, <1>3, <1>4, <1>5, <1>6, <1>7, <1>8

-----------------------------------------------------------------------------
(* The page takes an answer, or asks: calls go, are given up, or are added. *)

LEMMA DropFollows == ASSUME NEW c, Drop(c) PROVE Follows(calls, calls')
  BY FollowsLess DEF Drop

LEMMA DrawFollows == ASSUME NEW c, DrawSection(c) PROVE Follows(calls, calls')
  BY FollowsLess, FollowsGoneOn DEF DrawSection

LEMMA AnswerFollows ==
  ASSUME NEW c \in calls,
         \/ SectionAnswered(c) \/ StartAnswered(c) \/ CheckAnswered(c)
         \/ ExpiryAnswered(c) \/ OpenAnswered(c) \/ StatusAnswered(c)
         \/ SummaryAnswered(c) \/ FinishAnswered(c) \/ ViewAnswered(c)
         \/ ConnectAnswered(c)
  PROVE  Follows(calls, calls') /\ Quiet
<1>0. Follows(calls, calls \ {c})
  BY FollowsLess
<1>1. CASE SectionAnswered(c)
  BY <1>1, DropFollows, DrawFollows DEF SectionAnswered
<1>2. CASE StartAnswered(c)
  BY <1>0, <1>2, DropFollows DEF StartAnswered
<1>3. CASE CheckAnswered(c)
  BY <1>3, DropFollows, DrawFollows DEF CheckAnswered
<1>4. CASE ExpiryAnswered(c)
  BY <1>0, <1>4, DropFollows DEF ExpiryAnswered
<1>5. CASE OpenAnswered(c)
  <2>1. Follows(calls, AllGivenUp \ {c})
    <3>1. Follows(calls, AllGivenUp)
      BY FollowsGivenUp DEF AllGivenUp
    <3>2. Follows(AllGivenUp, AllGivenUp \ {c})
      BY FollowsLess
    <3>3. QED
      BY <3>1, <3>2, FollowsTransitive
  <2>2. Follows(calls, (AllGivenUp \ {c}) \cup {Call("status")})
    BY <2>1, FollowsNew
  <2>3. QED
    BY <1>5, <2>2, DropFollows DEF OpenAnswered
<1>6. CASE StatusAnswered(c)
  <2>1. Follows(calls, GivenUp(calls \ {c}, PhoneKinds))
    BY <1>0, FollowsGoneOn
  <2>2. /\ Follows(calls, GivenUp(calls \ {c}, PhoneKinds) \cup {Call("quick")})
        /\ Follows(calls, GivenUp(calls \ {c}, PhoneKinds) \cup {Call("finish")})
        /\ Follows(calls, (calls \ {c}) \cup {Call("summary")})
    BY <1>0, <2>1, FollowsNew
  <2>3. \/ Drop(c)
        \/ calls' = GivenUp(calls \ {c}, PhoneKinds)
        \/ calls' = (calls \ {c}) \cup {Call("summary")}
        \/ calls' = Connecting(calls \ {c})
        \/ calls' = GivenUp(calls \ {c}, PhoneKinds) \cup {Call("finish")}
    BY <1>6 DEF StatusAnswered
  <2>4. QED
    BY <1>6, <2>1, <2>2, <2>3, DropFollows DEF StatusAnswered, Connecting
<1>7. CASE SummaryAnswered(c)
  <2>1. Follows(calls, GivenUp(calls \ {c}, PhoneKinds))
    BY <1>0, FollowsGoneOn
  <2>2. QED
    BY <1>7, <2>1, DropFollows DEF SummaryAnswered
<1>8. CASE FinishAnswered(c)
  BY <1>8, DropFollows DEF FinishAnswered
<1>9. CASE ViewAnswered(c)
  BY <1>0, <1>9 DEF ViewAnswered
<1>10. CASE ConnectAnswered(c)
  BY <1>0, <1>10, DropFollows DEF ConnectAnswered
<1>11. QED
  BY <1>1, <1>2, <1>3, <1>4, <1>5, <1>6, <1>7, <1>8, <1>9, <1>10

LEMMA UserFollows ==
  ASSUME User
  PROVE  Follows(calls, calls') /\ UNCHANGED Backend
<1>0. Follows(calls, calls)
  BY FollowsSelf
<1>1. CASE OpenSettings
  <2>1. Follows(calls, AllGivenUp \cup {Call("init")})
    BY FollowsGivenUp, FollowsNew DEF AllGivenUp
  <2>2. QED
    BY <1>1, <2>1 DEF OpenSettings, Quiet
<1>2. CASE CloseDialog
  BY <1>0, <1>2 DEF CloseDialog, Quiet
<1>3. CASE ClickPair
  BY <1>0, <1>3, FollowsNew DEF ClickPair
<1>4. CASE OpenPhone
  <2>1. Follows(calls, AllGivenUp \cup {Call("status")})
    BY FollowsGivenUp, FollowsNew DEF AllGivenUp
  <2>2. QED
    BY <1>4, <2>1 DEF OpenPhone, Quiet
<1>5. CASE OpenOnPhone
  BY <1>0, <1>5, FollowsNew DEF OpenOnPhone, Quiet
<1>6. CASE Recheck
  BY <1>0, <1>6, FollowsNew DEF Recheck, Quiet
<1>7. CASE Reconnect
  BY <1>7, FollowsGivenUp, FollowsNew DEF Reconnect, Connecting, Quiet
<1>8. CASE Again
  BY <1>8, FollowsGivenUp, FollowsNew DEF Again, Quiet
<1>9. CASE EnablePush
  BY <1>0, <1>9, FollowsNew DEF EnablePush, Quiet
<1>10. ASSUME NEW on \in BOOLEAN, ApplyConfig(on) PROVE Follows(calls, calls') /\ UNCHANGED Backend
  <2>1. /\ IsCall([Call("apply") EXCEPT !.ok = on])
        /\ [Call("apply") EXCEPT !.ok = on].kind = "apply"
    BY CallIsCall DEF IsCall, CallFields
  <2>2. QED
    BY <1>0, <1>10, <2>1, FollowsMore DEF ApplyConfig, Quiet
<1>11. ASSUME NEW d \in page.list, Revoke(d) PROVE Follows(calls, calls') /\ UNCHANGED Backend
  <2>1. PICK kind \in {"revoke", "revokePhone"} : calls' = calls \cup {[Call(kind) EXCEPT !.ids = {d}]}
    BY <1>11 DEF Revoke
  <2>2. /\ IsCall([Call(kind) EXCEPT !.ids = {d}])
        /\ [Call(kind) EXCEPT !.ids = {d}].kind = kind
    BY CallIsCall DEF IsCall, CallFields
  <2>3. Follows(calls, calls')
    BY <1>0, <2>1, <2>2, FollowsMore
  <2>4. QED
    BY <1>11, <2>3 DEF Revoke, Quiet
<1>12. QED
  BY <1>1, <1>2, <1>3, <1>4, <1>5, <1>6, <1>7, <1>8, <1>9, <1>10, <1>11 DEF User

LEMMA TimersFollow ==
  ASSUME Timers
  PROVE  Follows(calls, calls') /\ UNCHANGED Backend
<1>0. Follows(calls, calls)
  BY FollowsSelf
<1>1. CASE CheckDevices
  <2>1. /\ IsCall([Call("check") EXCEPT !.code = page.sec.known])
        /\ [Call("check") EXCEPT !.code = page.sec.known].kind = "check"
    BY CallIsCall DEF IsCall, CallFields
  <2>2. QED
    BY <1>0, <1>1, <2>1, FollowsMore DEF CheckDevices, Quiet
<1>2. CASE SectionExpires
  BY <1>0, <1>2, FollowsNew DEF SectionExpires, Quiet
<1>3. CASE Poll
  BY <1>0, <1>3, FollowsNew, FollowsGivenUp DEF Poll, Quiet
<1>4. CASE CodeTick
  BY <1>0, <1>4 DEF CodeTick, Quiet
<1>5. QED
  BY <1>1, <1>2, <1>3, <1>4 DEF Timers

-----------------------------------------------------------------------------
LEMMA CodesStep == CodeInv /\ [PairingNext]_pairingVars => CodeInv'
<1> SUFFICES ASSUME CodeInv, [PairingNext]_pairingVars PROVE CodeInv'
  OBVIOUS
<1>0. Follows(calls, calls)
  BY FollowsSelf
<1>1. CASE Submit
  BY <1>1, SubmitKeeps DEF Submit
<1>2. CASE Add
  BY <1>2, AddKeeps DEF Add
<1>3. CASE Serve
  BY <1>3, ServeKeeps
<1>4. CASE Answer
  <2>1. Follows(calls, calls') /\ Quiet
    BY <1>4, AnswerFollows DEF Answer
  <2>2. QED
    BY <2>1, CallsMoveOn DEF Quiet, Backend
<1>5. CASE Event
  BY <1>0, <1>5, CallsMoveOn DEF Event, Backend
<1>6. CASE Timers
  BY <1>6, TimersFollow, CallsMoveOn DEF Backend
<1>7. CASE Unlocks
  BY <1>7, UnlockKeeps DEF Unlocks
<1>8. CASE Idle
  BY <1>0, <1>8, CallsMoveOn DEF Idle, RemoveIdle
<1>9. CASE User
  BY <1>9, UserFollows, CallsMoveOn DEF Backend
<1>10. CASE CodeIsDue
  BY <1>0, <1>10, CallsMoveOn DEF CodeIsDue
<1>11. CASE Watch
  BY <1>0, <1>11, CallsMoveOn DEF Watch
<1>12. CASE World
  BY <1>0, <1>12, CallsMoveOn DEF World
<1>13. CASE CacheAges
  BY <1>0, <1>13, CallsMoveOn DEF CacheAges
<1>14. CASE UNCHANGED pairingVars
  BY <1>0, <1>14, CallsMoveOn DEF pairingVars
<1>15. QED
  BY <1>1, <1>2, <1>3, <1>4, <1>5, <1>6, <1>7, <1>8, <1>9, <1>10, <1>11, <1>12, <1>13, <1>14 DEF PairingNext

\* Every issued code is in one place: free, in a phone's request that is being
\* served, or in one device (auth.rs Pairing::consume, mod.rs add_device).
THEOREM CodesAreUsedOnce == PairingSpec => []CodeInv
<1>1. QED
  BY InitCodes, CodesStep, PTL DEF PairingSpec

\* A code makes one device at most, for any number of phones, codes, clicks and
\* requests in flight, and whatever the limits on wrong codes are.
THEOREM OneDeviceIsMade == PairingSpec => []OneDevicePerCode
<1>1. CodeInv => OneDevicePerCode
  BY DEF CodeInv
<1>2. QED
  BY <1>1, CodesAreUsedOnce, PTL
-----------------------------------------------------------------------------
(***************************************************************************)
(* The code on the screen.  A request belongs to the dialog that made it:  *)
(* as long as the page waits for its answer that dialog has the slot, and  *)
(* while the answer may bring the phone dialog a code, no code is shown    *)
(* there.  All the page does with its requests is described by Slots.      *)
(***************************************************************************)

Asking == {"quick", "issue"}
CodeKinds == {"issue", "start"}

\* The calls cs fit a page with the dialog dlg, which shows "code" in the
\* phone dialog.
Slots(cs, dlg, code) ==
  /\ \A c \in cs : IsCall(c) /\ c.live \in BOOLEAN /\ c.ready \in BOOLEAN
  /\ \A c \in cs : c.live /\ c.kind \in WizardKinds => dlg = "phone"
  /\ \A c \in cs : c.live /\ c.kind \in SectionKinds => dlg = "settings"
  /\ \A c \in cs : c.live /\ c.kind \in Asking => code = 0
  /\ \A c, d \in cs : c.live /\ d.live /\ {c.kind, d.kind} \subseteq Asking => c = d
  /\ \A c \in cs : c.kind \in CodeKinds \cup Asking =>
       /\ c.ok \/ c.ready
       /\ c.code # 0 => c.ok /\ c.ready
       /\ c.ready /\ c.ok => c.code # 0 /\ c.kind # "quick"

\* The answers under way bring codes the server knows, or none.
Current(cs, code) == \A c \in cs : BringsCode(c) => code \in {0, c.code}

StartedOnce(cs) == \A c, d \in cs : c.kind = "start" /\ d.kind = "start" => c = d

PageFields == {"dialog", "hidden", "sec", "wz", "ph", "list", "read", "skipped", "finished"}
IsPage ==
  /\ page = [f \in PageFields |-> page[f]]
  /\ page.sec = [f \in DOMAIN NoSection |-> page.sec[f]]
  /\ page.wz = [f \in DOMAIN NoWizard |-> page.wz[f]]
  /\ page.ph = [f \in DOMAIN NoPhone |-> page.ph[f]]

\* The steps run in the phone dialog, and the body of the pairing step was
\* drawn under its key.
StepsInv ==
  /\ page.wz.on => page.dialog = "phone"
  /\ page.wz.body = "pair" => page.wz.key = <<"pair", "">>

ClicksInv == "clicks" \in DOMAIN plan /\ plan.clicks \in Int

PageInv ==
  /\ due \in Nat /\ issued \in Nat /\ overtaken \in BOOLEAN /\ ClicksInv
  /\ IsPage /\ StepsInv
  /\ Slots(calls, page.dialog, page.ph.code)
  /\ ~overtaken => StartedOnce(calls) /\ Current(calls, pairing.code)
  /\ ShownCodeWorks

-----------------------------------------------------------------------------
(* What happens to the calls *)

\* ds holds no answer with another code, and no other request to start pairing.
Kept(cs, ds) ==
  /\ \A code : Current(cs, code) => Current(ds, code)
  /\ StartedOnce(cs) => StartedOnce(ds)

\* Calls go: the answer was taken.
LEMMA SlotsLess ==
  ASSUME NEW cs, NEW dlg, NEW code, Slots(cs, dlg, code), NEW ds, ds \subseteq cs
  PROVE  Slots(ds, dlg, code) /\ Kept(cs, ds)
<1>1. Slots(ds, dlg, code)
  BY DEF Slots
<1>2. Kept(cs, ds)
  BY DEF Kept, Current, StartedOnce
<1>3. QED
  BY <1>1, <1>2

LEMMA KeptTransitive ==
  ASSUME NEW cs, NEW ds, NEW es, Kept(cs, ds), Kept(ds, es)
  PROVE  Kept(cs, es)
  BY DEF Kept

LEMMA KeptSelf == ASSUME NEW cs PROVE Kept(cs, cs)
  BY DEF Kept

\* The page gives calls up: a dead call fits any page.
Dead(c, kinds) == [c EXCEPT !.live = c.live /\ c.kind \notin kinds]

LEMMA DeadIs ==
  ASSUME NEW c, IsCall(c), NEW kinds
  PROVE  LET d == Dead(c, kinds)
         IN  /\ IsCall(d) /\ d.live = (c.live /\ c.kind \notin kinds)
             /\ d.kind = c.kind /\ d.ready = c.ready /\ d.ok = c.ok /\ d.code = c.code
  BY DEF Dead, IsCall, CallFields

LEMMA GivenUpIs ==
  ASSUME NEW cs, NEW dlg, NEW code, Slots(cs, dlg, code), NEW kinds, NEW d \in GivenUp(cs, kinds)
  PROVE  \E c \in cs :
           /\ d = Dead(c, kinds)
           /\ IsCall(d) /\ d.live = (c.live /\ c.kind \notin kinds)
           /\ d.kind = c.kind /\ d.ready = c.ready /\ d.ok = c.ok /\ d.code = c.code
<1>1. PICK c \in cs : d = Dead(c, kinds)
  BY DEF GivenUp, Dead
<1>2. IsCall(c)
  BY DEF Slots
<1>3. QED
  BY <1>1, <1>2, DeadIs

LEMMA SlotsGivenUp ==
  ASSUME NEW cs, NEW dlg, NEW code, Slots(cs, dlg, code), NEW kinds
  PROVE  Slots(GivenUp(cs, kinds), dlg, code) /\ Kept(cs, GivenUp(cs, kinds))
<1> DEFINE ds == GivenUp(cs, kinds)
<1>1. \A d \in ds :
        \E c \in cs :
           /\ d = Dead(c, kinds)
           /\ IsCall(d) /\ d.live = (c.live /\ c.kind \notin kinds)
           /\ d.kind = c.kind /\ d.ready = c.ready /\ d.ok = c.ok /\ d.code = c.code
  BY GivenUpIs
<1> HIDE DEF ds
<1>2. \A c \in cs : c.live \in BOOLEAN /\ c.ready \in BOOLEAN
  BY DEF Slots
<1>3. \A d \in ds : IsCall(d) /\ d.live \in BOOLEAN /\ d.ready \in BOOLEAN
  BY <1>1, <1>2
<1>4. /\ \A d \in ds : d.live /\ d.kind \in WizardKinds => dlg = "phone"
      /\ \A d \in ds : d.live /\ d.kind \in SectionKinds => dlg = "settings"
      /\ \A d \in ds : d.live /\ d.kind \in Asking => code = 0
  BY <1>1 DEF Slots
<1>5. \A c, d \in ds : c.live /\ d.live /\ {c.kind, d.kind} \subseteq Asking => c = d
  <2>1. SUFFICES ASSUME NEW c \in ds, NEW d \in ds, c.live, d.live, c.kind \in Asking, d.kind \in Asking
                 PROVE  c = d
    OBVIOUS
  <2>2. PICK c0 \in cs : /\ c = Dead(c0, kinds)
                         /\ c.live = (c0.live /\ c0.kind \notin kinds) /\ c.kind = c0.kind
    BY <1>1
  <2>3. PICK d0 \in cs : /\ d = Dead(d0, kinds)
                         /\ d.live = (d0.live /\ d0.kind \notin kinds) /\ d.kind = d0.kind
    BY <1>1
  <2>4. c0.live /\ d0.live /\ {c0.kind, d0.kind} \subseteq Asking
    BY <2>1, <2>2, <2>3
  <2>5. c0 = d0
    BY <2>4 DEF Slots
  <2>6. QED
    BY <2>2, <2>3, <2>5
<1>6. \A c \in ds : c.kind \in CodeKinds \cup Asking =>
        /\ c.ok \/ c.ready
        /\ c.code # 0 => c.ok /\ c.ready
        /\ c.ready /\ c.ok => c.code # 0 /\ c.kind # "quick"
  BY <1>1 DEF Slots
<1>7. Slots(ds, dlg, code)
  BY <1>3, <1>4, <1>5, <1>6 DEF Slots
<1>8. ASSUME NEW m, Current(cs, m) PROVE Current(ds, m)
  <2>1. SUFFICES ASSUME NEW d \in ds, BringsCode(d) PROVE m \in {0, d.code}
    BY DEF Current
  <2>2. PICK c \in cs : /\ d.live = (c.live /\ c.kind \notin kinds) /\ d.kind = c.kind
                        /\ d.ready = c.ready /\ d.code = c.code
    BY <1>1
  <2>3. BringsCode(c)
    BY <2>1, <2>2 DEF BringsCode
  <2>4. QED
    BY <1>8, <2>2, <2>3 DEF Current
<1>9. ASSUME StartedOnce(cs) PROVE StartedOnce(ds)
  <2>1. SUFFICES ASSUME NEW c \in ds, NEW d \in ds, c.kind = "start", d.kind = "start"
                 PROVE  c = d
    BY DEF StartedOnce
  <2>2. PICK c0 \in cs : c = Dead(c0, kinds) /\ c.kind = c0.kind
    BY <1>1
  <2>3. PICK d0 \in cs : d = Dead(d0, kinds) /\ d.kind = d0.kind
    BY <1>1
  <2>4. c0 = d0
    BY <1>9, <2>1, <2>2, <2>3 DEF StartedOnce
  <2>5. QED
    BY <2>2, <2>3, <2>4
<1>10. QED
  BY <1>7, <1>8, <1>9 DEF Kept, ds

LEMMA NoneIsLive ==
  ASSUME NEW cs, NEW dlg, NEW code, Slots(cs, dlg, code), NEW kinds, NEW d \in GivenUp(cs, kinds)
  PROVE  ~(d.live /\ d.kind \in kinds)
<1>1. PICK c \in cs : d.live = (c.live /\ c.kind \notin kinds) /\ d.kind = c.kind
  BY GivenUpIs
<1>2. QED
  BY <1>1

\* The calls of the phone dialog are given up: it may show any code, or ask anew.
LEMMA SlotsCleared ==
  ASSUME NEW cs, NEW dlg, NEW code, Slots(cs, dlg, code), NEW m
  PROVE  /\ Slots(GivenUp(cs, PhoneKinds), dlg, m)
         /\ \A c \in GivenUp(cs, PhoneKinds) : ~(c.live /\ c.kind \in Asking)
<1>1. \A c \in GivenUp(cs, PhoneKinds) : ~(c.live /\ c.kind \in PhoneKinds)
  BY NoneIsLive
<1>2. \A c \in GivenUp(cs, PhoneKinds) : ~(c.live /\ c.kind \in Asking)
  BY <1>1 DEF Asking, PhoneKinds
<1>3. Slots(GivenUp(cs, PhoneKinds), dlg, code)
  BY SlotsGivenUp
<1>4. QED
  BY <1>2, <1>3 DEF Slots

\* Every call of a dialog is given up: another dialog may take the slot.
LEMMA SlotsEmptied ==
  ASSUME NEW cs, NEW dlg, NEW code, Slots(cs, dlg, code), NEW dlg2, NEW m
  PROVE  Slots(GivenUp(cs, WizardKinds \cup SectionKinds), dlg2, m)
<1> DEFINE ds == GivenUp(cs, WizardKinds \cup SectionKinds)
<1>1. \A c \in ds : ~(c.live /\ c.kind \in WizardKinds \cup SectionKinds)
  BY NoneIsLive
<1>2. \A c \in ds : ~(c.live /\ c.kind \in Asking)
  BY <1>1 DEF Asking, WizardKinds, PhoneKinds
<1>3. Slots(ds, dlg, code)
  BY SlotsGivenUp
<1>4. QED
  BY <1>1, <1>2, <1>3 DEF Slots

\* A call that asks for no code in the phone dialog is added.
Addable(d, dlg) ==
  /\ IsCall(d) /\ d.live \in BOOLEAN /\ d.ready = FALSE /\ d.kind \notin Asking
  /\ d.kind \in WizardKinds => dlg = "phone"
  /\ d.kind \in SectionKinds => dlg = "settings"
  /\ d.kind = "start" => d.code = 0 /\ d.ok

LEMMA SlotsMore ==
  ASSUME NEW cs, NEW dlg, NEW code, Slots(cs, dlg, code), NEW d, Addable(d, dlg)
  PROVE  Slots(cs \cup {d}, dlg, code)
  BY DEF Slots, Addable, CodeKinds, Asking

LEMMA KeptMore ==
  ASSUME NEW cs, NEW ds, Kept(cs, ds), NEW d, d.ready = FALSE, d.kind # "start"
  PROVE  Kept(cs, ds \cup {d})
  BY DEF Kept, Current, StartedOnce, BringsCode

LEMMA CallIsAddable ==
  ASSUME NEW kind, NEW dlg, kind \notin Asking,
         kind \in WizardKinds => dlg = "phone", kind \in SectionKinds => dlg = "settings"
  PROVE  Addable(Call(kind), dlg)
  BY CallIsCall DEF Addable, Call

\* The phone dialog asks for its one code.
LEMMA SlotsQuick ==
  ASSUME NEW cs, Slots(cs, "phone", 0), \A c \in cs : ~(c.live /\ c.kind \in Asking)
  PROVE  Slots(cs \cup {Call("quick")}, "phone", 0)
<1>1. /\ IsCall(Call("quick")) /\ Call("quick").kind = "quick" /\ Call("quick").live = TRUE
      /\ Call("quick").ready = FALSE /\ Call("quick").code = 0 /\ Call("quick").ok = TRUE
  BY CallIsCall DEF Call
<1>2. "quick" \notin SectionKinds
  BY DEF SectionKinds
<1> DEFINE q == Call("quick")
<1> HIDE DEF q
<1>3. QED
  BY <1>1, <1>2 DEF Slots, Asking, CodeKinds, q

-----------------------------------------------------------------------------
(* What happens to the page *)

LEMMA SpentKeeps ==
  ASSUME ClicksInv, NEW what, plan' = Spent(what)
  PROVE  ClicksInv' /\ (what = "clicks" => plan' # plan)
  BY DEF ClicksInv, Spent

\* A dialog takes the slot.
LEMMA OpenedPage ==
  ASSUME IsPage, NEW dlg, page' = Opened(page, dlg)
  PROVE  /\ IsPage' /\ StepsInv'
         /\ page'.dialog = dlg /\ page'.sec.code = 0 /\ page'.ph.code = 0
  BY DEF IsPage, PageFields, Opened, NoSection, NoWizard, NoPhone, StepsInv

LEMMA WizardPage ==
  ASSUME IsPage, NEW dlg, NEW forced, page' = StartWizard(Opened(page, dlg), forced), dlg = "phone"
  PROVE  /\ IsPage' /\ StepsInv'
         /\ page'.dialog = "phone" /\ page'.sec.code = 0 /\ page'.ph.code = 0
  BY DEF IsPage, PageFields, Opened, StartWizard, NoSection, NoWizard, NoPhone, StepsInv

\* A step of the page: no code is issued or tried, no code comes onto the
\* screen, and the answers that will bring one stay as long as one is shown.
LEMMA PageStep ==
  ASSUME PageInv, UNCHANGED <<pairing, issued, due, overtaken>>, ClicksInv', IsPage', StepsInv',
         Slots(calls', page'.dialog, page'.ph.code), Kept(calls, calls'),
         \A code \in 1..issued : Shown(code)' =>
            Shown(code) /\ \A c \in calls : BringsCode(c) => c \in calls'
  PROVE  PageInv'
<1>1. ~overtaken' => StartedOnce(calls') /\ Current(calls', pairing'.code)
  BY DEF PageInv, Kept
<1>2. ShownCodeWorks'
  <2>1. SUFFICES ASSUME NEW code \in due' + 1 .. issued', Shown(code)'
                 PROVE  \/ pairing'.code \in {0, code} \/ overtaken'
                        \/ \E c \in calls' : BringsCode(c) /\ c.code = pairing'.code
    BY DEF ShownCodeWorks, BringsCode
  <2>2. code \in 1..issued /\ code \in due + 1 .. issued
    BY DEF PageInv
  <2>3. Shown(code) /\ \A c \in calls : BringsCode(c) => c \in calls'
    BY <2>1, <2>2
  <2>4. \/ pairing.code \in {0, code} \/ overtaken
        \/ \E c \in calls : BringsCode(c) /\ c.code = pairing.code
    BY <2>2, <2>3 DEF PageInv, ShownCodeWorks
  <2>5. QED
    BY <2>3, <2>4
<1>3. QED
  BY <1>1, <1>2 DEF PageInv

\* The page shows no code after the step.
Blank == ~(page.sec.code # 0 /\ page.dialog = "settings") /\ ~(page.ph.code # 0 /\ page.dialog = "phone")

LEMMA BlankStep ==
  ASSUME PageInv, UNCHANGED <<pairing, issued, due, overtaken>>, ClicksInv', IsPage', StepsInv',
         Slots(calls', page'.dialog, page'.ph.code), Kept(calls, calls'),
         page'.hidden \/ Blank'
  PROVE  PageInv'
<1>1. \A code : ~Shown(code)'
  BY DEF Shown, Shows, Blank
<1>2. QED
  BY <1>1, PageStep

\* What the page shows stays, and no code that is under way is lost.
LEMMA SameStep ==
  ASSUME PageInv, UNCHANGED <<pairing, issued, due, overtaken>>, ClicksInv', IsPage', StepsInv',
         page'.hidden = page.hidden, page'.dialog = page.dialog,
         page'.sec.code = page.sec.code, page'.sec.expired = page.sec.expired,
         page'.ph.code = page.ph.code, page'.ph.expired = page.ph.expired,
         Slots(calls', page.dialog, page.ph.code), Kept(calls, calls'),
         \A c \in calls : BringsCode(c) => c \in calls'
  PROVE  PageInv'
<1>1. \A code : Shown(code)' => Shown(code)
  BY DEF Shown, Shows
<1>2. QED
  BY <1>1, PageStep

\* The page only makes another call.
LEMMA CallStep ==
  ASSUME PageInv, UNCHANGED <<pairing, issued, due, overtaken, page>>, ClicksInv',
         NEW d, calls' = calls \cup {d}, Addable(d, page.dialog), d.kind # "start"
  PROVE  PageInv'
<1>1. Slots(calls', page.dialog, page.ph.code) /\ Kept(calls, calls')
  BY SlotsMore, KeptMore, KeptSelf DEF PageInv, Addable
<1>2. IsPage' /\ StepsInv'
  BY DEF PageInv, IsPage, StepsInv
<1>3. QED
  BY <1>1, <1>2, SameStep

\* An answer that brings no code, or that nobody waits for, is dropped.
LEMMA DropStep ==
  ASSUME PageInv, NEW c \in calls, Drop(c), UNCHANGED <<pairing, issued, due, overtaken, plan>>, ~BringsCode(c)
  PROVE  PageInv'
<1>1. Slots(calls', page.dialog, page.ph.code) /\ Kept(calls, calls')
  BY SlotsLess DEF PageInv, Drop
<1>2. IsPage' /\ StepsInv' /\ ClicksInv'
  BY DEF PageInv, IsPage, StepsInv, ClicksInv, Drop
<1>3. QED
  BY <1>1, <1>2, SameStep DEF Drop

-----------------------------------------------------------------------------
(* The settings *)

LEMMA OpenSettingsKeeps == ASSUME PageInv, OpenSettings PROVE PageInv'
<1>1. UNCHANGED <<pairing, issued, due, overtaken>> /\ ClicksInv'
  BY SpentKeeps DEF OpenSettings, Quiet, Backend, Click, PageInv
<1>2. IsPage' /\ StepsInv' /\ page'.dialog = "settings" /\ page'.sec.code = 0 /\ page'.ph.code = 0
  BY OpenedPage DEF OpenSettings, PageInv
<1>3. calls' = GivenUp(calls, WizardKinds \cup SectionKinds) \cup {Call("init")}
  BY DEF OpenSettings, AllGivenUp
<1>4. /\ Slots(GivenUp(calls, WizardKinds \cup SectionKinds), "settings", 0)
      /\ Kept(calls, GivenUp(calls, WizardKinds \cup SectionKinds))
  BY SlotsEmptied, SlotsGivenUp DEF PageInv
<1>5. Addable(Call("init"), "settings") /\ Call("init").kind # "start" /\ Call("init").ready = FALSE
  BY CallIsAddable DEF Asking, WizardKinds, PhoneKinds, Call
<1>6. Slots(calls', "settings", 0) /\ Kept(calls, calls')
  BY <1>3, <1>4, <1>5, SlotsMore, KeptMore
<1>7. QED
  BY <1>1, <1>2, <1>6, BlankStep DEF Blank

LEMMA CloseDialogKeeps == ASSUME PageInv, CloseDialog PROVE PageInv'
<1>1. UNCHANGED <<pairing, issued, due, overtaken, calls>> /\ ClicksInv'
  BY SpentKeeps DEF CloseDialog, Quiet, Backend, Click, PageInv
<1>2. /\ IsPage' /\ StepsInv' /\ page'.hidden
      /\ page'.dialog = page.dialog /\ page'.ph.code = page.ph.code
  BY DEF CloseDialog, PageInv, IsPage, PageFields, StepsInv
<1>3. QED
  BY <1>1, <1>2, BlankStep, KeptSelf DEF PageInv

\* A fresh section is drawn: no code is shown in the settings.
LEMMA DrawSectionKeeps ==
  ASSUME PageInv, NEW c \in calls, c.live, c.kind \in SectionKinds, DrawSection(c), Quiet, UNCHANGED plan
  PROVE  PageInv'
<1>1. UNCHANGED <<pairing, issued, due, overtaken>> /\ ClicksInv'
  BY DEF Quiet, Backend, PageInv, ClicksInv
<1>2. page.dialog = "settings"
  BY DEF PageInv, Slots
<1>3. /\ IsPage' /\ StepsInv' /\ page'.sec.code = 0
      /\ page'.dialog = page.dialog /\ page'.ph.code = page.ph.code
  BY DEF DrawSection, NoSection, PageInv, IsPage, PageFields, StepsInv
<1>4. Slots(calls \ {c}, page.dialog, page.ph.code) /\ Kept(calls, calls \ {c})
  BY SlotsLess DEF PageInv
<1>5. Slots(calls', page.dialog, page.ph.code) /\ Kept(calls, calls')
  BY <1>4, SlotsGivenUp, KeptTransitive DEF DrawSection
<1>6. QED
  BY <1>1, <1>2, <1>3, <1>5, BlankStep DEF Blank

LEMMA SectionAnsweredKeeps ==
  ASSUME PageInv, NEW c \in calls, SectionAnswered(c) \/ CheckAnswered(c)
  PROVE  PageInv'
<1>1. c.kind \in {"init", "apply", "revoke", "check"} /\ Quiet /\ UNCHANGED plan
  BY DEF SectionAnswered, CheckAnswered, Ready
<1>2. ~BringsCode(c) /\ c.kind \in SectionKinds
  BY <1>1 DEF BringsCode, SectionKinds
<1>3. (c.live /\ DrawSection(c)) \/ Drop(c)
  BY DEF SectionAnswered, CheckAnswered
<1>4. QED
  BY <1>1, <1>2, <1>3, DrawSectionKeeps, DropStep DEF Quiet, Backend

LEMMA ApplyConfigKeeps == ASSUME PageInv, NEW on \in BOOLEAN, ApplyConfig(on) PROVE PageInv'
<1> DEFINE d == [Call("apply") EXCEPT !.ok = on]
<1>1. /\ UNCHANGED <<pairing, issued, due, overtaken, page>> /\ ClicksInv'
      /\ calls' = calls \cup {d} /\ page.dialog = "settings"
  BY SpentKeeps DEF ApplyConfig, Quiet, Backend, Click, PageInv, Shows
<1>2. IsCall(d) /\ d.kind = "apply" /\ d.live = TRUE /\ d.ready = FALSE
  BY DEF Call, IsCall, CallFields
<1> HIDE DEF d
<1>3. Addable(d, page.dialog)
  BY <1>1, <1>2 DEF Addable, Asking, WizardKinds, PhoneKinds
<1>4. QED
  BY <1>1, <1>2, <1>3, CallStep

LEMMA RevokeKeeps == ASSUME PageInv, NEW i \in page.list, Revoke(i) PROVE PageInv'
<1> DEFINE kind == IF page.dialog = "settings" THEN "revoke" ELSE "revokePhone"
<1> DEFINE d == [Call(kind) EXCEPT !.ids = {i}]
<1>1. /\ UNCHANGED <<pairing, issued, due, overtaken, page>> /\ ClicksInv'
      /\ calls' = calls \cup {d}
  BY SpentKeeps DEF Revoke, Quiet, Backend, Click, PageInv
<1>2. IsCall(d) /\ d.kind = kind /\ d.live = TRUE /\ d.ready = FALSE
  BY DEF Call, IsCall, CallFields
<1> HIDE DEF d
<1>3. Addable(d, page.dialog) /\ d.kind # "start"
  BY <1>1, <1>2 DEF Addable, Asking, WizardKinds, PhoneKinds, SectionKinds
<1>4. QED
  BY <1>1, <1>3, CallStep

\* A second click while the first is under way overtakes it.
LEMMA ClickPairKeeps == ASSUME PageInv, ClickPair PROVE PageInv'
<1>1. /\ UNCHANGED <<pairing, issued, due, page>> /\ ClicksInv'
      /\ calls' = calls \cup {Call("start")} /\ page.dialog = "settings"
      /\ overtaken' = (overtaken \/ Asked("start"))
  BY SpentKeeps DEF ClickPair, Backend, Click, PageInv, Shows
<1>2. Addable(Call("start"), "settings") /\ Call("start").kind = "start" /\ Call("start").ready = FALSE
  BY CallIsAddable DEF Asking, WizardKinds, PhoneKinds, Addable, Call
<1>3. Slots(calls', page'.dialog, page'.ph.code)
  BY <1>1, <1>2, SlotsMore DEF PageInv
<1>4. ASSUME ~overtaken' PROVE StartedOnce(calls') /\ Current(calls', pairing'.code)
  <2>1. ~overtaken /\ \A c \in calls : c.kind # "start"
    BY <1>1, <1>4 DEF PageInv, Asked
  <2>2. QED
    BY <1>1, <1>2, <2>1 DEF PageInv, StartedOnce, Current, BringsCode
<1>5. ShownCodeWorks'
  BY <1>1 DEF PageInv, ShownCodeWorks, Shown, Shows, BringsCode
<1>6. QED
  BY <1>1, <1>3, <1>4, <1>5 DEF PageInv, IsPage, StepsInv

\* The code that "start pairing" was answered with is the one the server has.
LEMMA StartAnsweredKeeps == ASSUME PageInv, NEW c \in calls, StartAnswered(c) PROVE PageInv'
<1>0. /\ UNCHANGED <<pairing, issued, due, overtaken, plan>> /\ c.kind = "start"
      /\ c.live \in BOOLEAN
  BY DEF StartAnswered, Quiet, Backend, Ready, PageInv, Slots
<1>1. CASE c.live /\ c.ok
  <2>1. /\ calls' = calls \ {c} /\ ClicksInv'
        /\ page' = [page EXCEPT !.sec.code = c.code, !.sec.expired = FALSE,
                                !.sec.known = Cardinality(page.list), !.read = @ \cup {c.code}]
    BY <1>0, <1>1 DEF StartAnswered, PageInv, ClicksInv
  <2>2. page.dialog = "settings" /\ BringsCode(c)
    BY <1>0, <1>1 DEF PageInv, Slots, SectionKinds, CodeKinds, BringsCode, StartAnswered, Ready
  <2>3. /\ IsPage' /\ StepsInv' /\ page'.dialog = page.dialog /\ page'.hidden = page.hidden
        /\ page'.sec.code = c.code /\ page'.ph = page.ph
    BY <2>1 DEF PageInv, IsPage, PageFields, NoSection, StepsInv
  <2>4. Slots(calls', page.dialog, page.ph.code) /\ Kept(calls, calls')
    BY <2>1, SlotsLess DEF PageInv
  <2>5. ~overtaken' => StartedOnce(calls') /\ Current(calls', pairing'.code)
    BY <1>0, <2>4 DEF PageInv, Kept
  <2>6. ASSUME NEW code \in due' + 1 .. issued', Shown(code)', ~overtaken'
        PROVE  pairing'.code \in {0, code}
    <3>1. code = c.code
      BY <2>2, <2>3, <2>6 DEF Shown, Shows
    <3>2. QED
      BY <1>0, <2>2, <2>6, <3>1 DEF PageInv, Current
  <2>7. ShownCodeWorks'
    BY <2>6 DEF ShownCodeWorks
  <2>8. QED
    BY <1>0, <2>1, <2>3, <2>4, <2>5, <2>7 DEF PageInv
<1>2. CASE ~(c.live /\ c.ok)
  <2>1. Drop(c) /\ ~BringsCode(c)
    BY <1>0, <1>2 DEF StartAnswered, BringsCode, PageInv, Slots, CodeKinds
  <2>2. QED
    BY <1>0, <2>1, DropStep
<1>3. QED
  BY <1>1, <1>2

LEMMA CheckDevicesKeeps == ASSUME PageInv, CheckDevices PROVE PageInv'
<1> DEFINE d == [Call("check") EXCEPT !.code = page.sec.known]
<1>1. /\ UNCHANGED <<pairing, issued, due, overtaken, page>> /\ ClicksInv'
      /\ calls' = calls \cup {d} /\ page.dialog = "settings"
  BY DEF CheckDevices, Quiet, Backend, PageInv, Shows, ClicksInv
<1>2. IsCall(d) /\ d.kind = "check" /\ d.live = TRUE /\ d.ready = FALSE
  BY DEF Call, IsCall, CallFields
<1> HIDE DEF d
<1>3. Addable(d, page.dialog)
  BY <1>1, <1>2 DEF Addable, Asking, WizardKinds, PhoneKinds
<1>4. QED
  BY <1>1, <1>2, <1>3, CallStep

LEMMA SectionExpiresKeeps == ASSUME PageInv, SectionExpires PROVE PageInv'
<1>1. /\ UNCHANGED <<pairing, issued, due, overtaken>> /\ ClicksInv'
      /\ calls' = calls \cup {Call("expiry")} /\ page.dialog = "settings"
  BY DEF SectionExpires, Quiet, Backend, PageInv, Shows, ClicksInv
<1>2. /\ IsPage' /\ StepsInv' /\ page'.dialog = page.dialog /\ page'.hidden = page.hidden
      /\ page'.sec.expired = TRUE /\ page'.ph = page.ph
  BY DEF SectionExpires, PageInv, IsPage, PageFields, NoSection, StepsInv
<1>3. Addable(Call("expiry"), page.dialog) /\ Call("expiry").kind = "expiry" /\ Call("expiry").ready = FALSE
  BY <1>1, CallIsAddable DEF Asking, WizardKinds, PhoneKinds, Call
<1>4. Slots(calls', page.dialog, page.ph.code) /\ Kept(calls, calls')
  BY <1>1, <1>3, SlotsMore, KeptMore, KeptSelf DEF PageInv
<1>5. \A code : ~Shown(code)'
  BY <1>1, <1>2 DEF Shown, Shows
<1>6. QED
  BY <1>1, <1>2, <1>4, <1>5, PageStep

LEMMA ExpiryAnsweredKeeps == ASSUME PageInv, NEW c \in calls, ExpiryAnswered(c) PROVE PageInv'
<1>1. UNCHANGED <<pairing, issued, due, overtaken, plan>> /\ ~BringsCode(c)
  BY DEF ExpiryAnswered, Quiet, Backend, Ready, BringsCode
<1>2. CASE Drop(c)
  BY <1>1, <1>2, DropStep
<1>3. CASE page' = [page EXCEPT !.list = c.ids] /\ calls' = calls \ {c}
  <2>1. Slots(calls', page.dialog, page.ph.code) /\ Kept(calls, calls')
    BY <1>3, SlotsLess DEF PageInv
  <2>2. /\ IsPage' /\ StepsInv' /\ ClicksInv' /\ page'.dialog = page.dialog /\ page'.hidden = page.hidden
        /\ page'.sec = page.sec /\ page'.ph = page.ph
    BY <1>1, <1>3 DEF PageInv, IsPage, PageFields, StepsInv, ClicksInv
  <2>3. QED
    BY <1>1, <1>3, <2>1, <2>2, SameStep
<1>4. QED
  BY <1>2, <1>3 DEF ExpiryAnswered

-----------------------------------------------------------------------------
(* The phone dialog *)

LEMMA OpenPhoneKeeps == ASSUME PageInv, OpenPhone PROVE PageInv'
<1>1. UNCHANGED <<pairing, issued, due, overtaken>> /\ ClicksInv'
  BY SpentKeeps DEF OpenPhone, Quiet, Backend, Click, PageInv
<1>2. IsPage' /\ StepsInv' /\ page'.dialog = "phone" /\ page'.sec.code = 0 /\ page'.ph.code = 0
  BY WizardPage DEF OpenPhone, PageInv
<1>3. calls' = GivenUp(calls, WizardKinds \cup SectionKinds) \cup {Call("status")}
  BY DEF OpenPhone, AllGivenUp
<1>4. /\ Slots(GivenUp(calls, WizardKinds \cup SectionKinds), "phone", 0)
      /\ Kept(calls, GivenUp(calls, WizardKinds \cup SectionKinds))
  BY SlotsEmptied, SlotsGivenUp DEF PageInv
<1>5. Addable(Call("status"), "phone") /\ Call("status").kind # "start" /\ Call("status").ready = FALSE
  BY CallIsAddable DEF Asking, SectionKinds, Call
<1>6. Slots(calls', "phone", 0) /\ Kept(calls, calls')
  BY <1>3, <1>4, <1>5, SlotsMore, KeptMore
<1>7. QED
  BY <1>1, <1>2, <1>6, BlankStep DEF Blank

LEMMA OpenOnPhoneKeeps == ASSUME PageInv, OpenOnPhone PROVE PageInv'
<1>1. /\ UNCHANGED <<pairing, issued, due, overtaken, page>> /\ ClicksInv'
      /\ calls' = calls \cup {Call("open")}
  BY SpentKeeps DEF OpenOnPhone, Quiet, Backend, Click, PageInv
<1>2. Addable(Call("open"), page.dialog) /\ Call("open").kind # "start"
  BY CallIsAddable DEF Asking, WizardKinds, PhoneKinds, SectionKinds, Call
<1>3. QED
  BY <1>1, <1>2, CallStep

LEMMA OpenAnsweredKeeps == ASSUME PageInv, NEW c \in calls, OpenAnswered(c) PROVE PageInv'
<1>1. UNCHANGED <<pairing, issued, due, overtaken, plan>> /\ ~BringsCode(c)
  BY DEF OpenAnswered, Quiet, Backend, Ready, BringsCode
<1>2. CASE Drop(c)
  BY <1>1, <1>2, DropStep
<1>3. CASE /\ page' = StartWizard(Opened(page, "phone"), FALSE)
           /\ calls' = (AllGivenUp \ {c}) \cup {Call("status")}
  <2> DEFINE gone == GivenUp(calls, WizardKinds \cup SectionKinds)
  <2>1. IsPage' /\ StepsInv' /\ page'.dialog = "phone" /\ page'.sec.code = 0 /\ page'.ph.code = 0
    BY <1>3, WizardPage DEF PageInv
  <2>2. Slots(gone, "phone", 0) /\ Kept(calls, gone)
    BY SlotsEmptied, SlotsGivenUp DEF PageInv
  <2>3. Slots(gone \ {c}, "phone", 0) /\ Kept(gone, gone \ {c})
    BY <2>2, SlotsLess
  <2>4. calls' = (gone \ {c}) \cup {Call("status")}
    BY <1>3 DEF AllGivenUp
  <2> HIDE DEF gone
  <2>5. Addable(Call("status"), "phone") /\ Call("status").kind # "start" /\ Call("status").ready = FALSE
    BY CallIsAddable DEF Asking, SectionKinds, Call
  <2>6. Slots(calls', "phone", 0) /\ Kept(calls, calls')
    BY <2>2, <2>3, <2>4, <2>5, SlotsMore, KeptMore, KeptTransitive
  <2>7. ClicksInv'
    BY <1>1 DEF PageInv, ClicksInv
  <2>8. QED
    BY <1>1, <2>1, <2>6, <2>7, BlankStep DEF Blank
<1>4. QED
  BY <1>2, <1>3 DEF OpenAnswered

LEMMA PollKeeps == ASSUME PageInv, Poll PROVE PageInv'
<1>1. UNCHANGED <<pairing, issued, due, overtaken, plan>> /\ ClicksInv' /\ page.dialog = "phone"
  BY DEF Poll, Quiet, Backend, PageInv, ClicksInv, StepsInv
<1>2. CASE page.hidden
  <2>0. page' = [page EXCEPT !.wz.on = FALSE, !.wz.timer = FALSE]
    BY <1>2 DEF Poll
  <2>1. /\ IsPage' /\ page'.hidden = page.hidden /\ page'.dialog = page.dialog /\ page'.ph = page.ph
        /\ page'.wz.body = page.wz.body /\ page'.wz.key = page.wz.key
    BY <2>0 DEF PageInv, IsPage, PageFields, NoWizard
  <2>2. StepsInv' /\ page'.hidden
    BY <1>1, <1>2, <2>1 DEF PageInv, StepsInv
  <2>3. calls' = GivenUp(calls, {"status", "poll", "summary"})
    BY <1>2 DEF Poll
  <2>4. Slots(calls', page.dialog, page.ph.code) /\ Kept(calls, calls')
    BY <2>3, SlotsGivenUp DEF PageInv
  <2>5. QED
    BY <1>1, <2>1, <2>2, <2>4, BlankStep
<1>3. CASE ~page.hidden
  <2>1. calls' = calls \cup {Call("poll")} /\ UNCHANGED page
    BY <1>3 DEF Poll
  <2>2. Addable(Call("poll"), page.dialog) /\ Call("poll").kind # "start"
    BY <1>1, CallIsAddable DEF Asking, SectionKinds, Call
  <2>3. QED
    BY <1>1, <2>1, <2>2, CallStep
<1>4. QED
  BY <1>2, <1>3

\* The body of the phone dialog is drawn anew: its requests are given up, and
\* it asks for another code or shows none.
LEMMA DrawnStep ==
  ASSUME PageInv, UNCHANGED <<pairing, issued, due, overtaken, plan>>, page.dialog = "phone",
         IsPage', StepsInv', page'.dialog = page.dialog, page'.ph.code = 0,
         NEW cs, cs \subseteq calls,
         \/ calls' = GivenUp(cs, PhoneKinds)
         \/ calls' = GivenUp(cs, PhoneKinds) \cup {Call("quick")}
         \/ calls' = GivenUp(cs, PhoneKinds) \cup {Call("finish")}
  PROVE  PageInv'
<1> DEFINE gone == GivenUp(cs, PhoneKinds)
<1>1. Slots(cs, page.dialog, page.ph.code) /\ Kept(calls, cs)
  BY SlotsLess DEF PageInv
<1>2. Slots(gone, "phone", 0) /\ \A c \in gone : ~(c.live /\ c.kind \in Asking)
  BY <1>1, SlotsCleared
<1>3. Kept(calls, gone)
  BY <1>1, SlotsGivenUp, KeptTransitive
<1>4. calls' = gone \/ calls' = gone \cup {Call("quick")} \/ calls' = gone \cup {Call("finish")}
  OBVIOUS
<1> HIDE DEF gone
<1>5. Slots(gone \cup {Call("quick")}, "phone", 0)
  BY <1>2, SlotsQuick
<1>6. /\ Addable(Call("finish"), "phone")
      /\ Call("finish").kind # "start" /\ Call("finish").ready = FALSE
      /\ Call("quick").kind # "start" /\ Call("quick").ready = FALSE
  BY CallIsAddable DEF Asking, SectionKinds, Call
<1>7. Slots(gone \cup {Call("finish")}, "phone", 0)
  BY <1>2, <1>6, SlotsMore
<1>8. Kept(calls, gone \cup {Call("quick")}) /\ Kept(calls, gone \cup {Call("finish")})
  BY <1>3, <1>6, KeptMore
<1>9. Slots(calls', page'.dialog, page'.ph.code) /\ Kept(calls, calls')
  BY <1>2, <1>3, <1>4, <1>5, <1>7, <1>8
<1>10. ClicksInv'
  BY DEF PageInv, ClicksInv
<1>11. QED
  BY <1>9, <1>10, BlankStep DEF Blank

LEMMA StatusAnsweredKeeps == ASSUME PageInv, NEW c \in calls, StatusAnswered(c) PROVE PageInv'
<1> DEFINE rest == calls \ {c}
           gone == GivenUp(rest, PhoneKinds)
           step == CurrentStep(c.st)
           timer == page.wz.timer \/ (page.wz.body = "wait" /\ ~page.wz.summary)
           drawn == [page EXCEPT !.wz.key = BodyKey(c.st), !.wz.body = step, !.wz.timer = timer,
                                 !.ph = NoPhone, !.list = {}]
<1>0. /\ UNCHANGED <<pairing, issued, due, overtaken, plan>>
      /\ c.kind \in {"status", "poll"} /\ ~BringsCode(c)
  BY DEF StatusAnswered, Quiet, Backend, Ready, BringsCode
<1>1. CASE Drop(c)
  BY <1>0, <1>1, DropStep
<1>2. CASE c.live
  <2>0. page.dialog = "phone"
    BY <1>0, <1>2 DEF PageInv, Slots, WizardKinds
  <2>1. BodyKey(c.st) = <<step, IF step = "mac" THEN c.st.mac ELSE "">>
    BY DEF BodyKey
  <2>3. CASE /\ page' = [page EXCEPT !.wz.timer = FALSE, !.wz.summary = TRUE]
             /\ calls' = rest \cup {Call("summary")}
    <3>1. /\ IsPage' /\ StepsInv' /\ page'.dialog = page.dialog /\ page'.hidden = page.hidden
          /\ page'.sec = page.sec /\ page'.ph = page.ph
      BY <2>3 DEF PageInv, IsPage, PageFields, NoWizard, StepsInv
    <3>2. Slots(rest, page.dialog, page.ph.code) /\ Kept(calls, rest)
      BY SlotsLess DEF PageInv
    <3>3. Addable(Call("summary"), "phone") /\ Call("summary").kind # "start" /\ Call("summary").ready = FALSE
      BY CallIsAddable DEF Asking, SectionKinds, Call
    <3>4. Slots(calls', page.dialog, page.ph.code) /\ Kept(calls, calls')
      BY <2>0, <2>3, <3>2, <3>3, SlotsMore, KeptMore
    <3>5. ClicksInv' /\ \A o \in calls : BringsCode(o) => o \in calls'
      BY <1>0, <2>3 DEF PageInv, ClicksInv
    <3>6. QED
      BY <1>0, <3>1, <3>4, <3>5, SameStep
  <2>4. CASE step = "pair" /\ page' = RunPhoneConnect(drawn, "pair") /\ calls' = Connecting(rest)
    <3>1. IsPage' /\ page'.dialog = page.dialog /\ page'.ph.code = 0 /\ page'.wz.key = BodyKey(c.st)
          /\ page'.wz.on = page.wz.on
      BY <2>4 DEF PageInv, IsPage, PageFields, NoPhone, NoWizard, RunPhoneConnect
    <3>2. StepsInv'
      BY <2>0, <2>1, <2>4, <3>1 DEF StepsInv
    <3>3. calls' = gone \cup {Call("quick")}
      BY <2>4 DEF Connecting
    <3>4. QED
      BY <1>0, <2>0, <3>1, <3>2, <3>3, DrawnStep
  <2>5. CASE /\ step # "pair"
             /\ page' = drawn \/ page' = [drawn EXCEPT !.ph.box = "finish"]
             /\ calls' \in {gone, gone \cup {Call("finish")}}
    <3> HIDE DEF step, timer
    <3>1. IsPage' /\ page'.dialog = page.dialog /\ page'.ph.code = 0 /\ page'.wz.body = step
      <4>1. CASE page' = drawn
        BY <4>1 DEF PageInv, IsPage, PageFields, NoPhone, NoWizard
      <4>2. CASE page' = [drawn EXCEPT !.ph.box = "finish"]
        BY <4>2 DEF PageInv, IsPage, PageFields, NoPhone, NoWizard
      <4>3. QED
        BY <2>5, <4>1, <4>2
    <3>2. StepsInv'
      BY <2>0, <2>5, <3>1 DEF StepsInv
    <3>3. QED
      BY <1>0, <2>0, <2>5, <3>1, <3>2, DrawnStep
  <2>6. QED
    BY <1>1, <1>2, <2>3, <2>4, <2>5 DEF StatusAnswered
<1>3. QED
  BY <1>1, <1>2 DEF StatusAnswered

LEMMA SummaryAnsweredKeeps == ASSUME PageInv, NEW c \in calls, SummaryAnswered(c) PROVE PageInv'
<1>1. /\ UNCHANGED <<pairing, issued, due, overtaken, plan>> /\ ~BringsCode(c)
      /\ c.kind = "summary"
  BY DEF SummaryAnswered, Quiet, Backend, Ready, BringsCode
<1>2. CASE Drop(c)
  BY <1>1, <1>2, DropStep
<1>3. CASE c.live /\ ~Drop(c)
  <2>1. page.dialog = "phone"
    BY <1>1, <1>3 DEF PageInv, Slots, WizardKinds
  <2>0. page' = [page EXCEPT !.wz.body = "summary", !.ph = [NoPhone EXCEPT !.box = "summary"],
                            !.list = c.ids]
    BY <1>3 DEF SummaryAnswered
  <2>2. /\ IsPage' /\ page'.dialog = page.dialog /\ page'.ph.code = 0
        /\ page'.wz.body = "summary"
    BY <2>0 DEF PageInv, IsPage, PageFields, NoPhone, NoWizard
  <2>3. StepsInv'
    BY <2>1, <2>2 DEF StepsInv
  <2>4. calls' = GivenUp(calls \ {c}, PhoneKinds)
    BY <1>3 DEF SummaryAnswered
  <2>5. QED
    BY <1>1, <2>1, <2>2, <2>3, <2>4, DrawnStep
<1>4. QED
  BY <1>2, <1>3 DEF SummaryAnswered

LEMMA FinishAnsweredKeeps == ASSUME PageInv, NEW c \in calls, FinishAnswered(c) PROVE PageInv'
<1>1. UNCHANGED <<pairing, issued, due, overtaken, plan>> /\ Drop(c) /\ ~BringsCode(c)
  BY DEF FinishAnswered, Quiet, Backend, Ready, BringsCode
<1>2. QED
  BY <1>1, DropStep

LEMMA RecheckKeeps == ASSUME PageInv, Recheck PROVE PageInv'
<1>1. /\ UNCHANGED <<pairing, issued, due, overtaken>> /\ ClicksInv'
      /\ calls' = calls \cup {Call("status")}
      /\ page.dialog = "phone" /\ page.wz.body # "pair"
  BY SpentKeeps DEF Recheck, Quiet, Backend, Click, PageInv, Shows
<1>2. /\ IsPage' /\ page'.dialog = page.dialog /\ page'.hidden = page.hidden
      /\ page'.sec = page.sec /\ page'.ph = page.ph /\ page'.wz.body = page.wz.body
  BY DEF Recheck, PageInv, IsPage, PageFields, NoWizard
<1>3. StepsInv'
  BY <1>1, <1>2 DEF StepsInv
<1>4. Addable(Call("status"), "phone") /\ Call("status").kind # "start" /\ Call("status").ready = FALSE
  BY CallIsAddable DEF Asking, SectionKinds, Call
<1>5. Slots(calls', page.dialog, page.ph.code) /\ Kept(calls, calls')
  BY <1>1, <1>4, SlotsMore, KeptMore, KeptSelf DEF PageInv
<1>6. QED
  BY <1>1, <1>2, <1>3, <1>5, SameStep

LEMMA ConnectKeeps == ASSUME PageInv, Reconnect PROVE PageInv'
<1>1. /\ UNCHANGED <<pairing, issued, due, overtaken>> /\ ClicksInv'
      /\ calls' = GivenUp(calls, PhoneKinds) \cup {Call("quick")}
      /\ page.dialog = "phone"
  BY SpentKeeps DEF Reconnect, Connecting, Quiet, Backend, Click, PageInv, Shows
<1>2. PICK box : page' = [page EXCEPT !.ph = [NoPhone EXCEPT !.box = box]]
  BY DEF Reconnect, RunPhoneConnect
<1>3. /\ IsPage' /\ page'.dialog = page.dialog /\ page'.ph.code = 0 /\ page'.wz = page.wz
  BY <1>2 DEF PageInv, IsPage, PageFields, NoPhone
<1>4. StepsInv'
  BY <1>3 DEF PageInv, StepsInv
<1>5. /\ Slots(GivenUp(calls, PhoneKinds), "phone", 0) /\ Kept(calls, GivenUp(calls, PhoneKinds))
      /\ \A c \in GivenUp(calls, PhoneKinds) : ~(c.live /\ c.kind \in Asking)
  BY <1>1, SlotsCleared, SlotsGivenUp DEF PageInv
<1>6. Call("quick").kind # "start" /\ Call("quick").ready = FALSE
  BY DEF Call
<1>7. Slots(calls', "phone", 0) /\ Kept(calls, calls')
  BY <1>1, <1>5, <1>6, SlotsQuick, KeptMore
<1>8. QED
  BY <1>1, <1>3, <1>4, <1>7, BlankStep DEF Blank

LEMMA AgainKeeps == ASSUME PageInv, Again PROVE PageInv'
<1>1. /\ UNCHANGED <<pairing, issued, due, overtaken>> /\ ClicksInv'
      /\ calls' = GivenUp(calls, {"status", "poll", "summary"}) \cup {Call("status")}
      /\ page.dialog = "phone"
  BY SpentKeeps DEF Again, Quiet, Backend, Click, PageInv, Shows
<1>2. /\ IsPage' /\ page'.dialog = page.dialog /\ page'.hidden = page.hidden
      /\ page'.sec = page.sec /\ page'.ph = page.ph /\ page'.wz.body = "wait"
  <2>1. page' = [page EXCEPT !.wz = [NoWizard EXCEPT !.on = TRUE, !.forced = TRUE]]
    BY DEF Again, StartWizard
  <2> DEFINE w == [NoWizard EXCEPT !.on = TRUE, !.forced = TRUE]
  <2>2. w = [f \in DOMAIN NoWizard |-> w[f]] /\ w.body = "wait"
    BY DEF NoWizard
  <2> HIDE DEF w
  <2>3. /\ page' = [f \in PageFields |-> page'[f]] /\ page'.sec = page.sec /\ page'.ph = page.ph
        /\ page'.dialog = page.dialog /\ page'.hidden = page.hidden /\ page'.wz = w
    BY <2>1 DEF PageInv, IsPage, PageFields, w
  <2>4. QED
    BY <2>2, <2>3 DEF PageInv, IsPage
<1>3. StepsInv'
  BY <1>1, <1>2 DEF StepsInv
<1> DEFINE gone == GivenUp(calls, {"status", "poll", "summary"})
<1>4. Slots(gone, "phone", page.ph.code) /\ Kept(calls, gone)
  BY <1>1, SlotsGivenUp DEF PageInv
<1>5. Addable(Call("status"), "phone") /\ Call("status").kind # "start" /\ Call("status").ready = FALSE
  BY CallIsAddable DEF Asking, SectionKinds, Call
<1>6. \A c \in calls : BringsCode(c) => c \in gone
  <2>1. SUFFICES ASSUME NEW c \in calls, BringsCode(c) PROVE c \in gone
    OBVIOUS
  <2>2. c = Dead(c, {"status", "poll", "summary"})
    BY <2>1 DEF PageInv, Slots, BringsCode, Dead, IsCall, CallFields
  <2>3. QED
    BY <2>2 DEF GivenUp, Dead
<1> HIDE DEF gone
<1>7. calls' = gone \cup {Call("status")}
  BY <1>1 DEF gone
<1>8. Slots(calls', page.dialog, page.ph.code) /\ Kept(calls, calls')
  <2>1. Slots(gone \cup {Call("status")}, "phone", page.ph.code)
    BY <1>4, <1>5, SlotsMore
  <2>2. Kept(calls, gone \cup {Call("status")})
    BY <1>4, <1>5, KeptMore
  <2>3. QED
    BY <1>1, <1>7, <2>1, <2>2
<1>9. QED
  BY <1>1, <1>2, <1>3, <1>6, <1>7, <1>8, SameStep

LEMMA EnablePushKeeps == ASSUME PageInv, EnablePush PROVE PageInv'
<1>1. /\ UNCHANGED <<pairing, issued, due, overtaken, page>> /\ ClicksInv'
      /\ calls' = calls \cup {Call("push")} /\ page.dialog = "phone"
  BY SpentKeeps DEF EnablePush, Quiet, Backend, Click, PageInv, Shows
<1>2. Addable(Call("push"), page.dialog) /\ Call("push").kind # "start"
  BY <1>1, CallIsAddable DEF Asking, SectionKinds, Call
<1>3. QED
  BY <1>1, <1>2, CallStep

\* A status event, or the view a command was answered with.
LEMMA StatusPage ==
  ASSUME IsPage, StepsInv, NEW ids, page' = OnRemoteStatus(ids)
  PROVE  /\ IsPage' /\ StepsInv'
         /\ page'.dialog = page.dialog /\ page'.hidden = page.hidden /\ page'.sec = page.sec
         /\ page'.ph.code = page.ph.code /\ page'.ph.expired = page.ph.expired
<1>1. PICK l, done : page' = [page EXCEPT !.list = l, !.ph.done = done]
  BY DEF OnRemoteStatus
<1>2. /\ IsPage'
      /\ page'.dialog = page.dialog /\ page'.hidden = page.hidden /\ page'.sec = page.sec
      /\ page'.ph.code = page.ph.code /\ page'.ph.expired = page.ph.expired /\ page'.wz = page.wz
  BY <1>1 DEF IsPage, PageFields, NoPhone
<1>3. QED
  BY <1>2 DEF StepsInv

LEMMA EventKeeps == ASSUME PageInv, Event PROVE PageInv'
<1>1. UNCHANGED <<pairing, issued, due, overtaken, calls>> /\ ClicksInv'
  BY DEF Event, Backend, PageInv, ClicksInv
<1>2. QED
  BY <1>1, StatusPage, SameStep, KeptSelf DEF Event, PageInv

LEMMA ViewAnsweredKeeps == ASSUME PageInv, NEW c \in calls, ViewAnswered(c) PROVE PageInv'
<1>1. /\ UNCHANGED <<pairing, issued, due, overtaken, plan>> /\ ~BringsCode(c)
      /\ calls' = calls \ {c}
  BY DEF ViewAnswered, Quiet, Backend, Ready, BringsCode
<1>2. CASE UNCHANGED page
  BY <1>1, <1>2, DropStep DEF Drop
<1>3. CASE page' = OnRemoteStatus(c.ids)
  <2>1. /\ IsPage' /\ StepsInv'
        /\ page'.dialog = page.dialog /\ page'.hidden = page.hidden /\ page'.sec = page.sec
        /\ page'.ph.code = page.ph.code /\ page'.ph.expired = page.ph.expired
    BY <1>3, StatusPage DEF PageInv
  <2>2. Slots(calls', page.dialog, page.ph.code) /\ Kept(calls, calls')
    BY <1>1, SlotsLess DEF PageInv
  <2>3. ClicksInv'
    BY <1>1 DEF PageInv, ClicksInv
  <2>4. QED
    BY <1>1, <2>1, <2>2, <2>3, SameStep
<1>4. QED
  BY <1>2, <1>3 DEF ViewAnswered

\* The code the phone dialog was answered with is the one the server has.
LEMMA ConnectAnsweredKeeps == ASSUME PageInv, NEW c \in calls, ConnectAnswered(c) PROVE PageInv'
<1>0. /\ UNCHANGED <<pairing, issued, due, overtaken, plan>> /\ c.kind = "issue" /\ c.ready
      /\ c.live \in BOOLEAN
  BY DEF ConnectAnswered, Quiet, Backend, Ready, PageInv, Slots
<1>1. CASE c.live /\ c.ok
  <2>1. /\ calls' = calls \ {c} /\ ClicksInv'
        /\ page' = [page EXCEPT !.ph = [@ EXCEPT !.code = c.code, !.base = c.ids],
                                !.read = @ \cup {c.code}]
    BY <1>0, <1>1 DEF ConnectAnswered, Answers, PageInv, ClicksInv
  <2>2. page.dialog = "phone" /\ BringsCode(c)
    BY <1>0, <1>1 DEF PageInv, Slots, WizardKinds, PhoneKinds, CodeKinds, BringsCode
  <2>3. /\ IsPage' /\ page'.dialog = page.dialog /\ page'.hidden = page.hidden
        /\ page'.ph.code = c.code /\ page'.sec = page.sec /\ page'.wz = page.wz
    BY <2>1 DEF PageInv, IsPage, PageFields, NoPhone
  <2>4. StepsInv'
    BY <2>3 DEF PageInv, StepsInv
  <2>5. Slots(calls', page'.dialog, page'.ph.code)
    <3>1. Slots(calls', page.dialog, page.ph.code)
      BY <2>1, SlotsLess DEF PageInv
    <3>2. \A d \in calls' : ~(d.live /\ d.kind \in Asking)
      BY <1>0, <1>1, <2>1 DEF PageInv, Slots, Asking
    <3>3. QED
      BY <2>3, <3>1, <3>2 DEF Slots
  <2>6. ~overtaken' => StartedOnce(calls') /\ Current(calls', pairing'.code)
    BY <1>0, <2>1 DEF PageInv, StartedOnce, Current
  <2>7. ASSUME NEW code \in due' + 1 .. issued', Shown(code)', ~overtaken'
        PROVE  pairing'.code \in {0, code}
    <3>1. code = c.code
      BY <2>2, <2>3, <2>7 DEF Shown, Shows
    <3>2. QED
      BY <1>0, <2>2, <2>7, <3>1 DEF PageInv, Current
  <2>8. ShownCodeWorks'
    BY <2>7 DEF ShownCodeWorks
  <2>9. QED
    BY <1>0, <2>1, <2>3, <2>4, <2>5, <2>6, <2>8 DEF PageInv
<1>2. CASE ~(c.live /\ c.ok)
  <2>1. Drop(c) /\ ~BringsCode(c)
    BY <1>0, <1>2 DEF ConnectAnswered, Answers, BringsCode, PageInv, Slots, CodeKinds, Drop
  <2>2. QED
    BY <1>0, <2>1, DropStep
<1>3. QED
  BY <1>1, <1>2

LEMMA CodeTickKeeps == ASSUME PageInv, CodeTick PROVE PageInv'
<1>1. UNCHANGED <<pairing, issued, due, overtaken, calls, plan>>
  BY DEF CodeTick, Quiet, Backend
<1>2. ClicksInv'
  BY <1>1 DEF PageInv, ClicksInv
<1>3. CASE page.hidden /\ page' = [page EXCEPT !.ph = NoPhone]
  <2>1. /\ IsPage' /\ page'.dialog = page.dialog /\ page'.hidden = page.hidden
        /\ page'.ph.code = 0 /\ page'.wz = page.wz
    BY <1>3 DEF PageInv, IsPage, PageFields, NoPhone
  <2>2. StepsInv' /\ Slots(calls', page'.dialog, page'.ph.code)
    BY <1>1, <2>1 DEF PageInv, StepsInv, Slots
  <2>3. QED
    BY <1>1, <1>2, <1>3, <2>1, <2>2, BlankStep, KeptSelf
<1>4. CASE page' = [page EXCEPT !.ph.expired = TRUE]
  <2>1. /\ IsPage' /\ page'.dialog = page.dialog /\ page'.hidden = page.hidden /\ page'.sec = page.sec
        /\ page'.ph.code = page.ph.code /\ page'.ph.expired = TRUE /\ page'.wz = page.wz
    BY <1>4 DEF PageInv, IsPage, PageFields, NoPhone
  <2>2. StepsInv' /\ Slots(calls', page'.dialog, page'.ph.code)
    BY <1>1, <2>1 DEF PageInv, StepsInv, Slots
  <2>3. \A code : Shown(code)' => Shown(code)
    BY <2>1 DEF Shown, Shows
  <2>4. QED
    BY <1>1, <1>2, <2>1, <2>2, <2>3, PageStep, KeptSelf
<1>5. QED
  BY <1>3, <1>4 DEF CodeTick

-----------------------------------------------------------------------------
(* The server *)

\* The codes the server knows may go; what the page shows stays.
LEMMA ServerStep ==
  ASSUME PageInv, UNCHANGED <<issued, overtaken, page>>, ClicksInv',
         due' \in {due, due + 1}, pairing'.code \in {0, pairing.code},
         Slots(calls', page.dialog, page.ph.code), Kept(calls, calls'),
         \A c \in calls : BringsCode(c) => c \in calls'
  PROVE  PageInv'
<1>1. ~overtaken' => StartedOnce(calls') /\ Current(calls', pairing'.code)
  <2>1. ~overtaken => StartedOnce(calls') /\ Current(calls', pairing.code)
    BY DEF PageInv, Kept
  <2>2. QED
    BY <2>1 DEF Current
<1>2. ShownCodeWorks'
  <2>1. SUFFICES ASSUME NEW code \in due' + 1 .. issued', Shown(code)'
                 PROVE  \/ pairing'.code \in {0, code} \/ overtaken'
                        \/ \E c \in calls' : BringsCode(c) /\ c.code = pairing'.code
    BY DEF ShownCodeWorks, BringsCode
  <2>2. code \in due + 1 .. issued /\ Shown(code)
    <3>1. due \in Nat /\ issued \in Nat /\ issued' = issued /\ page' = page
      BY DEF PageInv
    <3>2. code \in due + 1 .. issued
      <4>1. due' = due \/ due' = due + 1
        OBVIOUS
      <4>2. code \in due' + 1 .. issued
        BY <3>1
      <4>3. CASE due' = due
        BY <4>2, <4>3
      <4>4. CASE due' = due + 1
        BY <3>1, <4>2, <4>4
      <4>5. QED
        BY <4>1, <4>3, <4>4
    <3>3. Shown(code)
      BY <2>1, <3>1 DEF Shown, Shows
    <3>4. QED
      BY <3>2, <3>3
  <2>3. \/ pairing.code \in {0, code} \/ overtaken
        \/ \E c \in calls : BringsCode(c) /\ c.code = pairing.code
    BY <2>2 DEF PageInv, ShownCodeWorks
  <2>4. QED
    BY <2>2, <2>3
<1>3. IsPage' /\ StepsInv' /\ Slots(calls', page'.dialog, page'.ph.code)
  BY DEF PageInv, IsPage, StepsInv
<1>4. due' \in Nat /\ issued' \in Nat /\ overtaken' \in BOOLEAN
  BY DEF PageInv
<1>5. QED
  BY <1>1, <1>2, <1>3, <1>4 DEF PageInv

LEMMA SubmitKeepsPage ==
  ASSUME PageInv, CodeInv, NEW p \in Phones, NEW code, SubmitPair(p, code)
  PROVE  PageInv'
<1>0. UNCHANGED <<issued, due, overtaken, page>> /\ ClicksInv'
  BY SpentKeeps DEF SubmitPair, PageInv
<1>1. pairing'.code \in {0, pairing.code}
  BY DEF SubmitPair, Matched, Missed, CodeInv, Shape, IsPairing
<1>2. CASE UNCHANGED calls
  BY <1>0, <1>1, <1>2, ServerStep, KeptSelf DEF PageInv
<1>3. CASE calls' = calls \cup {[Call("pair") EXCEPT !.code = code]}
  <2> DEFINE d == [Call("pair") EXCEPT !.code = code]
  <2>1. IsCall(d) /\ d.kind = "pair" /\ d.live = TRUE /\ d.ready = FALSE
    BY DEF Call, IsCall, CallFields
  <2>2. calls' = calls \cup {d}
    BY <1>3
  <2> HIDE DEF d
  <2>3. Addable(d, page.dialog)
    BY <2>1 DEF Addable, Asking, WizardKinds, PhoneKinds, SectionKinds
  <2>4. Slots(calls', page.dialog, page.ph.code) /\ Kept(calls, calls')
    BY <2>1, <2>2, <2>3, SlotsMore, KeptMore, KeptSelf DEF PageInv
  <2>5. QED
    BY <1>0, <1>1, <2>2, <2>4, ServerStep DEF PageInv
<1>4. QED
  BY <1>2, <1>3 DEF SubmitPair

LEMMA AddKeepsPage ==
  ASSUME PageInv, NEW c \in calls, NEW saved \in BOOLEAN, AddDevice(c, saved)
  PROVE  PageInv'
<1>1. /\ UNCHANGED <<pairing, issued, due, overtaken, page>> /\ ClicksInv'
      /\ calls' = calls \ {c} /\ c.kind = "pair"
  BY SpentKeeps DEF AddDevice, PageInv, ClicksInv
<1>2. Slots(calls', page.dialog, page.ph.code) /\ Kept(calls, calls') /\ ~BringsCode(c)
  BY <1>1, SlotsLess DEF PageInv, BringsCode
<1>3. QED
  BY <1>1, <1>2, ServerStep DEF PageInv

\* A step beside the codes and the calls.
LEMMA BesideKeepsPage ==
  ASSUME PageInv, UNCHANGED <<pairing, issued, overtaken, page, calls>>, due' \in {due, due + 1}, ClicksInv'
  PROVE  PageInv'
  BY ServerStep, KeptSelf DEF PageInv

\* A call that waits is answered without a code.
LEMMA ServedStep ==
  ASSUME PageInv, UNCHANGED <<pairing, issued, due, overtaken, page>>, ClicksInv',
         NEW c \in calls, ~c.ready, NEW d, Served(c, d), IsCall(d),
         d.live = c.live, d.ready \in BOOLEAN,
         d.kind = c.kind \/ (c.kind = "quick" /\ d.kind = "issue"),
         d.kind \in CodeKinds \cup Asking => d.code = 0 /\ ~(d.ready /\ d.ok) /\ (d.ok \/ d.ready)
  PROVE  PageInv'
<1>1. calls' = (calls \ {c}) \cup {d} /\ ~BringsCode(c) /\ ~BringsCode(d)
  BY DEF Served, BringsCode, CodeKinds
<1>2. Slots(calls, page.dialog, page.ph.code) /\ c.live \in BOOLEAN
  BY DEF PageInv, Slots
<1>3. /\ d.kind \in Asking <=> c.kind \in Asking
      /\ d.kind \in WizardKinds <=> c.kind \in WizardKinds
      /\ d.kind \in SectionKinds <=> c.kind \in SectionKinds
      /\ d.kind = "start" => c.kind = "start"
  BY DEF Asking, WizardKinds, SectionKinds, PhoneKinds
<1>4. Slots(calls', page.dialog, page.ph.code)
  <2>1. Slots(calls \ {c}, page.dialog, page.ph.code)
    BY <1>2, SlotsLess
  <2>2. c.live /\ c.kind \in Asking => \A o \in calls \ {c} : ~(o.live /\ o.kind \in Asking)
    BY <1>2 DEF Slots
  <2>3. /\ IsCall(d) /\ d.live \in BOOLEAN /\ d.ready \in BOOLEAN
        /\ d.live /\ d.kind \in WizardKinds => page.dialog = "phone"
        /\ d.live /\ d.kind \in SectionKinds => page.dialog = "settings"
        /\ d.live /\ d.kind \in Asking => page.ph.code = 0
    BY <1>2, <1>3 DEF Slots
  <2>4. \A o \in calls \ {c} : d.live /\ o.live /\ {d.kind, o.kind} \subseteq Asking => FALSE
    BY <1>3, <2>2
  <2>5. QED
    BY <1>1, <2>1, <2>3, <2>4 DEF Slots
<1>5. Kept(calls, calls')
  <2>1. \A code : Current(calls, code) => Current(calls', code)
    BY <1>1 DEF Current
  <2>2. StartedOnce(calls) => StartedOnce(calls')
    BY <1>1, <1>3 DEF StartedOnce
  <2>3. QED
    BY <2>1, <2>2 DEF Kept
<1>6. QED
  BY <1>1, <1>4, <1>5, ServerStep DEF PageInv

\* A call whose save failed is answered with a message only.
LEMMA FailedStep ==
  ASSUME PageInv, UNCHANGED <<pairing, issued, due, overtaken, page>>, NEW c \in calls, ~c.ready, SaveFails(c)
  PROVE  PageInv'
<1>1. ClicksInv' /\ calls' = calls \ {c} /\ ~BringsCode(c)
  BY SpentKeeps DEF SaveFails, PageInv, BringsCode
<1>2. Slots(calls', page.dialog, page.ph.code) /\ Kept(calls, calls')
  BY <1>1, SlotsLess DEF PageInv
<1>3. QED
  BY <1>1, <1>2, ServerStep DEF PageInv

\* A new code: the only answer that may bring another one is this one.
LEMMA IssueKeepsPage ==
  ASSUME PageInv, CodeInv, NEW c \in calls, c.kind \in CodeKinds, ~c.ready, Issue(c), UNCHANGED <<due, page, plan>>
  PROVE  PageInv'
<1> DEFINE a == [c EXCEPT !.ready = TRUE, !.code = issued + 1, !.ids = devices]
<1>1. /\ IsCall(c) /\ c.live \in BOOLEAN /\ c.ok
      /\ Slots(calls, page.dialog, page.ph.code) /\ issued \in Nat /\ due \in Nat
  BY DEF PageInv, Slots
<1>2. /\ IsCall(a) /\ a.kind = c.kind /\ a.live = c.live /\ a.ready = TRUE /\ a.ok = c.ok
      /\ a.code = issued + 1
  BY <1>1 DEF IsCall, CallFields
<1>3. /\ pairing'.code = issued + 1 /\ issued' = issued + 1
      /\ calls' = (calls \ {c}) \cup {a}
      /\ overtaken' = (overtaken
             \/ (~c.live /\ ((\E code \in 1..issued : Shown(code)) \/ \E o \in calls : BringsCode(o))))
  BY DEF Issue, NewCode, CodeInv, Shape, IsPairing
<1> HIDE DEF a
<1>4. Slots(calls', page.dialog, page.ph.code)
  <2>1. Slots(calls \ {c}, page.dialog, page.ph.code)
    BY <1>1, SlotsLess
  <2>2. /\ a.live /\ a.kind \in WizardKinds => page.dialog = "phone"
        /\ a.live /\ a.kind \in SectionKinds => page.dialog = "settings"
        /\ a.live /\ a.kind \in Asking => page.ph.code = 0
    BY <1>1, <1>2 DEF Slots
  <2>3. \A o \in calls \ {c} : ~(a.live /\ o.live /\ {a.kind, o.kind} \subseteq Asking)
    BY <1>1, <1>2 DEF Slots
  <2>4. a.kind # "quick" /\ a.code # 0 /\ a.ok
    BY <1>1, <1>2 DEF CodeKinds
  <2>5. a.ready \in BOOLEAN /\ a.live \in BOOLEAN
    BY <1>1, <1>2
  <2>6. QED
    BY <1>2, <1>3, <2>1, <2>2, <2>3, <2>4, <2>5 DEF Slots
<1>5. ASSUME ~overtaken' PROVE StartedOnce(calls') /\ Current(calls', pairing'.code)
  <2>1. ~overtaken /\ StartedOnce(calls)
    BY <1>3, <1>5 DEF PageInv
  <2>2. StartedOnce(calls')
    BY <1>2, <1>3, <2>1 DEF StartedOnce
  <2>3. ASSUME NEW o \in calls \ {c}, BringsCode(o) PROVE FALSE
    <3>1. c.live
      BY <1>1, <1>3, <1>5, <2>3
    <3>2. CASE c.kind = "issue" /\ o.kind = "issue"
      BY <1>1, <2>3, <3>1, <3>2 DEF Slots, Asking, BringsCode
    <3>3. CASE c.kind = "start" /\ o.kind = "start"
      BY <2>1, <2>3, <3>3 DEF StartedOnce
    <3>4. CASE c.kind # o.kind
      <4>1. page.dialog = "phone" /\ page.dialog = "settings"
        BY <1>1, <2>3, <3>1, <3>4 DEF Slots, BringsCode, CodeKinds, WizardKinds, PhoneKinds, SectionKinds
      <4>2. QED
        BY <4>1
    <3>5. QED
      BY <2>3, <3>2, <3>3, <3>4 DEF BringsCode, CodeKinds
  <2>4. Current(calls', pairing'.code)
    BY <1>2, <1>3, <2>3 DEF Current
  <2>5. QED
    BY <2>2, <2>4
<1>6. ShownCodeWorks'
  <2>1. SUFFICES ASSUME NEW code \in due' + 1 .. issued', Shown(code)', ~overtaken', code # issued + 1
                 PROVE  \E o \in calls' : BringsCode(o) /\ o.code = pairing'.code
    BY <1>3 DEF ShownCodeWorks, BringsCode
  <2>2. code \in 1..issued /\ Shown(code)
    <3>1. code \in due + 1 .. issued + 1 /\ page' = page
      BY <1>3
    <3>2. code \in 1..issued
      BY <1>1, <2>1, <3>1
    <3>3. Shown(code)
      BY <2>1, <3>1 DEF Shown, Shows
    <3>4. QED
      BY <3>2, <3>3
  <2>3. c.live
    BY <1>1, <1>3, <2>1, <2>2
  <2>4. BringsCode(a) /\ a.code = pairing'.code
    BY <1>1, <1>2, <1>3, <2>3 DEF BringsCode, CodeKinds
  <2>5. QED
    BY <1>3, <2>4
<1>7. IsPage' /\ StepsInv' /\ ClicksInv' /\ Slots(calls', page'.dialog, page'.ph.code)
  BY <1>4 DEF PageInv, IsPage, StepsInv, ClicksInv
<1>8. due' \in Nat /\ issued' \in Nat /\ overtaken' \in BOOLEAN
  BY <1>1, <1>3 DEF PageInv
<1>9. QED
  BY <1>5, <1>6, <1>7, <1>8 DEF PageInv

LEMMA ServeKeepsPage ==
  ASSUME PageInv, CodeInv, Serve
  PROVE  PageInv'
<1> PICK c \in calls : \/ ServeApply(c) \/ QuickApply(c) \/ ServeCode(c) \/ ServeConfig(c)
                         \/ ServeStatus(c) \/ ServeRevoke(c) \/ ServePush(c) \/ ServeOpen(c)
  BY DEF Serve
<1>0. IsCall(c)
  BY DEF PageInv, Slots
<1>1. CASE ServeApply(c)
  <2>1. c.kind = "apply" /\ ~c.ready /\ UNCHANGED <<pairing, issued, due, overtaken, page>>
    BY <1>1 DEF ServeApply, Waits
  <2>2. ASSUME NEW on \in BOOLEAN, Applies(c.ok, on),
               Served(c, [c EXCEPT !.ready = TRUE, !.ok = on, !.ids = devices])
        PROVE  PageInv'
    <3> DEFINE d == [c EXCEPT !.ready = TRUE, !.ok = on, !.ids = devices]
    <3>1. /\ IsCall(d) /\ d.kind = c.kind /\ d.live = c.live /\ d.ready = TRUE /\ Served(c, d)
      BY <1>0, <2>2 DEF IsCall, CallFields
    <3>2. ClicksInv'
      BY <2>2, SpentKeeps DEF Applies, PageInv, ClicksInv
    <3> HIDE DEF d
    <3>3. QED
      BY <2>1, <3>1, <3>2, ServedStep DEF CodeKinds, Asking
  <2>3. QED
    BY <1>1, <2>1, <2>2, FailedStep DEF ServeApply
<1>2. CASE QuickApply(c)
  <2> DEFINE d == [c EXCEPT !.kind = "issue", !.ready = TRUE, !.ok = FALSE]
             e == [c EXCEPT !.kind = "issue"]
  <2>1. /\ IsCall(d) /\ d.kind = "issue" /\ d.live = c.live /\ d.ready = TRUE /\ d.ok = FALSE /\ d.code = c.code
        /\ IsCall(e) /\ e.kind = "issue" /\ e.live = c.live /\ e.ready = c.ready /\ e.ok = c.ok /\ e.code = c.code
    BY <1>0 DEF IsCall, CallFields
  <2>2. /\ Served(c, d) \/ Served(c, e)
        /\ c.kind = "quick" /\ ~c.ready /\ UNCHANGED <<pairing, issued, due, overtaken, page>>
    BY <1>2 DEF QuickApply, Waits
  <2>3. c.ready \in BOOLEAN /\ c.code = 0 /\ c.ok
    BY <2>2 DEF PageInv, Slots, Asking
  <2>4. ClicksInv'
    BY <1>2, SpentKeeps DEF QuickApply, Applies, PageInv, ClicksInv
  <2> HIDE DEF d, e
  <2>5. CASE Served(c, d)
    BY <2>1, <2>2, <2>3, <2>4, <2>5, ServedStep
  <2>6. CASE Served(c, e)
    BY <2>1, <2>2, <2>3, <2>4, <2>6, ServedStep
  <2>7. QED
    BY <2>2, <2>5, <2>6
<1>3. CASE ServeCode(c)
  <2> DEFINE d == [c EXCEPT !.ready = TRUE, !.ok = FALSE]
  <2>1. /\ IsCall(d) /\ d.kind = c.kind /\ d.live = c.live /\ d.ready = TRUE /\ d.ok = FALSE /\ d.code = c.code
    BY <1>0 DEF IsCall, CallFields
  <2>2. c.kind \in CodeKinds /\ ~c.ready /\ UNCHANGED <<due, page, plan>> /\ ClicksInv'
    BY <1>3 DEF ServeCode, Waits, CodeKinds, PageInv, ClicksInv
  <2>3. CASE Issue(c)
    BY <2>2, <2>3, IssueKeepsPage
  <2>4. CASE Served(c, d) /\ UNCHANGED <<pairing, issued, overtaken>>
    <3>1. c.code = 0
      BY <2>2 DEF PageInv, Slots
    <3> HIDE DEF d
    <3>2. QED
      BY <2>1, <2>2, <2>4, <3>1, ServedStep
  <2>5. QED
    BY <1>3, <2>3, <2>4 DEF ServeCode
<1>4. CASE ServeConfig(c)
  <2> DEFINE d == [c EXCEPT !.ready = TRUE, !.ok = hub.on, !.ids = devices]
  <2>1. /\ IsCall(d) /\ d.kind = c.kind /\ d.live = c.live /\ d.ready = TRUE
    BY <1>0 DEF IsCall, CallFields
  <2>2. /\ c.kind \in {"init", "check", "expiry", "summary", "finish"} /\ ~c.ready /\ Served(c, d)
        /\ UNCHANGED <<pairing, issued, due, overtaken, page>> /\ ClicksInv'
    BY <1>4 DEF ServeConfig, Waits, Backend, PageInv, ClicksInv
  <2> HIDE DEF d
  <2>3. QED
    BY <2>1, <2>2, ServedStep DEF CodeKinds, Asking
<1>5. CASE ServeStatus(c)
  <2>1. /\ c.kind \in {"status", "poll"} /\ ~c.ready
        /\ UNCHANGED <<pairing, issued, due, overtaken, page>>
    BY <1>5 DEF ServeStatus, Waits
  <2>2. ClicksInv'
    BY <1>5, SpentKeeps DEF ServeStatus, PageInv, ClicksInv
  <2>3. \A st : LET d == [c EXCEPT !.ready = TRUE, !.st = st]
                IN  IsCall(d) /\ d.kind = c.kind /\ d.live = c.live /\ d.ready = TRUE
    BY <1>0 DEF IsCall, CallFields
  <2>4. PICK d : Served(c, d) /\ IsCall(d) /\ d.kind = c.kind /\ d.live = c.live /\ d.ready = TRUE
    <3>1. PICK st : Served(c, [c EXCEPT !.ready = TRUE, !.st = st])
      BY <1>5 DEF ServeStatus
    <3>2. QED
      BY <2>3, <3>1
  <2>5. d.kind \notin CodeKinds \cup Asking /\ d.ready \in BOOLEAN
    BY <2>1, <2>4 DEF CodeKinds, Asking
  <2>6. QED
    BY <2>1, <2>2, <2>4, <2>5, ServedStep
<1>6. CASE ServeRevoke(c)
  <2> DEFINE d == [c EXCEPT !.ready = TRUE, !.ok = hub.on, !.ids = devices']
  <2>1. /\ IsCall(d) /\ d.kind = c.kind /\ d.live = c.live /\ d.ready = TRUE
    BY <1>0 DEF IsCall, CallFields
  <2>2. /\ c.kind \in {"revoke", "revokePhone"} /\ ~c.ready
        /\ UNCHANGED <<pairing, issued, due, overtaken, page>>
        /\ (Served(c, d) /\ UNCHANGED plan) \/ SaveFails(c)
    BY <1>6 DEF ServeRevoke, Waits
  <2>3. UNCHANGED plan => ClicksInv'
    BY DEF PageInv, ClicksInv
  <2> HIDE DEF d
  <2>4. QED
    BY <2>1, <2>2, <2>3, ServedStep, FailedStep DEF CodeKinds, Asking
<1>7. CASE ServePush(c)
  <2> DEFINE d == [c EXCEPT !.ready = TRUE, !.ids = devices]
  <2>1. /\ IsCall(d) /\ d.kind = c.kind /\ d.live = c.live /\ d.ready = TRUE
    BY <1>0 DEF IsCall, CallFields
  <2>2. /\ c.kind = "push" /\ ~c.ready
        /\ UNCHANGED <<pairing, issued, due, overtaken, page>>
        /\ (Served(c, d) /\ UNCHANGED plan) \/ SaveFails(c)
    BY <1>7 DEF ServePush, Waits
  <2>3. UNCHANGED plan => ClicksInv'
    BY DEF PageInv, ClicksInv
  <2> HIDE DEF d
  <2>4. QED
    BY <2>1, <2>2, <2>3, ServedStep, FailedStep DEF CodeKinds, Asking
<1>8. CASE ServeOpen(c)
  <2> DEFINE d == [c EXCEPT !.ready = TRUE, !.ok = hub.push /\ hub.on]
  <2>1. /\ IsCall(d) /\ d.kind = c.kind /\ d.live = c.live /\ d.ready = TRUE
    BY <1>0 DEF IsCall, CallFields
  <2>2. /\ c.kind = "open" /\ ~c.ready /\ Served(c, d)
        /\ UNCHANGED <<pairing, issued, due, overtaken, page>> /\ ClicksInv'
    BY <1>8 DEF ServeOpen, Waits, Backend, PageInv, ClicksInv
  <2> HIDE DEF d
  <2>3. QED
    BY <2>1, <2>2, ServedStep DEF CodeKinds, Asking
<1>9. QED
  BY <1>1, <1>2, <1>3, <1>4, <1>5, <1>6, <1>7, <1>8

-----------------------------------------------------------------------------
LEMMA InitPage == PairingInit => PageInv
<1> SUFFICES ASSUME PairingInit PROVE PageInv
  OBVIOUS
<1>1. ClicksInv
  BY PlansAssumption DEF PairingInit, ClicksInv
<1>2. IsPage /\ StepsInv /\ page.hidden
  BY DEF PairingInit, IsPage, PageFields, NoSection, NoWizard, NoPhone, StepsInv
<1>3. ShownCodeWorks
  BY <1>2 DEF ShownCodeWorks, Shown, Shows
<1>4. Slots(calls, page.dialog, page.ph.code) /\ StartedOnce(calls) /\ Current(calls, pairing.code)
  BY DEF PairingInit, Slots, StartedOnce, Current
<1>5. QED
  BY <1>1, <1>2, <1>3, <1>4 DEF PairingInit, PageInv

LEMMA PageNext == PageInv /\ CodeInv /\ [PairingNext]_pairingVars => PageInv'
<1> SUFFICES ASSUME PageInv, CodeInv, [PairingNext]_pairingVars PROVE PageInv'
  OBVIOUS
<1>1. CASE Submit
  BY <1>1, SubmitKeepsPage DEF Submit
<1>2. CASE Add
  BY <1>2, AddKeepsPage DEF Add
<1>3. CASE Serve
  BY <1>3, ServeKeepsPage
<1>4. CASE Answer
  BY <1>4, SectionAnsweredKeeps, StartAnsweredKeeps, ExpiryAnsweredKeeps, OpenAnsweredKeeps,
     StatusAnsweredKeeps, SummaryAnsweredKeeps, FinishAnsweredKeeps, ViewAnsweredKeeps,
     ConnectAnsweredKeeps DEF Answer
<1>5. CASE Event
  BY <1>5, EventKeeps
<1>6. CASE Timers
  BY <1>6, CheckDevicesKeeps, SectionExpiresKeeps, PollKeeps, CodeTickKeeps DEF Timers
<1>7. CASE Unlocks
  <2>1. PICK p \in Phones : Unlock(p)
    BY <1>7 DEF Unlocks
  <2>2. /\ UNCHANGED <<issued, due, overtaken, page, calls, plan>> /\ pairing'.code = pairing.code
    BY <2>1 DEF Unlock, CodeInv, Shape, IsPairing
  <2>3. QED
    BY <2>2, ServerStep, KeptSelf DEF PageInv, ClicksInv
<1>8. CASE Idle
  <2>1. UNCHANGED <<pairing, issued, due, overtaken, page, calls>> /\ ClicksInv'
    BY <1>8, SpentKeeps DEF Idle, RemoveIdle, PageInv
  <2>2. QED
    BY <2>1, BesideKeepsPage
<1>9. CASE User
  BY <1>9, OpenSettingsKeeps, CloseDialogKeeps, ClickPairKeeps, OpenPhoneKeeps, OpenOnPhoneKeeps,
     RecheckKeeps, ConnectKeeps, AgainKeeps, EnablePushKeeps, ApplyConfigKeeps, RevokeKeeps DEF User
<1>10. CASE CodeIsDue
  <2>1. UNCHANGED <<pairing, issued, overtaken, page, calls>> /\ due' = due + 1 /\ ClicksInv'
    BY <1>10 DEF CodeIsDue, PageInv, ClicksInv
  <2>2. due' \in Nat
    BY <2>1 DEF PageInv
  <2>3. QED
    BY <2>1, <2>2, BesideKeepsPage
<1>11. CASE Watch
  <2>1. UNCHANGED <<pairing, issued, due, overtaken, page, calls>> /\ ClicksInv'
    BY <1>11 DEF Watch, PageInv, ClicksInv
  <2>2. QED
    BY <2>1, BesideKeepsPage
<1>12. CASE World
  <2>1. UNCHANGED <<pairing, issued, due, overtaken, page, calls>> /\ ClicksInv'
    BY <1>12, SpentKeeps DEF World, PageInv
  <2>2. QED
    BY <2>1, BesideKeepsPage
<1>13. CASE CacheAges \/ UNCHANGED pairingVars
  <2>1. UNCHANGED <<pairing, issued, due, overtaken, page, calls>> /\ ClicksInv'
    BY <1>13 DEF CacheAges, pairingVars, PageInv, ClicksInv
  <2>2. QED
    BY <2>1, BesideKeepsPage
<1>14. QED
  BY <1>1, <1>2, <1>3, <1>4, <1>5, <1>6, <1>7, <1>8, <1>9, <1>10, <1>11, <1>12, <1>13 DEF PairingNext

\* What the page waits for fits what it shows: every call belongs to the dialog
\* in the slot, and while a call may bring the phone dialog a code none is shown
\* there (modals.js runPhoneConnect, renderRemoteSettings).
THEOREM PageFitsItsCalls == PairingSpec => []PageInv
<1>1. QED
  BY InitPage, PageNext, CodesAreUsedOnce, InitCodes, CodesStep, PTL DEF PairingSpec

\* A code that is shown and still runs is the server's, or the new one is on its
\* way to the screen, unless a request that nobody waited for issued one.
THEOREM ShownCodesWork == PairingSpec => []ShownCodeWorks
<1>1. PageInv => ShownCodeWorks
  BY DEF PageInv
<1>2. QED
  BY <1>1, PageFitsItsCalls, PTL

-----------------------------------------------------------------------------
(***************************************************************************)
(* The code of the pairing step stays: nothing but a click takes it off a  *)
(* step that stays the pairing one.                                        *)
(***************************************************************************)
CodeStays == (/\ Shows("phone") /\ page.wz.body = "pair" /\ page.ph.code > due
              /\ page'.wz.body = "pair" /\ plan' = plan)
             => page'.ph.code = page.ph.code

\* Requests that may bring a code find none on the screen.
LEMMA NoAnswerReplaces ==
  ASSUME PageInv, NEW c \in calls, ConnectAnswered(c), page.ph.code # 0
  PROVE  UNCHANGED page
<1>1. ~c.live
  BY DEF PageInv, Slots, ConnectAnswered, Ready, Asking
<1>2. QED
  BY <1>1 DEF ConnectAnswered, Answers, Drop

LEMMA AnswerLeavesCode ==
  ASSUME PageInv, NEW c \in calls, page.wz.body = "pair", page'.wz.body = "pair", page.ph.code # 0,
         \/ SectionAnswered(c) \/ StartAnswered(c) \/ CheckAnswered(c)
         \/ ExpiryAnswered(c) \/ OpenAnswered(c) \/ StatusAnswered(c)
         \/ SummaryAnswered(c) \/ FinishAnswered(c) \/ ViewAnswered(c)
         \/ ConnectAnswered(c)
  PROVE  page'.ph.code = page.ph.code
<1>0. IsPage
  BY DEF PageInv
<1>1. CASE SectionAnswered(c) \/ CheckAnswered(c)
  BY <1>0, <1>1 DEF SectionAnswered, CheckAnswered, DrawSection, Drop, IsPage, PageFields
<1>2. CASE StartAnswered(c)
  BY <1>0, <1>2 DEF StartAnswered, Drop, IsPage, PageFields
<1>3. CASE ExpiryAnswered(c)
  BY <1>0, <1>3 DEF ExpiryAnswered, Drop, IsPage, PageFields
<1>4. CASE OpenAnswered(c)
  <2>1. CASE Drop(c)
    BY <2>1 DEF Drop
  <2>2. CASE page' = StartWizard(Opened(page, "phone"), FALSE)
    <3>1. page'.wz.body = "wait"
      BY <1>0, <2>2 DEF StartWizard, Opened, NoWizard, IsPage, PageFields
    <3>2. QED
      BY <3>1
  <2>3. QED
    BY <1>4, <2>1, <2>2 DEF OpenAnswered
<1>5. CASE StatusAnswered(c)
  <2> DEFINE step == CurrentStep(c.st)
             timer == page.wz.timer \/ (page.wz.body = "wait" /\ ~page.wz.summary)
             drawn == [page EXCEPT !.wz.key = BodyKey(c.st), !.wz.body = step, !.wz.timer = timer,
                                   !.ph = NoPhone, !.list = {}]
  <2>1. page.wz.key = <<"pair", "">>
    BY DEF PageInv, StepsInv
  <2>2. step = "pair" => BodyKey(c.st) = <<"pair", "">>
    BY DEF BodyKey
  <2>3. CASE Drop(c)
    BY <2>3 DEF Drop
  <2>5. CASE page' = [page EXCEPT !.wz.timer = FALSE, !.wz.summary = TRUE]
    BY <1>0, <2>5 DEF IsPage, PageFields
  <2>6. CASE step # "pair" /\ (page' = drawn \/ page' = [drawn EXCEPT !.ph.box = "finish"])
    <3> HIDE DEF step, timer
    <3>1. page'.wz.body = step
      <4>1. CASE page' = drawn
        BY <1>0, <4>1 DEF IsPage, PageFields, NoWizard
      <4>2. CASE page' = [drawn EXCEPT !.ph.box = "finish"]
        BY <1>0, <4>2 DEF IsPage, PageFields, NoWizard
      <4>3. QED
        BY <2>6, <4>1, <4>2
    <3>2. QED
      BY <2>6, <3>1
  <2>7. QED
    BY <1>5, <2>1, <2>2, <2>3, <2>5, <2>6 DEF StatusAnswered
<1>6. CASE SummaryAnswered(c)
  <2>1. CASE Drop(c)
    BY <2>1 DEF Drop
  <2>2. CASE ~Drop(c)
    <3>1. page'.wz.body = "summary"
      BY <1>0, <1>6, <2>2 DEF SummaryAnswered, IsPage, PageFields, NoWizard
    <3>2. QED
      BY <3>1
  <2>3. QED
    BY <2>1, <2>2
<1>7. CASE FinishAnswered(c)
  BY <1>7 DEF FinishAnswered, Drop
<1>8. CASE ViewAnswered(c)
  <2>1. page' = page \/ page' = OnRemoteStatus(c.ids)
    BY <1>8 DEF ViewAnswered
  <2>2. StepsInv
    BY DEF PageInv
  <2>3. QED
    BY <1>0, <2>1, <2>2, StatusPage
<1>9. CASE ConnectAnswered(c)
  BY <1>9, NoAnswerReplaces
<1>10. QED
  BY <1>1, <1>2, <1>3, <1>4, <1>5, <1>6, <1>7, <1>8, <1>9

LEMMA CodeStaysStep == PageInv /\ [PairingNext]_pairingVars => CodeStays
<1> SUFFICES ASSUME PageInv, [PairingNext]_pairingVars,
                    Shows("phone"), page.wz.body = "pair", page.ph.code > due,
                    page'.wz.body = "pair", plan' = plan
             PROVE  page'.ph.code = page.ph.code
  BY DEF CodeStays
<1>0. IsPage /\ StepsInv /\ due \in Nat /\ ~page.hidden /\ ClicksInv
  BY DEF PageInv, Shows
<1>1. page.ph.code # 0
  BY <1>0
<1>2. CASE \/ Submit \/ Add \/ Serve \/ Unlocks \/ Idle \/ CodeIsDue \/ CacheAges \/ Watch \/ World
           \/ UNCHANGED pairingVars
  <2>1. page' = page
    BY <1>2 DEF Submit, SubmitPair, Add, AddDevice, Serve, ServeApply, QuickApply, ServeCode, ServeConfig,
       ServeStatus, ServeRevoke, ServePush, ServeOpen, Unlocks, Unlock, Idle, RemoveIdle, CodeIsDue,
       CacheAges, Watch, World, pairingVars
  <2>2. QED
    BY <2>1
<1>3. CASE Answer
  BY <1>1, <1>3, AnswerLeavesCode DEF Answer
<1>4. CASE Event
  BY <1>0, <1>4, StatusPage DEF Event
<1>5. CASE Timers
  BY <1>0, <1>5 DEF Timers, CheckDevices, SectionExpires, Poll, CodeTick, IsPage, PageFields, NoPhone
<1>6. CASE User
  <2>1. plan' = Spent("clicks")
    BY <1>6 DEF User, OpenSettings, CloseDialog, ClickPair, OpenPhone, OpenOnPhone, Recheck, Reconnect,
       Again, EnablePush, ApplyConfig, Revoke, Click
  <2>2. QED
    BY <1>0, <2>1, SpentKeeps
<1>7. QED
  BY <1>2, <1>3, <1>4, <1>5, <1>6 DEF PairingNext

\* Only a click, or another step, takes the code of the pairing step away: never
\* the poll, an answer or an event, whatever order they come in (modals.js:985).
THEOREM CodesAreKept == PairingSpec => CodeIsKept
<1>1. PageInv /\ [PairingNext]_pairingVars => [CodeStays]_pairingVars
  BY CodeStaysStep
<1>2. QED
  BY <1>1, PageFitsItsCalls, PTL DEF PairingSpec, CodeIsKept, CodeStays
=============================================================================
