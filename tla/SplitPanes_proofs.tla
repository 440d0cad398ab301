-------------------------- MODULE SplitPanes_proofs --------------------------
(***************************************************************************)
(* Proofs about SplitPanes, for any number of sessions, modes, panes and   *)
(* calls in flight: no session is ever in two panes, the focused pane is   *)
(* on screen, in a split screen the active session is in a pane, and a     *)
(* reload would bring back the layout the user sees.                       *)
(*                                                                         *)
(* Beside the screen the invariant speaks of the layout in localStorage    *)
(* (boot builds the screen from it), of the bars and the open menu (they   *)
(* name the pane a menu item acts on), and of the ids of sessions whose    *)
(* create call has not been answered: nothing on the page has them yet.    *)
(***************************************************************************)
EXTENDS SplitPanes, FiniteSetTheorems, SequenceTheorems, TLAPS

\* A layout that shows no session twice, has its focus on screen, and holds
\* nothing in panes that are not on screen.
Neat(sp) ==
  /\ \A i, j \in PaneIdx : sp.panes[i] = sp.panes[j] /\ i # j => sp.panes[i] = None
  /\ sp.focused \in Visible(sp)
  /\ \A i \in PaneIdx \ Visible(sp) : sp.panes[i] = None

ActiveIn(sp, act) ==
  IsSplit(sp) /\ act # None =>
    /\ act \in OnScreen(sp)
    /\ sp.panes[sp.focused] \in {None, act}

BarInv ==
  /\ \A i \in PaneIdx : bars[i] # None => i \in Visible(split)
  /\ menu # None => menu \in PaneIdx /\ bars[menu] # None

ScreenTypes ==
  /\ split \in Splits /\ saved \in [split : Splits, active : Shown] /\ activeId \in Shown
  /\ bars \in [PaneIdx -> Shown] /\ menu \in PaneIdx \cup {None}

ScreenInv ==
  /\ ScreenTypes /\ Neat(split) /\ Neat(saved.split) /\ ActiveIn(split, activeId) /\ BarInv

ListTypes ==
  /\ alive \in Seq(Sess) /\ sessions \in Seq(Sess) /\ rest \in Seq(Sess) /\ calls \subseteq Calls

\* What the page has on screen, or would act on.
Screen ==
  {activeId} \cup {split.panes[i] : i \in PaneIdx} \cup {bars[i] : i \in PaneIdx}

\* A session whose create call is not answered is new to the page.
NewInv ==
  \A c \in calls : c.op = "create" =>
    /\ c.id \notin Listed \cup Screen
    /\ \A d \in calls : d.op # "close" /\ d.id = c.id => d = c

SplitInv == ListTypes /\ ScreenInv /\ NewInv

-----------------------------------------------------------------------------
(* Panes and lists *)

LEMMA PaneFacts ==
  /\ MaxPanes \in Nat /\ MaxPanes > 0 /\ PaneIdx \subseteq Nat /\ 0 \in PaneIdx
  /\ PaneIdx \subseteq 0..MaxPanes
  /\ \A m \in Modes : Count[m] \in Nat /\ Count[m] > 0 /\ Count[m] <= MaxPanes
  /\ \A sp \in Splits : /\ Visible(sp) \subseteq PaneIdx /\ 0 \in Visible(sp)
                        /\ sp.mode \in Modes /\ sp.focused \in PaneIdx
                        /\ sp.panes \in [PaneIdx -> Shown]
                        /\ (IsSplit(sp) <=> sp.mode # Single)
<1>1. /\ MaxPanes \in Nat /\ MaxPanes > 0
      /\ \A m \in Modes : Count[m] \in Nat /\ Count[m] > 0 /\ Count[m] <= MaxPanes
  BY ModesAssumption
<1>2. PaneIdx \subseteq Nat /\ 0 \in PaneIdx /\ PaneIdx \subseteq 0..MaxPanes
  BY <1>1 DEF PaneIdx
<1>3. ASSUME NEW sp \in Splits
      PROVE  /\ Visible(sp) \subseteq PaneIdx /\ 0 \in Visible(sp)
             /\ sp.mode \in Modes /\ sp.focused \in PaneIdx
             /\ sp.panes \in [PaneIdx -> Shown]
             /\ (IsSplit(sp) <=> sp.mode # Single)
  <2>1. sp.mode \in Modes /\ sp.focused \in PaneIdx /\ sp.panes \in [PaneIdx -> Shown]
    BY DEF Splits
  <2>2. Visible(sp) \subseteq PaneIdx /\ 0 \in Visible(sp)
    BY <1>1, <2>1 DEF Visible, PaneIdx
  <2>3. IsSplit(sp) <=> sp.mode # Single
    <3>1. Count[sp.mode] \in Nat /\ Count[sp.mode] > 0 /\ (Count[sp.mode] = 1 <=> sp.mode = Single)
      BY <1>1, <2>1, ModesAssumption
    <3>2. QED
      BY <3>1 DEF IsSplit
  <2>4. QED
    BY <2>1, <2>2, <2>3
<1>4. QED
  BY <1>1, <1>2, <1>3

\* The first pane of a set: of the sets of members below a member, one is the
\* least.
LEMMA FirstIn ==
  ASSUME NEW T \in SUBSET (0..MaxPanes), T # {}
  PROVE  First(T) \in T
<1>1. T \subseteq Nat /\ IsFiniteSet(0..MaxPanes)
  BY PaneFacts, FS_Interval
<1> DEFINE Below(x) == {y \in T : y < x}
           F == {Below(x) : x \in T}
           R == StrictSubsetOrdering(T)
<1>2. IsFiniteSet(T)
  BY <1>1, FS_Subset
<1>3. F \subseteq FiniteSubsetsOf(T) /\ F # {}
  <2>1. \A x \in T : Below(x) \in SUBSET T
    OBVIOUS
  <2>2. \A x \in T : IsFiniteSet(Below(x))
    BY <1>2, <2>1, FS_Subset
  <2>3. QED
    BY <2>1, <2>2 DEF FiniteSubsetsOf
<1>4. PICK B \in F : \A A \in F : ~(<<A, B>> \in R)
  <2>1. IsWellFoundedOn(R, FiniteSubsetsOf(T))
    BY FS_StrictSubsetOrderingWellFounded
  <2> HIDE DEF R, F
  <2>2. QED
    BY <1>3, <2>1, WFMin
<1>5. PICK x \in T : B = Below(x)
  BY <1>4
<1>6. \A y \in T : x <= y
  <2> SUFFICES ASSUME NEW y \in T, ~(x <= y) PROVE FALSE
    OBVIOUS
  <2>1. y \in Nat /\ x \in Nat /\ y < x
    BY <1>1
  <2>2. Below(y) \subseteq Below(x) /\ y \in Below(x) /\ y \notin Below(y)
    <3>1. y < x /\ ~(y < y) /\ \A z \in Nat : z < y => z < x
      BY <2>1
    <3>2. \A z \in T : z < y => z < x
      BY <1>1, <3>1
    <3>3. QED
      BY <3>1, <3>2
  <2>3. <<Below(y), Below(x)>> \in R
    <3> DEFINE a == Below(y)
               b == Below(x)
    <3>1. a \in SUBSET T /\ b \in SUBSET T /\ a \subseteq b /\ a # b
      BY <2>2
    <3> HIDE DEF a, b
    <3>2. <<a, b>> \in StrictSubsetOrdering(T)
      BY <3>1 DEF StrictSubsetOrdering
    <3>3. QED
      BY <3>2 DEF a, b
  <2>4. QED
    BY <1>4, <1>5, <2>3
<1>7. QED
  BY <1>5, <1>6 DEF First

LEMMA ToSetIn ==
  ASSUME NEW S, NEW q \in Seq(S)
  PROVE  ToSet(q) \subseteq S /\ (q # <<>> => Head(q) \in ToSet(q))
<1>1. \A k \in DOMAIN q : q[k] \in S
  OBVIOUS
<1>2. q # <<>> => 1 \in DOMAIN q /\ Head(q) = q[1]
  BY HeadTailProperties
<1>3. QED
  BY <1>1, <1>2 DEF ToSet

LEMMA AppendSet ==
  ASSUME NEW S, NEW q \in Seq(S), NEW e \in S
  PROVE  /\ Append(q, e) \in Seq(S) /\ ToSet(Append(q, e)) = ToSet(q) \cup {e}
         /\ Len(q) \in Nat /\ DOMAIN q = 1..Len(q)
         /\ Len(Append(q, e)) = Len(q) + 1 /\ DOMAIN Append(q, e) = 1..(Len(q) + 1)
         /\ \A k \in 1..Len(q) : Append(q, e)[k] = q[k]
         /\ Append(q, e)[Len(q) + 1] = e
<1> DEFINE r == Append(q, e)
<1>1. /\ r \in Seq(S) /\ Len(q) \in Nat /\ DOMAIN q = 1..Len(q)
      /\ Len(r) = Len(q) + 1 /\ DOMAIN r = 1..(Len(q) + 1)
      /\ \A k \in 1..Len(q) : r[k] = q[k]
      /\ r[Len(q) + 1] = e
  BY AppendProperties
<1> HIDE DEF r
<1>2. \A k \in DOMAIN r : k \in DOMAIN q \/ k = Len(q) + 1
  BY <1>1
<1>3. Len(q) + 1 \in DOMAIN r /\ DOMAIN q \subseteq DOMAIN r
  BY <1>1
<1>4. ToSet(r) = ToSet(q) \cup {e}
  <2>1. \A x \in ToSet(r) : x \in ToSet(q) \cup {e}
    BY <1>1, <1>2 DEF ToSet
  <2>2. \A x \in ToSet(q) \cup {e} : x \in ToSet(r)
    BY <1>1, <1>3 DEF ToSet
  <2>3. QED
    BY <2>1, <2>2
<1>5. QED
  BY <1>1, <1>4 DEF r

LEMMA SpanLeft ==
  ASSUME NEW l \in Nat, NEW n \in 1..l
  PROVE  (IF n + 1 <= l THEN l - (n + 1) + 1 ELSE 0) = l - n
  OBVIOUS

LEMMA RemoveAtSet ==
  ASSUME NEW S, NEW q \in Seq(S), NEW n \in 1..Len(q)
  PROVE  /\ RemoveAt(q, n) \in Seq(S)
         /\ Len(q) \in Nat /\ DOMAIN q = 1..Len(q)
         /\ Len(RemoveAt(q, n)) = Len(q) - 1 /\ DOMAIN RemoveAt(q, n) = 1..(Len(q) - 1)
         /\ \A k \in 1..(Len(q) - 1) : RemoveAt(q, n)[k] = IF k < n THEN q[k] ELSE q[k + 1]
<1> DEFINE a == SubSeq(q, 1, n - 1)
           b == SubSeq(q, n + 1, Len(q))
<1>1. Len(q) \in Nat /\ DOMAIN q = 1..Len(q)
  OBVIOUS
<1>2. /\ a \in Seq(S) /\ Len(a) = n - 1
      /\ \A k \in 1..(n - 1) : a[k] = q[k]
  <2>1. 1 \in 1..(Len(q) + 1) /\ n - 1 \in 0..Len(q)
    BY <1>1
  <2>2. /\ a \in Seq(S) /\ Len(a) = IF 1 <= n - 1 THEN n - 1 - 1 + 1 ELSE 0
        /\ \A k \in 1..(n - 1 - 1 + 1) : a[k] = q[1 + k - 1]
    BY <2>1, SubSeqProperties
  <2> HIDE DEF a
  <2>3. QED
    BY <1>1, <2>1, <2>2
<1>3. /\ b \in Seq(S) /\ Len(b) = Len(q) - n
      /\ \A k \in 1..(Len(q) - n) : b[k] = q[n + k]
  <2>1. n + 1 \in 1..(Len(q) + 1) /\ Len(q) \in 0..Len(q)
    BY <1>1
  <2>2. /\ b \in Seq(S) /\ Len(b) = IF n + 1 <= Len(q) THEN Len(q) - (n + 1) + 1 ELSE 0
        /\ \A k \in 1..(Len(q) - (n + 1) + 1) : b[k] = q[(n + 1) + k - 1]
    BY <2>1, SubSeqProperties
  <2> HIDE DEF b
  <2>3. Len(b) = Len(q) - n
    BY <1>1, <2>2, SpanLeft
  <2>4. \A k \in 1..(Len(q) - n) :
          k \in 1..(Len(q) - (n + 1) + 1) /\ (n + 1) + k - 1 = n + k
    BY <1>1
  <2>5. QED
    BY <2>2, <2>3, <2>4
<1> HIDE DEF a, b
<1>4. /\ a \o b \in Seq(S) /\ Len(a \o b) = Len(a) + Len(b)
      /\ \A k \in 1..(Len(a) + Len(b)) :
           (a \o b)[k] = IF k <= Len(a) THEN a[k] ELSE b[k - Len(a)]
  BY <1>2, <1>3, ConcatProperties
<1>5. Len(a) + Len(b) = Len(q) - 1
  BY <1>1, <1>2, <1>3
<1>6. ASSUME NEW k \in 1..(Len(q) - 1)
      PROVE  (a \o b)[k] = IF k < n THEN q[k] ELSE q[k + 1]
  <2>1. CASE k < n
    BY <1>1, <1>2, <1>4, <1>5, <2>1
  <2>2. CASE ~(k < n)
    <3>1. k - (n - 1) \in 1..(Len(q) - n) /\ n + (k - (n - 1)) = k + 1 /\ ~(k <= n - 1)
      BY <1>1, <2>2
    <3>2. QED
      BY <1>2, <1>3, <1>4, <1>5, <2>2, <3>1
  <2>3. QED
    BY <2>1, <2>2
<1> DEFINE r == a \o b
<1> HIDE DEF r
<1>7. r \in Seq(S) /\ Len(r) = Len(q) - 1
  BY <1>4, <1>5 DEF r
<1>8. DOMAIN r = 1..(Len(q) - 1)
  BY <1>7
<1>9. RemoveAt(q, n) = r
  BY DEF RemoveAt, r, a, b
<1>10. QED
  BY <1>1, <1>6, <1>7, <1>8, <1>9 DEF r

LEMMA WithoutIn ==
  ASSUME NEW s \in Seq(Sess), NEW id
  PROVE  Without(s, id) \in Seq(Sess) /\ ToSet(Without(s, id)) \subseteq ToSet(s)
<1>1. CASE id \notin ToSet(s)
  BY <1>1 DEF Without
<1>2. CASE id \in ToSet(s)
  <2> DEFINE n == CHOOSE k \in DOMAIN s : s[k] = id
  <2>1. n \in DOMAIN s
    BY <1>2 DEF ToSet
  <2> HIDE DEF n
  <2>2. n \in 1..Len(s)
    BY <2>1
  <2> DEFINE r == RemoveAt(s, n)
  <2>3. /\ r \in Seq(Sess) /\ Len(s) \in Nat /\ DOMAIN s = 1..Len(s)
        /\ DOMAIN r = 1..(Len(s) - 1)
        /\ \A k \in 1..(Len(s) - 1) : r[k] = IF k < n THEN s[k] ELSE s[k + 1]
    BY <2>2, RemoveAtSet
  <2>4. Without(s, id) = r
    BY <1>2 DEF Without, n
  <2> HIDE DEF r
  <2>5. \A k \in DOMAIN r : k \in DOMAIN s /\ k + 1 \in DOMAIN s
    BY <2>3
  <2>6. \A x \in ToSet(r) : x \in ToSet(s)
    BY <2>3, <2>5 DEF ToSet
  <2>7. QED
    BY <2>3, <2>4, <2>6
<1>3. QED
  BY <1>1, <1>2

LEMMA LastIn ==
  ASSUME NEW s \in Seq(Sess), s # <<>>
  PROVE  s[Len(s)] \in ToSet(s) /\ s[Len(s)] \in Sess
<1>1. Len(s) \in DOMAIN s
  OBVIOUS
<1>2. QED
  BY <1>1 DEF ToSet

LEMMA KeptIn ==
  ASSUME NEW s \in Seq(Sess), NEW kept \in SUBSET ToSet(s), NEW list \in Kept(s, kept)
  PROVE  list \in Seq(Sess) /\ (kept # {} => list # <<>>)
<1>1. ToSet(s) \subseteq Sess /\ IsFiniteSet(ToSet(s))
  <2>1. Len(s) \in Nat /\ s \in [1..Len(s) -> ToSet(s)] /\ DOMAIN s = 1..Len(s)
    BY DEF ToSet
  <2>2. s \in Surjection(1..Len(s), ToSet(s))
    BY <2>1, Zenon DEF Surjection, ToSet
  <2>3. IsFiniteSet(1..Len(s))
    BY <2>1, FS_Interval
  <2>4. QED
    BY <2>2, <2>3, FS_Surjection, ToSetIn
<1>2. IsFiniteSet(kept) /\ kept \subseteq Sess
  BY <1>1, FS_Subset
<1>3. Cardinality(kept) \in Nat /\ (kept # {} => Cardinality(kept) # 0)
  BY <1>2, FS_CardinalityType, FS_EmptySet
<1>4. list \in [1..Cardinality(kept) -> kept]
  BY DEF Kept
<1>5. list \in Seq(Sess) /\ Len(list) = Cardinality(kept)
  BY <1>2, <1>3, <1>4
<1>6. QED
  BY <1>3, <1>5

-----------------------------------------------------------------------------
(* Layouts *)

\* A layout with a new session in a visible pane, which no pane showed.
LEMMA PlaceKeeps ==
  ASSUME NEW sp \in Splits, Neat(sp), NEW i \in Visible(sp), NEW id \in Sess,
         \A j \in PaneIdx \ {i} : sp.panes[j] # id,
         NEW now \in Splits, now.mode = sp.mode, now.focused = i,
         now.panes = [sp.panes EXCEPT ![i] = id]
  PROVE  Neat(now) /\ ActiveIn(now, id) /\ \A j \in PaneIdx : now.panes[j] \in {sp.panes[j], id}
<1>1. i \in PaneIdx /\ id # None
  BY PaneFacts, NoneAssumption
<1>2. Visible(now) = Visible(sp) /\ (IsSplit(now) <=> IsSplit(sp))
  BY DEF Visible, IsSplit
<1>3. now.panes[i] = id /\ \A j \in PaneIdx \ {i} : now.panes[j] = sp.panes[j]
  BY <1>1, PaneFacts
<1>4. Neat(now)
  BY <1>2, <1>3 DEF Neat
<1>5. ActiveIn(now, id)
  BY <1>1, <1>2, <1>3 DEF ActiveIn, OnScreen
<1>6. QED
  BY <1>3, <1>4, <1>5

LEMMA ActivateKeeps ==
  ASSUME NEW sp \in Splits, Neat(sp), NEW id \in Sess, NEW listed
  PROVE  LET now == ActivateIn(sp, id, listed)
         IN  /\ now \in Splits /\ Neat(now) /\ now.mode = sp.mode /\ ActiveIn(now, id)
             /\ \A i \in PaneIdx : now.panes[i] \in {sp.panes[i], id}
<1> DEFINE now == ActivateIn(sp, id, listed)
<1>1. CASE ~IsSplit(sp)
  BY <1>1 DEF ActivateIn, ActiveIn
<1>2. CASE IsSplit(sp) /\ id \in OnScreen(sp)
  <2> DEFINE T == {i \in Visible(sp) : sp.panes[i] = id}
             at == First(T)
  <2>1. T # {} /\ T \in SUBSET (0..MaxPanes)
    BY <1>2, PaneFacts DEF OnScreen
  <2>2. at \in T
    BY <2>1, FirstIn
  <2>3. now = [sp EXCEPT !.focused = at]
    BY <1>2 DEF ActivateIn
  <2> HIDE DEF at
  <2>4. at \in Visible(sp) /\ sp.panes[at] = id /\ at \in PaneIdx
    BY <2>2, PaneFacts
  <2> HIDE DEF now, T
  <2>5. now \in Splits /\ now.mode = sp.mode /\ now.panes = sp.panes /\ now.focused = at
    BY <2>3, <2>4 DEF Splits
  <2>6. Visible(now) = Visible(sp) /\ (IsSplit(now) <=> IsSplit(sp)) /\ OnScreen(now) = OnScreen(sp)
    BY <2>5 DEF Visible, IsSplit, OnScreen
  <2>7. Neat(now)
    BY <2>4, <2>5, <2>6 DEF Neat
  <2>8. ActiveIn(now, id)
    BY <1>2, <2>4, <2>5, <2>6 DEF ActiveIn
  <2>9. QED
    BY <2>5, <2>7, <2>8 DEF now
<1>3. CASE IsSplit(sp) /\ id \notin OnScreen(sp)
  <2> DEFINE free == FreePanes(sp, listed)
             at == IF free # {} THEN First(free) ELSE sp.focused
  <2>1. free \in SUBSET (0..MaxPanes) /\ free \subseteq Visible(sp)
    BY PaneFacts DEF FreePanes
  <2>2. at \in Visible(sp)
    BY <2>1, FirstIn DEF Neat
  <2>3. now = [sp EXCEPT !.panes[at] = id, !.focused = at]
    BY <1>3 DEF ActivateIn
  <2> HIDE DEF at, free
  <2>4. \A j \in PaneIdx : sp.panes[j] # id
    BY <1>3, NoneAssumption DEF Neat, OnScreen
  <2> HIDE DEF now
  <2>5. \A j \in PaneIdx \ {at} : sp.panes[j] # id
    BY <2>4
  <2>6. /\ now \in Splits /\ now.mode = sp.mode /\ now.focused = at
        /\ now.panes = [sp.panes EXCEPT ![at] = id]
    <3>1. at \in PaneIdx /\ id \in Shown
      BY <2>2, PaneFacts DEF Shown
    <3>2. QED
      BY <2>3, <3>1 DEF Splits
  <2>7. Neat(now) /\ ActiveIn(now, id) /\ \A j \in PaneIdx : now.panes[j] \in {sp.panes[j], id}
    BY <2>2, <2>5, <2>6, PlaceKeeps
  <2>8. QED
    BY <2>6, <2>7 DEF now
<1>4. QED
  BY <1>1, <1>2, <1>3

-----------------------------------------------------------------------------
(* What a handler draws *)

\* A handler that makes layout sp and active session act, draws them and saves
\* a neat layout, keeps the screen in order.
LEMMA ScreenKeeps ==
  ASSUME ScreenInv, NEW sp \in Splits, Neat(sp), NEW act \in Shown, ActiveIn(sp, act),
         NEW listed \in SUBSET Sess, NEW open \in PaneIdx \cup {None},
         split' = sp, activeId' = act, bars' = BarsFor(sp, act, listed, open),
         menu' = IF open # None /\ bars'[open] = None THEN None ELSE open,
         saved' \in [split : Splits, active : Shown], Neat(saved'.split)
  PROVE  /\ ScreenInv'
         /\ Screen' \subseteq Screen \cup {None, act} \cup {sp.panes[i] : i \in PaneIdx}
<1>1. bars \in [PaneIdx -> Shown] /\ None \in Shown /\ None \notin listed
  BY NoneAssumption DEF ScreenInv, ScreenTypes, Shown
<1>2. ASSUME NEW i \in PaneIdx
      PROVE  /\ PaneSession(sp, act, i) \in {None, act, sp.panes[i]}
             /\ PaneSession(sp, act, i) # None => i \in Visible(sp)
  BY PaneFacts DEF PaneSession
<1>3. ASSUME NEW i \in PaneIdx
      PROVE  /\ bars'[i] \in {None, act, sp.panes[i], bars[i]}
             /\ bars'[i] # None => i \in Visible(sp)
  BY <1>1, <1>2 DEF BarsFor
<1>4. bars' \in [PaneIdx -> Shown]
  <2>1. \A i \in PaneIdx : sp.panes[i] \in Shown /\ bars[i] \in Shown
    BY <1>1, PaneFacts
  <2>2. bars' = [i \in PaneIdx |-> bars'[i]]
    BY DEF BarsFor
  <2>3. \A i \in PaneIdx : bars'[i] \in Shown
    BY <1>1, <1>3, <2>1
  <2>4. QED
    BY <2>2, <2>3
<1>5. menu' \in PaneIdx \cup {None} /\ BarInv'
  BY <1>3 DEF BarInv, Visible
<1>6. ScreenInv'
  BY <1>4, <1>5 DEF ScreenInv, ScreenTypes, Neat, ActiveIn, Visible, IsSplit, OnScreen
<1>7. QED
  BY <1>3, <1>6 DEF Screen

LEMMA ShowKeeps ==
  ASSUME ScreenInv, NEW sp \in Splits, Neat(sp), NEW id \in Sess,
         NEW listed \in SUBSET Sess, NEW open \in PaneIdx \cup {None},
         Show(sp, id, listed, open)
  PROVE  /\ ScreenInv'
         /\ Screen' \subseteq Screen \cup {None, id} \cup {sp.panes[i] : i \in PaneIdx}
<1> DEFINE now == ActivateIn(sp, id, listed)
<1>1. /\ now \in Splits /\ Neat(now) /\ ActiveIn(now, id)
      /\ \A i \in PaneIdx : now.panes[i] \in {sp.panes[i], id}
  BY ActivateKeeps
<1>2. /\ split' = now /\ activeId' = id /\ bars' = BarsFor(now, id, listed, open)
      /\ menu' = (IF open # None /\ bars'[open] = None THEN None ELSE open)
      /\ saved' = [split |-> IF IsSplit(now) THEN now ELSE saved.split, active |-> id]
  BY DEF Show
<1> HIDE DEF now
<1>3. id \in Shown
  BY DEF Shown
<1>4. saved' \in [split : Splits, active : Shown] /\ saved'.split \in {now, saved.split}
  BY <1>1, <1>2, <1>3 DEF ScreenInv, ScreenTypes
<1>5. Neat(saved'.split)
  BY <1>1, <1>4 DEF ScreenInv
<1>6. /\ ScreenInv'
      /\ Screen' \subseteq Screen \cup {None, id} \cup {now.panes[i] : i \in PaneIdx}
  BY <1>1, <1>2, <1>3, <1>4, <1>5, ScreenKeeps
<1>7. QED
  BY <1>1, <1>6

\* What is drawn without a session that becomes active.
LEMMA DrawKeeps ==
  ASSUME ScreenInv, NEW sp \in Splits, Neat(sp), ActiveIn(sp, activeId),
         NEW listed \in SUBSET Sess, NEW open \in PaneIdx \cup {None},
         Draw(sp, activeId, listed, open),
         saved' \in [split : Splits, active : Shown], saved'.split \in {sp, saved.split}
  PROVE  /\ ScreenInv'
         /\ Screen' \subseteq Screen \cup {None} \cup {sp.panes[i] : i \in PaneIdx}
<1>1. Neat(saved'.split) /\ activeId \in Shown /\ activeId \in Screen
  BY DEF ScreenInv, ScreenTypes, Screen
<1>2. /\ split' = sp /\ activeId' = activeId /\ bars' = BarsFor(sp, activeId, listed, open)
      /\ menu' = (IF open # None /\ bars'[open] = None THEN None ELSE open)
  BY DEF Draw
<1>3. /\ ScreenInv'
      /\ Screen' \subseteq Screen \cup {None, activeId} \cup {sp.panes[i] : i \in PaneIdx}
  BY <1>1, <1>2, ScreenKeeps
<1>4. QED
  BY <1>1, <1>3

\* A step that leaves the screen alone, but for the menu.
LEMMA MenuKeeps ==
  ASSUME ScreenInv, UNCHANGED <<split, activeId, saved, bars>>,
         menu' # None => menu' \in PaneIdx /\ bars[menu'] # None
  PROVE  ScreenInv' /\ Screen' = Screen
<1>1. ScreenTypes'
  BY DEF ScreenInv, ScreenTypes
<1>2. BarInv' /\ Neat(split') /\ Neat(saved'.split) /\ ActiveIn(split', activeId')
  BY DEF ScreenInv, BarInv
<1>3. QED
  BY <1>1, <1>2 DEF ScreenInv, Screen, Neat, ActiveIn, Visible, IsSplit, OnScreen

\* Sessions that are new to the page stay so in a step that shows only those it lists.
LEMMA NewKeeps ==
  ASSUME ListTypes, NewInv, UNCHANGED <<sessions, calls>>,
         Screen' \subseteq Screen \cup Listed \cup {None}
  PROVE  NewInv'
<1>1. \A c \in calls : c.id # None
  BY NoneAssumption DEF ListTypes, Calls
<1>2. QED
  BY <1>1 DEF NewInv, Listed

-----------------------------------------------------------------------------
(* Choosing what is on screen *)

\* The page shows a session it knows, in a layout of sessions it knows.
LEMMA ShowsKnown ==
  ASSUME SplitInv, NEW sp \in Splits, Neat(sp),
         \A i \in PaneIdx : sp.panes[i] \in Screen \cup Listed \cup {None},
         NEW id \in Sess, id \in Screen \cup Listed, NEW open \in PaneIdx \cup {None},
         Show(sp, id, Listed, open), UNCHANGED Backend
  PROVE  SplitInv'
<1>1. Listed \subseteq Sess
  BY ToSetIn DEF SplitInv, ListTypes, Listed
<1>2. ScreenInv' /\ Screen' \subseteq Screen \cup {None, id} \cup {sp.panes[i] : i \in PaneIdx}
  BY <1>1, ShowKeeps DEF SplitInv
<1>3. Screen' \subseteq Screen \cup Listed \cup {None}
  BY <1>2
<1>4. UNCHANGED <<alive, sessions, calls, rest>>
  BY DEF Backend
<1>5. NewInv'
  BY <1>3, <1>4, NewKeeps DEF SplitInv
<1>6. QED
  BY <1>2, <1>4, <1>5 DEF SplitInv, ListTypes

\* The page draws a layout of sessions it knows.
LEMMA DrawsKnown ==
  ASSUME SplitInv, NEW sp \in Splits, Neat(sp), ActiveIn(sp, activeId),
         \A i \in PaneIdx : sp.panes[i] \in Screen \cup Listed \cup {None},
         Draw(sp, activeId, Listed, None), saved' = [saved EXCEPT !.split = sp],
         UNCHANGED Backend
  PROVE  SplitInv'
<1>1. Listed \subseteq Sess
  BY ToSetIn DEF SplitInv, ListTypes, Listed
<1>2. saved' \in [split : Splits, active : Shown] /\ saved'.split = sp
  BY DEF SplitInv, ScreenInv, ScreenTypes
<1>3. ScreenInv' /\ Screen' \subseteq Screen \cup {None} \cup {sp.panes[i] : i \in PaneIdx}
  BY <1>1, <1>2, DrawKeeps DEF SplitInv
<1>4. UNCHANGED <<alive, sessions, calls, rest>> /\ Screen' \subseteq Screen \cup Listed \cup {None}
  BY <1>3 DEF Backend
<1>5. NewInv'
  BY <1>4, NewKeeps DEF SplitInv
<1>6. QED
  BY <1>3, <1>4, <1>5 DEF SplitInv, ListTypes

LEMMA MenuKnown ==
  ASSUME SplitInv, UNCHANGED <<split, activeId, saved, bars>>, UNCHANGED Backend,
         menu' # None => menu' \in PaneIdx /\ bars[menu'] # None
  PROVE  SplitInv'
<1>1. ScreenInv' /\ Screen' = Screen
  BY MenuKeeps DEF SplitInv
<1>2. UNCHANGED <<alive, sessions, calls, rest>>
  BY DEF Backend
<1>3. NewInv'
  BY <1>1, <1>2, NewKeeps DEF SplitInv
<1>4. QED
  BY <1>1, <1>2, <1>3 DEF SplitInv, ListTypes

LEMMA Now ==
  ASSUME SplitInv
  PROVE  /\ split \in Splits /\ Neat(split) /\ ActiveIn(split, activeId)
         /\ Listed \subseteq Sess /\ menu \in PaneIdx \cup {None} /\ None \in PaneIdx \cup {None}
         /\ \A i \in PaneIdx : /\ split.panes[i] \in Screen /\ split.panes[i] \in Shown
                                /\ bars[i] \in Screen /\ bars[i] \in Shown
  BY ToSetIn, PaneFacts
     DEF SplitInv, ScreenInv, ScreenTypes, ListTypes, Listed, Screen

\* The focus moves to another pane on screen.
LEMMA FocusKeeps ==
  ASSUME NEW sp \in Splits, Neat(sp), NEW i \in Visible(sp),
         NEW now, now = [sp EXCEPT !.focused = i]
  PROVE  /\ now \in Splits /\ Neat(now) /\ now.panes = sp.panes /\ now.focused = i
         /\ OnScreen(now) = OnScreen(sp) /\ (IsSplit(now) <=> IsSplit(sp))
<1>1. i \in PaneIdx
  BY PaneFacts
<1>2. now \in Splits /\ now.mode = sp.mode /\ now.panes = sp.panes /\ now.focused = i
  BY <1>1 DEF Splits
<1>3. QED
  BY <1>2 DEF Neat, Visible, OnScreen, IsSplit

LEMMA ActivateStep ==
  ASSUME SplitInv, NEW id \in Sess, Activate(id) \/ RevealSession(id) PROVE SplitInv'
<1>1. id \in Listed /\ UNCHANGED Backend
      /\ (Show(split, id, Listed, None) \/ Show(split, id, Listed, menu))
  BY DEF Activate, RevealSession
<1>2. QED
  BY <1>1, Now, ShowsKnown

LEMMA RunPresetStep == ASSUME SplitInv, NEW i \in PaneIdx, RunPreset(i) PROVE SplitInv'
<1>1. bars[i] # None /\ UNCHANGED Backend
  BY DEF RunPreset
<1>2. bars[i] \in Sess /\ bars[i] \in Screen
  BY <1>1, Now DEF Shown
<1>3. CASE bars[i] # activeId
  <2>1. Show(split, bars[i], Listed, None)
    BY <1>3 DEF RunPreset
  <2>2. QED
    BY <1>1, <1>2, <2>1, Now, ShowsKnown
<1>4. CASE bars[i] = activeId
  <2>1. menu' = None /\ UNCHANGED <<split, activeId, saved, bars>>
    BY <1>4 DEF RunPreset
  <2>2. QED
    BY <1>1, <2>1, MenuKnown
<1>5. QED
  BY <1>3, <1>4

LEMMA FocusPaneStep == ASSUME SplitInv, NEW i \in PaneIdx, FocusPane(i) PROVE SplitInv'
<1> DEFINE sp == [split EXCEPT !.focused = i]
<1>1. i \in Visible(split) /\ UNCHANGED Backend
  BY DEF FocusPane
<1>2. /\ sp \in Splits /\ Neat(sp) /\ sp.panes = split.panes /\ sp.focused = i
      /\ OnScreen(sp) = OnScreen(split) /\ (IsSplit(sp) <=> IsSplit(split))
  BY <1>1, Now, FocusKeeps
<1>3. IF sp.panes[i] # None THEN Show(sp, sp.panes[i], Listed, None)
      ELSE Draw(sp, activeId, Listed, None) /\ saved' = [saved EXCEPT !.split = sp]
  BY DEF FocusPane
<1> HIDE DEF sp
<1>4. \A j \in PaneIdx : sp.panes[j] \in Screen \cup Listed \cup {None}
  BY <1>2, Now
<1>5. CASE sp.panes[i] # None
  <2>1. sp.panes[i] \in Sess /\ sp.panes[i] \in Screen \cup Listed
    BY <1>2, <1>5, Now DEF Shown
  <2>2. QED
    BY <1>1, <1>2, <1>3, <1>4, <1>5, <2>1, Now, ShowsKnown
<1>6. CASE sp.panes[i] = None
  <2>1. ActiveIn(sp, activeId)
    BY <1>2, <1>6, Now DEF ActiveIn
  <2>2. QED
    BY <1>1, <1>2, <1>3, <1>4, <1>6, <2>1, DrawsKnown
<1>7. QED
  BY <1>5, <1>6

LEMMA ModIn == ASSUME NEW n \in Nat, n > 0, NEW x \in Int PROVE x % n \in 0..(n - 1)
  OBVIOUS

LEMMA CycleStep == ASSUME SplitInv, NEW step \in {1, -1}, CyclePaneFocus(step) PROVE SplitInv'
<1> DEFINE n == Count[split.mode]
           At(k) == (split.focused + step * k) % n
           usable == {k \in 1..n : split.panes[At(k)] \in Listed}
           i == At(First(usable))
           sp == [split EXCEPT !.focused = i]
<1>1. usable # {} /\ Show(sp, split.panes[i], Listed, None) /\ UNCHANGED Backend
  BY DEF CyclePaneFocus
<1>2. n \in Nat /\ n > 0 /\ n <= MaxPanes /\ split.focused \in Nat /\ MaxPanes \in Nat
  BY PaneFacts, Now
<1> HIDE DEF n
<1>3. usable \subseteq 0..MaxPanes
  BY <1>2
<1>4. First(usable) \in usable
  <2> HIDE DEF usable
  <2>1. QED
    BY <1>1, <1>3, FirstIn
<1>5. i \in 0..(n - 1) /\ split.panes[i] \in Listed
  <2>1. First(usable) \in 1..n /\ split.panes[i] \in Listed
    BY <1>4
  <2> DEFINE k == First(usable)
  <2>2. k \in 1..n
    BY <2>1
  <2> HIDE DEF k, usable
  <2>3. step * k \in Int
    BY <1>2, <2>2
  <2>4. split.focused + step * k \in Int
    BY <1>2, <2>3
  <2>5. At(k) \in 0..(n - 1)
    BY <1>2, <2>4, ModIn
  <2>6. QED
    BY <2>1, <2>5 DEF k
<1> HIDE DEF i
<1>6. i \in Visible(split)
  BY <1>5 DEF Visible, n
<1>7. sp \in Splits /\ Neat(sp) /\ sp.panes = split.panes
  BY <1>6, Now, FocusKeeps
<1> HIDE DEF sp
<1>8. \A j \in PaneIdx : sp.panes[j] \in Screen \cup Listed \cup {None}
  BY <1>7, Now
<1>9. QED
  BY <1>1, <1>5, <1>7, <1>8, Now, ShowsKnown

LEMMA AssignStep ==
  ASSUME SplitInv, NEW i \in PaneIdx, NEW id \in Sess, AssignPaneSession(i, id) PROVE SplitInv'
<1> DEFINE sp == [split EXCEPT !.panes[i] = id, !.focused = i]
<1>1. i \in Visible(split) /\ id \in Listed /\ id \notin OnScreen(split)
  BY DEF AssignPaneSession, Pickable
<1>2. Show(sp, id, Listed, None) /\ UNCHANGED Backend
  BY DEF AssignPaneSession
<1>3. \A j \in PaneIdx : split.panes[j] # id
  BY <1>1, NoneAssumption, Now DEF OnScreen, Neat
<1>4. /\ sp \in Splits /\ sp.mode = split.mode /\ sp.focused = i
      /\ sp.panes = [split.panes EXCEPT ![i] = id]
  BY Now DEF Splits, Shown
<1> HIDE DEF sp
<1>5. Neat(sp) /\ \A j \in PaneIdx : sp.panes[j] \in {split.panes[j], id}
  BY <1>1, <1>3, <1>4, Now, PlaceKeeps
<1>6. \A j \in PaneIdx : sp.panes[j] \in Screen \cup Listed \cup {None}
  BY <1>1, <1>5, Now
<1>7. QED
  BY <1>1, <1>2, <1>4, <1>5, <1>6, Now, ShowsKnown

LEMMA MenuStep ==
  ASSUME SplitInv, (\E i \in PaneIdx : ToggleSessionSwitchMenu(i)) \/ CloseSessionSwitchMenus
  PROVE  SplitInv'
<1>1. UNCHANGED <<split, activeId, saved, bars>> /\ UNCHANGED Backend
  BY DEF ToggleSessionSwitchMenu, CloseSessionSwitchMenus, Backend
<1>2. menu' # None => menu' \in PaneIdx /\ bars[menu'] # None
  BY DEF ToggleSessionSwitchMenu, CloseSessionSwitchMenus
<1>3. QED
  BY <1>1, <1>2, MenuKnown

LEMMA SwitchStep == ASSUME SplitInv, NEW id \in Sess, SwitchPaneSession(id) PROVE SplitInv'
<1> DEFINE panes == [j \in PaneIdx |-> IF j = menu THEN id
                                       ELSE IF split.panes[j] = id THEN None
                                       ELSE split.panes[j]]
           sp == [split EXCEPT !.panes = panes, !.focused = menu]
<1>1. menu # None /\ UNCHANGED Backend
      /\ IF id \in Listed
           THEN Show(IF IsSplit(split) THEN sp ELSE split, id, Listed, None)
           ELSE menu' = None /\ UNCHANGED <<split, activeId, saved, bars>>
  BY DEF SwitchPaneSession
<1>2. menu \in PaneIdx /\ menu \in Visible(split)
  BY <1>1 DEF SplitInv, ScreenInv, BarInv
<1>3. CASE id \notin Listed
  BY <1>1, <1>3, MenuKnown
<1>4. CASE id \in Listed /\ ~IsSplit(split)
  BY <1>1, <1>4, Now, ShowsKnown
<1>5. CASE id \in Listed /\ IsSplit(split)
  <2>1. panes \in [PaneIdx -> Shown] /\ panes[menu] = id
        /\ \A j \in PaneIdx \ {menu} :
             panes[j] = IF split.panes[j] = id THEN None ELSE split.panes[j]
    BY <1>2, Now DEF Shown
  <2> HIDE DEF panes
  <2>2. sp \in Splits /\ sp.mode = split.mode /\ sp.panes = panes /\ sp.focused = menu
    BY <1>2, <2>1, Now DEF Splits
  <2> HIDE DEF sp
  <2>3. Visible(sp) = Visible(split)
    BY <2>2 DEF Visible
  <2>4. id # None
    BY NoneAssumption
  <2>5. Neat(sp)
    <3>1. \A i, j \in PaneIdx : panes[i] = panes[j] /\ i # j => panes[i] = None
      BY <2>1, <2>4, Now DEF Neat
    <3>2. \A i \in PaneIdx \ Visible(split) : panes[i] = None
      BY <1>2, <2>1, Now DEF Neat
    <3>3. QED
      BY <1>2, <2>2, <2>3, <3>1, <3>2 DEF Neat
  <2>6. \A j \in PaneIdx : sp.panes[j] \in Screen \cup Listed \cup {None}
    BY <1>5, <2>1, <2>2, Now
  <2>7. QED
    BY <1>1, <1>5, <2>2, <2>5, <2>6, Now, ShowsKnown
<1>6. QED
  BY <1>3, <1>4, <1>5

\* The pane whose session a move brings to pane i.
Source(from, at, i) ==
  IF i = at THEN from
  ELSE IF from <= i /\ i < at THEN i + 1
  ELSE IF at < i /\ i <= from THEN i - 1
  ELSE i

LEMMA MovedFrom ==
  ASSUME NEW sp \in Splits, NEW from \in Visible(sp), NEW at \in Visible(sp)
  PROVE  /\ Moved(sp, from, at) \in [PaneIdx -> Shown]
         /\ \A i \in PaneIdx :
              /\ Source(from, at, i) \in PaneIdx
              /\ Moved(sp, from, at)[i] = sp.panes[Source(from, at, i)]
              /\ Source(from, at, i) \in Visible(sp) <=> i \in Visible(sp)
<1>1. /\ Count[sp.mode] \in Nat /\ Count[sp.mode] <= MaxPanes /\ MaxPanes \in Nat
      /\ from \in PaneIdx /\ at \in PaneIdx /\ sp.panes \in [PaneIdx -> Shown]
  BY PaneFacts
<1>2. /\ from \in Nat /\ from < Count[sp.mode] /\ at \in Nat /\ at < Count[sp.mode]
  BY <1>1 DEF Visible
<1>3. ASSUME NEW i \in PaneIdx
      PROVE  /\ Source(from, at, i) \in PaneIdx
             /\ Moved(sp, from, at)[i] = sp.panes[Source(from, at, i)]
             /\ Source(from, at, i) \in Visible(sp) <=> i \in Visible(sp)
  <2>1. i \in Nat /\ i < MaxPanes
    BY <1>1 DEF PaneIdx
  <2>2. PICK k : k = Source(from, at, i)
    OBVIOUS
  <2>3. k \in Nat /\ k < MaxPanes /\ (k < Count[sp.mode] <=> i < Count[sp.mode])
    BY <1>1, <1>2, <2>1, <2>2 DEF Source
  <2>4. Moved(sp, from, at)[i] = sp.panes[k]
    BY <2>2 DEF Moved, Source
  <2>5. k \in PaneIdx /\ (k \in Visible(sp) <=> i \in Visible(sp))
    BY <1>1, <2>1, <2>3 DEF PaneIdx, Visible
  <2>6. QED
    BY <2>2, <2>4, <2>5
<1>4. Moved(sp, from, at) \in [PaneIdx -> Shown]
  <2>1. \A i \in PaneIdx : Moved(sp, from, at)[i] \in Shown
    BY <1>1, <1>3
  <2>2. Moved(sp, from, at) = [i \in PaneIdx |-> Moved(sp, from, at)[i]]
    BY DEF Moved
  <2>3. QED
    BY <2>1, <2>2
<1>5. QED
  BY <1>3, <1>4

\* A move takes every session on screen to a pane of its own.
LEMMA SourceIsOneToOne ==
  ASSUME NEW sp \in Splits, NEW from \in Visible(sp), NEW at \in Visible(sp)
  PROVE  /\ \A i, j \in PaneIdx : Source(from, at, i) = Source(from, at, j) => i = j
         /\ \A k \in Visible(sp) : \E i \in Visible(sp) : Source(from, at, i) = k
         /\ Source(from, at, at) = from
<1>1. PaneIdx \subseteq Nat /\ from \in Nat /\ at \in Nat /\ from \in PaneIdx /\ at \in PaneIdx
  BY PaneFacts
<1>2. \A i, j \in Nat : Source(from, at, i) = Source(from, at, j) => i = j
  BY <1>1 DEF Source
<1>3. ASSUME NEW k \in Visible(sp) PROVE \E i \in Visible(sp) : Source(from, at, i) = k
  <2> DEFINE i == IF k = from THEN at ELSE IF at <= k /\ k < from THEN k + 1
                  ELSE IF from < k /\ k <= at THEN k - 1 ELSE k
  <2>1. /\ Count[sp.mode] \in Nat /\ k \in Nat /\ k < Count[sp.mode]
        /\ from \in Nat /\ from < Count[sp.mode] /\ at \in Nat /\ at < Count[sp.mode]
    BY PaneFacts DEF Visible
  <2>2. i \in Nat /\ i < Count[sp.mode] /\ Source(from, at, i) = k
    BY <2>1 DEF Source
  <2> HIDE DEF i
  <2>3. i \in Visible(sp)
    BY <2>1, <2>2 DEF Visible
  <2>4. QED
    BY <2>2, <2>3
<1>4. QED
  BY <1>1, <1>2, <1>3 DEF Source

LEMMA MovedKeeps ==
  ASSUME NEW sp \in Splits, Neat(sp), NEW from \in Visible(sp), NEW at \in Visible(sp),
         NEW now \in Splits, now.mode = sp.mode, now.panes = Moved(sp, from, at), now.focused = at
  PROVE  /\ Neat(now) /\ OnScreen(now) = OnScreen(sp) /\ (IsSplit(now) <=> IsSplit(sp))
         /\ now.panes[at] = sp.panes[from]
         /\ \A i \in PaneIdx : \E k \in PaneIdx : now.panes[i] = sp.panes[k]
<1>1. \A i \in PaneIdx : /\ Source(from, at, i) \in PaneIdx
                         /\ now.panes[i] = sp.panes[Source(from, at, i)]
                         /\ Source(from, at, i) \in Visible(sp) <=> i \in Visible(sp)
  BY MovedFrom
<1>2. Visible(sp) \subseteq PaneIdx /\ at \in PaneIdx
  BY PaneFacts
<1>3. Visible(now) = Visible(sp) /\ (IsSplit(now) <=> IsSplit(sp))
  BY DEF Visible, IsSplit
<1>4. OnScreen(now) = OnScreen(sp)
  <2>1. ASSUME NEW x \in OnScreen(now) PROVE x \in OnScreen(sp)
    <3>1. x # None /\ \E i \in Visible(sp) : x = now.panes[i]
      BY <1>3, <2>1 DEF OnScreen
    <3>2. \E k \in Visible(sp) : x = sp.panes[k]
      BY <1>1, <1>2, <3>1
    <3>3. QED
      BY <3>1, <3>2 DEF OnScreen
  <2>2. ASSUME NEW x \in OnScreen(sp) PROVE x \in OnScreen(now)
    <3>1. x # None /\ \E k \in Visible(sp) : x = sp.panes[k]
      BY <2>2 DEF OnScreen
    <3>2. PICK k \in Visible(sp) : x = sp.panes[k]
      BY <3>1
    <3>3. PICK i \in Visible(sp) : Source(from, at, i) = k
      BY SourceIsOneToOne
    <3>4. x = now.panes[i]
      BY <1>1, <1>2, <3>2, <3>3
    <3>5. QED
      BY <1>3, <3>1, <3>4 DEF OnScreen
  <2>3. QED
    BY <2>1, <2>2
<1>5. Neat(now)
  <2>1. \A i, j \in PaneIdx : i # j => Source(from, at, i) # Source(from, at, j)
    BY SourceIsOneToOne
  <2>2. \A i, j \in PaneIdx : now.panes[i] = now.panes[j] /\ i # j => now.panes[i] = None
    BY <1>1, <2>1 DEF Neat
  <2>3. \A i \in PaneIdx \ Visible(now) : now.panes[i] = None
    BY <1>1, <1>3 DEF Neat
  <2>4. QED
    BY <1>3, <2>2, <2>3 DEF Neat
<1>6. now.panes[at] = sp.panes[from]
  <2>1. Source(from, at, at) = from
    BY SourceIsOneToOne
  <2>2. QED
    BY <1>1, <1>2, <2>1
<1>7. QED
  BY <1>1, <1>3, <1>4, <1>5, <1>6

LEMMA DragStep ==
  ASSUME SplitInv, NEW from \in PaneIdx, NEW ins \in 0..MaxPanes, DragPane(from, ins)
  PROVE  SplitInv'
<1> DEFINE at == IF from < ins THEN ins - 1 ELSE ins
           sp == [split EXCEPT !.panes = Moved(split, from, at), !.focused = at]
<1>1. /\ IsSplit(split) /\ from \in Visible(split) /\ ins \in 0..Count[split.mode]
      /\ ins \notin {from, from + 1} /\ UNCHANGED Backend
      /\ IF split.panes[from] # None THEN Show(sp, split.panes[from], Listed, None)
         ELSE Draw(sp, activeId, Listed, None) /\ saved' = [saved EXCEPT !.split = sp]
  BY DEF DragPane
<1>2. at \in Visible(split)
  <2>1. Count[split.mode] \in Nat /\ from \in Nat /\ from < Count[split.mode]
    BY <1>1, PaneFacts, Now DEF Visible
  <2>2. at \in Nat /\ at < Count[split.mode]
    BY <1>1, <2>1
  <2> HIDE DEF at
  <2>3. QED
    BY <2>1, <2>2 DEF Visible
<1> HIDE DEF at
<1>3. at \in PaneIdx /\ Moved(split, from, at) \in [PaneIdx -> Shown]
  BY <1>1, <1>2, Now, PaneFacts, MovedFrom
<1>4. /\ sp \in Splits /\ sp.mode = split.mode /\ sp.panes = Moved(split, from, at)
      /\ sp.focused = at
  BY <1>3, Now DEF Splits
<1> HIDE DEF sp
<1>5. /\ Neat(sp) /\ OnScreen(sp) = OnScreen(split) /\ (IsSplit(sp) <=> IsSplit(split))
      /\ sp.panes[at] = split.panes[from]
      /\ \A i \in PaneIdx : \E k \in PaneIdx : sp.panes[i] = split.panes[k]
  BY <1>1, <1>2, <1>4, Now, MovedKeeps
<1>6. \A j \in PaneIdx : sp.panes[j] \in Screen \cup Listed \cup {None}
  BY <1>5, Now
<1>7. CASE split.panes[from] # None
  <2>1. split.panes[from] \in Sess /\ split.panes[from] \in Screen \cup Listed
    BY <1>7, Now DEF Shown
  <2>2. QED
    BY <1>1, <1>4, <1>5, <1>6, <1>7, <2>1, Now, ShowsKnown
<1>8. CASE split.panes[from] = None
  <2>1. ActiveIn(sp, activeId)
    BY <1>4, <1>5, <1>8, Now DEF ActiveIn
  <2>2. QED
    BY <1>1, <1>4, <1>5, <1>6, <1>8, <2>1, DrawsKnown
<1>9. QED
  BY <1>7, <1>8

\* The sessions on screen move up to the first panes, each to its own.
LEMMA PackedPanes ==
  ASSUME NEW n
  PROVE  /\ Packed(split, n) \in [PaneIdx -> {split.panes[j] : j \in Visible(split)} \cup {None}]
         /\ \A i \in PaneIdx : Packed(split, n)[i] # None => i < n
         /\ SplitInv => \A i, k \in PaneIdx :
              Packed(split, n)[i] = Packed(split, n)[k] /\ i # k => Packed(split, n)[i] = None
<1> DEFINE Fits(i, j) == split.panes[j] # None /\ Rank(split, j) = i
           From(i) == CHOOSE j \in Visible(split) : split.panes[j] # None /\ Rank(split, j) = i
<1>1. ASSUME NEW i \in PaneIdx
      PROVE  \/ Packed(split, n)[i] = None
             \/ /\ i < n /\ From(i) \in Visible(split) /\ Rank(split, From(i)) = i
                /\ Packed(split, n)[i] = split.panes[From(i)]
  BY DEF Packed
<1> HIDE DEF From
<1>2. Packed(split, n) = [i \in PaneIdx |-> Packed(split, n)[i]]
  BY DEF Packed
<1>3. \A i \in PaneIdx : Packed(split, n)[i] \in {split.panes[j] : j \in Visible(split)} \cup {None}
  BY <1>1
<1>4. ASSUME SplitInv, NEW i \in PaneIdx, NEW k \in PaneIdx, i # k,
             Packed(split, n)[i] = Packed(split, n)[k], Packed(split, n)[i] # None
      PROVE  FALSE
  <2>1. /\ From(i) \in Visible(split) /\ Rank(split, From(i)) = i
        /\ From(k) \in Visible(split) /\ Rank(split, From(k)) = k
        /\ split.panes[From(i)] = split.panes[From(k)] /\ split.panes[From(i)] # None
    BY <1>1, <1>4
  <2>2. From(i) \in PaneIdx /\ From(k) \in PaneIdx
    BY <1>4, <2>1, Now, PaneFacts
  <2>3. From(i) = From(k)
    BY <1>4, <2>1, <2>2, Now DEF Neat
  <2>4. QED
    BY <1>4, <2>1, <2>3
<1>5. QED
  BY <1>1, <1>2, <1>3, <1>4

\* What setSplitMode makes of the layout.
LEMMA ModeLayout ==
  ASSUME NEW m \in Modes, NEW next \in [PaneIdx -> Shown], NEW focus \in PaneIdx,
         \A i, j \in PaneIdx : next[i] = next[j] /\ i # j => next[i] = None,
         \A i \in PaneIdx : next[i] # None => i < Count[m],
         next[focus] # None \/ focus = 0, activeId # None => next[focus] # None,
         NEW alone \in [PaneIdx -> Shown], \A i \in PaneIdx \ {0} : alone[i] = None,
         NEW sp, sp = IF m = Single THEN [mode |-> m, panes |-> alone, focused |-> 0]
                      ELSE [mode |-> m, panes |-> next, focused |-> focus]
  PROVE  /\ sp \in Splits /\ Neat(sp) /\ sp.focused \in PaneIdx
         /\ IsSplit(sp) /\ activeId # None => sp.panes[sp.focused] # None
         /\ sp.panes \in {alone, next}
<1>1. CASE m = Single
  <2>1. /\ sp.mode = m /\ sp.focused = 0 /\ sp.panes = alone
        /\ sp = [mode |-> sp.mode, panes |-> sp.panes, focused |-> sp.focused]
    BY <1>1
  <2>2. sp \in Splits /\ 0 \in PaneIdx
    BY <2>1, PaneFacts DEF Splits
  <2>3. 0 \in Visible(sp) /\ (IsSplit(sp) <=> sp.mode # Single)
    BY <2>2, PaneFacts
  <2>4. Neat(sp)
    BY <2>1, <2>3 DEF Neat
  <2>5. QED
    BY <1>1, <2>1, <2>2, <2>3, <2>4
<1>2. CASE m # Single
  <2>1. /\ sp.mode = m /\ sp.focused = focus /\ sp.panes = next
        /\ sp = [mode |-> sp.mode, panes |-> sp.panes, focused |-> sp.focused]
    BY <1>2
  <2>2. sp \in Splits
    BY <2>1 DEF Splits
  <2>3. /\ Visible(sp) \subseteq PaneIdx /\ 0 \in Visible(sp)
        /\ \A i \in PaneIdx : i < Count[m] => i \in Visible(sp)
    BY <2>1, <2>2, PaneFacts DEF Visible
  <2>4. sp.focused \in Visible(sp)
    BY <2>1, <2>3
  <2>5. \A i \in PaneIdx \ Visible(sp) : next[i] = None
    BY <2>3
  <2>6. Neat(sp)
    BY <2>1, <2>4, <2>5 DEF Neat
  <2>7. QED
    BY <2>1, <2>2, <2>6
<1>3. QED
  BY <1>1, <1>2

LEMMA ModeStep == ASSUME SplitInv, NEW m \in Modes, SetSplitMode(m) PROVE SplitInv'
<1> DEFINE wasSplit == IsSplit(split)
           first == IF OnScreen(split) = {} THEN None
                    ELSE split.panes[First({i \in Visible(split) : split.panes[i] # None})]
           keep == IF split.panes[split.focused] # None THEN split.panes[split.focused]
                   ELSE IF first # None THEN first ELSE activeId
           packed == IF wasSplit THEN Packed(split, Count[m])
                     ELSE [EmptyPanes EXCEPT ![0] = activeId]
           next == IF (\A i \in PaneIdx : packed[i] # activeId) /\ packed[0] = None
                   THEN [packed EXCEPT ![0] = activeId] ELSE packed
           wanted == IF wasSplit THEN split.panes[split.focused] ELSE activeId
           home == IF wanted = None THEN {} ELSE {i \in PaneIdx : next[i] = wanted}
           filled == {i \in PaneIdx : next[i] # None}
           focus == IF home # {} THEN First(home) ELSE IF filled # {} THEN First(filled) ELSE 0
           sp == IF m = Single
                 THEN [mode |-> m, panes |-> [EmptyPanes EXCEPT ![0] = keep], focused |-> 0]
                 ELSE [mode |-> m, panes |-> next, focused |-> focus]
           shown == sp.panes[sp.focused]
           now == ActivateIn(sp, shown, Listed)
           Known == Screen \cup {None}
<1>1. /\ menu' = None /\ UNCHANGED Backend
      /\ IF shown # None /\ (m = Single \/ shown # activeId)
          THEN /\ split' = now /\ activeId' = shown
               /\ saved' = [split |-> now, active |-> shown]
               /\ bars' = BarsFor(now, shown, Listed, None)
          ELSE /\ split' = sp /\ UNCHANGED activeId
               /\ saved' = [saved EXCEPT !.split = sp]
               /\ bars' = BarsFor(sp, activeId, Listed, None)
  BY DEF SetSplitMode
<1>2. /\ split \in Splits /\ activeId \in Shown /\ activeId \in Screen /\ None \in Shown
      /\ split.focused \in PaneIdx /\ Visible(split) \subseteq PaneIdx /\ 0 \in PaneIdx
      /\ \A i \in PaneIdx : split.panes[i] \in Shown /\ split.panes[i] \in Screen
      /\ Count[m] \in Nat /\ Count[m] > 0 /\ PaneIdx \subseteq 0..MaxPanes
      /\ Listed \subseteq Sess /\ saved \in [split : Splits, active : Shown]
  BY Now, PaneFacts DEF SplitInv, ScreenInv, ScreenTypes, Screen, Shown
<1>3. first \in Shown /\ first \in Known
  <2> DEFINE T == {i \in Visible(split) : split.panes[i] # None}
  <2>1. CASE OnScreen(split) = {}
    BY <1>2, <2>1
  <2>2. CASE OnScreen(split) # {}
    <3>1. T # {} /\ T \in SUBSET (0..MaxPanes)
      BY <1>2, <2>2 DEF OnScreen
    <3> HIDE DEF T
    <3>2. First(T) \in T
      BY <3>1, FirstIn
    <3>3. First(T) \in PaneIdx
      BY <1>2, <3>2 DEF T
    <3>4. QED
      BY <1>2, <2>2, <3>3 DEF T
  <2>3. QED
    BY <2>1, <2>2
<1> HIDE DEF first
<1>4. keep \in Shown /\ keep \in Known
  BY <1>2, <1>3
<1> HIDE DEF keep
<1>5. /\ packed \in [PaneIdx -> Shown] /\ (\A i \in PaneIdx : packed[i] \in Known)
      /\ \A i, j \in PaneIdx : packed[i] = packed[j] /\ i # j => packed[i] = None
      /\ \A i \in PaneIdx : packed[i] # None => i < Count[m]
  <2>1. CASE wasSplit
    <3>1. packed = Packed(split, Count[m])
      BY <2>1
    <3> HIDE DEF packed
    <3>2. packed \in [PaneIdx -> {split.panes[j] : j \in Visible(split)} \cup {None}]
      BY <3>1, PackedPanes
    <3>3. \A x \in {split.panes[j] : j \in Visible(split)} \cup {None} : x \in Shown /\ x \in Known
      BY <1>2
    <3>4. /\ \A i, j \in PaneIdx : packed[i] = packed[j] /\ i # j => packed[i] = None
          /\ \A i \in PaneIdx : packed[i] # None => i < Count[m]
      BY <3>1, PackedPanes
    <3>5. QED
      BY <3>2, <3>3, <3>4
  <2>2. CASE ~wasSplit
    <3>1. packed = [EmptyPanes EXCEPT ![0] = activeId]
      BY <2>2
    <3> HIDE DEF packed
    <3>2. EmptyPanes \in [PaneIdx -> Shown] /\ \A i \in PaneIdx : EmptyPanes[i] = None
      BY <1>2 DEF EmptyPanes
    <3>3. /\ packed \in [PaneIdx -> Shown] /\ packed[0] = activeId
          /\ \A i \in PaneIdx \ {0} : packed[i] = None
      BY <1>2, <3>1, <3>2
    <3>4. QED
      BY <1>2, <3>3
  <2>3. QED
    BY <2>1, <2>2
<1> HIDE DEF packed
<1>6. /\ next \in [PaneIdx -> Shown] /\ (\A i \in PaneIdx : next[i] \in Known)
      /\ \A i, j \in PaneIdx : next[i] = next[j] /\ i # j => next[i] = None
      /\ \A i \in PaneIdx : next[i] # None => i < Count[m]
      /\ activeId # None => \E i \in PaneIdx : next[i] # None
  <2>1. CASE (\A i \in PaneIdx : packed[i] # activeId) /\ packed[0] = None
    <3>1. next = [packed EXCEPT ![0] = activeId]
      BY <2>1
    <3> HIDE DEF next
    <3>2. /\ next \in [PaneIdx -> Shown] /\ next[0] = activeId
          /\ \A i \in PaneIdx \ {0} : next[i] = packed[i]
      BY <1>2, <1>5, <3>1
    <3>3. QED
      BY <1>2, <1>5, <2>1, <3>2
  <2>2. CASE ~((\A i \in PaneIdx : packed[i] # activeId) /\ packed[0] = None)
    <3>1. next = packed
      BY <2>2
    <3> HIDE DEF next
    <3>2. QED
      BY <1>2, <1>5, <2>2, <3>1
  <2>3. QED
    BY <2>1, <2>2
<1> HIDE DEF next
<1> HIDE DEF wanted
<1>8. focus \in PaneIdx /\ (next[focus] # None \/ focus = 0) /\ (activeId # None => next[focus] # None)
  <2>1. home \in SUBSET (0..MaxPanes) /\ filled \in SUBSET (0..MaxPanes) /\ home \subseteq filled
    BY <1>2
  <2>2. (home # {} => First(home) \in home) /\ (filled # {} => First(filled) \in filled)
    <3> HIDE DEF home, filled
    <3>1. QED
      BY <2>1, FirstIn
  <2>3. IF filled # {} THEN focus \in filled ELSE focus = 0
    <3> HIDE DEF home, filled
    <3>1. QED
      BY <2>1, <2>2
  <2> HIDE DEF focus, home
  <2>4. QED
    BY <1>2, <1>6, <2>3
<1> HIDE DEF focus, home, filled
<1> DEFINE alone == [EmptyPanes EXCEPT ![0] = keep]
<1>7. sp = IF m = Single THEN [mode |-> m, panes |-> alone, focused |-> 0]
           ELSE [mode |-> m, panes |-> next, focused |-> focus]
  OBVIOUS
<1>9. /\ alone \in [PaneIdx -> Shown] /\ (\A i \in PaneIdx \ {0} : alone[i] = None)
      /\ alone[0] = keep
  <2>1. EmptyPanes \in [PaneIdx -> Shown] /\ \A i \in PaneIdx : EmptyPanes[i] = None
    BY <1>2 DEF EmptyPanes
  <2>2. QED
    BY <1>2, <1>4, <2>1
<1> HIDE DEF sp, alone
<1>10. /\ sp \in Splits /\ Neat(sp) /\ sp.focused \in PaneIdx
       /\ IsSplit(sp) /\ activeId # None => sp.panes[sp.focused] # None
       /\ sp.panes \in {alone, next}
  BY <1>6, <1>7, <1>8, <1>9, ModeLayout
<1>11. /\ \A i \in PaneIdx : sp.panes[i] \in Known
       /\ shown \in Shown /\ shown \in Known
  BY <1>4, <1>6, <1>9, <1>10, PaneFacts
<1>12. ScreenInv' /\ Screen' \subseteq Screen \cup {None}
  <2>1. CASE shown # None /\ (m = Single \/ shown # activeId)
    <3>1. shown \in Sess
      BY <1>11, <2>1 DEF Shown
    <3>2. /\ now \in Splits /\ Neat(now) /\ ActiveIn(now, shown)
          /\ \A i \in PaneIdx : now.panes[i] \in {sp.panes[i], shown}
      BY <1>10, <3>1, ActivateKeeps
    <3>3. /\ split' = now /\ activeId' = shown /\ saved' = [split |-> now, active |-> shown]
          /\ bars' = BarsFor(now, shown, Listed, None)
      BY <1>1, <2>1
    <3> HIDE DEF now, shown
    <3>4. saved' \in [split : Splits, active : Shown] /\ saved'.split = now
      BY <1>11, <3>2, <3>3
    <3>5. menu' = IF None # None /\ bars'[None] = None THEN None ELSE None
      BY <1>1
    <3>6. /\ ScreenInv'
          /\ Screen' \subseteq Screen \cup {None, shown} \cup {now.panes[i] : i \in PaneIdx}
      BY <1>2, <1>11, <3>2, <3>3, <3>4, <3>5, ScreenKeeps DEF SplitInv
    <3>7. QED
      BY <1>11, <3>2, <3>6
  <2>2. CASE ~(shown # None /\ (m = Single \/ shown # activeId))
    <3>1. /\ split' = sp /\ activeId' = activeId /\ saved' = [saved EXCEPT !.split = sp]
          /\ bars' = BarsFor(sp, activeId, Listed, None)
      BY <1>1, <2>2
    <3>2. saved' \in [split : Splits, active : Shown] /\ saved'.split = sp
      BY <1>2, <1>10, <3>1
    <3>3. menu' = IF None # None /\ bars'[None] = None THEN None ELSE None
      BY <1>1
    <3>4. ActiveIn(sp, activeId)
      <4> SUFFICES ASSUME IsSplit(sp), activeId # None
                   PROVE  activeId \in OnScreen(sp) /\ sp.panes[sp.focused] \in {None, activeId}
        BY DEF ActiveIn
      <4>1. shown # None
        BY <1>10
      <4>2. shown = activeId
        BY <2>2, <4>1
      <4>3. sp.focused \in Visible(sp)
        BY <1>10 DEF Neat
      <4>4. QED
        BY <4>2, <4>3 DEF OnScreen
    <3>5. /\ ScreenInv'
          /\ Screen' \subseteq Screen \cup {None, activeId} \cup {sp.panes[i] : i \in PaneIdx}
      BY <1>2, <1>10, <3>1, <3>2, <3>3, <3>4, ScreenKeeps DEF SplitInv
    <3>6. QED
      BY <1>2, <1>11, <3>5
  <2>3. QED
    BY <2>1, <2>2
<1>13. UNCHANGED <<alive, sessions, calls, rest>>
  BY <1>1 DEF Backend
<1>14. NewInv'
  BY <1>12, <1>13, NewKeeps DEF SplitInv
<1>15. QED
  BY <1>12, <1>13, <1>14 DEF SplitInv, ListTypes

-----------------------------------------------------------------------------
(* Sessions come and go *)

LEMMA CallTypes ==
  /\ \A c \in Calls : c.id \in Sess /\ [c EXCEPT !.op = "adopt"] \in Calls
  /\ \A id \in Sess : Closing(id) \in Calls /\ Closing(id).op = "close"
  /\ \A c \in Calls : [c EXCEPT !.op = "adopt"].id = c.id /\ [c EXCEPT !.op = "adopt"].op = "adopt"
  BY DEF Calls, Closing

\* A session gets an id that nothing on the page has.
LEMMA FreshKeeps ==
  ASSUME SplitInv, NEW id \in Sess, Fresh(id), NEW c \in Calls, c.id = id,
         calls' = calls \cup {c}, alive' = Append(alive, id), UNCHANGED <<sessions, rest>>,
         ScreenInv', Screen' = Screen
  PROVE  SplitInv'
<1>1. ListTypes'
  <2>1. alive' \in Seq(Sess)
    BY AppendSet DEF SplitInv, ListTypes
  <2>2. QED
    BY <2>1 DEF SplitInv, ListTypes
<1>2. id \notin Screen /\ id \notin Listed /\ \A d \in calls : d.id # id
  <2>1. id # None
    BY NoneAssumption
  <2>2. \A i \in PaneIdx : split.panes[i] # id
    BY <2>1, Now DEF Fresh, OnScreen, Neat
  <2>3. QED
    BY <2>2 DEF Fresh, Screen
<1>3. NewInv'
  BY <1>2 DEF SplitInv, NewInv, Listed
<1>4. QED
  BY <1>1, <1>3 DEF SplitInv

LEMMA CallCreateStep ==
  ASSUME SplitInv, NEW id \in Sess, NEW pane \in PaneIdx \cup {-1}, CallCreate(id, pane)
  PROVE  SplitInv'
<1> DEFINE c == [op |-> "create", id |-> id, pane |-> pane]
<1>1. /\ Fresh(id) /\ alive' = Append(alive, id) /\ calls' = calls \cup {c}
      /\ menu' = None /\ UNCHANGED <<sessions, split, activeId, saved, rest, bars>>
  BY DEF CallCreate
<1>2. c \in Calls /\ c.id = id
  BY DEF Calls
<1> HIDE DEF c
<1>3. ScreenInv' /\ Screen' = Screen
  BY <1>1, MenuKeeps DEF SplitInv
<1>4. QED
  BY <1>1, <1>2, <1>3, FreshKeeps

LEMMA PhoneCreateStep ==
  ASSUME SplitInv, NEW id \in Sess, CreateOnPhone(id) PROVE SplitInv'
<1> DEFINE c == [op |-> "event", id |-> id, pane |-> -1]
<1>1. /\ Fresh(id) /\ alive' = Append(alive, id) /\ calls' = calls \cup {c}
      /\ UNCHANGED <<sessions, split, activeId, saved, rest, bars, menu>>
  BY DEF CreateOnPhone
<1>2. c \in Calls /\ c.id = id
  BY DEF Calls
<1> HIDE DEF c
<1>3. ScreenInv' /\ Screen' = Screen
  BY <1>1, MenuKeeps DEF SplitInv, ScreenInv, BarInv
<1>4. QED
  BY <1>1, <1>2, <1>3, FreshKeeps

LEMMA CreateStep == ASSUME SplitInv, NEW c \in calls, CreateSession(c) PROVE SplitInv'
<1> DEFINE empty == {i \in Visible(split) : split.panes[i] = None}
           sp == IF ~IsSplit(split) THEN split
                 ELSE IF c.pane \in Visible(split)
                   THEN [split EXCEPT !.panes[c.pane] = c.id, !.focused = c.pane]
                 ELSE IF split.panes[split.focused] # None /\ empty # {}
                   THEN [split EXCEPT !.focused = First(empty)]
                 ELSE split
           listed == Listed \cup {c.id}
<1>1. /\ c.op = "create" /\ sessions' = Append(sessions, c.id) /\ calls' = calls \ {c}
      /\ Show(sp, c.id, listed, menu) /\ UNCHANGED <<alive, rest>>
  BY DEF CreateSession
<1>2. /\ c.id \in Sess /\ c.id \notin Listed \cup Screen
      /\ \A d \in calls : d.op # "close" /\ d.id = c.id => d = c
  BY <1>1 DEF SplitInv, ListTypes, NewInv, Calls
<1>3. sp \in Splits /\ Neat(sp) /\ \A i \in PaneIdx : sp.panes[i] \in {split.panes[i], c.id}
  <2>1. CASE sp = split
    BY <2>1, Now
  <2>2. CASE c.pane \in Visible(split) /\ sp = [split EXCEPT !.panes[c.pane] = c.id, !.focused = c.pane]
    <3> HIDE DEF sp
    <3>1. c.pane \in PaneIdx /\ c.id \in Shown
      BY <1>2, <2>2, Now, PaneFacts DEF Shown
    <3>2. /\ sp \in Splits /\ sp.mode = split.mode /\ sp.focused = c.pane
          /\ sp.panes = [split.panes EXCEPT ![c.pane] = c.id]
      BY <2>2, <3>1, Now DEF Splits
    <3>3. \A j \in PaneIdx \ {c.pane} : split.panes[j] # c.id
      BY <1>2, Now
    <3> DEFINE at == c.pane
               id == c.id
    <3>4. /\ at \in Visible(split) /\ id \in Sess /\ sp.focused = at
          /\ sp.panes = [split.panes EXCEPT ![at] = id]
          /\ \A j \in PaneIdx \ {at} : split.panes[j] # id
      BY <1>2, <2>2, <3>2, <3>3
    <3> HIDE DEF at, id
    <3>5. Neat(sp) /\ \A j \in PaneIdx : sp.panes[j] \in {split.panes[j], id}
      BY <3>2, <3>4, Now, PlaceKeeps
    <3>6. QED
      BY <3>2, <3>5 DEF id
  <2>3. CASE empty # {} /\ sp = [split EXCEPT !.focused = First(empty)]
    <3> HIDE DEF sp
    <3>1. empty \in SUBSET (0..MaxPanes)
      BY Now, PaneFacts
    <3>2. First(empty) \in empty
      <4> HIDE DEF empty
      <4>1. QED
        BY <2>3, <3>1, FirstIn
    <3>3. First(empty) \in Visible(split)
      BY <3>2
    <3>4. QED
      BY <2>3, <3>3, Now, FocusKeeps
  <2>4. QED
    BY <2>1, <2>2, <2>3
<1> HIDE DEF sp
<1>4. listed \in SUBSET Sess
  BY <1>2, Now
<1>5. ScreenInv' /\ Screen' \subseteq Screen \cup {None, c.id} \cup {sp.panes[i] : i \in PaneIdx}
  BY <1>1, <1>2, <1>3, <1>4, Now, ShowKeeps DEF SplitInv
<1>6. Screen' \subseteq Screen \cup {None, c.id}
  BY <1>3, <1>5, Now
<1>7. ListTypes' /\ Listed' = Listed \cup {c.id}
  <2>1. sessions' \in Seq(Sess) /\ ToSet(sessions') = ToSet(sessions) \cup {c.id}
    BY <1>1, <1>2, AppendSet DEF SplitInv, ListTypes
  <2>2. QED
    BY <1>1, <2>1 DEF SplitInv, ListTypes, Listed
<1>8. NewInv'
  <2>1. ASSUME NEW e \in calls', e.op = "create"
        PROVE  /\ e.id \notin Listed' \cup Screen'
               /\ \A d \in calls' : d.op # "close" /\ d.id = e.id => d = e
    <3>1. /\ e \in calls /\ e # c /\ e.id \notin Listed \cup Screen
          /\ \A d \in calls : d.op # "close" /\ d.id = e.id => d = e
      BY <1>1, <2>1 DEF SplitInv, NewInv
    <3>2. e.id # c.id /\ e.id # None
      BY <1>2, <2>1, <3>1, NoneAssumption DEF SplitInv, ListTypes, Calls
    <3>3. QED
      BY <1>1, <1>6, <1>7, <3>1, <3>2
  <2>2. QED
    BY <2>1 DEF NewInv
<1>9. QED
  BY <1>5, <1>7, <1>8 DEF SplitInv

LEMMA AdoptStep ==
  ASSUME SplitInv, NEW c \in calls, AdoptRemoteSession(c) PROVE SplitInv'
<1>1. /\ c.op = "event" /\ UNCHANGED <<alive, split, activeId, saved, rest, bars, menu>>
      /\ calls' = (calls \ {c}) \cup
                     (IF c.id \in Listed THEN {} ELSE {[c EXCEPT !.op = "adopt"]})
      /\ sessions' = IF c.id \in Listed THEN sessions ELSE Append(sessions, c.id)
  BY DEF AdoptRemoteSession
<1>2. c \in Calls /\ c.id \in Sess
  BY CallTypes DEF SplitInv, ListTypes
<1> DEFINE a == [c EXCEPT !.op = "adopt"]
<1>3. a \in Calls /\ a.id = c.id /\ a.op = "adopt"
  BY <1>2, CallTypes
<1> HIDE DEF a
<1>4. calls' \subseteq (calls \ {c}) \cup {a}
  BY <1>1 DEF a
<1>5. sessions' \in Seq(Sess) /\ ToSet(sessions') \subseteq ToSet(sessions) \cup {c.id}
  BY <1>1, <1>2, AppendSet DEF SplitInv, ListTypes
<1>6. ScreenInv' /\ Screen' = Screen
  BY <1>1, MenuKeeps DEF SplitInv, ScreenInv, BarInv
<1>7. NewInv'
  <2>1. ASSUME NEW e \in calls', e.op = "create"
        PROVE  /\ e.id \notin Listed' \cup Screen'
               /\ \A d \in calls' : d.op # "close" /\ d.id = e.id => d = e
    <3>1. /\ e \in calls /\ e # c /\ e.id \notin Listed \cup Screen
          /\ \A d \in calls : d.op # "close" /\ d.id = e.id => d = e
      BY <1>1, <1>3, <1>4, <2>1 DEF SplitInv, NewInv
    <3>2. e.id # c.id
      BY <1>1, <3>1
    <3>3. QED
      BY <1>3, <1>4, <1>5, <1>6, <3>1, <3>2 DEF Listed
  <2>2. QED
    BY <2>1 DEF NewInv
<1>8. ListTypes'
  BY <1>1, <1>3, <1>4, <1>5 DEF SplitInv, ListTypes
<1>9. QED
  BY <1>6, <1>7, <1>8 DEF SplitInv

LEMMA ScrollbackStep ==
  ASSUME SplitInv, NEW c \in calls, AdoptedScrollback(c) PROVE SplitInv'
<1>1. /\ c.op = "adopt" /\ calls' = calls \ {c} /\ UNCHANGED <<alive, sessions, rest>>
      /\ IF activeId = None THEN Show(split, c.id, Listed, menu)
         ELSE Draw(split, activeId, Listed, menu) /\ UNCHANGED saved
  BY DEF AdoptedScrollback
<1>2. c.id \in Sess
  BY CallTypes DEF SplitInv, ListTypes
<1>3. ScreenInv' /\ Screen' \subseteq Screen \cup {None, c.id}
  <2>1. CASE activeId = None
    <3>1. ScreenInv' /\ Screen' \subseteq Screen \cup {None, c.id} \cup {split.panes[i] : i \in PaneIdx}
      BY <1>1, <1>2, <2>1, Now, ShowKeeps DEF SplitInv
    <3>2. QED
      BY <3>1, Now
  <2>2. CASE activeId # None
    <3>1. saved' \in [split : Splits, active : Shown] /\ saved'.split \in {split, saved.split}
      BY <1>1, <2>2 DEF SplitInv, ScreenInv, ScreenTypes
    <3>2. ScreenInv' /\ Screen' \subseteq Screen \cup {None} \cup {split.panes[i] : i \in PaneIdx}
      BY <1>1, <2>2, <3>1, Now, DrawKeeps DEF SplitInv
    <3>3. QED
      BY <3>2, Now
  <2>3. QED
    BY <2>1, <2>2
<1>4. NewInv'
  <2>1. ASSUME NEW e \in calls', e.op = "create"
        PROVE  /\ e.id \notin Listed' \cup Screen'
               /\ \A d \in calls' : d.op # "close" /\ d.id = e.id => d = e
    <3>1. /\ e \in calls /\ e # c /\ e.id \notin Listed \cup Screen
          /\ \A d \in calls : d.op # "close" /\ d.id = e.id => d = e
      BY <1>1, <2>1 DEF SplitInv, NewInv
    <3>2. e.id # c.id
      BY <1>1, <3>1
    <3>3. e.id # None
      BY <3>1, NoneAssumption DEF SplitInv, ListTypes, Calls
    <3>4. QED
      BY <1>1, <1>3, <3>1, <3>2, <3>3 DEF Listed
  <2>2. QED
    BY <2>1 DEF NewInv
<1>5. QED
  BY <1>1, <1>3, <1>4 DEF SplitInv, ListTypes

LEMMA ClosingKeepsNew ==
  ASSUME ListTypes, NewInv, ToSet(sessions') \subseteq Listed,
         Screen' \subseteq Screen \cup Listed \cup {None},
         \A c \in calls' : c \in calls \/ c.op = "close"
  PROVE  NewInv'
<1>1. \A c \in calls : c.id # None
  BY NoneAssumption DEF ListTypes, Calls
<1>2. Listed' \subseteq Listed
  BY DEF Listed
<1>3. ASSUME NEW e \in calls', e.op = "create"
      PROVE  /\ e.id \notin Listed' \cup Screen'
             /\ \A d \in calls' : d.op # "close" /\ d.id = e.id => d = e
  <2>1. /\ e \in calls /\ e.id \notin Listed \cup Screen
        /\ \A d \in calls : d.op # "close" /\ d.id = e.id => d = e
    BY <1>3 DEF NewInv
  <2>2. QED
    BY <1>1, <1>2, <2>1
<1>4. QED
  BY <1>3 DEF NewInv

LEMMA CallCloseStep == ASSUME SplitInv, NEW id \in Sess, CallClose(id) PROVE SplitInv'
<1>1. /\ alive' = Without(alive, id) /\ calls' = calls \cup {Closing(id)} /\ menu' = None
      /\ UNCHANGED <<sessions, split, activeId, saved, rest, bars>>
  BY DEF CallClose
<1>2. ScreenInv' /\ Screen' = Screen
  BY <1>1, MenuKeeps DEF SplitInv
<1>3. alive' \in Seq(Sess)
  BY <1>1, WithoutIn DEF SplitInv, ListTypes
<1>4. Closing(id) \in Calls /\ Closing(id).op = "close"
  BY CallTypes
<1>5. ToSet(sessions') \subseteq Listed
  BY <1>1 DEF Listed
<1>6. \A c \in calls' : c \in calls \/ c.op = "close"
  BY <1>1, <1>4
<1>7. NewInv'
  BY <1>2, <1>5, <1>6, ClosingKeepsNew DEF SplitInv
<1>8. QED
  BY <1>1, <1>2, <1>3, <1>4, <1>7 DEF SplitInv, ListTypes

LEMMA CallCloseAllStep == ASSUME SplitInv, CallCloseAll PROVE SplitInv'
<1> DEFINE id == Head(sessions)
<1>1. /\ sessions # <<>> /\ activeId' = None /\ saved' = [saved EXCEPT !.active = None]
      /\ rest' = sessions /\ alive' = Without(alive, id) /\ calls' = calls \cup {Closing(id)}
      /\ menu' = None /\ UNCHANGED <<sessions, split, bars>>
  BY DEF CallCloseAll
<1>2. id \in Sess
  BY <1>1, ToSetIn DEF SplitInv, ListTypes
<1> HIDE DEF id
<1>3. alive' \in Seq(Sess) /\ Closing(id) \in Calls /\ Closing(id).op = "close"
  BY <1>1, <1>2, WithoutIn, CallTypes DEF SplitInv, ListTypes
<1>4. /\ saved' \in [split : Splits, active : Shown] /\ saved'.split = saved.split
      /\ activeId' \in Shown
  BY <1>1 DEF SplitInv, ScreenInv, ScreenTypes, Shown
<1>5. ScreenInv'
  <2>1. ScreenTypes' /\ BarInv'
    BY <1>1, <1>4 DEF SplitInv, ScreenInv, ScreenTypes, BarInv
  <2>2. Neat(split)' /\ Neat(saved.split)' /\ ActiveIn(split, activeId)'
    BY <1>1, <1>4 DEF SplitInv, ScreenInv, Neat, Visible, ActiveIn
  <2>3. QED
    BY <2>1, <2>2 DEF ScreenInv
<1>6. Screen' \subseteq Screen \cup {None}
  BY <1>1 DEF Screen
<1>7. ToSet(sessions') \subseteq Listed /\ \A c \in calls' : c \in calls \/ c.op = "close"
  BY <1>1, <1>3 DEF Listed
<1>8. NewInv'
  BY <1>6, <1>7, ClosingKeepsNew DEF SplitInv
<1>9. QED
  BY <1>1, <1>3, <1>5, <1>8 DEF SplitInv, ListTypes

\* The panes of a session that is gone are emptied.
LEMMA FreedKeeps ==
  ASSUME NEW sp \in Splits, Neat(sp), NEW id, NEW panes, NEW now,
         panes = [i \in PaneIdx |-> IF sp.panes[i] = id THEN None ELSE sp.panes[i]],
         now = [sp EXCEPT !.panes = panes]
  PROVE  /\ now \in Splits /\ Neat(now)
         /\ \A i \in PaneIdx : now.panes[i] \in {sp.panes[i], None}
         /\ \A act \in Shown \ {id} : ActiveIn(sp, act) => ActiveIn(now, act)
<1>1. panes \in [PaneIdx -> Shown]
  BY PaneFacts DEF Shown
<1>2. /\ now \in Splits /\ now.mode = sp.mode /\ now.focused = sp.focused /\ now.panes = panes
  BY <1>1 DEF Splits
<1>3. Visible(now) = Visible(sp) /\ (IsSplit(now) <=> IsSplit(sp)) /\ Visible(sp) \subseteq PaneIdx
  BY <1>2, PaneFacts DEF Visible, IsSplit
<1>4. Neat(now)
  <2>1. \A i, j \in PaneIdx : panes[i] = panes[j] /\ i # j => panes[i] = None
    BY DEF Neat
  <2>2. \A i \in PaneIdx \ Visible(sp) : panes[i] = None
    BY DEF Neat
  <2>3. QED
    BY <1>2, <1>3, <2>1, <2>2 DEF Neat
<1>5. ASSUME NEW act \in Shown \ {id}, ActiveIn(sp, act) PROVE ActiveIn(now, act)
  <2> SUFFICES ASSUME IsSplit(sp), act # None
               PROVE  act \in OnScreen(now) /\ now.panes[now.focused] \in {None, act}
    BY <1>3 DEF ActiveIn
  <2>1. act \in OnScreen(sp) /\ sp.panes[sp.focused] \in {None, act}
    BY <1>5 DEF ActiveIn
  <2>2. PICK i \in Visible(sp) : sp.panes[i] = act
    BY <2>1 DEF OnScreen
  <2>3. i \in PaneIdx /\ sp.focused \in PaneIdx
    BY <1>3, PaneFacts
  <2>4. now.panes[i] = act /\ now.panes[now.focused] \in {None, act}
    BY <1>2, <2>1, <2>2, <2>3
  <2>5. QED
    BY <1>3, <2>2, <2>4 DEF OnScreen
<1>6. QED
  BY <1>2, <1>4, <1>5

LEMMA CloseStep == ASSUME SplitInv, NEW c \in calls, CloseSession(c) PROVE SplitInv'
<1> DEFINE left == Without(sessions, c.id)
           panes == [i \in PaneIdx |-> IF split.panes[i] = c.id THEN None ELSE split.panes[i]]
           freed == [split EXCEPT !.panes = panes]
           last == left[Len(left)]
           now == ActivateIn(freed, last, ToSet(left))
           todo == IF rest # <<>> /\ Head(rest) = c.id THEN Tail(rest) ELSE rest
           more == IF todo # rest /\ todo # <<>> THEN {Head(todo)} ELSE {}
<1>1. /\ sessions' = left
      /\ IF activeId = c.id /\ left # <<>>
         THEN /\ split' = now /\ activeId' = last
              /\ saved' = [split |-> IF IsSplit(now) \/ freed # split THEN now
                                     ELSE saved.split,
                           active |-> last]
         ELSE /\ split' = freed
              /\ activeId' = IF activeId = c.id THEN None ELSE activeId
              /\ saved' = IF freed # split THEN [saved EXCEPT !.split = freed] ELSE saved
      /\ bars' = BarsFor(split', activeId', ToSet(left), menu)
      /\ menu' = IF menu # None /\ bars'[menu] = None THEN None ELSE menu
      /\ rest' = todo
      /\ alive' = IF more = {} THEN alive ELSE Without(alive, Head(todo))
      /\ calls' = (calls \ {c}) \cup {Closing(id) : id \in more}
  BY DEF CloseSession
<1>2. /\ left \in Seq(Sess) /\ ToSet(left) \subseteq Listed /\ ToSet(left) \subseteq Sess
      /\ (left # <<>> => last \in ToSet(left) /\ last \in Sess)
  <2>1. left \in Seq(Sess) /\ ToSet(left) \subseteq Listed
    BY WithoutIn DEF SplitInv, ListTypes, Listed
  <2> HIDE DEF left
  <2>2. left # <<>> => last \in ToSet(left) /\ last \in Sess
    BY <2>1, LastIn
  <2>3. QED
    BY <2>1, <2>2, Now
<1>3. /\ freed \in Splits /\ Neat(freed)
      /\ \A i \in PaneIdx : freed.panes[i] \in {split.panes[i], None}
      /\ \A act \in Shown \ {c.id} : ActiveIn(split, act) => ActiveIn(freed, act)
  <2> DEFINE id == c.id
             sp == split
  <2>1. panes = [i \in PaneIdx |-> IF sp.panes[i] = id THEN None ELSE sp.panes[i]]
    OBVIOUS
  <2>2. freed = [sp EXCEPT !.panes = panes] /\ sp \in Splits /\ Neat(sp)
    BY Now
  <2> HIDE DEF panes, freed, id, sp
  <2>3. /\ freed \in Splits /\ Neat(freed)
        /\ \A i \in PaneIdx : freed.panes[i] \in {sp.panes[i], None}
        /\ \A act \in Shown \ {id} : ActiveIn(sp, act) => ActiveIn(freed, act)
    BY <2>1, <2>2, FreedKeeps
  <2>4. QED
    BY <2>3 DEF id, sp
<1>4. /\ todo \in Seq(Sess) /\ more \subseteq Sess
  <2>1. rest \in Seq(Sess)
    BY DEF SplitInv, ListTypes
  <2>2. todo \in Seq(Sess)
    BY <2>1, HeadTailProperties
  <2> HIDE DEF todo
  <2>3. QED
    BY <2>2, ToSetIn
<1> HIDE DEF left, freed, last, todo
<1>5. PICK sp, act :
        /\ sp \in Splits /\ Neat(sp) /\ act \in Shown /\ ActiveIn(sp, act)
        /\ act \in {None, activeId} \cup ToSet(left)
        /\ \A i \in PaneIdx : sp.panes[i] \in {split.panes[i], None} \cup ToSet(left)
        /\ split' = sp /\ activeId' = act
        /\ saved' \in [split : Splits, active : Shown] /\ Neat(saved'.split)
  <2>0. saved \in [split : Splits, active : Shown] /\ Neat(saved.split) /\ activeId \in Shown
    BY DEF SplitInv, ScreenInv, ScreenTypes
  <2>1. CASE activeId = c.id /\ left # <<>>
    <3>1. last \in Sess /\ last \in ToSet(left) /\ last \in Shown
      BY <1>2, <2>1 DEF Shown
    <3>2. /\ now \in Splits /\ Neat(now) /\ ActiveIn(now, last)
          /\ \A i \in PaneIdx : now.panes[i] \in {freed.panes[i], last}
      BY <1>3, <3>1, ActivateKeeps
    <3> HIDE DEF now
    <3>3. /\ split' = now /\ activeId' = last
          /\ saved' = [split |-> IF IsSplit(now) \/ freed # split THEN now ELSE saved.split,
                       active |-> last]
      BY <1>1, <2>1
    <3>4. saved' \in [split : Splits, active : Shown] /\ Neat(saved'.split)
      BY <2>0, <3>1, <3>2, <3>3
    <3>5. \A i \in PaneIdx : now.panes[i] \in {split.panes[i], None} \cup ToSet(left)
      BY <1>3, <3>1, <3>2
    <3>6. QED
      BY <3>1, <3>2, <3>3, <3>4, <3>5
  <2>2. CASE ~(activeId = c.id /\ left # <<>>)
    <3> DEFINE act == IF activeId = c.id THEN None ELSE activeId
    <3>1. /\ split' = freed /\ activeId' = act
          /\ saved' = IF freed # split THEN [saved EXCEPT !.split = freed] ELSE saved
      BY <1>1, <2>2
    <3>2. ActiveIn(freed, act)
      BY <1>3, <2>0, Now DEF ActiveIn
    <3>3. act \in Shown /\ act \in {None, activeId}
      BY <2>0 DEF Shown
    <3> HIDE DEF act
    <3>4. saved' \in [split : Splits, active : Shown] /\ Neat(saved'.split)
      BY <1>3, <2>0, <3>1
    <3>5. QED
      BY <1>3, <3>1, <3>2, <3>3, <3>4
  <2>3. QED
    BY <2>1, <2>2
<1>6. /\ ScreenInv'
      /\ Screen' \subseteq Screen \cup {None, act} \cup {sp.panes[i] : i \in PaneIdx}
  <2>1. bars' = BarsFor(sp, act, ToSet(left), menu) /\ menu \in PaneIdx \cup {None}
    BY <1>1, <1>5, Now
  <2>2. QED
    BY <1>1, <1>2, <1>5, <2>1, ScreenKeeps DEF SplitInv
<1>7. Screen' \subseteq Screen \cup Listed \cup {None}
  BY <1>2, <1>5, <1>6, Now DEF Screen
<1>8. ToSet(sessions') \subseteq Listed
  BY <1>1, <1>2
<1>9. \A d \in calls' : d \in calls \/ (d \in Calls /\ d.op = "close")
  BY <1>1, <1>4, CallTypes
<1>10. NewInv'
  BY <1>7, <1>8, <1>9, ClosingKeepsNew DEF SplitInv
<1>11. ListTypes'
  <2>1. alive' \in Seq(Sess)
    BY <1>1, WithoutIn DEF SplitInv, ListTypes
  <2>2. calls' \subseteq Calls
    BY <1>9 DEF SplitInv, ListTypes
  <2>3. QED
    BY <1>1, <1>2, <1>4, <2>1, <2>2 DEF ListTypes
<1>12. QED
  BY <1>6, <1>10, <1>11 DEF SplitInv

-----------------------------------------------------------------------------
(* A reload or a restart *)

LEMMA RestoreKeeps ==
  ASSUME NEW store \in Splits, Neat(store), NEW listed \in SUBSET Sess
  PROVE  LET sp == RestoreSplitState(store, listed)
         IN  /\ sp \in Splits /\ Neat(sp)
             /\ \A i \in PaneIdx : sp.panes[i] \in listed \cup {None}
<1> DEFINE sp == RestoreSplitState(store, listed)
           panes == [i \in PaneIdx |->
                      IF /\ store.panes[i] \in listed
                         /\ \A j \in PaneIdx : j < i => store.panes[j] # store.panes[i]
                      THEN store.panes[i] ELSE None]
           focused == IF store.focused < Count[store.mode] THEN store.focused ELSE 0
<1>1. sp.mode = store.mode /\ sp.panes = panes /\ sp.focused = focused
      /\ sp = [mode |-> store.mode, panes |-> panes, focused |-> focused]
  BY DEF RestoreSplitState
<1>2. \A i \in PaneIdx : panes[i] \in listed \cup {None} /\ panes[i] \in {store.panes[i], None}
  OBVIOUS
<1>3. panes \in [PaneIdx -> Shown]
  BY <1>2 DEF Shown
<1>4. focused \in Visible(store) /\ focused \in PaneIdx /\ store.mode \in Modes
  <2>1. store.focused \in Visible(store) /\ 0 \in Visible(store) /\ store.mode \in Modes
    BY PaneFacts DEF Neat
  <2>2. QED
    BY <2>1, PaneFacts
<1> HIDE DEF panes, focused, sp
<1>5. sp \in Splits
  BY <1>1, <1>3, <1>4 DEF Splits
<1>6. Visible(sp) = Visible(store)
  BY <1>1 DEF Visible
<1>7. Neat(sp)
  <2>1. \A i, j \in PaneIdx : panes[i] = panes[j] /\ i # j => panes[i] = None
    BY <1>2 DEF Neat
  <2>2. \A i \in PaneIdx \ Visible(store) : panes[i] = None
    BY <1>2 DEF Neat
  <2>3. QED
    BY <1>1, <1>4, <1>6, <2>1, <2>2 DEF Neat
<1>8. QED
  BY <1>1, <1>2, <1>5, <1>7 DEF sp

LEMMA BootStep == ASSUME SplitInv, NEW kept \in SUBSET ToSet(alive), Boot(kept) PROVE SplitInv'
<1>1. PICK list \in Kept(alive, kept) :
        LET sp == RestoreSplitState(saved.split, kept)
            act == IF kept = {} THEN None ELSE BootTarget(sp, list)
            now == IF act = None THEN sp ELSE ActivateIn(sp, act, kept)
        IN /\ alive' = list /\ sessions' = list
           /\ split' = now /\ activeId' = act
           /\ saved' = IF act = None THEN saved
                       ELSE [split |-> IF IsSplit(now) THEN now ELSE saved.split, active |-> act]
           /\ calls' = {} /\ rest' = <<>>
           /\ bars' = [i \in PaneIdx |-> PaneSession(now, act, i)]
           /\ menu' = None
  BY DEF Boot
<1> DEFINE sp == RestoreSplitState(saved.split, kept)
           act == IF kept = {} THEN None ELSE BootTarget(sp, list)
           now == IF act = None THEN sp ELSE ActivateIn(sp, act, kept)
<1>2. /\ saved \in [split : Splits, active : Shown] /\ Neat(saved.split)
      /\ alive \in Seq(Sess)
  BY DEF SplitInv, ScreenInv, ScreenTypes, ListTypes
<1>3. kept \in SUBSET Sess
  BY <1>2, ToSetIn
<1>4. list \in Seq(Sess) /\ (kept # {} => list # <<>>)
  BY <1>2, KeptIn
<1>5. /\ sp \in Splits /\ Neat(sp)
      /\ \A i \in PaneIdx : sp.panes[i] \in kept \cup {None}
  <2> DEFINE store == saved.split
  <2>1. store \in Splits /\ Neat(store)
    BY <1>2
  <2> HIDE DEF store
  <2>2. LET s == RestoreSplitState(store, kept)
        IN  s \in Splits /\ Neat(s) /\ \A i \in PaneIdx : s.panes[i] \in kept \cup {None}
    BY <1>3, <2>1, RestoreKeeps
  <2>3. QED
    BY <2>2 DEF store
<1> HIDE DEF sp
<1>6. kept # {} => act \in Sess
  <2> SUFFICES ASSUME kept # {} PROVE BootTarget(sp, list) \in Sess
    OBVIOUS
  <2> DEFINE wanted == IF saved.active \in ToSet(list) THEN saved.active ELSE list[Len(list)]
             shown == {i \in Visible(sp) : sp.panes[i] # None}
  <2>1. wanted \in Sess
    BY <1>4, LastIn, ToSetIn
  <2> HIDE DEF wanted
  <2>2. sp.panes[sp.focused] # None => sp.panes[sp.focused] \in Sess
    BY <1>3, <1>5, PaneFacts
  <2>3. shown # {} => sp.panes[First(shown)] \in Sess
    <3>1. shown \in SUBSET (0..MaxPanes) /\ Visible(sp) \subseteq PaneIdx
      BY <1>5, PaneFacts
    <3>2. \A i \in shown : i \in PaneIdx /\ sp.panes[i] # None
      BY <3>1
    <3> HIDE DEF shown
    <3>3. shown # {} => First(shown) \in shown
      BY <3>1, FirstIn
    <3>4. QED
      BY <1>3, <1>5, <3>2, <3>3
  <2>4. BootTarget(sp, list) =
          IF ~IsSplit(sp) \/ wanted \in OnScreen(sp) \/ shown = {} THEN wanted
          ELSE IF sp.panes[sp.focused] # None THEN sp.panes[sp.focused]
          ELSE sp.panes[First(shown)]
    BY DEF BootTarget, wanted
  <2>5. QED
    BY <2>1, <2>2, <2>3, <2>4
<1>7. act \in Shown /\ (kept = {} => act = None) /\ (kept # {} => act # None)
  BY <1>6, NoneAssumption DEF Shown
<1>8. now \in Splits /\ Neat(now) /\ ActiveIn(now, act)
  <2>1. CASE act = None
    BY <1>5, <2>1 DEF ActiveIn
  <2>2. CASE act # None
    <3>1. act \in Sess /\ now = ActivateIn(sp, act, kept)
      BY <1>6, <1>7, <2>2
    <3> HIDE DEF act
    <3>2. QED
      BY <1>5, <3>1, ActivateKeeps
  <2>3. QED
    BY <2>1, <2>2
<1>9. /\ alive' = list /\ sessions' = list /\ split' = now /\ activeId' = act
      /\ saved' = IF act = None THEN saved
                  ELSE [split |-> IF IsSplit(now) THEN now ELSE saved.split, active |-> act]
      /\ calls' = {} /\ rest' = <<>>
      /\ bars' = [i \in PaneIdx |-> PaneSession(now, act, i)] /\ menu' = None
  BY <1>1 DEF sp
<1> HIDE DEF now, act
<1>10. saved' \in [split : Splits, active : Shown] /\ Neat(saved'.split)
  BY <1>2, <1>7, <1>8, <1>9
<1>11. ASSUME NEW i \in PaneIdx
       PROVE  /\ PaneSession(now, act, i) \in Shown
              /\ PaneSession(now, act, i) # None => i \in Visible(now)
  <2>1. now.panes[i] \in Shown /\ None \in Shown /\ 0 \in Visible(now)
    BY <1>8, PaneFacts DEF Shown
  <2>2. QED
    BY <1>7, <2>1 DEF PaneSession
<1>12. ScreenInv'
  <2>1. ScreenTypes'
    BY <1>7, <1>8, <1>9, <1>10, <1>11 DEF ScreenTypes
  <2>2. BarInv'
    BY <1>9, <1>11 DEF BarInv, Visible
  <2>3. Neat(split)' /\ Neat(saved.split)' /\ ActiveIn(split, activeId)'
    BY <1>8, <1>9, <1>10 DEF Neat, Visible, ActiveIn, IsSplit, OnScreen
  <2>4. QED
    BY <2>1, <2>2, <2>3 DEF ScreenInv
<1>13. ListTypes' /\ NewInv'
  BY <1>4, <1>9 DEF ListTypes, NewInv
<1>14. QED
  BY <1>12, <1>13 DEF SplitInv

-----------------------------------------------------------------------------
LEMMA InitHolds == ASSUME Init PROVE SplitInv
<1>1. /\ Single \in Modes /\ Count[Single] = 1 /\ MaxPanes \in Nat /\ 0 \in PaneIdx
  BY ModesAssumption, PaneFacts
<1>2. /\ alive = <<>> /\ sessions = <<>> /\ activeId = None /\ calls = {} /\ rest = <<>>
      /\ bars = EmptyPanes /\ menu = None
      /\ split = [mode |-> Single, panes |-> EmptyPanes, focused |-> 0]
      /\ saved = [split |-> split, active |-> None]
  BY DEF Init
<1>3. EmptyPanes \in [PaneIdx -> Shown] /\ \A i \in PaneIdx : EmptyPanes[i] = None
  BY DEF EmptyPanes, Shown
<1>4. split \in Splits /\ Neat(split)
  BY <1>1, <1>2, <1>3 DEF Splits, Neat, Visible
<1>5. ScreenInv
  BY <1>2, <1>3, <1>4 DEF ScreenInv, ScreenTypes, ActiveIn, BarInv, Shown
<1>6. QED
  BY <1>2, <1>5 DEF SplitInv, ListTypes, NewInv

LEMMA NextHolds == ASSUME SplitInv, [Next]_vars PROVE SplitInv'
<1>1. CASE UNCHANGED vars
  <2>1. UNCHANGED Backend /\ UNCHANGED <<split, activeId, saved, bars, menu>>
    BY <1>1 DEF vars, Backend
  <2>2. menu' # None => menu' \in PaneIdx /\ bars[menu'] # None
    BY <2>1 DEF SplitInv, ScreenInv, BarInv
  <2>3. QED
    BY <2>1, <2>2, MenuKnown
<1>2. CASE ScreenStep
  BY <1>2, ActivateStep, SwitchStep, ModeStep, FocusPaneStep, MenuStep, RunPresetStep,
     AssignStep, DragStep, CycleStep DEF ScreenStep
<1>3. CASE SessionStep
  BY <1>3, CallCreateStep, PhoneCreateStep, CallCloseStep, CallCloseAllStep,
     CreateStep, AdoptStep, ScrollbackStep, CloseStep DEF SessionStep
<1>4. CASE \E kept \in SUBSET ToSet(alive) : Boot(kept)
  BY <1>4, BootStep
<1>5. QED
  BY <1>1, <1>2, <1>3, <1>4 DEF Next

\* Every layout the page draws or saves is neat, a bar and an open menu belong
\* to a pane on screen, and the page knows nothing of a session whose create
\* call is open: what each handler relies on when it looks a pane up.
THEOREM ScreenIsSound == Spec => []SplitInv
<1>1. Init => SplitInv
  BY InitHolds
<1>2. SplitInv /\ [Next]_vars => SplitInv'
  BY NextHolds
<1>3. QED
  BY <1>1, <1>2, PTL DEF Spec

\* Every index names a pane and every pane shows a session or nothing, for any
\* number of panes and modes.
THEOREM ScreenTypesHold == Spec => []TypeOK
<1>1. SplitInv => TypeOK
  BY DEF SplitInv, ListTypes, ScreenInv, ScreenTypes, TypeOK
<1>2. QED
  BY <1>1, ScreenIsSound, PTL

\* A terminal is in one pane at most and the focused pane is on screen, for
\* any number of sessions, panes and calls in flight (LayoutOK).
THEOREM LayoutIsSound == Spec => []LayoutOK
<1>1. SplitInv => LayoutOK
  BY DEF SplitInv, ScreenInv, Neat, LayoutOK
<1>2. QED
  BY <1>1, ScreenIsSound, PTL

\* In a split screen the session that gets the typing is in a pane, and the
\* focused pane shows no other (ActiveShown).
THEOREM ActiveIsShown == Spec => []ActiveShown
<1>1. SplitInv => ActiveShown
  BY DEF SplitInv, ScreenInv, ActiveIn, ActiveShown
<1>2. QED
  BY <1>1, ScreenIsSound, PTL
-----------------------------------------------------------------------------
(* What localStorage has of the screen *)

\* The stored layout is the one on screen, but for sessions that are gone, and the
\* stored session is the active one.
SameScreen(sp, act, store, left) ==
  /\ store.split.mode = sp.mode
  /\ act # None => store.active = act
  /\ IsSplit(sp) => \A i \in PaneIdx :
       \/ sp.panes[i] = store.split.panes[i]
       \/ sp.panes[i] = None /\ store.split.panes[i] \notin left
SavedInv == SameScreen(split, activeId, saved, ToSet(alive))

IsLayout(sp) == sp = [f \in {"mode", "panes", "focused"} |-> sp[f]]

LEMMA ActivateMode ==
  ASSUME NEW sp, IsLayout(sp), NEW id, NEW listed
  PROVE  ActivateIn(sp, id, listed).mode = sp.mode
<1>1. \A i : [sp EXCEPT !.focused = i].mode = sp.mode
  BY DEF IsLayout
<1>2. \A i : [sp EXCEPT !.panes[i] = id, !.focused = i].mode = sp.mode
  BY DEF IsLayout
<1>3. QED
  BY <1>1, <1>2 DEF ActivateIn

\* What is drawn and saved is the same screen.
LEMMA ShowSaves ==
  ASSUME SavedInv, NEW sp, IsLayout(sp), sp.mode = split.mode,
         NEW id, NEW listed, NEW open, Show(sp, id, listed, open)
  PROVE  SavedInv'
<1> DEFINE now == ActivateIn(sp, id, listed)
<1>1. /\ split' = now /\ activeId' = id
      /\ saved' = [split |-> IF IsSplit(now) THEN now ELSE saved.split, active |-> id]
  BY DEF Show
<1>2. now.mode = sp.mode
  BY ActivateMode
<1> HIDE DEF now
<1>3. saved'.active = id /\ saved'.split = IF IsSplit(now) THEN now ELSE saved.split
  BY <1>1
<1>4. saved.split.mode = now.mode
  BY <1>2 DEF SavedInv, SameScreen
<1>5. SameScreen(now, id, saved', ToSet(alive'))
  BY <1>3, <1>4 DEF SameScreen
<1>6. QED
  BY <1>1, <1>5 DEF SavedInv

LEMMA DrawSaves ==
  ASSUME SplitInv, SavedInv, NEW sp, NEW listed, NEW open, Draw(sp, activeId, listed, open),
         saved' = [saved EXCEPT !.split = sp]
  PROVE  SavedInv'
<1>1. split' = sp /\ activeId' = activeId
  BY DEF Draw
<1>2. saved'.split = sp /\ saved'.active = saved.active
  BY DEF SplitInv, ScreenInv, ScreenTypes
<1>3. QED
  BY <1>1, <1>2 DEF SavedInv, SameScreen

\* The screen stays as it is; sessions may go.
LEMMA StaysSaved ==
  ASSUME SavedInv, UNCHANGED <<split, activeId, saved>>, ToSet(alive') \subseteq ToSet(alive)
  PROVE  SavedInv'
  BY DEF SavedInv, SameScreen

\* A session that is new to the page is new to localStorage.
LEMMA NewSaved ==
  ASSUME SplitInv, SavedInv, UNCHANGED <<split, activeId, saved>>, NEW id \in Sess, Fresh(id),
         alive' = Append(alive, id)
  PROVE  SavedInv'
<1>1. ToSet(alive') = ToSet(alive) \cup {id}
  BY AppendSet DEF SplitInv, ListTypes
<1>2. \A i \in PaneIdx : saved.split.panes[i] # id
  BY NoneAssumption DEF Fresh, OnScreen, SplitInv, ScreenInv, Neat
<1>3. QED
  BY <1>1, <1>2 DEF SavedInv, SameScreen

LEMMA ScreenSaved ==
  ASSUME SplitInv, SavedInv, ScreenStep
  PROVE  SavedInv'
<1>0. split \in Splits /\ IsLayout(split) /\ alive' = alive /\ ToSet(alive') \subseteq ToSet(alive)
  <2>1. ASSUME NEW m \in Modes, SetSplitMode(m) PROVE UNCHANGED Backend
    BY <2>1 DEF SetSplitMode
  <2>2. ASSUME ~\E m \in Modes : SetSplitMode(m) PROVE UNCHANGED Backend \/ alive' = alive
    BY <2>2 DEF ScreenStep, Activate, RevealSession, SwitchPaneSession, FocusPane,
                ToggleSessionSwitchMenu, RunPreset, AssignPaneSession, DragPane,
                CyclePaneFocus, CloseSessionSwitchMenus
  <2>3. UNCHANGED Backend => alive' = alive
    BY DEF Backend
  <2>4. split \in Splits
    BY Now
  <2>5. IsLayout(split)
    BY <2>4 DEF IsLayout, Splits
  <2>6. alive' = alive
    BY <2>1, <2>2, <2>3
  <2>7. QED
    BY <2>4, <2>5, <2>6
<1>1. ASSUME NEW i, NEW panes
      PROVE  /\ IsLayout([split EXCEPT !.focused = i])
             /\ [split EXCEPT !.focused = i].mode = split.mode
             /\ IsLayout([split EXCEPT !.panes = panes, !.focused = i])
             /\ [split EXCEPT !.panes = panes, !.focused = i].mode = split.mode
  BY <1>0 DEF IsLayout
<1>2. ASSUME NEW id \in Sess, Activate(id) \/ RevealSession(id) PROVE SavedInv'
  <2>1. Show(split, id, Listed, None) \/ Show(split, id, Listed, menu)
    BY <1>2 DEF Activate, RevealSession
  <2>2. QED
    BY <1>0, <2>1, ShowSaves
<1>3. ASSUME NEW id \in Sess, SwitchPaneSession(id) PROVE SavedInv'
  <2> DEFINE panes == [j \in PaneIdx |-> IF j = menu THEN id
                                        ELSE IF split.panes[j] = id THEN None
                                        ELSE split.panes[j]]
             sp == [split EXCEPT !.panes = panes, !.focused = menu]
  <2>1. \/ Show(IF IsSplit(split) THEN sp ELSE split, id, Listed, None)
        \/ UNCHANGED <<split, activeId, saved>>
    BY <1>3 DEF SwitchPaneSession
  <2> HIDE DEF panes
  <2>2. IsLayout(sp) /\ sp.mode = split.mode
    BY <1>1
  <2> HIDE DEF sp
  <2>3. QED
    BY <1>0, <2>1, <2>2, ShowSaves, StaysSaved
<1>4. ASSUME NEW m \in Modes, SetSplitMode(m) PROVE SavedInv'
  <2>1. \/ saved' = [split |-> split', active |-> activeId']
        \/ activeId' = activeId /\ saved' = [saved EXCEPT !.split = split']
    BY <1>4 DEF SetSplitMode
  <2>2. /\ saved'.split = split'
        /\ saved'.active = activeId' \/ (activeId' = activeId /\ saved'.active = saved.active)
    BY <2>1 DEF SplitInv, ScreenInv, ScreenTypes
  <2>3. QED
    BY <2>2 DEF SavedInv, SameScreen
<1>5. ASSUME NEW i \in PaneIdx, FocusPane(i) PROVE SavedInv'
  <2> DEFINE sp == [split EXCEPT !.focused = i]
  <2>1. \/ Show(sp, sp.panes[i], Listed, None)
        \/ Draw(sp, activeId, Listed, None) /\ saved' = [saved EXCEPT !.split = sp]
    BY <1>5 DEF FocusPane
  <2>2. IsLayout(sp) /\ sp.mode = split.mode
    BY <1>1
  <2> HIDE DEF sp
  <2>3. QED
    BY <2>1, <2>2, ShowSaves, DrawSaves
<1>6. ASSUME NEW i \in PaneIdx, ToggleSessionSwitchMenu(i) \/ RunPreset(i) PROVE SavedInv'
  <2>1. Show(split, bars[i], Listed, None) \/ UNCHANGED <<split, activeId, saved>>
    BY <1>6 DEF ToggleSessionSwitchMenu, RunPreset
  <2>2. QED
    BY <1>0, <2>1, ShowSaves, StaysSaved
<1>7. ASSUME NEW i \in PaneIdx, NEW id \in Sess, AssignPaneSession(i, id) PROVE SavedInv'
  <2> DEFINE sp == [split EXCEPT !.panes[i] = id, !.focused = i]
  <2>1. Show(sp, id, Listed, None)
    BY <1>7 DEF AssignPaneSession
  <2>2. IsLayout(sp) /\ sp.mode = split.mode
    BY <1>0 DEF IsLayout
  <2> HIDE DEF sp
  <2>3. QED
    BY <2>1, <2>2, ShowSaves
<1>8. ASSUME NEW from \in PaneIdx, NEW ins \in 0..MaxPanes, DragPane(from, ins) PROVE SavedInv'
  <2> DEFINE at == IF from < ins THEN ins - 1 ELSE ins
             sp == [split EXCEPT !.panes = Moved(split, from, at), !.focused = at]
  <2>1. \/ Show(sp, split.panes[from], Listed, None)
        \/ Draw(sp, activeId, Listed, None) /\ saved' = [saved EXCEPT !.split = sp]
    BY <1>8 DEF DragPane
  <2> HIDE DEF at
  <2>2. IsLayout(sp) /\ sp.mode = split.mode
    BY <1>1
  <2> HIDE DEF sp
  <2>3. QED
    BY <2>1, <2>2, ShowSaves, DrawSaves
<1>9. ASSUME NEW step \in {1, -1}, CyclePaneFocus(step) PROVE SavedInv'
  <2>1. PICK i : i # split.focused /\ Show([split EXCEPT !.focused = i], split.panes[i], Listed, None)
    BY <1>9 DEF CyclePaneFocus
  <2> DEFINE sp == [split EXCEPT !.focused = i]
  <2>2. IsLayout(sp) /\ sp.mode = split.mode
    BY <1>1
  <2> HIDE DEF sp
  <2>3. QED
    BY <2>1, <2>2, ShowSaves DEF sp
<1>10. CASE CloseSessionSwitchMenus
  BY <1>0, <1>10, StaysSaved DEF CloseSessionSwitchMenus
<1>11. QED
  BY <1>2, <1>3, <1>4, <1>5, <1>6, <1>7, <1>8, <1>9, <1>10 DEF ScreenStep

LEMMA CreateSaved ==
  ASSUME SplitInv, SavedInv, NEW c \in calls, CreateSession(c) PROVE SavedInv'
<1> DEFINE empty == {i \in Visible(split) : split.panes[i] = None}
           sp == IF ~IsSplit(split) THEN split
                 ELSE IF c.pane \in Visible(split)
                   THEN [split EXCEPT !.panes[c.pane] = c.id, !.focused = c.pane]
                 ELSE IF split.panes[split.focused] # None /\ empty # {}
                   THEN [split EXCEPT !.focused = First(empty)]
                 ELSE split
           listed == Listed \cup {c.id}
<1>1. Show(sp, c.id, listed, menu)
  BY DEF CreateSession
<1>2. IsLayout(split) /\ IsLayout([split EXCEPT !.panes[c.pane] = c.id, !.focused = c.pane])
      /\ IsLayout([split EXCEPT !.focused = First(empty)])
  BY Now DEF IsLayout, Splits
<1>3. /\ [split EXCEPT !.panes[c.pane] = c.id, !.focused = c.pane].mode = split.mode
      /\ [split EXCEPT !.focused = First(empty)].mode = split.mode
  BY Now DEF Splits
<1>4. IsLayout(sp) /\ sp.mode = split.mode
  BY <1>2, <1>3
<1> HIDE DEF sp, listed
<1>5. QED
  BY <1>1, <1>4, ShowSaves

LEMMA ScrollbackSaved ==
  ASSUME SplitInv, SavedInv, NEW c \in calls, AdoptedScrollback(c) PROVE SavedInv'
<1>1. /\ alive' = alive
      /\ \/ Show(split, c.id, Listed, menu)
         \/ UNCHANGED <<split, activeId, saved>>
  BY DEF AdoptedScrollback, Draw
<1>2. IsLayout(split)
  BY Now DEF IsLayout, Splits
<1>3. QED
  BY <1>1, <1>2, ShowSaves, StaysSaved

LEMMA CloseSaved ==
  ASSUME SplitInv, SavedInv, NEW c \in calls, CloseSession(c) PROVE SavedInv'
<1> DEFINE left == Without(sessions, c.id)
           freed == [split EXCEPT !.panes =
                       [i \in PaneIdx |-> IF split.panes[i] = c.id THEN None ELSE split.panes[i]]]
           last == left[Len(left)]
           now == ActivateIn(freed, last, ToSet(left))
           todo == IF rest # <<>> /\ Head(rest) = c.id THEN Tail(rest) ELSE rest
           more == IF todo # rest /\ todo # <<>> THEN {Head(todo)} ELSE {}
<1>1. /\ IF activeId = c.id /\ left # <<>>
         THEN /\ split' = now /\ activeId' = last
              /\ saved' = [split |-> IF IsSplit(now) \/ freed # split THEN now
                                     ELSE saved.split,
                           active |-> last]
         ELSE /\ split' = freed
              /\ activeId' = IF activeId = c.id THEN None ELSE activeId
              /\ saved' = IF freed # split THEN [saved EXCEPT !.split = freed] ELSE saved
      /\ alive' = IF more = {} THEN alive ELSE Without(alive, Head(todo))
  BY DEF CloseSession
<1>2. IsLayout(freed) /\ freed.mode = split.mode
  BY Now DEF IsLayout, Splits
<1> HIDE DEF freed
<1>3. now.mode = split.mode
  BY <1>2, ActivateMode
<1>4. ToSet(alive') \subseteq ToSet(alive)
  <2>1. alive' = alive \/ alive' = Without(alive, Head(todo))
    BY <1>1
  <2> HIDE DEF todo
  <2>2. QED
    BY <2>1, WithoutIn DEF SplitInv, ListTypes
<1> HIDE DEF left, now, todo, more, last
<1>5. CASE activeId = c.id /\ left # <<>>
  <2>1. /\ saved'.active = activeId' /\ split' = now
        /\ saved'.split = IF IsSplit(now) \/ freed # split THEN now ELSE saved.split
    BY <1>1, <1>5
  <2>2. QED
    BY <1>3, <2>1 DEF SavedInv, SameScreen
<1>6. CASE ~(activeId = c.id /\ left # <<>>) /\ freed # split
  <2>1. split' = freed /\ activeId' \in {None, activeId} /\ saved' = [saved EXCEPT !.split = freed]
    BY <1>1, <1>6
  <2>2. saved'.split = split' /\ saved'.active = saved.active
    BY <2>1 DEF SplitInv, ScreenInv, ScreenTypes
  <2>3. QED
    BY <2>1, <2>2 DEF SavedInv, SameScreen
<1>7. CASE ~(activeId = c.id /\ left # <<>>) /\ freed = split
  <2>1. split' = split /\ activeId' \in {None, activeId} /\ saved' = saved
    BY <1>1, <1>7
  <2>2. QED
    BY <1>4, <2>1 DEF SavedInv, SameScreen
<1>8. QED
  BY <1>5, <1>6, <1>7

LEMMA BootSaved ==
  ASSUME SplitInv, SavedInv, NEW kept \in SUBSET ToSet(alive), Boot(kept) PROVE SavedInv'
<1> DEFINE sp == RestoreSplitState(saved.split, kept)
<1>1. PICK list \in Kept(alive, kept) :
        LET act == IF kept = {} THEN None ELSE BootTarget(sp, list)
            now == IF act = None THEN sp ELSE ActivateIn(sp, act, kept)
        IN /\ alive' = list /\ split' = now /\ activeId' = act
           /\ saved' = IF act = None THEN saved
                       ELSE [split |-> IF IsSplit(now) THEN now ELSE saved.split, active |-> act]
  BY DEF Boot
<1> DEFINE act == IF kept = {} THEN None ELSE BootTarget(sp, list)
           now == IF act = None THEN sp ELSE ActivateIn(sp, act, kept)
<1>2. /\ alive' = list /\ split' = now /\ activeId' = act
      /\ saved' = IF act = None THEN saved
                  ELSE [split |-> IF IsSplit(now) THEN now ELSE saved.split, active |-> act]
  BY <1>1
<1>3. IsLayout(sp) /\ sp.mode = saved.split.mode
  BY DEF RestoreSplitState, IsLayout
<1>4. \A i \in PaneIdx : sp.panes[i] = saved.split.panes[i] \/ sp.panes[i] = None
  BY DEF RestoreSplitState
<1>5. ToSet(list) \subseteq kept
  BY DEF Kept, ToSet
<1>6. \A i \in PaneIdx : saved.split.panes[i] \in kept => sp.panes[i] = saved.split.panes[i]
  <2>1. \A i, j \in PaneIdx : saved.split.panes[i] = saved.split.panes[j] /\ i # j =>
          saved.split.panes[i] = None
    BY DEF SplitInv, ScreenInv, Neat
  <2>2. None \notin kept
    BY NoneAssumption, ToSetIn DEF SplitInv, ListTypes
  <2>3. \A i, j \in PaneIdx : j < i => i # j
    BY PaneFacts
  <2>4. QED
    BY <2>1, <2>2, <2>3 DEF RestoreSplitState
<1> HIDE DEF sp, act
<1>7. CASE act = None
  <2>1. split' = sp /\ saved' = saved /\ activeId' = None
    BY <1>2, <1>7
  <2>2. QED
    BY <1>2, <1>3, <1>4, <1>5, <1>6, <2>1 DEF SavedInv, SameScreen
<1>8. CASE act # None
  <2>1. now.mode = saved.split.mode
    BY <1>3, <1>8, ActivateMode
  <2> HIDE DEF now
  <2>2. /\ saved'.active = activeId' /\ split' = now
        /\ saved'.split = IF IsSplit(now) THEN now ELSE saved.split
    BY <1>2, <1>8
  <2>3. QED
    BY <2>1, <2>2 DEF SavedInv, SameScreen
<1>9. QED
  BY <1>7, <1>8

LEMMA SavedNext ==
  ASSUME SplitInv, SavedInv, [Next]_vars
  PROVE  SavedInv'
<1>1. CASE UNCHANGED vars
  BY <1>1, StaysSaved DEF vars
<1>2. CASE ScreenStep
  BY <1>2, ScreenSaved
<1>3. ASSUME NEW id \in Sess, NEW pane \in PaneIdx \cup {-1}, CallCreate(id, pane)
      PROVE  SavedInv'
  BY <1>3, NewSaved DEF CallCreate
<1>4. ASSUME NEW id \in Sess, CreateOnPhone(id) PROVE SavedInv'
  BY <1>4, NewSaved DEF CreateOnPhone
<1>5. ASSUME NEW id \in Sess, CallClose(id) PROVE SavedInv'
  <2>1. alive' = Without(alive, id) /\ UNCHANGED <<split, activeId, saved>>
    BY <1>5 DEF CallClose
  <2>2. QED
    BY <2>1, WithoutIn, StaysSaved DEF SplitInv, ListTypes
<1>6. CASE CallCloseAll
  <2>1. /\ activeId' = None /\ saved'.split = saved.split /\ split' = split
        /\ alive' = Without(alive, Head(sessions))
    BY <1>6 DEF CallCloseAll, SplitInv, ScreenInv, ScreenTypes
  <2>2. ToSet(alive') \subseteq ToSet(alive)
    BY <2>1, WithoutIn DEF SplitInv, ListTypes
  <2>3. QED
    BY <2>1, <2>2 DEF SavedInv, SameScreen
<1>7. ASSUME NEW c \in calls,
             \/ CreateSession(c) \/ AdoptRemoteSession(c)
             \/ AdoptedScrollback(c) \/ CloseSession(c)
      PROVE  SavedInv'
  <2>1. CASE AdoptRemoteSession(c)
    BY <2>1, StaysSaved DEF AdoptRemoteSession
  <2>2. QED
    BY <1>7, <2>1, CreateSaved, ScrollbackSaved, CloseSaved
<1>8. CASE \E kept \in SUBSET ToSet(alive) : Boot(kept)
  BY <1>8, BootSaved
<1>9. QED
  BY <1>1, <1>2, <1>3, <1>4, <1>5, <1>6, <1>7, <1>8 DEF Next, SessionStep

\* A boot of the stored screen shows what the screen shows.
LEMMA SavedReloads == ASSUME SplitInv, SavedInv PROVE ReloadKeepsScreen
<1> DEFINE here == ToSet(alive)
           sp == RestoreSplitState(saved.split, here)
           act == BootTarget(sp, alive)
           now == ActivateIn(sp, act, here)
<1> SUFFICES ASSUME activeId \in here, NEW i \in PaneIdx
             PROVE  LET sid == PaneSession(split, activeId, i)
                    IN  PaneSession(now, act, i) = IF sid \in here THEN sid ELSE None
  BY DEF ReloadKeepsScreen
<1>1. /\ None \notin here /\ activeId # None /\ split \in Splits /\ ActiveIn(split, activeId)
      /\ \A k, l \in PaneIdx : saved.split.panes[k] = saved.split.panes[l] /\ k # l =>
           saved.split.panes[k] = None
  <2>1. None \notin here
    BY NoneAssumption, ToSetIn DEF SplitInv, ListTypes
  <2>2. QED
    BY <2>1, Now DEF SplitInv, ScreenInv, Neat
<1>2. IsLayout(sp) /\ sp.mode = split.mode
  BY DEF RestoreSplitState, IsLayout, SavedInv, SameScreen
<1>3. \A k \in PaneIdx :
        sp.panes[k] = IF saved.split.panes[k] \in here THEN saved.split.panes[k] ELSE None
  <2>1. \A k, l \in PaneIdx : l < k => k # l
    BY PaneFacts
  <2>2. QED
    BY <1>1, <2>1 DEF RestoreSplitState
<1>4. saved.active = activeId
  BY <1>1 DEF SavedInv, SameScreen
<1>5. /\ IsSplit(sp) <=> IsSplit(split)
      /\ Visible(sp) = Visible(split) /\ Visible(split) \subseteq PaneIdx
  BY <1>1, <1>2, PaneFacts DEF IsSplit, Visible
<1> HIDE DEF sp, here
<1>6. CASE ~IsSplit(split)
  <2>1. act = activeId
    BY <1>4, <1>5, <1>6 DEF BootTarget, here
  <2>2. now = sp
    BY <1>5, <1>6 DEF ActivateIn
  <2>3. QED
    BY <1>1, <1>5, <1>6, <2>1, <2>2 DEF PaneSession
<1>7. CASE IsSplit(split)
  <2>1. \A k \in PaneIdx :
          sp.panes[k] = IF split.panes[k] \in here THEN split.panes[k] ELSE None
    BY <1>1, <1>3, <1>7 DEF SavedInv, SameScreen, here
  <2>2. activeId \in OnScreen(sp)
    <3>1. activeId \in OnScreen(split)
      BY <1>1, <1>7 DEF ActiveIn
    <3>2. QED
      BY <1>1, <1>5, <2>1, <3>1 DEF OnScreen
  <2>3. act = activeId
    BY <1>4, <2>2 DEF BootTarget, here
  <2>4. now.panes = sp.panes /\ now.mode = sp.mode
    <3>1. \A k : LET r == [sp EXCEPT !.focused = k] IN r.panes = sp.panes /\ r.mode = sp.mode
      BY <1>2 DEF IsLayout
    <3>2. QED
      BY <1>5, <1>7, <2>2, <2>3, <3>1 DEF ActivateIn
  <2> HIDE DEF now
  <2>5. IsSplit(now) /\ Visible(now) = Visible(split)
    BY <1>5, <1>7, <2>4 DEF IsSplit, Visible
  <2>6. QED
    BY <1>1, <1>5, <1>7, <2>1, <2>4, <2>5 DEF PaneSession
<1>8. QED
  BY <1>6, <1>7

\* localStorage keeps the screen: its layout is the one on screen but for sessions that
\* are gone, and its session is the active one, whichever handler ran last
\* (saveSplitState, ta-active-session).
THEOREM ScreenIsSaved == Spec => []SavedInv
<1>1. Init => SavedInv
  <2> SUFFICES ASSUME Init PROVE SavedInv
    OBVIOUS
  <2>1. saved.split = split /\ saved.active = activeId
    BY DEF Init
  <2>2. QED
    BY <2>1 DEF SavedInv, SameScreen
<1>2. SplitInv /\ SavedInv /\ [Next]_vars => SavedInv'
  BY SavedNext
<1>3. QED
  BY <1>1, <1>2, ScreenIsSound, PTL DEF Spec

\* What boot would make of localStorage now is the screen the user sees, with the panes
\* of sessions that are gone left empty: a reload loses no part of the layout, whenever
\* it comes (restoreSplitState, boot).
THEOREM ReloadsKeepTheScreen == Spec => []ReloadKeepsScreen
<1>1. SplitInv /\ SavedInv => ReloadKeepsScreen
  BY SavedReloads
<1>2. QED
  BY <1>1, ScreenIsSound, ScreenIsSaved, PTL
=============================================================================
