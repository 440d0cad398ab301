------------------------- MODULE PromptQueue_proofs -------------------------
(***************************************************************************)
(* Proofs about PromptQueue, for any number of prompts, acts of the user,  *)
(* failed saves and crashes: no saved prompt is lost, a delivery that goes *)
(* by the hook confirms only what the tool got, a session has one delivery *)
(* at a time, and no prompt is pasted twice but on the user's word.        *)
(*                                                                         *)
(* The lists form a chain: the file, the store, the saves under way and    *)
(* the list on the page, from the oldest to the newest.  An item that was  *)
(* saved and that a list of the chain holds is in every older one, unless  *)
(* the user took it back; one that a list lacks is in the terminal or was  *)
(* taken back.  So going back to an older list, after a crash or a failed  *)
(* save, loses nothing.                                                    *)
(***************************************************************************)
EXTENDS PromptQueue, SequenceTheorems, TLAPS

Gone == pasted \cup sent \cup taken
ListOf(k) == ToSet(saves[k].list)
\* save k brings item i into the list
Brings(k, i) == saves[k].then = "schedule" /\ saves[k].item = i

DeliveryInv ==
  /\ inflight = None <=> pc = "none"
  /\ pc # "none" => paused = NotPaused
  /\ retrying = "this" => paused # NotPaused
  /\ pc \notin {"none", "settle"} => inflight \in pasted
  /\ pc \in {"screenLand", "screenWait"} => ~byHook

\* What the hook told is a prompt of its own that the tool sent, or is the user's.
HookInv ==
  /\ \A k \in DOMAIN hooking : hooking[k] \in sent \cup {User}
  /\ heard \subseteq sent \cup {User}

\* Every item is scheduled once.
NumberInv ==
  /\ durable \subseteq 1..reserved
  /\ \A k \in DOMAIN saves : saves[k].then = "schedule" =>
       /\ saves[k].item \in 1..reserved /\ saves[k].item \notin durable
       /\ \A l \in DOMAIN saves : Brings(l, saves[k].item) => l = k

ChainInv ==
  /\ \A l \in DOMAIN saves : \A i \in ListOf(l) \ taken :
       /\ \A k \in 1..l : i \in durable \/ (\E m \in 1..k : Brings(m, i)) => i \in ListOf(k)
       /\ i \in durable => i \in ToSet(backend) /\ i \in ToSet(disk)
  /\ \A i \in ToSet(backend) \ taken : i \in durable => i \in ToSet(disk)
  /\ saves # <<>> => queue = saves[Len(saves)].list
  /\ saves = <<>> => ToSet(queue) \subseteq ToSet(backend) \cup taken

\* What a save that is rolled back changes.
UndoInv ==
  \A k \in DOMAIN saves :
    /\ saves[k].then \in {"schedule", "remove"} =>
         ToSet(saves[k].before) \subseteq ListOf(k) \cup taken
    /\ saves[k].then = "schedule" =>
         ListOf(k) \subseteq ToSet(saves[k].before) \cup {saves[k].item}
    /\ saves[k].then = "remove" => ListOf(k) \subseteq ToSet(saves[k].before)

GoneInv ==
  /\ durable \subseteq ToSet(queue) \cup Gone
  /\ durable \subseteq ToSet(backend) \cup Gone
  /\ durable \subseteq ToSet(disk) \cup Gone
  /\ \A k \in DOMAIN saves : durable \subseteq ListOf(k) \cup Gone
  /\ \A m \in DOMAIN saves : \A i \in Items : Brings(m, i) =>
       /\ i \in ToSet(queue) \cup Gone
       /\ \A k \in DOMAIN saves : m <= k => i \in ListOf(k) \cup Gone

QueueInv == NumberInv /\ ChainInv /\ UndoInv /\ GoneInv
PQInv == TypeOK /\ DeliveryInv /\ HookInv /\ QueueInv

-----------------------------------------------------------------------------
(* Sequences and the sets of their elements *)

LEMMA ToSetIn ==
  ASSUME NEW S, NEW q \in Seq(S)
  PROVE  ToSet(q) \subseteq S /\ (q # <<>> => Head(q) \in ToSet(q))
<1>1. \A k \in DOMAIN q : q[k] \in S
  OBVIOUS
<1>2. q # <<>> => 1 \in DOMAIN q /\ Head(q) = q[1]
  BY HeadTailProperties
<1>3. QED
  BY <1>1, <1>2 DEF ToSet

LEMMA AppendSet ==
  ASSUME NEW S, NEW q \in Seq(S), NEW e \in S
  PROVE  /\ Append(q, e) \in Seq(S) /\ ToSet(Append(q, e)) = ToSet(q) \cup {e}
         /\ Len(q) \in Nat /\ DOMAIN q = 1..Len(q)
         /\ Len(Append(q, e)) = Len(q) + 1 /\ DOMAIN Append(q, e) = 1..(Len(q) + 1)
         /\ \A k \in 1..Len(q) : Append(q, e)[k] = q[k]
         /\ Append(q, e)[Len(q) + 1] = e
<1> DEFINE r == Append(q, e)
<1>1. /\ r \in Seq(S) /\ Len(q) \in Nat /\ DOMAIN q = 1..Len(q)
      /\ Len(r) = Len(q) + 1 /\ DOMAIN r = 1..(Len(q) + 1)
      /\ \A k \in 1..Len(q) : r[k] = q[k]
      /\ r[Len(q) + 1] = e
  BY AppendProperties
<1> HIDE DEF r
<1>2. \A k \in DOMAIN r : k \in DOMAIN q \/ k = Len(q) + 1
  BY <1>1
<1>3. Len(q) + 1 \in DOMAIN r /\ DOMAIN q \subseteq DOMAIN r
  BY <1>1
<1>4. ToSet(r) = ToSet(q) \cup {e}
  <2>1. \A x \in ToSet(r) : x \in ToSet(q) \cup {e}
    BY <1>1, <1>2 DEF ToSet
  <2>2. \A x \in ToSet(q) \cup {e} : x \in ToSet(r)
    BY <1>1, <1>3 DEF ToSet
  <2>3. QED
    BY <2>1, <2>2
<1>5. QED
  BY <1>1, <1>4 DEF r

LEMMA TailSet ==
  ASSUME NEW S, NEW q \in Seq(S), q # <<>>
  PROVE  /\ Tail(q) \in Seq(S) /\ ToSet(q) = ToSet(Tail(q)) \cup {Head(q)}
<1> DEFINE r == Tail(q)
<1>1. /\ r \in Seq(S) /\ Len(q) \in Nat /\ Len(q) > 0 /\ DOMAIN q = 1..Len(q)
      /\ DOMAIN r = 1..(Len(q) - 1) /\ \A k \in DOMAIN r : r[k] = q[k + 1]
      /\ Head(q) = q[1]
  BY HeadTailProperties
<1> HIDE DEF r
<1>2. /\ \A k \in DOMAIN r : k + 1 \in DOMAIN q
      /\ \A k \in DOMAIN q : k = 1 \/ (k - 1 \in DOMAIN r /\ k = (k - 1) + 1)
      /\ 1 \in DOMAIN q
  BY <1>1
<1>3. \A x \in ToSet(r) \cup {Head(q)} : x \in ToSet(q)
  BY <1>1, <1>2 DEF ToSet
<1>4. \A x \in ToSet(q) : x \in ToSet(r) \cup {Head(q)}
  BY <1>1, <1>2 DEF ToSet
<1>5. QED
  BY <1>1, <1>3, <1>4 DEF r

LEMMA SpanLeft ==
  ASSUME NEW l \in Nat, NEW n \in 1..l
  PROVE  (IF n + 1 <= l THEN l - (n + 1) + 1 ELSE 0) = l - n
  OBVIOUS

LEMMA RemoveAtSet ==
  ASSUME NEW S, NEW q \in Seq(S), NEW n \in 1..Len(q)
  PROVE  /\ RemoveAt(q, n) \in Seq(S)
         /\ Len(q) \in Nat /\ DOMAIN q = 1..Len(q)
         /\ Len(RemoveAt(q, n)) = Len(q) - 1 /\ DOMAIN RemoveAt(q, n) = 1..(Len(q) - 1)
         /\ \A k \in 1..(Len(q) - 1) : RemoveAt(q, n)[k] = IF k < n THEN q[k] ELSE q[k + 1]
<1> DEFINE a == SubSeq(q, 1, n - 1)
           b == SubSeq(q, n + 1, Len(q))
<1>1. Len(q) \in Nat /\ DOMAIN q = 1..Len(q)
  OBVIOUS
<1>2. /\ a \in Seq(S) /\ Len(a) = n - 1
      /\ \A k \in 1..(n - 1) : a[k] = q[k]
  <2>1. 1 \in 1..(Len(q) + 1) /\ n - 1 \in 0..Len(q)
    BY <1>1
  <2>2. /\ a \in Seq(S) /\ Len(a) = IF 1 <= n - 1 THEN n - 1 - 1 + 1 ELSE 0
        /\ \A k \in 1..(n - 1 - 1 + 1) : a[k] = q[1 + k - 1]
    BY <2>1, SubSeqProperties
  <2> HIDE DEF a
  <2>3. QED
    BY <1>1, <2>1, <2>2
<1>3. /\ b \in Seq(S) /\ Len(b) = Len(q) - n
      /\ \A k \in 1..(Len(q) - n) : b[k] = q[n + k]
  <2>1. n + 1 \in 1..(Len(q) + 1) /\ Len(q) \in 0..Len(q)
    BY <1>1
  <2>2. /\ b \in Seq(S) /\ Len(b) = IF n + 1 <= Len(q) THEN Len(q) - (n + 1) + 1 ELSE 0
        /\ \A k \in 1..(Len(q) - (n + 1) + 1) : b[k] = q[(n + 1) + k - 1]
    BY <2>1, SubSeqProperties
  <2> HIDE DEF b
  <2>3. Len(b) = Len(q) - n
    BY <1>1, <2>2, SpanLeft
  <2>4. \A k \in 1..(Len(q) - n) :
          k \in 1..(Len(q) - (n + 1) + 1) /\ (n + 1) + k - 1 = n + k
    BY <1>1
  <2>5. QED
    BY <2>2, <2>3, <2>4
<1> HIDE DEF a, b
<1>4. /\ a \o b \in Seq(S) /\ Len(a \o b) = Len(a) + Len(b)
      /\ \A k \in 1..(Len(a) + Len(b)) :
           (a \o b)[k] = IF k <= Len(a) THEN a[k] ELSE b[k - Len(a)]
  BY <1>2, <1>3, ConcatProperties
<1>5. Len(a) + Len(b) = Len(q) - 1
  BY <1>1, <1>2, <1>3
<1>6. ASSUME NEW k \in 1..(Len(q) - 1)
      PROVE  (a \o b)[k] = IF k < n THEN q[k] ELSE q[k + 1]
  <2>1. CASE k < n
    BY <1>1, <1>2, <1>4, <1>5, <2>1
  <2>2. CASE ~(k < n)
    <3>1. k - (n - 1) \in 1..(Len(q) - n) /\ n + (k - (n - 1)) = k + 1 /\ ~(k <= n - 1)
      BY <1>1, <2>2
    <3>2. QED
      BY <1>2, <1>3, <1>4, <1>5, <2>2, <3>1
  <2>3. QED
    BY <2>1, <2>2
<1> DEFINE r == a \o b
<1> HIDE DEF r
<1>7. r \in Seq(S) /\ Len(r) = Len(q) - 1
  BY <1>4, <1>5 DEF r
<1>8. DOMAIN r = 1..(Len(q) - 1)
  BY <1>7
<1>9. RemoveAt(q, n) = r
  BY DEF RemoveAt, r, a, b
<1>10. QED
  BY <1>1, <1>6, <1>7, <1>8, <1>9 DEF r

LEMMA WithoutSet ==
  ASSUME queue \in Seq(Items), NEW i
  PROVE  /\ Without(i) \in Seq(Items)
         /\ ToSet(Without(i)) \subseteq ToSet(queue)
         /\ ToSet(queue) \subseteq ToSet(Without(i)) \cup {i}
<1>1. CASE i \notin ToSet(queue)
  BY <1>1 DEF Without
<1>2. CASE i \in ToSet(queue)
  <2> DEFINE n == CHOOSE k \in DOMAIN queue : queue[k] = i
  <2>1. n \in DOMAIN queue /\ queue[n] = i
    BY <1>2 DEF ToSet
  <2> HIDE DEF n
  <2>2. n \in 1..Len(queue)
    BY <2>1
  <2> DEFINE r == RemoveAt(queue, n)
  <2>3. /\ r \in Seq(Items) /\ Len(queue) \in Nat /\ DOMAIN queue = 1..Len(queue)
        /\ DOMAIN r = 1..(Len(queue) - 1)
        /\ \A k \in 1..(Len(queue) - 1) : r[k] = IF k < n THEN queue[k] ELSE queue[k + 1]
    BY <2>2, RemoveAtSet
  <2>4. Without(i) = r
    BY <1>2 DEF Without, n
  <2> HIDE DEF r
  <2>5. \A x \in ToSet(r) : x \in ToSet(queue)
    <3>1. \A k \in DOMAIN r : k \in DOMAIN queue /\ k + 1 \in DOMAIN queue
      BY <2>3
    <3>2. QED
      BY <2>3, <3>1 DEF ToSet
  <2>6. ASSUME NEW x \in ToSet(queue), x # i PROVE x \in ToSet(r)
    <3>1. PICK k \in DOMAIN queue : queue[k] = x
      BY <2>6 DEF ToSet
    <3>2. k # n
      BY <2>1, <2>6, <3>1
    <3>3. CASE k < n
      <4>1. k \in DOMAIN r
        BY <2>2, <2>3, <3>1, <3>3
      <4>2. QED
        BY <2>3, <3>1, <3>3, <4>1 DEF ToSet
    <3>4. CASE k > n
      <4>1. k - 1 \in DOMAIN r /\ ~(k - 1 < n) /\ (k - 1) + 1 = k
        BY <2>2, <2>3, <3>1, <3>4
      <4>2. QED
        BY <2>3, <3>1, <4>1 DEF ToSet
    <3>5. QED
      BY <2>2, <2>3, <3>1, <3>2, <3>3, <3>4
  <2>7. QED
    BY <2>3, <2>4, <2>5, <2>6
<1>3. QED
  BY <1>1, <1>2

-----------------------------------------------------------------------------
(* Types *)

ListTypes ==
  /\ queue \in Seq(Items) /\ saves \in Seq(Saves)
  /\ backend \in Seq(Items) /\ disk \in Seq(Items)
SendTypes ==
  /\ pc \in {"none", "settle", "screenLand", "hookLand", "screenWait", "hookWait", "saving"}
  /\ inflight \in Items \cup {None} /\ tries \in Nat /\ sawRunning \in BOOLEAN
PauseTypes ==
  /\ byHook \in BOOLEAN /\ heard \subseteq Items \cup {User}
  /\ paused \in [reason : Reasons, item : Items \cup {None}]
  /\ watching \in {"no", "this", "other"} /\ retrying \in {"no", "this", "other"}
ToolTypes ==
  /\ wire \in Seq(Items \cup {User, Enter}) /\ box \in Seq(Items \cup {User})
  /\ shown \subseteq Items /\ turn \in BOOLEAN /\ hooking \in Seq(Items \cup {User})
  /\ typed \in BOOLEAN /\ output \in BOOLEAN /\ status \in {"running", "rest"}
HistTypes ==
  /\ reserved \in 0..MaxItems /\ durable \subseteq Items /\ pasted \subseteq Items
  /\ sent \subseteq Items /\ taken \subseteq Items /\ undone \in BOOLEAN /\ acts \in Nat

LEMMA TypeParts == TypeOK <=> ListTypes /\ SendTypes /\ PauseTypes /\ ToolTypes /\ HistTypes
  BY Zenon DEF TypeOK, ListTypes, SendTypes, PauseTypes, ToolTypes, HistTypes

LEMMA TypePrimed ==
  TypeOK' <=> ListTypes' /\ SendTypes' /\ PauseTypes' /\ ToolTypes' /\ HistTypes'
  BY Zenon DEF TypeOK, ListTypes, SendTypes, PauseTypes, ToolTypes, HistTypes

\* The parts a step leaves alone keep their types.
LEMMA SameTypes ==
  /\ ListTypes /\ UNCHANGED listVars /\ UNCHANGED storeVars => ListTypes'
  /\ SendTypes /\ UNCHANGED sendVars => SendTypes'
  /\ PauseTypes /\ UNCHANGED hookVars /\ UNCHANGED pauseVars => PauseTypes'
  /\ ToolTypes /\ UNCHANGED toolVars /\ UNCHANGED typed /\ UNCHANGED status => ToolTypes'
  /\ HistTypes /\ UNCHANGED histVars /\ UNCHANGED acts => HistTypes'
<1>1. ListTypes /\ UNCHANGED listVars /\ UNCHANGED storeVars => ListTypes'
  BY DEF ListTypes, listVars, storeVars
<1>2. SendTypes /\ UNCHANGED sendVars => SendTypes'
  BY DEF SendTypes, sendVars
<1>3. PauseTypes /\ UNCHANGED hookVars /\ UNCHANGED pauseVars => PauseTypes'
  BY DEF PauseTypes, hookVars, pauseVars
<1>4. ToolTypes /\ UNCHANGED toolVars /\ UNCHANGED typed /\ UNCHANGED status => ToolTypes'
  BY DEF ToolTypes, toolVars
<1>5. HistTypes /\ UNCHANGED histVars /\ UNCHANGED acts => HistTypes'
  BY DEF HistTypes, histVars
<1>6. QED
  BY <1>1, <1>2, <1>3, <1>4, <1>5

LEMMA ItemsAreNumbers ==
  /\ MaxItems \in Nat /\ None \notin Items /\ User \notin Items /\ Enter \notin Items
  BY QueueAssumption DEF Items, None, User, Enter

LEMMA StoreTypes ==
  ASSUME ListTypes, NEW list \in Seq(Items), NEW then \in {"schedule", "remove", "pump", "none"},
         NEW i \in Items \cup {None}, Store(list, then, i), UNCHANGED storeVars
  PROVE  ListTypes'
<1> DEFINE s == [list |-> list, before |-> queue, then |-> then, item |-> i]
<1>1. s \in Saves
  BY DEF Saves, ListTypes
<1>2. queue' = list /\ saves' = Append(saves, s)
  BY DEF Store
<1> HIDE DEF s
<1>3. saves' \in Seq(Saves)
  BY <1>1, <1>2, AppendSet DEF ListTypes
<1>4. QED
  BY <1>2, <1>3 DEF ListTypes, storeVars

LEMMA PumpTypes == ASSUME ListTypes, SendTypes, Pump PROVE SendTypes' /\ UNCHANGED listVars
<1>1. UNCHANGED listVars
  BY DEF Pump
<1>2. CASE queue = <<>>
  BY <1>2, SameTypes DEF Pump
<1>3. CASE queue # <<>>
  <2>1. Head(queue) \in Items
    BY <1>3 DEF ListTypes
  <2>2. pc' = "settle" /\ inflight' = Head(queue) /\ tries' = tries
    BY <1>3 DEF Pump
  <2>3. sawRunning' \in BOOLEAN
    BY <1>3, Zenon DEF Pump
  <2>4. SendTypes'
    BY <2>1, <2>2, <2>3 DEF SendTypes
  <2>5. QED
    BY <1>1, <2>4
<1>4. QED
  BY <1>1, <1>2, <1>3

LEMMA EndPauseTypes ==
  ASSUME NEW w \in {"no", "this", "other"}, NEW r \in {"no", "this", "other"}, EndPause(w, r)
  PROVE  PauseTypes'
<1>1. paused' \in [reason : Reasons, item : Items \cup {None}]
  BY DEF EndPause, NotPaused, Reasons
<1>2. byHook' \in BOOLEAN
  BY Zenon DEF EndPause
<1>3. heard' = {} /\ watching' \in {"no", "this", "other"} /\ retrying' \in {"no", "this", "other"}
  BY DEF EndPause, Aged
<1>4. QED
  BY <1>1, <1>2, <1>3 DEF PauseTypes

LEMMA PauseKeepsTypes ==
  ASSUME SendTypes, PauseTypes, NEW reason \in Reasons, NEW hook, Pause(reason, hook)
  PROVE  /\ pc' = "none" /\ inflight' = None /\ tries' = 0
         /\ paused' \in [reason : Reasons, item : Items \cup {None}]
         /\ watching' \in {"no", "this", "other"} /\ retrying' \in {"no", "this", "other"}
  BY DEF Pause, SendTypes, PauseTypes

LEMMA WireTypes ==
  ASSUME ToolTypes, NEW k \in Items \cup {User, Enter}, wire' = Append(wire, k)
  PROVE  wire' \in Seq(Items \cup {User, Enter})
  BY AppendSet DEF ToolTypes

LEMMA PressTypes ==
  ASSUME ToolTypes, PressEnter
  PROVE  wire' \in Seq(Items \cup {User, Enter}) /\ typed' \in BOOLEAN
<1>1. wire' = Append(wire, Enter) /\ typed' = FALSE
  BY DEF PressEnter
<1>2. wire' \in Seq(Items \cup {User, Enter})
  BY <1>1, WireTypes
<1>3. typed' \in BOOLEAN
  BY <1>1, Zenon
<1>4. QED
  BY <1>2, <1>3

LEMMA TypeInit == Init => TypeOK
<1> SUFFICES ASSUME Init PROVE TypeOK
  OBVIOUS
<1>1. ListTypes
  BY DEF Init, ListTypes
<1>2. SendTypes
  <2>1. sawRunning \in BOOLEAN
    BY Zenon DEF Init
  <2>2. QED
    BY <2>1 DEF Init, SendTypes
<1>3. PauseTypes
  <2>1. byHook \in BOOLEAN
    BY Zenon DEF Init
  <2>2. paused \in [reason : Reasons, item : Items \cup {None}]
    BY DEF Init, NotPaused, Reasons
  <2>3. QED
    BY <2>1, <2>2 DEF Init, PauseTypes
<1>4. ToolTypes
  <2>1. turn \in BOOLEAN /\ typed \in BOOLEAN /\ output \in BOOLEAN
    BY Zenon DEF Init
  <2>2. QED
    BY <2>1 DEF Init, ToolTypes
<1>5. HistTypes
  <2>1. undone \in BOOLEAN
    BY Zenon DEF Init
  <2>2. QED
    BY <2>1, ItemsAreNumbers DEF Init, HistTypes
<1>6. QED
  BY <1>1, <1>2, <1>3, <1>4, <1>5, TypeParts

LEMMA ActTypes == ASSUME HistTypes, Act PROVE acts' \in Nat
  BY DEF HistTypes, Act

LEMMA UserTypes ==
  ASSUME TypeOK, Schedule \/ Retry \/ CancelPaused \/ (\E i \in Items : RemoveItem(i))
                 \/ (\E k \in {User, Enter} : UserKey(k))
  PROVE  TypeOK'
<1>1. ListTypes /\ SendTypes /\ PauseTypes /\ ToolTypes /\ HistTypes
  BY TypeParts
<1>2. CASE Schedule
  <2> DEFINE i == reserved + 1
  <2>1. i \in Items /\ reserved' = i /\ Store(Append(queue, i), "schedule", i)
    BY <1>2 DEF Schedule
  <2>2. ListTypes'
    <3>1. Append(queue, i) \in Seq(Items)
      BY <1>1, <2>1, AppendSet DEF ListTypes
    <3>2. UNCHANGED storeVars
      BY <1>2 DEF Schedule
    <3>3. QED
      BY <1>1, <2>1, <3>1, <3>2, StoreTypes
  <2>3. SendTypes' /\ PauseTypes' /\ ToolTypes'
    BY <1>1, <1>2, SameTypes DEF Schedule
  <2>4. reserved' \in 0..MaxItems
    BY <2>1, ItemsAreNumbers DEF Items
  <2>5. HistTypes'
    BY <1>1, <1>2, <2>4 DEF Schedule, HistTypes
  <2>6. QED
    BY <2>2, <2>3, <2>5, TypePrimed
<1>3. CASE Retry
  <2>1. ListTypes' /\ SendTypes'
    <3>1. (Pump \/ UNCHANGED <<listVars, sendVars>>) /\ UNCHANGED storeVars
      BY <1>3 DEF Retry, StartOver
    <3>2. QED
      BY <1>1, <3>1, PumpTypes, SameTypes
  <2>2. PauseTypes'
    <3>1. CASE byHook
      BY <1>1, <1>3, <3>1 DEF Retry, PauseTypes, hookVars
    <3>2. CASE ~byHook
      <4>1. EndPause(watching, retrying)
        BY <1>3, <3>2 DEF Retry
      <4>2. watching \in {"no", "this", "other"} /\ retrying \in {"no", "this", "other"}
        BY <1>1 DEF PauseTypes
      <4>3. QED
        BY <4>1, <4>2, EndPauseTypes
    <3>3. QED
      BY <3>1, <3>2
  <2>3. ToolTypes'
    BY <1>1, <1>3, SameTypes DEF Retry
  <2>4. pasted' \subseteq Items /\ acts' \in Nat
    <3>1. pasted' = pasted \/ pasted' = pasted \ ToSet(queue)
      BY <1>3 DEF Retry, StartOver
    <3>2. acts' \in Nat
      BY <1>1, <1>3, ActTypes DEF Retry
    <3>3. QED
      BY <1>1, <3>1, <3>2 DEF HistTypes
  <2>5. HistTypes'
    BY <1>1, <1>3, <2>4 DEF Retry, HistTypes
  <2>6. QED
    BY <2>1, <2>2, <2>3, <2>5, TypePrimed
<1>4. CASE CancelPaused
  <2>1. queue # <<>> /\ queue \in Seq(Items)
    BY <1>1, <1>4 DEF CancelPaused, ListTypes
  <2>2. Tail(queue) \in Seq(Items) /\ Head(queue) \in Items /\ None \in Items \cup {None}
    BY <2>1
  <2>3. ListTypes'
    BY <1>1, <1>4, <2>2, StoreTypes DEF CancelPaused
  <2>4. PauseTypes'
    BY <1>1, <1>4, EndPauseTypes DEF CancelPaused, PauseTypes
  <2>5. SendTypes' /\ ToolTypes'
    BY <1>1, <1>4, SameTypes DEF CancelPaused
  <2>6. HistTypes'
    <3>1. acts' \in Nat
      BY <1>1, <1>4, ActTypes DEF CancelPaused
    <3>2. QED
      BY <1>1, <1>4, <2>2, <3>1 DEF CancelPaused, HistTypes
  <2>7. QED
    BY <2>3, <2>4, <2>5, <2>6, TypePrimed
<1>5. ASSUME NEW i \in Items, RemoveItem(i) PROVE TypeOK'
  <2>1. Without(i) \in Seq(Items)
    BY <1>1, WithoutSet DEF ListTypes
  <2>2. ListTypes'
    BY <1>1, <1>5, <2>1, StoreTypes DEF RemoveItem
  <2>3. SendTypes' /\ PauseTypes' /\ ToolTypes'
    BY <1>1, <1>5, SameTypes DEF RemoveItem
  <2>4. HistTypes'
    <3>1. acts' \in Nat
      BY <1>1, <1>5, ActTypes DEF RemoveItem
    <3>2. QED
      BY <1>1, <1>5, <3>1 DEF RemoveItem, HistTypes
  <2>5. QED
    BY <2>2, <2>3, <2>4, TypePrimed
<1>6. ASSUME NEW k \in {User, Enter}, UserKey(k) PROVE TypeOK'
  <2>1. ListTypes' /\ SendTypes' /\ PauseTypes'
    BY <1>1, <1>6, SameTypes DEF UserKey
  <2>2. ToolTypes'
    <3>1. wire' \in Seq(Items \cup {User, Enter})
      BY <1>1, <1>6, WireTypes DEF UserKey
    <3>2. typed' \in BOOLEAN
      BY <1>6, Zenon DEF UserKey
    <3>3. QED
      BY <1>1, <1>6, <3>1, <3>2 DEF UserKey, ToolTypes
  <2>3. HistTypes'
    <3>1. acts' \in Nat
      BY <1>1, <1>6, ActTypes DEF UserKey
    <3>2. QED
      BY <1>1, <1>6, <3>1 DEF UserKey, HistTypes, histVars
  <2>4. QED
    BY <2>1, <2>2, <2>3, TypePrimed
<1>7. QED
  BY <1>2, <1>3, <1>4, <1>5, <1>6

LEMMA DeliverTypes ==
  ASSUME TypeOK, DeliveryInv,
         (\E hook \in BOOLEAN : Start(hook)) \/ Landed \/ TimesOut \/ Confirmed
  PROVE  TypeOK'
<1>1. ListTypes /\ SendTypes /\ PauseTypes /\ ToolTypes /\ HistTypes
  BY TypeParts
<1>2. ASSUME NEW hook \in BOOLEAN, Start(hook) PROVE TypeOK'
  <2>1. inflight \in Items /\ pc = "settle"
    BY <1>1, <1>2 DEF Start, SendTypes, DeliveryInv
  <2>2. ListTypes'
    BY <1>1, <1>2, SameTypes DEF Start
  <2>3. sawRunning' \in BOOLEAN /\ byHook' \in BOOLEAN
    BY <1>1, <1>2, Zenon DEF Start, SendTypes
  <2>4. /\ heard' = {}
        /\ UNCHANGED <<box, shown, turn, hooking, output, status, reserved, durable, sent,
                       taken, undone, acts>>
    BY <1>2 DEF Start
  <2>5. ASSUME PressEnter, pc' \in {"hookWait", "screenWait"}, tries' = 1,
               pasted' = pasted \cup {inflight}, inflight' = inflight, UNCHANGED pauseVars
        PROVE  TypeOK'
    <3>1. SendTypes'
      BY <1>1, <2>3, <2>5 DEF SendTypes
    <3>2. PauseTypes'
      BY <1>1, <2>3, <2>4, <2>5 DEF PauseTypes, pauseVars
    <3>3. ToolTypes'
      <4>1. wire' \in Seq(Items \cup {User, Enter}) /\ typed' \in BOOLEAN
        BY <1>1, <2>5, PressTypes
      <4>2. QED
        BY <1>1, <2>4, <4>1 DEF ToolTypes
    <3>4. HistTypes'
      BY <1>1, <2>1, <2>4, <2>5 DEF HistTypes
    <3>5. QED
      BY <2>2, <3>1, <3>2, <3>3, <3>4, TypePrimed
  <2>6. ASSUME Pause("leftover", hook), UNCHANGED <<wire, typed, pasted>>
        PROVE  TypeOK'
    <3>1. /\ pc' = "none" /\ inflight' = None /\ tries' = 0
          /\ paused' \in [reason : Reasons, item : Items \cup {None}]
          /\ watching' \in {"no", "this", "other"} /\ retrying' \in {"no", "this", "other"}
      <4>1. "leftover" \in Reasons
        BY DEF Reasons
      <4>2. QED
        BY <1>1, <2>6, <4>1, PauseKeepsTypes
    <3>2. SendTypes'
      BY <1>1, <2>3, <3>1 DEF SendTypes
    <3>3. PauseTypes'
      BY <1>1, <2>3, <2>4, <3>1 DEF PauseTypes
    <3>4. ToolTypes' /\ HistTypes'
      BY <1>1, <2>4, <2>6 DEF ToolTypes, HistTypes
    <3>5. QED
      BY <2>2, <3>2, <3>3, <3>4, TypePrimed
  <2>7. ASSUME wire' = Append(wire, inflight), typed' = TRUE, pasted' = pasted \cup {inflight},
               pc' \in {"hookLand", "screenLand"}, UNCHANGED <<inflight, tries, pauseVars>>
        PROVE  TypeOK'
    <3>1. SendTypes'
      BY <1>1, <2>3, <2>7 DEF SendTypes
    <3>2. PauseTypes'
      BY <1>1, <2>3, <2>4, <2>7 DEF PauseTypes, pauseVars
    <3>3. ToolTypes'
      <4>1. wire' \in Seq(Items \cup {User, Enter})
        BY <1>1, <2>1, <2>7, WireTypes
      <4>2. typed' \in BOOLEAN
        BY <2>7, Zenon
      <4>3. QED
        BY <1>1, <2>4, <4>1, <4>2 DEF ToolTypes
    <3>4. HistTypes'
      BY <1>1, <2>1, <2>4, <2>7 DEF HistTypes
    <3>5. QED
      BY <2>2, <3>1, <3>2, <3>3, <3>4, TypePrimed
  <2>8. QED
    BY <1>2, <2>5, <2>6, <2>7 DEF Start
<1>3. CASE Landed
  <2>1. ListTypes' /\ PauseTypes' /\ HistTypes'
    BY <1>1, <1>3, SameTypes DEF Landed
  <2>2. SendTypes'
    BY <1>1, <1>3 DEF Landed, SendTypes
  <2>3. ToolTypes'
    <3>1. wire' \in Seq(Items \cup {User, Enter}) /\ typed' \in BOOLEAN
      BY <1>1, <1>3, PressTypes DEF Landed
    <3>2. QED
      BY <1>1, <1>3, <3>1 DEF Landed, ToolTypes
  <2>4. QED
    BY <2>1, <2>2, <2>3, TypePrimed
<1>4. CASE TimesOut
  <2>1. ListTypes' /\ HistTypes'
    BY <1>1, <1>4, SameTypes DEF TimesOut
  <2>2. EnterAgain \/ \E r \in Reasons : GiveUp(r)
    <3>1. {"paste", "submit", "mismatch", "unconfirmed"} \subseteq Reasons
      BY DEF Reasons
    <3>2. QED
      BY <1>4, <3>1 DEF TimesOut
  <2>3. UNCHANGED <<sawRunning, hookVars, box, shown, turn, hooking, output, status>>
    BY <1>4 DEF TimesOut
  <2>4. CASE EnterAgain
    <3>1. SendTypes' /\ PauseTypes'
      BY <1>1, <2>3, <2>4, SameTypes DEF EnterAgain, SendTypes
    <3>2. ToolTypes'
      <4>1. wire' \in Seq(Items \cup {User, Enter}) /\ typed' \in BOOLEAN
        BY <1>1, <2>4, PressTypes DEF EnterAgain
      <4>2. QED
        BY <1>1, <2>3, <4>1 DEF ToolTypes
    <3>3. QED
      BY <2>1, <3>1, <3>2, TypePrimed
  <2>5. ASSUME NEW r \in Reasons, GiveUp(r) PROVE TypeOK'
    <3>1. Pause(r, byHook) /\ UNCHANGED <<wire, typed>>
      BY <2>5 DEF GiveUp
    <3>2. /\ pc' = "none" /\ inflight' = None /\ tries' = 0
          /\ paused' \in [reason : Reasons, item : Items \cup {None}]
          /\ watching' \in {"no", "this", "other"} /\ retrying' \in {"no", "this", "other"}
      BY <1>1, <3>1, PauseKeepsTypes
    <3>3. SendTypes'
      BY <1>1, <2>3, <3>2 DEF SendTypes
    <3>4. PauseTypes'
      BY <1>1, <2>3, <3>2 DEF PauseTypes, hookVars
    <3>5. ToolTypes'
      BY <1>1, <2>3, <3>1 DEF ToolTypes
    <3>6. QED
      BY <2>1, <3>3, <3>4, <3>5, TypePrimed
  <2>6. QED
    BY <2>2, <2>4, <2>5
<1>5. CASE Confirmed
  <2>1. Store(Without(inflight), "pump", None) /\ UNCHANGED storeVars
    BY <1>5 DEF Confirmed
  <2>2. ListTypes'
    <3>1. Without(inflight) \in Seq(Items)
      BY <1>1, WithoutSet DEF ListTypes
    <3>2. QED
      BY <1>1, <2>1, <3>1, StoreTypes
  <2>3. SendTypes'
    BY <1>1, <1>5 DEF Confirmed, SendTypes
  <2>4. PauseTypes'
    <3>1. byHook' \in BOOLEAN /\ heard' = {}
      BY <1>5, Zenon DEF Confirmed
    <3>2. QED
      BY <1>1, <1>5, <3>1 DEF Confirmed, PauseTypes, pauseVars
  <2>5. ToolTypes' /\ HistTypes'
    BY <1>1, <1>5, SameTypes DEF Confirmed
  <2>6. QED
    BY <2>2, <2>3, <2>4, <2>5, TypePrimed
<1>6. QED
  BY <1>2, <1>3, <1>4, <1>5

LEMMA RestTypes ==
  ASSUME TypeOK, RetryAsked \/ Watch \/ StatusRunning
                 \/ (\E done \in BOOLEAN : StatusRests(done))
  PROVE  TypeOK'
<1>1. ListTypes /\ SendTypes /\ PauseTypes /\ ToolTypes /\ HistTypes
  BY TypeParts
<1>2. ASSUME Settle, UNCHANGED storeVars PROVE ListTypes'
  <2>1. CASE queue # <<>> /\ Head(queue) = paused.item
    <3>1. Tail(queue) \in Seq(Items)
      BY <1>1, <2>1 DEF ListTypes
    <3>2. QED
      BY <1>1, <1>2, <2>1, <3>1, StoreTypes DEF Settle
  <2>2. CASE ~(queue # <<>> /\ Head(queue) = paused.item)
    BY <1>1, <1>2, <2>2, SameTypes DEF Settle
  <2>3. QED
    BY <2>1, <2>2
<1>3. /\ watching \in {"no", "this", "other"} /\ retrying \in {"no", "this", "other"}
      /\ "no" \in {"no", "this", "other"}
  BY <1>1 DEF PauseTypes
<1>4. CASE RetryAsked
  <2>1. UNCHANGED storeVars
    BY <1>4 DEF RetryAsked
  <2>2. ToolTypes'
    BY <1>1, <1>4, SameTypes DEF RetryAsked
  <2>3. HistTypes'
    <3>1. pasted' = pasted \/ pasted' = pasted \ ToSet(queue)
      BY <1>4 DEF RetryAsked, StartOver
    <3>2. QED
      BY <1>1, <1>4, <3>1 DEF RetryAsked, HistTypes
  <2>4. ListTypes' /\ SendTypes'
    <3>1. \/ UNCHANGED <<listVars, sendVars>> \/ (Settle /\ UNCHANGED sendVars) \/ Pump
      BY <1>4 DEF RetryAsked, StartOver
    <3>2. QED
      BY <1>1, <1>2, <2>1, <3>1, PumpTypes, SameTypes
  <2>5. PauseTypes'
    <3>1. EndPause(watching, "no") \/ (retrying' = "no" /\ UNCHANGED <<hookVars, paused, watching>>)
      BY <1>4 DEF RetryAsked
    <3>2. QED
      BY <1>1, <1>3, <3>1, EndPauseTypes DEF PauseTypes, hookVars
  <2>6. QED
    BY <2>2, <2>3, <2>4, <2>5, TypePrimed
<1>5. CASE Watch
  <2>1. SendTypes' /\ ToolTypes' /\ HistTypes'
    BY <1>1, <1>5, SameTypes DEF Watch
  <2>2. ListTypes'
    BY <1>1, <1>2, <1>5, SameTypes DEF Watch
  <2>3. PauseTypes'
    <3>1. EndPause("no", retrying) \/ (watching' = "no" /\ UNCHANGED <<hookVars, paused, retrying>>)
      BY <1>5 DEF Watch
    <3>2. QED
      BY <1>1, <1>3, <3>1, EndPauseTypes DEF PauseTypes, hookVars
  <2>4. QED
    BY <2>1, <2>2, <2>3, TypePrimed
<1>6. CASE StatusRunning
  <2>1. ListTypes' /\ HistTypes'
    BY <1>1, <1>6, SameTypes DEF StatusRunning
  <2>2. SendTypes'
    <3>1. sawRunning' \in BOOLEAN
      BY <1>6, Zenon DEF StatusRunning
    <3>2. QED
      BY <1>1, <1>6, <3>1 DEF StatusRunning, SendTypes
  <2>3. PauseTypes'
    <3>1. watching' \in {"no", "this", "other"}
      BY <1>3, <1>6 DEF StatusRunning
    <3>2. UNCHANGED <<hookVars, paused, retrying>>
      BY <1>6 DEF StatusRunning
    <3>3. QED
      BY <1>1, <3>1, <3>2 DEF PauseTypes, hookVars
  <2>4. ToolTypes'
    <3>1. output' \in BOOLEAN
      BY <1>6, Zenon DEF StatusRunning
    <3>2. QED
      BY <1>1, <1>6, <3>1 DEF StatusRunning, ToolTypes
  <2>5. QED
    BY <2>1, <2>2, <2>3, <2>4, TypePrimed
<1>7. ASSUME NEW done \in BOOLEAN, StatusRests(done) PROVE TypeOK'
  <2>1. HistTypes' /\ UNCHANGED storeVars
    BY <1>1, <1>7, SameTypes DEF StatusRests
  <2>2. ToolTypes'
    <3>1. output' \in BOOLEAN
      BY <1>7, Zenon DEF StatusRests
    <3>2. QED
      BY <1>1, <1>7, <3>1 DEF StatusRests, ToolTypes
  <2>3. \/ Pump /\ EndPause(watching, retrying)
        \/ UNCHANGED <<listVars, sendVars, hookVars, pauseVars>>
    BY <1>7 DEF StatusRests
  <2>4. ListTypes' /\ SendTypes' /\ PauseTypes'
    BY <1>1, <1>3, <2>1, <2>3, PumpTypes, EndPauseTypes, SameTypes
  <2>5. QED
    BY <2>1, <2>2, <2>4, TypePrimed
<1>8. QED
  BY <1>4, <1>5, <1>6, <1>7

\* The oldest save is answered; those behind it move up.
LEMMA SaveAnswered ==
  ASSUME saves \in Seq(Saves), NEW k \in NextSave
  PROVE  /\ k = 1 /\ saves # <<>> /\ 1 \in DOMAIN saves /\ saves[1] \in Saves
         /\ Len(saves) \in Nat /\ Len(saves) > 0 /\ DOMAIN saves = 1..Len(saves)
         /\ RemoveAt(saves, 1) \in Seq(Saves)
         /\ Len(RemoveAt(saves, 1)) = Len(saves) - 1
         /\ DOMAIN RemoveAt(saves, 1) = 1..(Len(saves) - 1)
         /\ \A l \in 1..(Len(saves) - 1) : RemoveAt(saves, 1)[l] = saves[l + 1]
<1>1. k = 1 /\ saves # <<>>
  BY DEF NextSave
<1>2. Len(saves) \in Nat /\ Len(saves) > 0 /\ DOMAIN saves = 1..Len(saves) /\ 1 \in 1..Len(saves)
  BY <1>1
<1>3. saves[1] \in Saves
  BY <1>2
<1>4. /\ RemoveAt(saves, 1) \in Seq(Saves)
      /\ Len(RemoveAt(saves, 1)) = Len(saves) - 1
      /\ DOMAIN RemoveAt(saves, 1) = 1..(Len(saves) - 1)
      /\ \A l \in 1..(Len(saves) - 1) :
           RemoveAt(saves, 1)[l] = IF l < 1 THEN saves[l] ELSE saves[l + 1]
  BY <1>2, RemoveAtSet
<1>5. \A l \in 1..(Len(saves) - 1) : ~(l < 1)
  BY <1>2
<1>6. QED
  BY <1>1, <1>2, <1>3, <1>4, <1>5

\* The tool turns what is in its input box into a turn.
BoxSent ==
  /\ Head(wire) = Enter /\ box # <<>> /\ box' = <<>> /\ turn' = TRUE
  /\ shown' \in {{}, ToSet(box) \cap Items}
  /\ sent' = IF Len(box) = 1 THEN sent \cup (ToSet(box) \cap Items) ELSE sent
  /\ hooking' = IF ~Hooked THEN hooking
                ELSE Append(hooking, IF Len(box) = 1 THEN box[1] ELSE User)

\* The two outcomes of a save.
SaveOk ==
  /\ disk' = saves[1].list /\ UNCHANGED <<queue, taken, undone, acts>>
  /\ durable' = IF saves[1].then = "schedule" THEN durable \cup {saves[1].item} ELSE durable
SaveFails ==
  /\ Act /\ UNCHANGED <<disk, durable>>
  /\ queue' = IF RollsBack(saves[1]) THEN saves[1].before ELSE queue
  /\ taken' = taken \/ (/\ RollsBack(saves[1]) /\ saves[1].then = "schedule"
                        /\ taken' = taken \cup {saves[1].item})
  /\ undone' = (undone \/ (RollsBack(saves[1]) /\ saves[1].then = "remove"))

LEMMA SaveCases ==
  ASSUME NEW ok \in BOOLEAN, SaveEnds(ok)
  PROVE  /\ NextSave # {} /\ 1 \in NextSave
         /\ saves' = RemoveAt(saves, 1) /\ backend' = saves[1].list
         /\ SaveOk \/ SaveFails
         /\ \/ pc' = "none" /\ inflight' = None
            \/ UNCHANGED <<pc, inflight>>
         /\ UNCHANGED <<tries, sawRunning, hookVars, pauseVars, toolVars, typed, status,
                        reserved, pasted, sent>>
<1>1. PICK k \in NextSave : LET s == saves[k] IN
          /\ saves' = RemoveAt(saves, k) /\ backend' = s.list
          /\ IF ok
               THEN /\ disk' = s.list /\ UNCHANGED <<queue, taken, undone, acts>>
                    /\ durable' = IF s.then = "schedule" THEN durable \cup {s.item} ELSE durable
               ELSE /\ Act /\ UNCHANGED <<disk, durable>>
                    /\ queue' = IF RollsBack(s) THEN s.before ELSE queue
                    /\ \E emptyComposer \in BOOLEAN :
                         taken' = IF RollsBack(s) /\ s.then = "schedule" /\ emptyComposer
                                    THEN taken \cup {s.item} ELSE taken
                    /\ undone' = (undone \/ (RollsBack(s) /\ s.then = "remove"))
          /\ IF s.then = "pump" THEN pc' = "none" /\ inflight' = None ELSE UNCHANGED <<pc, inflight>>
  BY DEF SaveEnds
<1>2. k = 1
  BY DEF NextSave
<1>3. SaveOk \/ SaveFails
  <2>1. CASE ok
    BY <1>1, <1>2, <2>1 DEF SaveOk
  <2>2. CASE ~ok
    <3>1. /\ Act /\ UNCHANGED <<disk, durable>>
          /\ queue' = IF RollsBack(saves[1]) THEN saves[1].before ELSE queue
          /\ undone' = (undone \/ (RollsBack(saves[1]) /\ saves[1].then = "remove"))
      BY <1>1, <1>2, <2>2
    <3>2. \E emptyComposer \in BOOLEAN :
            taken' = IF RollsBack(saves[1]) /\ saves[1].then = "schedule" /\ emptyComposer
                       THEN taken \cup {saves[1].item} ELSE taken
      BY <1>1, <1>2, <2>2
    <3>3. taken' = taken \/ (/\ RollsBack(saves[1]) /\ saves[1].then = "schedule"
                             /\ taken' = taken \cup {saves[1].item})
      BY <3>2
    <3>4. QED
      BY <3>1, <3>3 DEF SaveFails
  <2>3. QED
    BY <2>1, <2>2
<1>4. QED
  BY <1>1, <1>2, <1>3 DEF SaveEnds

LEMMA WorldTypes ==
  ASSUME TypeOK, NumberInv, ToolReads \/ HookRecords \/ ToolTurn
                 \/ (\E ok \in BOOLEAN : SaveEnds(ok)) \/ (\E app \in BOOLEAN : Crash(app))
  PROVE  TypeOK'
<1>1. ListTypes /\ SendTypes /\ PauseTypes /\ ToolTypes /\ HistTypes
  BY TypeParts
<1>2. CASE ToolReads
  <2>1. ListTypes' /\ SendTypes' /\ PauseTypes'
    BY <1>1, <1>2, SameTypes DEF ToolReads
  <2>2. /\ wire # <<>> /\ wire' = Tail(wire)
        /\ UNCHANGED <<typed, status, reserved, durable, pasted, taken, undone, acts>>
    BY <1>2 DEF ToolReads
  <2>3. /\ wire' \in Seq(Items \cup {User, Enter}) /\ Head(wire) \in Items \cup {User, Enter}
    BY <1>1, <2>2 DEF ToolTypes
  <2>4. output' \in BOOLEAN
    BY <1>2, Zenon DEF ToolReads
  <2>5. \/ Head(wire) # Enter /\ box' = Append(box, Head(wire)) /\ UNCHANGED <<shown, turn, hooking, sent>>
        \/ UNCHANGED <<box, shown, turn, hooking, sent>>
        \/ BoxSent
    BY <1>2 DEF ToolReads, BoxSent
  <2>6. box' \in Seq(Items \cup {User})
    <3>1. CASE Head(wire) # Enter /\ box' = Append(box, Head(wire))
      <4>1. Head(wire) \in Items \cup {User}
        BY <2>3, <3>1
      <4>2. QED
        BY <1>1, <3>1, <4>1, AppendSet DEF ToolTypes
    <3>2. CASE box' = box
      BY <1>1, <3>2 DEF ToolTypes
    <3>3. CASE BoxSent
      BY <3>3 DEF BoxSent
    <3>4. QED
      BY <2>5, <3>1, <3>2, <3>3
  <2>7. shown' \subseteq Items /\ sent' \subseteq Items
    <3>1. CASE UNCHANGED <<shown, sent>>
      BY <1>1, <3>1 DEF ToolTypes, HistTypes
    <3>2. CASE BoxSent
      BY <1>1, <3>2 DEF BoxSent, HistTypes
    <3>3. QED
      BY <2>5, <3>1, <3>2
  <2>8. turn' \in BOOLEAN
    <3>1. turn' = turn \/ turn' = TRUE
      BY <2>5 DEF BoxSent
    <3>2. QED
      BY <1>1, <3>1, Zenon DEF ToolTypes
  <2>9. hooking' \in Seq(Items \cup {User})
    <3>1. CASE hooking' = hooking
      BY <1>1, <3>1 DEF ToolTypes
    <3>2. CASE BoxSent
      <4>1. box \in Seq(Items \cup {User}) /\ hooking \in Seq(Items \cup {User}) /\ box # <<>>
        BY <1>1, <3>2 DEF ToolTypes, BoxSent
      <4>2. box[1] \in Items \cup {User}
        BY <4>1
      <4>3. \A x \in Items \cup {User} : Append(hooking, x) \in Seq(Items \cup {User})
        BY <4>1
      <4>4. QED
        BY <3>2, <4>1, <4>2, <4>3 DEF BoxSent
    <3>3. QED
      BY <2>5, <3>1, <3>2
  <2>10. ToolTypes'
    BY <1>1, <2>2, <2>3, <2>4, <2>6, <2>7, <2>8, <2>9 DEF ToolTypes
  <2>11. HistTypes'
    BY <1>1, <2>2, <2>7 DEF HistTypes
  <2>12. QED
    BY <2>1, <2>10, <2>11, TypePrimed
<1>3. CASE HookRecords
  <2>1. ListTypes' /\ SendTypes' /\ HistTypes'
    BY <1>1, <1>3, SameTypes DEF HookRecords
  <2>2. Head(hooking) \in Items \cup {User} /\ Tail(hooking) \in Seq(Items \cup {User})
    BY <1>1, <1>3 DEF HookRecords, ToolTypes
  <2>3. PauseTypes'
    BY <1>1, <1>3, <2>2 DEF HookRecords, PauseTypes, pauseVars
  <2>4. ToolTypes'
    BY <1>1, <1>3, <2>2 DEF HookRecords, ToolTypes
  <2>5. QED
    BY <2>1, <2>3, <2>4, TypePrimed
<1>4. CASE ToolTurn
  <2>1. ListTypes' /\ SendTypes' /\ PauseTypes'
    BY <1>1, <1>4, SameTypes DEF ToolTurn
  <2>2. turn' \in BOOLEAN
    BY <1>1, <1>4, Zenon DEF ToolTurn
  <2>3. ToolTypes'
    BY <1>1, <1>4, <2>2 DEF ToolTurn, ToolTypes
  <2>4. acts' \in Nat
    BY <1>1, <1>4, ActTypes DEF ToolTurn, HistTypes
  <2>5. HistTypes'
    BY <1>1, <1>4, <2>4 DEF ToolTurn, HistTypes, histVars
  <2>6. QED
    BY <2>1, <2>3, <2>5, TypePrimed
<1>5. ASSUME NEW ok \in BOOLEAN, SaveEnds(ok) PROVE TypeOK'
  <2>1. /\ saves' = RemoveAt(saves, 1) /\ backend' = saves[1].list /\ 1 \in NextSave
        /\ UNCHANGED <<tries, sawRunning, hookVars, pauseVars, toolVars, typed, status,
                       reserved, pasted, sent>>
        /\ (pc' = "none" /\ inflight' = None) \/ UNCHANGED <<pc, inflight>>
    BY <1>5, SaveCases
  <2>2. SaveOk \/ SaveFails
    BY <1>5, SaveCases
  <2>3. saves' \in Seq(Saves) /\ saves[1] \in Saves /\ 1 \in DOMAIN saves
    BY <1>1, <2>1, SaveAnswered DEF ListTypes
  <2>4. saves[1].list \in Seq(Items) /\ saves[1].before \in Seq(Items)
    BY <2>3 DEF Saves
  <2>5. saves[1].then = "schedule" => saves[1].item \in Items
    BY <1>1, <2>3, ItemsAreNumbers DEF NumberInv, HistTypes, Items
  <2>6. ListTypes'
    <3>1. queue' \in Seq(Items) /\ disk' \in Seq(Items)
      BY <1>1, <2>2, <2>4 DEF ListTypes, SaveOk, SaveFails
    <3>2. QED
      BY <2>1, <2>3, <2>4, <3>1 DEF ListTypes
  <2>7. SendTypes' /\ PauseTypes' /\ ToolTypes'
    BY <1>1, <2>1, SameTypes DEF SendTypes
  <2>8. HistTypes'
    <3>1. durable' \subseteq Items /\ taken' \subseteq Items
      BY <1>1, <2>2, <2>5 DEF SaveOk, SaveFails, HistTypes
    <3>2. acts' \in Nat
      BY <1>1, <2>2, ActTypes DEF SaveOk, SaveFails, HistTypes
    <3>3. undone' \in BOOLEAN
      BY <1>1, <2>2, Zenon DEF SaveOk, SaveFails, HistTypes
    <3>4. QED
      BY <1>1, <2>1, <3>1, <3>2, <3>3 DEF HistTypes
  <2>9. QED
    BY <2>6, <2>7, <2>8, TypePrimed
<1>6. ASSUME NEW app \in BOOLEAN, Crash(app) PROVE TypeOK'
  <2>1. ListTypes'
    BY <1>1, <1>6 DEF Crash, ListTypes
  <2>2. SendTypes'
    <3>1. sawRunning' \in BOOLEAN
      BY <1>6, Zenon DEF Crash
    <3>2. QED
      BY <1>6, <3>1 DEF Crash, SendTypes
  <2>3. PauseTypes'
    <3>1. byHook' \in BOOLEAN
      BY <1>6, Zenon DEF Crash
    <3>2. paused' \in [reason : Reasons, item : Items \cup {None}]
      BY <1>6 DEF Crash, NotPaused, Reasons
    <3>3. QED
      BY <1>6, <3>1, <3>2 DEF Crash, PauseTypes
  <2>4. ToolTypes'
    <3>1. typed' \in BOOLEAN
      BY <1>6, Zenon DEF Crash
    <3>2. CASE app
      <4>1. turn' \in BOOLEAN /\ output' \in BOOLEAN
        BY <1>6, <3>2, Zenon DEF Crash
      <4>2. QED
        BY <1>6, <3>1, <3>2, <4>1 DEF Crash, ToolTypes
    <3>3. CASE ~app
      BY <1>1, <1>6, <3>1, <3>3 DEF Crash, ToolTypes, toolVars
    <3>4. QED
      BY <3>2, <3>3
  <2>5. HistTypes'
    <3>1. acts' \in Nat
      BY <1>1, <1>6, ActTypes DEF Crash
    <3>2. QED
      BY <1>1, <1>6, <3>1 DEF Crash, HistTypes
  <2>6. QED
    BY <2>1, <2>2, <2>3, <2>4, <2>5, TypePrimed
<1>7. QED
  BY <1>2, <1>3, <1>4, <1>5, <1>6

-----------------------------------------------------------------------------
(* The delivery under way *)

\* The delivery starts, at the head of the list, when there is none.
LEMMA PumpStarts ==
  ASSUME TypeOK, DeliveryInv, pc = "none", Pump
  PROVE  /\ pc' \in {"none", "settle"} /\ (inflight' = None <=> pc' = "none")
         /\ UNCHANGED listVars
<1>1. CASE queue = <<>>
  BY <1>1 DEF Pump, DeliveryInv, sendVars
<1>2. CASE queue # <<>>
  <2>1. Head(queue) \in Items
    BY <1>2 DEF TypeOK
  <2>2. QED
    BY <1>2, <2>1, ItemsAreNumbers DEF Pump
<1>3. QED
  BY <1>1, <1>2

LEMMA EndPauseAges == ASSUME NEW w, NEW r, EndPause(w, r) PROVE paused' = NotPaused /\ retrying' # "this"
  BY DEF EndPause, Aged

LEMMA DeliveryUser ==
  ASSUME TypeOK, DeliveryInv,
         Schedule \/ Retry \/ CancelPaused \/ (\E i \in Items : RemoveItem(i))
         \/ (\E k \in {User, Enter} : UserKey(k))
  PROVE  DeliveryInv' /\ (pc' = "settle" /\ pc # "settle" => pc = "none")
<1>1. CASE \/ Schedule \/ (\E i \in Items : RemoveItem(i))
           \/ (\E k \in {User, Enter} : UserKey(k))
  <2>1. UNCHANGED <<sendVars, hookVars, pauseVars, pasted>>
    BY <1>1 DEF Schedule, RemoveItem, UserKey, histVars
  <2>2. QED
    BY <2>1 DEF DeliveryInv, sendVars, hookVars, pauseVars
<1>2. CASE Retry
  <2>1. pc = "none" /\ inflight = None /\ paused.reason \in {"leftover", "paste", "submit"}
    BY <1>2 DEF Retry, DeliveryInv
  <2>2. CASE byHook
    <3>1. UNCHANGED <<sendVars, hookVars, paused, watching, pasted>>
      BY <1>2, <2>2 DEF Retry
    <3>2. paused # NotPaused
      BY <2>1 DEF NotPaused
    <3>3. QED
      BY <2>1, <3>1, <3>2 DEF DeliveryInv, sendVars, hookVars
  <2>3. CASE ~byHook
    <3>1. Pump /\ EndPause(watching, retrying)
      BY <1>2, <2>3 DEF Retry, StartOver
    <3>2. pc' \in {"none", "settle"} /\ (inflight' = None <=> pc' = "none")
      BY <2>1, <3>1, PumpStarts
    <3>3. paused' = NotPaused /\ retrying' # "this"
      BY <3>1, EndPauseAges
    <3>4. QED
      BY <2>1, <3>2, <3>3 DEF DeliveryInv
  <2>4. QED
    BY <2>2, <2>3
<1>3. CASE CancelPaused
  <2>1. EndPause(watching, retrying) /\ UNCHANGED <<sendVars, pasted>> /\ paused # NotPaused
    BY <1>3 DEF CancelPaused
  <2>2. pc = "none"
    BY <2>1 DEF DeliveryInv
  <2>3. QED
    BY <2>1, <2>2, EndPauseAges DEF DeliveryInv, sendVars
<1>4. QED
  BY <1>1, <1>2, <1>3

\* A pause is of the delivery under way and ends it.
LEMMA PauseEnds ==
  ASSUME NEW reason \in Reasons \ {"none"}, NEW hook, Pause(reason, hook)
  PROVE  DeliveryInv' /\ pc' = "none"
<1>1. pc' = "none" /\ inflight' = None /\ paused' = [reason |-> reason, item |-> inflight]
  BY DEF Pause
<1>2. paused' # NotPaused
  BY <1>1 DEF NotPaused
<1>3. QED
  BY <1>1, <1>2 DEF DeliveryInv

LEMMA DeliverySends ==
  ASSUME TypeOK, DeliveryInv,
         (\E hook \in BOOLEAN : Start(hook)) \/ Landed \/ TimesOut \/ Confirmed
  PROVE  DeliveryInv' /\ pc' # "settle"
<1>1. ASSUME NEW hook \in BOOLEAN, Start(hook) PROVE DeliveryInv' /\ pc' # "settle"
  <2>1. pc = "settle" /\ inflight # None /\ paused = NotPaused /\ retrying # "this"
    BY <1>1 DEF Start, DeliveryInv
  <2>2. CASE Pause("leftover", hook)
    BY <2>2, PauseEnds DEF Reasons
  <2>3. CASE ~Pause("leftover", hook)
    <3>1. /\ inflight' = inflight /\ UNCHANGED pauseVars /\ pasted' = pasted \cup {inflight}
          /\ byHook' = hook
          /\ pc' \in (IF hook THEN {"hookWait", "hookLand"} ELSE {"screenWait", "screenLand"})
      BY <1>1, <2>3 DEF Start
    <3>2. pc' \notin {"none", "settle"} /\ (hook => pc' \notin {"screenLand", "screenWait"})
      BY <3>1
    <3>3. inflight' # None /\ paused' = NotPaused /\ retrying' # "this" /\ inflight' \in pasted'
      BY <2>1, <3>1 DEF pauseVars
    <3>4. byHook' => pc' \notin {"screenLand", "screenWait"}
      BY <3>1, <3>2
    <3>5. QED
      BY <3>2, <3>3, <3>4 DEF DeliveryInv
  <2>4. QED
    BY <2>2, <2>3
<1>2. CASE Landed
  BY <1>2 DEF Landed, DeliveryInv, hookVars, pauseVars, histVars
<1>3. CASE TimesOut
  <2>1. /\ pc \in {"screenLand", "screenWait", "hookWait"}
        /\ EnterAgain \/ \E r \in Reasons \ {"none"} : GiveUp(r)
    <3>1. {"paste", "submit", "mismatch", "unconfirmed"} \subseteq Reasons \ {"none"}
      BY DEF Reasons
    <3>2. QED
      BY <1>3, <3>1 DEF TimesOut
  <2>2. CASE EnterAgain
    BY <1>3, <2>1, <2>2 DEF TimesOut, EnterAgain, DeliveryInv, hookVars, pauseVars, histVars
  <2>3. CASE \E r \in Reasons \ {"none"} : GiveUp(r)
    BY <2>3, PauseEnds DEF GiveUp
  <2>4. QED
    BY <2>1, <2>2, <2>3
<1>4. CASE Confirmed
  <2>1. /\ pc \notin {"none", "settle"} /\ pc' = "saving" /\ byHook' = FALSE
        /\ UNCHANGED <<inflight, pauseVars, pasted>>
    BY <1>4 DEF Confirmed, histVars
  <2>2. QED
    BY <2>1 DEF DeliveryInv, pauseVars
<1>5. QED
  BY <1>1, <1>2, <1>3, <1>4

LEMMA DeliveryRests ==
  ASSUME TypeOK, DeliveryInv,
         RetryAsked \/ Watch \/ StatusRunning \/ (\E done \in BOOLEAN : StatusRests(done))
  PROVE  DeliveryInv' /\ (pc' = "settle" /\ pc # "settle" => pc = "none")
<1>1. ASSUME pc = "none", Pump, EndPause(watching, retrying) \/ EndPause(watching, "no")
      PROVE  DeliveryInv'
  <2>1. pc' \in {"none", "settle"} /\ (inflight' = None <=> pc' = "none")
    BY <1>1, PumpStarts
  <2>2. paused' = NotPaused /\ retrying' # "this"
    BY <1>1, EndPauseAges
  <2>3. QED
    BY <2>1, <2>2 DEF DeliveryInv
<1>2. ASSUME NEW w, NEW r, EndPause(w, r), UNCHANGED <<sendVars, pasted>>
      PROVE  DeliveryInv'
  <2>1. paused' = NotPaused /\ retrying' # "this" /\ byHook' = FALSE
    BY <1>2, EndPauseAges DEF EndPause
  <2>2. QED
    BY <1>2, <2>1 DEF DeliveryInv, sendVars
<1>3. ASSUME UNCHANGED <<pc, inflight, byHook, paused, pasted>>,
             retrying' = retrying \/ retrying' # "this"
      PROVE  DeliveryInv'
  BY <1>3 DEF DeliveryInv
<1>4. CASE RetryAsked
  <2>1. CASE ~SamePause(retrying)
    <3>1. UNCHANGED <<sendVars, hookVars, paused, pasted>> /\ retrying' = "no"
      BY <1>4, <2>1 DEF RetryAsked
    <3>2. QED
      BY <1>3, <3>1 DEF sendVars, hookVars
  <2>2. CASE SamePause(retrying)
    <3>1. pc = "none"
      BY <2>2 DEF SamePause, DeliveryInv
    <3>2. \/ EndPause(watching, "no") /\ UNCHANGED <<sendVars, pasted>>
          \/ Pump /\ EndPause(watching, "no")
      BY <1>4, <2>2 DEF RetryAsked, StartOver
    <3>3. QED
      BY <1>1, <1>2, <3>1, <3>2
  <2>3. QED
    BY <2>1, <2>2
<1>5. CASE Watch
  <2>1. UNCHANGED <<sendVars, pasted>>
    BY <1>5 DEF Watch, histVars
  <2>2. EndPause("no", retrying) \/ UNCHANGED <<hookVars, paused, retrying>>
    BY <1>5 DEF Watch
  <2>3. DeliveryInv'
    BY <1>2, <1>3, <2>1, <2>2 DEF sendVars, hookVars
  <2>4. QED
    BY <2>1, <2>3 DEF sendVars
<1>6. CASE StatusRunning
  BY <1>3, <1>6 DEF StatusRunning, hookVars, histVars
<1>7. ASSUME NEW done \in BOOLEAN, StatusRests(done)
      PROVE  DeliveryInv' /\ (pc' = "settle" /\ pc # "settle" => pc = "none")
  <2>1. pasted' = pasted
    BY <1>7 DEF StatusRests, histVars
  <2>2. CASE done /\ DonePumps
    <3>1. Pump /\ EndPause(watching, retrying) /\ pc = "none"
      BY <1>7, <2>2 DEF StatusRests, DonePumps, DeliveryInv
    <3>2. QED
      BY <1>1, <3>1
  <2>3. CASE ~(done /\ DonePumps)
    <3>1. UNCHANGED <<sendVars, hookVars, pauseVars>>
      BY <1>7, <2>3 DEF StatusRests
    <3>2. QED
      BY <1>3, <2>1, <3>1 DEF sendVars, hookVars, pauseVars
  <2>4. QED
    BY <2>2, <2>3
<1>8. QED
  BY <1>4, <1>5, <1>6, <1>7

LEMMA DeliveryWorld ==
  ASSUME TypeOK, DeliveryInv,
         ToolReads \/ HookRecords \/ ToolTurn
         \/ (\E ok \in BOOLEAN : SaveEnds(ok)) \/ (\E app \in BOOLEAN : Crash(app))
  PROVE  DeliveryInv' /\ (pc' = "settle" /\ pc # "settle" => pc = "none")
<1>1. CASE ToolReads \/ HookRecords \/ ToolTurn
  <2>1. UNCHANGED <<sendVars, byHook, pauseVars, pasted>>
    BY <1>1 DEF ToolReads, HookRecords, ToolTurn, hookVars, histVars
  <2>2. QED
    BY <2>1 DEF DeliveryInv, sendVars, pauseVars
<1>2. ASSUME NEW ok \in BOOLEAN, SaveEnds(ok)
      PROVE  DeliveryInv' /\ (pc' = "settle" /\ pc # "settle" => pc = "none")
  <2>1. UNCHANGED <<hookVars, pauseVars, pasted>>
        /\ ((pc' = "none" /\ inflight' = None) \/ UNCHANGED <<pc, inflight>>)
    BY <1>2, SaveCases
  <2>2. QED
    BY <2>1 DEF DeliveryInv, hookVars, pauseVars
<1>3. ASSUME NEW app \in BOOLEAN, Crash(app) PROVE DeliveryInv' /\ pc' # "settle"
  BY <1>3 DEF Crash, DeliveryInv
<1>4. QED
  BY <1>1, <1>2, <1>3

LEMMA DeliveryNext ==
  ASSUME TypeOK, DeliveryInv, [Next]_vars
  PROVE  DeliveryInv' /\ (pc' = "settle" /\ pc # "settle" => pc = "none")
<1>1. CASE UserStep
  BY <1>1, DeliveryUser DEF UserStep
<1>2. CASE RendererStep
  BY <1>2, DeliverySends, DeliveryRests DEF RendererStep, Deliver
<1>3. CASE WorldStep
  BY <1>3, DeliveryWorld DEF WorldStep
<1>4. CASE UNCHANGED vars
  BY <1>4 DEF vars, sendVars, hookVars, pauseVars, histVars, DeliveryInv
<1>5. QED
  BY <1>1, <1>2, <1>3, <1>4 DEF Next

-----------------------------------------------------------------------------
(* What the hook told *)

LEMMA HookNext ==
  ASSUME TypeOK, HookInv, [Next]_vars
  PROVE  HookInv'
<1>1. ASSUME heard' \subseteq heard, hooking' \in {hooking, <<>>}, sent' = sent PROVE HookInv'
  BY <1>1 DEF HookInv
<1>2. ASSUME NEW w, NEW r, EndPause(w, r) PROVE heard' \subseteq heard
  BY <1>2 DEF EndPause
<1>3. CASE UserStep
  <2>1. hooking' = hooking /\ sent' = sent
    BY <1>3 DEF UserStep, Schedule, Retry, CancelPaused, RemoveItem, UserKey, toolVars, histVars
  <2>2. heard' \subseteq heard
    BY <1>2, <1>3 DEF UserStep, Schedule, Retry, CancelPaused, RemoveItem, UserKey, hookVars
  <2>3. QED
    BY <1>1, <2>1, <2>2
<1>4. CASE RendererStep
  <2>1. hooking' = hooking /\ sent' = sent
    BY <1>4 DEF RendererStep, Deliver, Start, Landed, TimesOut, Confirmed, RetryAsked, Watch,
                StatusRunning, StatusRests, toolVars, histVars
  <2>2. heard' \subseteq heard
    BY <1>2, <1>4 DEF RendererStep, Deliver, Start, Landed, TimesOut, Confirmed, RetryAsked,
                      Watch, StatusRunning, StatusRests, hookVars
  <2>3. QED
    BY <1>1, <2>1, <2>2
<1>5. CASE ToolTurn \/ (\E ok \in BOOLEAN : SaveEnds(ok)) \/ (\E app \in BOOLEAN : Crash(app))
  <2>1. heard' \subseteq heard /\ hooking' \in {hooking, <<>>} /\ sent' = sent
    BY <1>5 DEF ToolTurn, SaveEnds, Crash, hookVars, toolVars, histVars
  <2>2. QED
    BY <1>1, <2>1
<1>6. CASE ToolReads
  <2>1. heard' = heard
    BY <1>6 DEF ToolReads, hookVars
  <2>2. UNCHANGED <<hooking, sent>> \/ BoxSent
    BY <1>6 DEF ToolReads, BoxSent
  <2>3. CASE UNCHANGED <<hooking, sent>>
    BY <2>1, <2>3, <1>1
  <2>4. CASE BoxSent
    <3>1. box \in Seq(Items \cup {User}) /\ hooking \in Seq(Items \cup {User}) /\ box # <<>>
      BY <2>4 DEF TypeOK, BoxSent
    <3>2. box[1] \in Items \cup {User} /\ box[1] \in ToSet(box)
      BY <3>1, ToSetIn
    <3>3. sent \subseteq sent' /\ (Len(box) = 1 => box[1] \in sent' \cup {User})
      <4>1. CASE Len(box) = 1
        BY <2>4, <3>2, <4>1 DEF BoxSent
      <4>2. CASE Len(box) # 1
        BY <2>4, <4>2 DEF BoxSent
      <4>3. QED
        BY <4>1, <4>2
    <3>4. hooking' = hooking \/ \E x \in sent' \cup {User} : x \in Items \cup {User} /\ hooking' = Append(hooking, x)
      <4>1. CASE Len(box) = 1
        BY <2>4, <3>2, <3>3, <4>1 DEF BoxSent
      <4>2. CASE Len(box) # 1
        BY <2>4, <3>3, <4>2 DEF BoxSent
      <4>3. QED
        BY <4>1, <4>2
    <3>5. ASSUME NEW x \in sent' \cup {User}, x \in Items \cup {User}, hooking' = Append(hooking, x)
          PROVE  \A k \in DOMAIN hooking' : hooking'[k] \in sent' \cup {User}
      <4>1. /\ DOMAIN hooking' = 1..(Len(hooking) + 1) /\ DOMAIN hooking = 1..Len(hooking)
            /\ Len(hooking) \in Nat
            /\ (\A k \in 1..Len(hooking) : hooking'[k] = hooking[k])
            /\ hooking'[Len(hooking) + 1] = x
        BY <3>1, <3>5, AppendSet
      <4>2. \A k \in DOMAIN hooking' : k \in 1..Len(hooking) \/ k = Len(hooking) + 1
        BY <4>1
      <4>3. QED
        BY <3>3, <3>5, <4>1, <4>2 DEF HookInv
    <3>6. QED
      BY <2>1, <3>3, <3>4, <3>5 DEF HookInv
  <2>5. QED
    BY <2>2, <2>3, <2>4
<1>7. CASE HookRecords
  <2>1. /\ hooking # <<>> /\ hooking' = Tail(hooking) /\ sent' = sent
        /\ heard' = heard \/ heard' = heard \cup {Head(hooking)}
    BY <1>7 DEF HookRecords, histVars
  <2>2. hooking \in Seq(Items \cup {User})
    BY DEF TypeOK
  <2>3. /\ 1 \in DOMAIN hooking /\ Head(hooking) = hooking[1]
        /\ \A k \in DOMAIN hooking' : k + 1 \in DOMAIN hooking /\ hooking'[k] = hooking[k + 1]
    BY <2>1, <2>2, HeadTailProperties
  <2>4. QED
    BY <2>1, <2>3 DEF HookInv
<1>8. CASE UNCHANGED vars
  BY <1>1, <1>8 DEF vars, hookVars, toolVars, histVars
<1>9. QED
  BY <1>3, <1>4, <1>5, <1>6, <1>7, <1>8 DEF Next, WorldStep

-----------------------------------------------------------------------------
(* The chain of lists *)

\* An item of the page's list is in every older one that was made since the item
\* was, unless the user took it back.
LEMMA OlderHasIt ==
  ASSUME saves \in Seq(Saves), ChainInv, NEW i \in ToSet(queue), i \notin taken
  PROVE  /\ i \in durable => /\ i \in ToSet(backend) /\ i \in ToSet(disk)
                             /\ \A k \in DOMAIN saves : i \in ListOf(k)
         /\ \A m, k \in DOMAIN saves : Brings(m, i) /\ m <= k => i \in ListOf(k)
<1>1. Len(saves) \in Nat /\ DOMAIN saves = 1..Len(saves)
  OBVIOUS
<1>2. CASE saves = <<>>
  <2>1. DOMAIN saves = {}
    BY <1>2
  <2>2. QED
    BY <1>2, <2>1 DEF ChainInv
<1>3. CASE saves # <<>>
  <2>1. Len(saves) \in DOMAIN saves /\ i \in ListOf(Len(saves)) \ taken
    BY <1>1, <1>3 DEF ChainInv, ListOf
  <2>2. /\ \A k \in 1..Len(saves) :
              i \in durable \/ (\E m \in 1..k : Brings(m, i)) => i \in ListOf(k)
        /\ i \in durable => i \in ToSet(backend) /\ i \in ToSet(disk)
    BY <2>1 DEF ChainInv
  <2>3. \A m, k \in DOMAIN saves : m <= k => m \in 1..k
    BY <1>1
  <2>4. QED
    BY <1>1, <2>2, <2>3
<1>4. QED
  BY <1>2, <1>3

\* A step that changes no list.  What it takes for not pasted any more is in the list.
LEMMA FrameKeeps ==
  ASSUME TypeOK, QueueInv, UNCHANGED <<queue, saves, backend, disk, reserved, durable>>,
         taken \subseteq taken', \A i \in Gone : i \in Gone' \/ i \in ToSet(queue)
  PROVE  QueueInv'
<1>1. saves \in Seq(Saves)
  BY DEF TypeOK
<1>2. NumberInv' /\ UndoInv'
  BY DEF QueueInv, NumberInv, UndoInv, Brings, ListOf
<1>3. ChainInv'
  BY DEF QueueInv, ChainInv, Brings, ListOf
<1>4. ASSUME NEW i \in Gone, i \notin Gone'
      PROVE  /\ i \in ToSet(queue)
             /\ i \in durable => /\ i \in ToSet(backend) /\ i \in ToSet(disk)
                                 /\ \A k \in DOMAIN saves : i \in ListOf(k)
             /\ \A m, k \in DOMAIN saves : Brings(m, i) /\ m <= k => i \in ListOf(k)
  <2>1. i \in ToSet(queue) /\ i \notin taken
    BY <1>4 DEF Gone
  <2>2. QED
    BY <1>1, <2>1, OlderHasIt DEF QueueInv
<1>5. GoneInv'
  <2>1. /\ durable \subseteq ToSet(queue) \cup Gone'
        /\ durable \subseteq ToSet(backend) \cup Gone'
        /\ durable \subseteq ToSet(disk) \cup Gone'
    BY <1>4 DEF QueueInv, GoneInv
  <2>2. \A k \in DOMAIN saves : durable \subseteq ListOf(k) \cup Gone'
    BY <1>4 DEF QueueInv, GoneInv
  <2>3. \A m \in DOMAIN saves : \A i \in Items : Brings(m, i) =>
          /\ i \in ToSet(queue) \cup Gone'
          /\ \A k \in DOMAIN saves : m <= k => i \in ListOf(k) \cup Gone'
    BY <1>4 DEF QueueInv, GoneInv
  <2>4. QED
    BY <2>1, <2>2, <2>3 DEF GoneInv, Brings, ListOf
<1>6. QED
  BY <1>2, <1>3, <1>5 DEF QueueInv

\* A new list, and the save of it: it lacks nothing but what is gone, and has
\* nothing new but the prompt scheduled now.
LEMMA StoreKeeps ==
  ASSUME TypeOK, QueueInv, NEW list \in Seq(Items),
         NEW then \in {"schedule", "remove", "pump", "none"}, NEW it \in Items \cup {None},
         Store(list, then, it), UNCHANGED <<storeVars, durable>>,
         taken \subseteq taken', Gone \subseteq Gone',
         ToSet(queue) \subseteq ToSet(list) \cup Gone',
         then \in {"schedule", "remove"} => ToSet(queue) \subseteq ToSet(list) \cup taken',
         IF then = "schedule"
           THEN /\ it = reserved + 1 /\ reserved' = it /\ ToSet(list) = ToSet(queue) \cup {it}
           ELSE reserved' = reserved /\ ToSet(list) \subseteq ToSet(queue)
  PROVE  QueueInv'
<1>0. PICK n \in Nat : n = Len(saves)
  BY DEF TypeOK
<1> DEFINE s == [list |-> list, before |-> queue, then |-> then, item |-> it]
<1>1. saves \in Seq(Saves) /\ s \in Saves /\ saves' = Append(saves, s) /\ queue' = list
  BY DEF TypeOK, Saves, Store
<1>2. /\ n \in Nat /\ DOMAIN saves = 1..n /\ Len(saves') = n + 1 /\ DOMAIN saves' = 1..(n + 1)
      /\ \A k \in 1..n : saves'[k] = saves[k]
      /\ saves'[n + 1] = s
  BY <1>0, <1>1, AppendSet
<1>3. s.list = list /\ s.before = queue /\ s.then = then /\ s.item = it
  OBVIOUS
<1> HIDE DEF s
<1>4. /\ \A k \in DOMAIN saves' : k \in DOMAIN saves \/ k = n + 1
      /\ \A k \in DOMAIN saves : k \in DOMAIN saves' /\ k < n + 1 /\ k # n + 1
      /\ n + 1 \in DOMAIN saves'
  BY <1>2
<1>5. /\ \A k \in DOMAIN saves : ListOf(k)' = ListOf(k)
      /\ ListOf(n + 1)' = ToSet(list)
      /\ \A k \in DOMAIN saves : \A i : Brings(k, i)' <=> Brings(k, i)
      /\ \A i : Brings(n + 1, i)' <=> then = "schedule" /\ i = it
  BY <1>2, <1>3 DEF ListOf, Brings
<1>6. reserved \in Nat
  BY ItemsAreNumbers DEF TypeOK
<1>7. then = "schedule" => it \notin durable /\ \A k \in DOMAIN saves : ~Brings(k, it)
  <2>1. then = "schedule" => it \notin 1..reserved
    BY <1>6
  <2>2. QED
    BY <2>1 DEF QueueInv, NumberInv, Brings
<1>8. NumberInv'
  <2>1. 1..reserved \subseteq 1..reserved'
    BY <1>6
  <2>2. durable' \subseteq 1..reserved'
    BY <2>1 DEF QueueInv, NumberInv
  <2>3. ASSUME NEW k \in DOMAIN saves', saves'[k].then = "schedule"
        PROVE  /\ saves'[k].item \in 1..reserved' /\ saves'[k].item \notin durable'
               /\ \A l \in DOMAIN saves' : Brings(l, saves[k].item)' => l = k
    <3>1. CASE k \in DOMAIN saves
      <4>1. saves'[k] = saves[k]
        BY <1>2, <3>1
      <4>2. /\ saves[k].item \in 1..reserved /\ saves[k].item \notin durable
            /\ \A l \in DOMAIN saves : Brings(l, saves[k].item) => l = k
        BY <2>3, <3>1, <4>1 DEF QueueInv, NumberInv
      <4>3. then = "schedule" => saves[k].item # it
        BY <1>7, <2>3, <3>1, <4>1 DEF Brings
      <4>4. \A i : i = saves[k].item => \A l \in DOMAIN saves' : Brings(l, i)' => l = k
        BY <1>4, <1>5, <4>2, <4>3
      <4>5. QED
        BY <2>1, <4>1, <4>2, <4>4 DEF Brings
    <3>2. CASE k = n + 1
      <4>1. saves'[k].item = it /\ then = "schedule"
        BY <1>2, <1>3, <2>3, <3>2
      <4>2. it \in 1..reserved'
        BY <1>6, <4>1
      <4>3. \A i : i = it => \A l \in DOMAIN saves' : Brings(l, i)' => l = k
        BY <1>4, <1>5, <1>7, <3>2, <4>1
      <4>4. QED
        BY <1>7, <4>1, <4>2, <4>3 DEF Brings
    <3>3. QED
      BY <1>4, <2>3, <3>1, <3>2
  <2>4. QED
    BY <2>2, <2>3 DEF NumberInv
<1>9. ChainInv'
  <2>1. ASSUME NEW l \in DOMAIN saves', NEW i \in ListOf(l)' \ taken'
        PROVE  /\ \A k \in 1..l : i \in durable \/ (\E m \in 1..k : Brings(m, i)') => i \in ListOf(k)'
               /\ i \in durable => i \in ToSet(backend) /\ i \in ToSet(disk)
    <3>1. CASE l \in DOMAIN saves
      <4>1. i \in ListOf(l) \ taken
        BY <1>5, <2>1, <3>1
      <4>2. \A k \in 1..l : k \in DOMAIN saves /\ \A m \in 1..k : m \in DOMAIN saves
        BY <1>2, <3>1
      <4>3. QED
        BY <1>5, <3>1, <4>1, <4>2 DEF QueueInv, ChainInv
    <3>2. CASE l = n + 1
      <4>1. i \in ToSet(list) /\ i \notin taken
        BY <1>5, <2>1, <3>2
      <4>2. \A k \in 1..l : (k \in DOMAIN saves /\ \A m \in 1..k : m \in DOMAIN saves /\ m <= k) \/ k = n + 1
        BY <1>2, <3>2
      <4>3. CASE i \in ToSet(queue)
        <5>1. /\ i \in durable => /\ i \in ToSet(backend) /\ i \in ToSet(disk)
                                  /\ \A k \in DOMAIN saves : i \in ListOf(k)
              /\ \A m, k \in DOMAIN saves : Brings(m, i) /\ m <= k => i \in ListOf(k)
          BY <1>1, <4>1, <4>3, OlderHasIt DEF QueueInv
        <5>2. QED
          BY <1>5, <4>1, <4>2, <5>1
      <4>4. CASE i \notin ToSet(queue)
        <5>1. then = "schedule" /\ i = it
          BY <4>1, <4>4
        <5>2. QED
          BY <1>5, <1>7, <4>1, <4>2, <5>1
      <4>5. QED
        BY <4>3, <4>4
    <3>3. QED
      BY <1>4, <2>1, <3>1, <3>2
  <2>2. \A i \in ToSet(backend') \ taken' : i \in durable' => i \in ToSet(disk')
    BY DEF QueueInv, ChainInv, storeVars
  <2>3. saves' # <<>> /\ queue' = saves'[Len(saves')].list
    BY <1>1, <1>2, <1>3, <1>4
  <2>4. QED
    BY <2>1, <2>2, <2>3 DEF ChainInv, storeVars
<1>10. UndoInv'
  <2>1. ASSUME NEW k \in DOMAIN saves'
        PROVE  /\ saves'[k].then \in {"schedule", "remove"} =>
                    ToSet(saves'[k].before) \subseteq ListOf(k)' \cup taken'
               /\ saves'[k].then = "schedule" =>
                    ListOf(k)' \subseteq ToSet(saves'[k].before) \cup {saves'[k].item}
               /\ saves'[k].then = "remove" => ListOf(k)' \subseteq ToSet(saves'[k].before)
    <3>1. CASE k \in DOMAIN saves
      <4>1. saves'[k] = saves[k] /\ ListOf(k)' = ListOf(k)
        BY <1>2, <1>5, <3>1
      <4>2. QED
        BY <3>1, <4>1 DEF QueueInv, UndoInv
    <3>2. CASE k = n + 1
      <4>1. saves'[k].before = queue /\ saves'[k].then = then /\ saves'[k].item = it
            /\ ListOf(k)' = ToSet(list)
        BY <1>2, <1>3, <1>5, <3>2
      <4>2. QED
        BY <4>1
    <3>3. QED
      BY <1>4, <3>1, <3>2
  <2>2. QED
    BY <2>1 DEF UndoInv
<1>11. GoneInv'
  <2>1. /\ durable \subseteq ToSet(list) \cup Gone'
        /\ durable \subseteq ToSet(backend) \cup Gone'
        /\ durable \subseteq ToSet(disk) \cup Gone'
    BY DEF QueueInv, GoneInv
  <2>2. \A k \in DOMAIN saves' : durable \subseteq ListOf(k)' \cup Gone'
    BY <1>4, <1>5, <2>1 DEF QueueInv, GoneInv
  <2>3. ASSUME NEW m \in DOMAIN saves', NEW i \in Items, Brings(m, i)'
        PROVE  /\ i \in ToSet(list) \cup Gone'
               /\ \A k \in DOMAIN saves' : m <= k => i \in ListOf(k)' \cup Gone'
    <3>1. CASE m \in DOMAIN saves
      <4>1. /\ i \in ToSet(queue) \cup Gone
            /\ \A k \in DOMAIN saves : m <= k => i \in ListOf(k) \cup Gone
        BY <1>5, <2>3, <3>1 DEF QueueInv, GoneInv
      <4>2. i \in ToSet(list) \cup Gone'
        BY <4>1
      <4>3. QED
        BY <1>4, <1>5, <4>1, <4>2
    <3>2. CASE m = n + 1
      <4>1. i \in ToSet(list)
        BY <1>5, <2>3, <3>2
      <4>2. \A k \in DOMAIN saves' : m <= k => k = n + 1
        BY <1>2, <3>2
      <4>3. QED
        BY <1>5, <4>1, <4>2
    <3>3. QED
      BY <1>4, <2>3, <3>1, <3>2
  <2>4. QED
    BY <1>1, <2>1, <2>2, <2>3 DEF GoneInv, storeVars
<1>12. QED
  BY <1>8, <1>9, <1>10, <1>11 DEF QueueInv

\* The first save is answered and leaves the page's list alone: the store has the
\* list of it now, and so has the file when it was written.
LEMMA AnsweredKeeps ==
  ASSUME TypeOK, QueueInv, 1 \in NextSave, saves' = RemoveAt(saves, 1),
         UNCHANGED <<queue, taken, pasted, sent, reserved>>,
         backend' = saves[1].list, disk' \in {disk, saves[1].list},
         durable \subseteq durable',
         \A i \in durable' : i \in durable \/ (Brings(1, i) /\ disk' = saves[1].list)
  PROVE  QueueInv'
<1>0. PICK n \in Nat : n = Len(saves)
  BY DEF TypeOK
<1>1. /\ n > 0 /\ DOMAIN saves = 1..n /\ Len(saves') = n - 1 /\ DOMAIN saves' = 1..(n - 1)
      /\ \A l \in 1..(n - 1) : saves'[l] = saves[l + 1]
      /\ saves' \in Seq(Saves) /\ 1 \in DOMAIN saves /\ saves # <<>>
  BY <1>0, SaveAnswered DEF TypeOK
<1>2. /\ \A l \in DOMAIN saves' : l + 1 \in DOMAIN saves /\ l + 1 # 1 /\ 1 <= l + 1
      /\ \A l \in DOMAIN saves' : \A k \in 1..l :
           k \in DOMAIN saves' /\ k + 1 \in 1..(l + 1) /\ 1 \in 1..(k + 1)
      /\ \A l, k \in DOMAIN saves' : (l + 1 = k + 1 => l = k) /\ (l <= k => l + 1 <= k + 1)
  BY <1>1
<1>3. /\ \A l \in DOMAIN saves' : ListOf(l)' = ListOf(l + 1)
      /\ \A l \in DOMAIN saves' : \A i : Brings(l, i)' <=> Brings(l + 1, i)
  BY <1>1 DEF ListOf, Brings
<1>4. ToSet(backend') = ListOf(1) /\ ToSet(disk') \in {ToSet(disk), ListOf(1)}
      /\ (disk' = saves[1].list => ToSet(disk') = ListOf(1))
  BY DEF ListOf
<1>5. Gone' = Gone
  BY DEF Gone
<1>6. NumberInv'
  <2>1. \A i : Brings(1, i) => i \in 1..reserved /\ \A l \in DOMAIN saves : Brings(l, i) => l = 1
    BY <1>1 DEF QueueInv, NumberInv, Brings
  <2>2. durable' \subseteq 1..reserved'
    BY <2>1 DEF QueueInv, NumberInv
  <2>3. ASSUME NEW k \in DOMAIN saves', saves'[k].then = "schedule"
        PROVE  /\ saves'[k].item \in 1..reserved' /\ saves'[k].item \notin durable'
               /\ \A l \in DOMAIN saves' : Brings(l, saves[k].item)' => l = k
    <3>1. saves'[k] = saves[k + 1] /\ k + 1 \in DOMAIN saves
      BY <1>1, <1>2
    <3>2. /\ saves[k + 1].item \in 1..reserved /\ saves[k + 1].item \notin durable
          /\ Brings(k + 1, saves[k + 1].item)
          /\ \A l \in DOMAIN saves : Brings(l, saves[k + 1].item) => l = k + 1
      BY <2>3, <3>1 DEF QueueInv, NumberInv, Brings
    <3>3. ~Brings(1, saves[k + 1].item)
      BY <1>1, <1>2, <3>2
    <3>4. saves'[k].item \notin durable'
      BY <3>1, <3>2, <3>3
    <3>5. \A i : i = saves[k + 1].item => \A l \in DOMAIN saves' : Brings(l, i)' => l = k
      BY <1>2, <1>3, <3>2
    <3>6. QED
      BY <3>1, <3>2, <3>4, <3>5 DEF Brings
  <2>4. QED
    BY <2>2, <2>3 DEF NumberInv
<1>7. ChainInv'
  <2>1. ASSUME NEW l \in DOMAIN saves', NEW i \in ListOf(l)' \ taken'
        PROVE  /\ \A k \in 1..l : i \in durable' \/ (\E m \in 1..k : Brings(m, i)') => i \in ListOf(k)'
               /\ i \in durable' => i \in ToSet(backend') /\ i \in ToSet(disk')
    <3>1. l + 1 \in DOMAIN saves /\ i \in ListOf(l + 1) \ taken
      BY <1>2, <1>3, <2>1
    <3>2. /\ \A k \in 1..(l + 1) : i \in durable \/ (\E m \in 1..k : Brings(m, i)) => i \in ListOf(k)
          /\ i \in durable => i \in ToSet(disk)
      BY <3>1 DEF QueueInv, ChainInv
    <3>3. ASSUME NEW k \in 1..l, i \in durable' \/ (\E m \in 1..k : Brings(m, i)')
          PROVE  i \in ListOf(k)'
      <4>1. k \in DOMAIN saves' /\ k + 1 \in 1..(l + 1) /\ 1 \in 1..(k + 1)
        BY <1>2
      <4>2. \A m \in 1..k : Brings(m, i)' => Brings(m + 1, i) /\ m + 1 \in 1..(k + 1)
        BY <1>2, <1>3, <4>1
      <4>3. i \in durable \/ \E m \in 1..(k + 1) : Brings(m, i)
        BY <3>3, <4>1, <4>2
      <4>4. QED
        BY <1>3, <3>2, <4>1, <4>3
    <3>4. ASSUME i \in durable' PROVE i \in ToSet(backend') /\ i \in ToSet(disk')
      <4>1. 1 \in 1..(l + 1) /\ 1 \in 1..1
        BY <1>1
      <4>2. i \in ListOf(1)
        BY <3>2, <3>4, <4>1
      <4>3. QED
        BY <1>4, <3>2, <3>4, <4>2
    <3>5. QED
      BY <3>3, <3>4
  <2>2. \A i \in ToSet(backend') \ taken' : i \in durable' => i \in ToSet(disk')
    BY <1>1, <1>4 DEF QueueInv, ChainInv
  <2>3. queue = saves[n].list
    BY <1>0, <1>1 DEF QueueInv, ChainInv
  <2>4. saves' # <<>> => queue' = saves'[Len(saves')].list
    <3>1. saves' # <<>> => n - 1 \in 1..(n - 1) /\ (n - 1) + 1 = n
      BY <1>1
    <3>2. QED
      BY <1>1, <2>3, <3>1
  <2>5. saves' = <<>> => ToSet(queue') \subseteq ToSet(backend') \cup taken'
    <3>1. saves' = <<>> => n = 1
      BY <1>1
    <3>2. QED
      BY <1>4, <2>3, <3>1
  <2>6. QED
    BY <2>1, <2>2, <2>4, <2>5 DEF ChainInv
<1>8. UndoInv'
  <2>1. ASSUME NEW k \in DOMAIN saves'
        PROVE  saves'[k] = saves[k + 1] /\ k + 1 \in DOMAIN saves /\ ListOf(k)' = ListOf(k + 1)
    BY <1>1, <1>2, <1>3
  <2>2. QED
    BY <2>1 DEF QueueInv, UndoInv
<1>9. GoneInv'
  <2>1. \A i \in durable' : i \in durable \/ (Brings(1, i) /\ i \in Items)
    <3>1. reserved \in 0..MaxItems /\ MaxItems \in Nat
      BY ItemsAreNumbers DEF TypeOK
    <3>2. 1..reserved \subseteq Items
      BY <3>1 DEF Items
    <3>3. \A i : Brings(1, i) => i \in 1..reserved
      BY <1>1 DEF QueueInv, NumberInv, Brings
    <3>4. QED
      BY <3>2, <3>3
  <2>2. durable' \subseteq ToSet(queue) \cup Gone
    BY <1>1, <2>1 DEF QueueInv, GoneInv
  <2>3. \A k \in DOMAIN saves : durable' \subseteq ListOf(k) \cup Gone
    <3>1. \A k \in DOMAIN saves : 1 <= k
      BY <1>1
    <3>2. QED
      BY <1>1, <2>1, <3>1 DEF QueueInv, GoneInv
  <2>4. durable' \subseteq ToSet(backend') \cup Gone /\ durable' \subseteq ToSet(disk') \cup Gone
    <3>1. durable' \subseteq ListOf(1) \cup Gone
      BY <1>1, <2>3
    <3>2. disk' = disk => durable' \subseteq ToSet(disk') \cup Gone
      <4>1. ASSUME disk' = disk, NEW i \in durable', i \notin Gone PROVE i \in ToSet(disk')
        <5>1. CASE i \in durable
          BY <4>1, <5>1 DEF QueueInv, GoneInv
        <5>2. CASE i \notin durable
          BY <1>4, <3>1, <4>1, <5>2
        <5>3. QED
          BY <5>1, <5>2
      <4>2. QED
        BY <4>1
    <3>3. QED
      BY <1>4, <3>1, <3>2
  <2>5. \A k \in DOMAIN saves' : durable' \subseteq ListOf(k)' \cup Gone
    BY <1>2, <1>3, <2>3
  <2>6. ASSUME NEW m \in DOMAIN saves', NEW i \in Items, Brings(m, i)'
        PROVE  /\ i \in ToSet(queue) \cup Gone
               /\ \A k \in DOMAIN saves' : m <= k => i \in ListOf(k)' \cup Gone
    <3>1. m + 1 \in DOMAIN saves /\ Brings(m + 1, i)
      BY <1>2, <1>3, <2>6
    <3>2. /\ i \in ToSet(queue) \cup Gone
          /\ \A k \in DOMAIN saves : m + 1 <= k => i \in ListOf(k) \cup Gone
      BY <3>1 DEF QueueInv, GoneInv
    <3>3. QED
      BY <1>2, <1>3, <3>2
  <2>7. QED
    BY <1>5, <2>2, <2>4, <2>5, <2>6 DEF GoneInv
<1>10. QED
  BY <1>6, <1>7, <1>8, <1>9 DEF QueueInv

\* A state without saves under way.
LEMMA NoSaves ==
  ASSUME saves' = <<>>, durable' \subseteq 1..reserved',
         \A i \in ToSet(backend') \ taken' : i \in durable' => i \in ToSet(disk'),
         ToSet(queue') \subseteq ToSet(backend') \cup taken',
         durable' \subseteq ToSet(queue') \cup Gone',
         durable' \subseteq ToSet(backend') \cup Gone',
         durable' \subseteq ToSet(disk') \cup Gone'
  PROVE  QueueInv'
<1>1. DOMAIN saves' = {}
  OBVIOUS
<1>2. NumberInv' /\ UndoInv'
  BY <1>1 DEF NumberInv, UndoInv
<1>3. ChainInv'
  BY <1>1 DEF ChainInv
<1>4. GoneInv'
  BY <1>1 DEF GoneInv
<1>5. QED
  BY <1>2, <1>3, <1>4 DEF QueueInv

\* The list that is put back holds every saved item of the one it replaces.
LEMMA RolledBackHasIt ==
  ASSUME TypeOK, QueueInv, 1 \in NextSave, RollsBack(saves[1])
  PROVE  durable \cap ToSet(queue) \subseteq ToSet(saves[1].before)
<1>1. /\ Len(saves) = 1 /\ saves[1].then \in {"schedule", "remove"} /\ 1 \in DOMAIN saves
      /\ saves # <<>>
  BY SaveAnswered DEF TypeOK, RollsBack
<1>2. ToSet(queue) = ListOf(1)
  BY <1>1 DEF QueueInv, ChainInv, ListOf
<1>3. CASE saves[1].then = "schedule"
  <2>1. saves[1].item \notin durable
    BY <1>1, <1>3 DEF QueueInv, NumberInv
  <2>2. QED
    BY <1>1, <1>2, <1>3, <2>1 DEF QueueInv, UndoInv
<1>4. CASE saves[1].then = "remove"
  BY <1>1, <1>2, <1>4 DEF QueueInv, UndoInv
<1>5. QED
  BY <1>1, <1>3, <1>4

\* A failed save puts the list before it back: the list of it goes to the store.
LEMMA RolledBackKeeps ==
  ASSUME TypeOK, QueueInv, 1 \in NextSave, saves' = RemoveAt(saves, 1), RollsBack(saves[1]),
         UNCHANGED <<disk, durable, pasted, sent, reserved>>, taken \subseteq taken',
         backend' = saves[1].list, queue' = saves[1].before
  PROVE  QueueInv'
<1>1. /\ Len(saves) = 1 /\ saves[1].then \in {"schedule", "remove"} /\ 1 \in DOMAIN saves
      /\ saves' = <<>> /\ saves # <<>>
  BY SaveAnswered DEF TypeOK, RollsBack
<1>2. ToSet(queue) = ListOf(1) /\ ToSet(backend') = ListOf(1)
  BY <1>1 DEF QueueInv, ChainInv, ListOf
<1>3. Gone \subseteq Gone'
  BY DEF Gone
<1>4. ToSet(saves[1].before) \subseteq ListOf(1) \cup taken
  BY <1>1 DEF QueueInv, UndoInv
<1>5. \A i \in durable : i \in ListOf(1) => i \in ToSet(saves[1].before)
  BY <1>2, RolledBackHasIt
<1>6. \A i \in ListOf(1) \ taken' : i \in durable => i \in ToSet(disk)
  BY <1>1 DEF QueueInv, ChainInv
<1>7. /\ durable \subseteq ListOf(1) \cup Gone /\ durable \subseteq ToSet(disk) \cup Gone
      /\ durable \subseteq 1..reserved
  BY <1>1 DEF QueueInv, GoneInv, NumberInv
<1>8. QED
  BY <1>1, <1>2, <1>3, <1>4, <1>5, <1>6, <1>7, NoSaves

LEMMA SaveEndsKeeps ==
  ASSUME TypeOK, QueueInv, NEW ok \in BOOLEAN, SaveEnds(ok)
  PROVE  QueueInv'
<1>1. /\ 1 \in NextSave /\ saves' = RemoveAt(saves, 1) /\ backend' = saves[1].list
      /\ (SaveOk \/ SaveFails) /\ UNCHANGED <<reserved, pasted, sent>>
  BY SaveCases
<1>2. CASE SaveOk
  <2>1. \A i \in durable' : i \in durable \/ (Brings(1, i) /\ disk' = saves[1].list)
    BY <1>2 DEF SaveOk, Brings
  <2>2. UNCHANGED <<queue, taken, pasted, sent, reserved>> /\ durable \subseteq durable'
        /\ disk' \in {disk, saves[1].list}
    BY <1>2, SaveCases DEF SaveOk
  <2>3. QED
    BY <1>1, <2>1, <2>2, AnsweredKeeps
<1>3. CASE SaveFails /\ RollsBack(saves[1])
  <2>1. UNCHANGED <<disk, durable, pasted, sent, reserved>> /\ taken \subseteq taken'
        /\ queue' = saves[1].before
    BY <1>3, SaveCases DEF SaveFails
  <2>2. QED
    BY <1>1, <1>3, <2>1, RolledBackKeeps
<1>4. CASE SaveFails /\ ~RollsBack(saves[1])
  <2>1. UNCHANGED <<queue, taken, disk, durable, pasted, sent, reserved>>
    BY <1>4, SaveCases DEF SaveFails
  <2>2. QED
    BY <1>1, <2>1, AnsweredKeeps
<1>5. QED
  BY <1>1, <1>2, <1>3, <1>4

LEMMA CrashKeeps ==
  ASSUME TypeOK, QueueInv, NEW app \in BOOLEAN, Crash(app)
  PROVE  QueueInv'
<1>1. /\ queue' \in {disk, backend} /\ backend' = queue' /\ saves' = <<>>
      /\ pasted' = pasted \ ToSet(queue')
      /\ UNCHANGED <<disk, reserved, durable, sent, taken>>
  BY DEF Crash
<1>2. \A i \in ToSet(queue') \ taken : i \in durable => i \in ToSet(disk)
  BY <1>1 DEF QueueInv, ChainInv
<1>3. \A i \in Gone : i \in Gone' \/ (i \in ToSet(queue') /\ i \notin taken)
  BY <1>1 DEF Gone
<1>4. durable \subseteq ToSet(queue') \cup Gone /\ durable \subseteq ToSet(disk) \cup Gone
      /\ durable \subseteq 1..reserved
  BY <1>1 DEF QueueInv, GoneInv, NumberInv
<1>5. QED
  BY <1>1, <1>2, <1>3, <1>4, NoSaves

\* A pause ends because its item was sent after all: the item may go.
LEMMA SettleKeeps ==
  ASSUME TypeOK, QueueInv, Settle, UNCHANGED <<storeVars, histVars>>, paused.item \in Gone
  PROVE  QueueInv'
<1>1. UNCHANGED <<taken, pasted, sent, durable, reserved>>
  BY DEF histVars
<1>2. CASE queue # <<>> /\ Head(queue) = paused.item
  <2>1. Store(Tail(queue), "none", None)
    BY <1>2 DEF Settle
  <2>2. queue \in Seq(Items)
    BY DEF TypeOK
  <2>3. Tail(queue) \in Seq(Items) /\ ToSet(queue) = ToSet(Tail(queue)) \cup {Head(queue)}
    BY <1>2, <2>2, TailSet
  <2>4. Gone' = Gone
    BY <1>1 DEF Gone
  <2>5. QED
    BY <1>1, <1>2, <2>1, <2>3, <2>4, StoreKeeps
<1>3. CASE ~(queue # <<>> /\ Head(queue) = paused.item)
  <2>1. UNCHANGED <<queue, saves, backend, disk, reserved, durable>>
    BY <1>1, <1>3 DEF Settle, listVars, storeVars
  <2>2. Gone' = Gone /\ taken' = taken
    BY <1>1 DEF Gone
  <2>3. QED
    BY <2>1, <2>2, FrameKeeps
<1>4. QED
  BY <1>2, <1>3

\* What a hook matched was sent.
LEMMA MatchSent ==
  ASSUME TypeOK, HookInv, NEW i, Verdict(i) = "match", i # User
  PROVE  i \in sent
  BY DEF Verdict, HookInv

LEMMA PausedIsItem == ASSUME TypeOK PROVE paused.item # User /\ inflight # User
  BY ItemsAreNumbers DEF TypeOK, User, None, Items

LEMMA ScheduleKeeps == ASSUME TypeOK, QueueInv, Schedule PROVE QueueInv'
<1> DEFINE i == reserved + 1
           list == Append(queue, i)
<1>1. /\ i \in Items /\ Store(list, "schedule", i) /\ reserved' = i
      /\ UNCHANGED <<storeVars, durable, pasted, sent, taken>>
  BY DEF Schedule
<1>2. list \in Seq(Items) /\ ToSet(list) = ToSet(queue) \cup {i}
  BY <1>1, AppendSet DEF TypeOK
<1>3. Gone' = Gone
  BY <1>1 DEF Gone
<1>4. i = reserved + 1
  OBVIOUS
<1> HIDE DEF i, list
<1>5. QED
  BY <1>1, <1>2, <1>3, <1>4, StoreKeeps

LEMMA RemoveItemKeeps ==
  ASSUME TypeOK, QueueInv, NEW i \in Items, RemoveItem(i) PROVE QueueInv'
<1>1. /\ Store(Without(i), "remove", i) /\ taken' = taken \cup {i}
      /\ UNCHANGED <<storeVars, reserved, durable, pasted, sent>>
  BY DEF RemoveItem
<1>2. /\ Without(i) \in Seq(Items) /\ ToSet(Without(i)) \subseteq ToSet(queue)
      /\ ToSet(queue) \subseteq ToSet(Without(i)) \cup {i}
  BY WithoutSet DEF TypeOK
<1>3. Gone \subseteq Gone' /\ taken' \subseteq Gone'
  BY <1>1 DEF Gone
<1>4. QED
  BY <1>1, <1>2, <1>3, StoreKeeps

LEMMA CancelKeeps == ASSUME TypeOK, QueueInv, CancelPaused PROVE QueueInv'
<1>1. /\ Store(Tail(queue), "none", None) /\ taken' = taken \cup {Head(queue)} /\ queue # <<>>
      /\ UNCHANGED <<storeVars, reserved, durable, pasted, sent>>
  BY DEF CancelPaused
<1>2. Tail(queue) \in Seq(Items) /\ ToSet(queue) = ToSet(Tail(queue)) \cup {Head(queue)}
  BY <1>1, TailSet DEF TypeOK
<1>3. Gone \subseteq Gone' /\ taken' \subseteq Gone'
  BY <1>1 DEF Gone
<1>4. QED
  BY <1>1, <1>2, <1>3, StoreKeeps

LEMMA ConfirmedKeeps == ASSUME TypeOK, DeliveryInv, QueueInv, Confirmed PROVE QueueInv'
<1>1. /\ Store(Without(inflight), "pump", None)
      /\ UNCHANGED <<storeVars, reserved, durable, pasted, sent, taken>>
      /\ pc \notin {"none", "settle"}
  BY DEF Confirmed, histVars
<1>2. /\ Without(inflight) \in Seq(Items) /\ ToSet(Without(inflight)) \subseteq ToSet(queue)
      /\ ToSet(queue) \subseteq ToSet(Without(inflight)) \cup {inflight}
  BY WithoutSet DEF TypeOK
<1>3. Gone' = Gone /\ inflight \in Gone
  BY <1>1 DEF Gone, DeliveryInv
<1>4. QED
  BY <1>1, <1>2, <1>3, StoreKeeps

\* A step that changes no list, and forgets nothing that is gone.
LEMMA QuietKeeps ==
  ASSUME TypeOK, QueueInv, UNCHANGED <<listVars, storeVars, reserved, durable, taken>>,
         pasted \subseteq pasted', sent \subseteq sent'
  PROVE  QueueInv'
<1>1. Gone \subseteq Gone'
  BY DEF Gone
<1>2. UNCHANGED <<queue, saves, backend, disk, reserved, durable>>
  BY DEF listVars, storeVars
<1>3. QED
  BY <1>1, <1>2, FrameKeeps

LEMMA StartOverKeeps ==
  ASSUME TypeOK, QueueInv, StartOver, UNCHANGED <<storeVars, reserved, durable, taken, sent>>
  PROVE  QueueInv'
<1>1. UNCHANGED <<queue, saves, backend, disk, reserved, durable>> /\ taken' = taken
  BY DEF StartOver, Pump, listVars, storeVars
<1>2. \A i \in Gone : i \in Gone' \/ i \in ToSet(queue)
  BY DEF StartOver, Gone
<1>3. QED
  BY <1>1, <1>2, FrameKeeps

LEMMA QueueNext ==
  ASSUME TypeOK, DeliveryInv, HookInv, QueueInv, [Next]_vars
  PROVE  QueueInv'
<1>1. CASE Schedule \/ CancelPaused \/ (\E i \in Items : RemoveItem(i))
  BY <1>1, ScheduleKeeps, CancelKeeps, RemoveItemKeeps
<1>2. CASE Retry
  <2>1. UNCHANGED <<storeVars, reserved, durable, taken, sent>>
    BY <1>2 DEF Retry
  <2>2. StartOver \/ UNCHANGED <<listVars, pasted>>
    BY <1>2 DEF Retry
  <2>3. QED
    BY <2>1, <2>2, StartOverKeeps, QuietKeeps
<1>3. CASE \E k \in {User, Enter} : UserKey(k)
  <2>1. UNCHANGED <<listVars, storeVars, reserved, durable, taken, pasted, sent>>
    BY <1>3 DEF UserKey, histVars
  <2>2. QED
    BY <2>1, QuietKeeps
<1>4. CASE (\E hook \in BOOLEAN : Start(hook)) \/ Landed \/ TimesOut
  <2>1. UNCHANGED <<listVars, storeVars, reserved, durable, taken, sent>>
    BY <1>4 DEF Start, Landed, TimesOut, histVars
  <2>2. pasted \subseteq pasted'
    BY <1>4 DEF Start, Landed, TimesOut, histVars
  <2>3. QED
    BY <2>1, <2>2, QuietKeeps
<1>5. CASE Confirmed
  BY <1>5, ConfirmedKeeps
<1>6. CASE RetryAsked
  <2>1. UNCHANGED <<storeVars, reserved, durable, taken, sent, undone>>
    BY <1>6 DEF RetryAsked
  <2>2. \/ StartOver
        \/ UNCHANGED <<listVars, pasted>>
        \/ Settle /\ UNCHANGED pasted /\ Verdict(paused.item) = "match"
    BY <1>6 DEF RetryAsked
  <2>3. ASSUME Settle, UNCHANGED pasted, Verdict(paused.item) = "match" PROVE QueueInv'
    <3>1. paused.item \in Gone
      BY <2>3, MatchSent, PausedIsItem DEF Gone
    <3>2. UNCHANGED histVars
      BY <2>1, <2>3 DEF histVars
    <3>3. QED
      BY <2>1, <2>3, <3>1, <3>2, SettleKeeps
  <2>4. QED
    BY <2>1, <2>2, <2>3, StartOverKeeps, QuietKeeps
<1>7. CASE Watch
  <2>1. UNCHANGED <<storeVars, histVars>>
    BY <1>7 DEF Watch
  <2>2. \/ UNCHANGED listVars
        \/ Settle /\ Verdict(paused.item) = "match"
    BY <1>7 DEF Watch
  <2>3. ASSUME Settle, Verdict(paused.item) = "match" PROVE QueueInv'
    <3>1. paused.item \in Gone
      BY <2>3, MatchSent, PausedIsItem DEF Gone
    <3>2. QED
      BY <2>1, <2>3, <3>1, SettleKeeps
  <2>4. UNCHANGED <<reserved, durable, taken, pasted, sent>>
    BY <2>1 DEF histVars
  <2>5. QED
    BY <2>1, <2>2, <2>3, <2>4, QuietKeeps
<1>8. CASE StatusRunning \/ (\E done \in BOOLEAN : StatusRests(done))
  <2>1. UNCHANGED <<storeVars, reserved, durable, taken, pasted, sent>>
    BY <1>8 DEF StatusRunning, StatusRests, histVars
  <2>2. UNCHANGED listVars
    BY <1>8 DEF StatusRunning, StatusRests, Pump
  <2>3. QED
    BY <2>1, <2>2, QuietKeeps
<1>9. CASE ToolReads \/ HookRecords \/ ToolTurn
  <2>1. UNCHANGED <<listVars, storeVars, reserved, durable, taken, pasted>> /\ sent \subseteq sent'
    BY <1>9 DEF ToolReads, HookRecords, ToolTurn, histVars
  <2>2. QED
    BY <2>1, QuietKeeps
<1>10. CASE \E ok \in BOOLEAN : SaveEnds(ok)
  BY <1>10, SaveEndsKeeps
<1>11. CASE \E app \in BOOLEAN : Crash(app)
  BY <1>11, CrashKeeps
<1>12. CASE UNCHANGED vars
  <2>1. UNCHANGED <<listVars, storeVars, reserved, durable, taken, pasted, sent>>
    BY <1>12 DEF vars, histVars
  <2>2. QED
    BY <2>1, QuietKeeps
<1>13. QED
  BY <1>1, <1>2, <1>3, <1>4, <1>5, <1>6, <1>7, <1>8, <1>9, <1>10, <1>11, <1>12
     DEF Next, UserStep, RendererStep, WorldStep, Deliver

-----------------------------------------------------------------------------
(* The theorems *)

LEMMA TypeNext ==
  ASSUME TypeOK, DeliveryInv, QueueInv, [Next]_vars
  PROVE  TypeOK'
<1>1. CASE UserStep
  BY <1>1, UserTypes DEF UserStep
<1>2. CASE RendererStep
  BY <1>2, DeliverTypes, RestTypes DEF RendererStep, Deliver
<1>3. CASE WorldStep
  BY <1>3, WorldTypes DEF WorldStep, QueueInv
<1>4. CASE UNCHANGED vars
  BY <1>4, TypeParts, TypePrimed, SameTypes DEF vars
<1>5. QED
  BY <1>1, <1>2, <1>3, <1>4 DEF Next

LEMMA InvInit == Init => PQInv
<1> SUFFICES ASSUME Init PROVE PQInv
  OBVIOUS
<1>1. TypeOK
  BY TypeInit
<1>2. DeliveryInv
  BY DEF Init, DeliveryInv
<1>3. HookInv
  BY DEF Init, HookInv
<1>4. saves = <<>> /\ DOMAIN saves = {} /\ durable = {} /\ queue = <<>> /\ ToSet(queue) = {}
      /\ backend = <<>> /\ ToSet(backend) = {}
  <2>1. ToSet(<<>>) = {}
    BY DEF ToSet
  <2>2. QED
    BY <2>1 DEF Init
<1>5. NumberInv /\ ChainInv /\ UndoInv /\ GoneInv
  BY <1>4, Zenon DEF NumberInv, ChainInv, UndoInv, GoneInv
<1>6. QED
  BY <1>1, <1>2, <1>3, <1>5 DEF PQInv, QueueInv

\* The chain of lists, the delivery and the hook keep their shape in every step, and
\* every variable its type.
THEOREM QueueIsSound == SafetySpec => []PQInv
<1>1. PQInv /\ [Next]_vars => PQInv'
  BY TypeNext, DeliveryNext, HookNext, QueueNext DEF PQInv
<1>2. QED
  BY <1>1, InvInit, PTL DEF SafetySpec

\* No prompt whose save was answered is lost: it is in the queue, was given to the
\* terminal, or was taken back, whatever crashes and failed saves follow
\* (persistDraftList, scheduleComposerPrompt, removeStoredDraft).
THEOREM NoPromptIsLost == SafetySpec => []NothingLost
<1>1. PQInv => NothingLost
  BY Zenon DEF PQInv, QueueInv, GoneInv, NothingLost, Gone
<1>2. QED
  BY <1>1, QueueIsSound, PTL

\* A session has one delivery at a time: one starts only when none is under way
\* (_inflight in prompt-queue.js).
THEOREM DeliveriesAreSingle == SafetySpec => OneDelivery
<1>1. PQInv /\ [Next]_vars => [pc' = "settle" /\ pc # "settle" => pc = "none"]_vars
  BY DeliveryNext DEF PQInv
<1>2. QED
  BY <1>1, QueueIsSound, PTL DEF OneDelivery, SafetySpec

LEMMA HookStep ==
  ASSUME PQInv, Next, byHook, NEW i \in durable \cap ToSet(queue)
  PROVE  i \in ToSet(queue') \cup sent \cup taken'
<1>1. TypeOK /\ DeliveryInv /\ HookInv /\ QueueInv /\ queue \in Seq(Items)
  BY DEF PQInv, TypeOK
<1>2. ASSUME queue # <<>>, queue' = Tail(queue), i # Head(queue) PROVE i \in ToSet(queue')
  BY <1>1, <1>2, TailSet
<1>3. CASE Schedule
  <2>1. reserved + 1 \in Items /\ queue' = Append(queue, reserved + 1)
    BY <1>3 DEF Schedule, Store
  <2>2. QED
    BY <1>1, <2>1, AppendSet
<1>4. CASE CancelPaused
  BY <1>2, <1>4 DEF CancelPaused, Store
<1>5. ASSUME NEW j \in Items, RemoveItem(j) PROVE i \in ToSet(queue') \cup taken'
  <2>1. queue' = Without(j) /\ taken' = taken \cup {j}
    BY <1>5 DEF RemoveItem, Store
  <2>2. QED
    BY <1>1, <2>1, WithoutSet
<1>6. CASE Confirmed
  <2>1. queue' = Without(inflight) /\ Verdict(inflight) = "match"
    BY <1>1, <1>6 DEF Confirmed, Store, DeliveryInv
  <2>2. inflight \in sent
    BY <1>1, <2>1, MatchSent, PausedIsItem
  <2>3. QED
    BY <1>1, <2>1, <2>2, WithoutSet
<1>7. ASSUME Settle, Verdict(paused.item) = "match" PROVE i \in ToSet(queue') \cup sent
  <2>1. queue' = queue \/ (queue # <<>> /\ queue' = Tail(queue) /\ Head(queue) = paused.item)
    BY <1>7 DEF Settle, Store, listVars
  <2>2. paused.item \in sent
    BY <1>1, <1>7, MatchSent, PausedIsItem
  <2>3. QED
    BY <1>2, <2>1, <2>2
<1>8. CASE RetryAsked \/ Watch
  <2>1. queue' = queue \/ (Settle /\ Verdict(paused.item) = "match")
    BY <1>8 DEF RetryAsked, Watch, StartOver, Pump, listVars
  <2>2. QED
    BY <1>7, <2>1
<1>9. ASSUME NEW ok \in BOOLEAN, SaveEnds(ok) PROVE i \in ToSet(queue')
  <2>1. 1 \in NextSave
        /\ (queue' = queue \/ (RollsBack(saves[1]) /\ queue' = saves[1].before))
    BY <1>9, SaveCases DEF SaveOk, SaveFails
  <2>2. QED
    BY <1>1, <2>1, RolledBackHasIt
<1>10. ASSUME NEW app \in BOOLEAN, Crash(app) PROVE i \in ToSet(queue') \cup taken'
  <2>1. queue' \in {disk, backend} /\ taken' = taken
    BY <1>10 DEF Crash
  <2>2. saves \in Seq(Saves) /\ ChainInv
    BY <1>1 DEF TypeOK, QueueInv
  <2>3. i \notin taken => i \in ToSet(backend) /\ i \in ToSet(disk)
    BY <2>2, OlderHasIt
  <2>4. QED
    BY <2>1, <2>3
<1>11. CASE Retry \/ (\E k \in {User, Enter} : UserKey(k)) \/ (\E hook \in BOOLEAN : Start(hook))
            \/ Landed \/ TimesOut \/ StatusRunning \/ (\E done \in BOOLEAN : StatusRests(done))
            \/ ToolReads \/ HookRecords \/ ToolTurn
  <2>1. queue' = queue
    BY <1>11 DEF Retry, StartOver, Pump, UserKey, Start, Landed, TimesOut, StatusRunning,
                 StatusRests, ToolReads, HookRecords, ToolTurn, listVars
  <2>2. QED
    BY <2>1
<1>12. QED
  BY <1>3, <1>4, <1>5, <1>6, <1>8, <1>9, <1>10, <1>11
     DEF Next, UserStep, RendererStep, WorldStep, Deliver

\* While a delivery or a pause goes by the hook, a saved prompt leaves the queue only
\* when the tool got exactly its text, or the user took it back: no other prompt, late
\* answer, failed save or restart removes it (_hookVerdict, _resolvePausedByHook).
THEOREM HookIsBelieved == SafetySpec => HookIsRight
<1>1. PQInv /\ [Next]_vars
        => [byHook => \A i \in durable \cap ToSet(queue) :
                        i \in ToSet(queue') \cup sent \cup taken']_vars
  BY HookStep
<1>2. QED
  BY <1>1, QueueIsSound, PTL DEF HookIsRight, SafetySpec

-----------------------------------------------------------------------------
(* Prompts are pasted once.  Prompts are numbered as they are reserved, and *)
(* every list holds them in that order: so the prompt under way, or paused, *)
(* is the first of the list as long as it is in it.                         *)

Ascending(s) == \A j, k \in DOMAIN s : j < k => s[j] < s[k]
InOrder(s, n) == Ascending(s) /\ ToSet(s) \subseteq 1..n
SaveInOrder(s, n) ==
  /\ InOrder(s.list, n) /\ InOrder(s.before, n)
  /\ s.then = "schedule" => ToSet(s.before) \subseteq ToSet(s.list)

OrderInv ==
  /\ InOrder(queue, reserved) /\ InOrder(backend, reserved) /\ InOrder(disk, reserved)
  /\ \A k \in DOMAIN saves : SaveInOrder(saves[k], reserved)

\* A confirmed delivery waits for its own save, and for no other.
SavingInv ==
  \A k \in DOMAIN saves : saves[k].then = "pump" =>
    pc = "saving" /\ \A l \in DOMAIN saves : saves[l].then = "pump" => l = k

\* Only prompts that were reserved are pasted, delivered or paused.
ReservedInv == pasted \subseteq 1..reserved /\ inflight <= reserved /\ paused.item <= reserved

Frontmost == \A i \in ToSet(queue) : inflight <= i /\ paused.item <= i
Unpasted == pc = "settle" => inflight \notin pasted \ taken
\* a prompt in the list is in the terminal already
Known ==
  \A i \in (ToSet(queue) \cap pasted) \ taken :
    \/ pc \notin {"none", "settle", "saving"} /\ i = inflight
    \/ paused.reason \notin {"none", "leftover"} /\ i = paused.item
OnceInv == ~undone => Frontmost /\ Unpasted /\ Known

PasteInv == OrderInv /\ SavingInv /\ ReservedInv /\ OnceInv

LEMMA NatItems == None = 0 /\ \A i \in Items \cup {None} : i \in Nat /\ 0 <= i
<1>1. MaxItems \in Nat
  BY ItemsAreNumbers
<1>2. QED
  BY <1>1 DEF Items, None

LEMMA UpToMore ==
  ASSUME NEW s, NEW n \in Nat, NEW m \in Nat, n <= m, InOrder(s, n)
  PROVE  InOrder(s, m)
<1>1. 1..n \subseteq 1..m
  OBVIOUS
<1>2. QED
  BY <1>1 DEF InOrder

LEMMA AppendInOrder ==
  ASSUME NEW s \in Seq(Items), NEW n \in Nat, InOrder(s, n), n + 1 \in Items
  PROVE  InOrder(Append(s, n + 1), n + 1)
<1> DEFINE r == Append(s, n + 1)
<1>1. /\ ToSet(r) = ToSet(s) \cup {n + 1} /\ Len(s) \in Nat /\ DOMAIN s = 1..Len(s)
      /\ DOMAIN r = 1..(Len(s) + 1) /\ \A k \in 1..Len(s) : r[k] = s[k]
      /\ r[Len(s) + 1] = n + 1
  BY AppendSet
<1> HIDE DEF r
<1>2. ToSet(r) \subseteq 1..(n + 1)
  BY <1>1 DEF InOrder
<1>3. ASSUME NEW j \in DOMAIN r, NEW k \in DOMAIN r, j < k PROVE r[j] < r[k]
  <2>1. j \in DOMAIN s /\ r[j] = s[j]
    BY <1>1, <1>3
  <2>2. s[j] \in 1..n
    BY <2>1 DEF InOrder, ToSet
  <2>3. CASE k \in DOMAIN s
    BY <1>1, <1>3, <2>1, <2>3 DEF InOrder, Ascending
  <2>4. CASE k \notin DOMAIN s
    <3>1. k = Len(s) + 1
      BY <1>1, <2>4
    <3>2. QED
      BY <1>1, <2>1, <2>2, <3>1
  <2>5. QED
    BY <2>3, <2>4
<1>4. QED
  BY <1>2, <1>3 DEF InOrder, Ascending, r

LEMMA TailInOrder ==
  ASSUME NEW s \in Seq(Items), NEW n \in Nat, InOrder(s, n), s # <<>>
  PROVE  /\ InOrder(Tail(s), n) /\ Head(s) \in ToSet(s)
         /\ Head(s) \notin ToSet(Tail(s)) /\ ToSet(s) = ToSet(Tail(s)) \cup {Head(s)}
         /\ \A i \in ToSet(s) : Head(s) <= i
<1> DEFINE r == Tail(s)
<1>1. /\ r \in Seq(Items) /\ Len(s) \in Nat /\ Len(s) > 0 /\ DOMAIN s = 1..Len(s)
      /\ DOMAIN r = 1..(Len(s) - 1) /\ \A k \in DOMAIN r : r[k] = s[k + 1]
      /\ Head(s) = s[1]
  BY HeadTailProperties
<1>2. ToSet(s) = ToSet(r) \cup {Head(s)}
  BY TailSet
<1> HIDE DEF r
<1>3. \A k \in DOMAIN r : k + 1 \in DOMAIN s /\ 1 < k + 1
  BY <1>1
<1>4. 1 \in DOMAIN s
  BY <1>1
<1>5. \A k \in DOMAIN s : s[k] \in 1..n
  BY DEF InOrder, ToSet
<1>6. \A i \in ToSet(r) : Head(s) < i
  <2>1. \A k \in DOMAIN r : s[1] < s[k + 1]
    BY <1>3, <1>4 DEF InOrder, Ascending
  <2>2. QED
    BY <1>1, <2>1 DEF ToSet
<1>7. Head(s) \in 1..n /\ ToSet(s) \subseteq 1..n
  BY <1>1, <1>4, <1>5 DEF InOrder
<1>8. Head(s) \notin ToSet(r)
  BY <1>6, <1>7
<1>9. \A i \in ToSet(s) : Head(s) <= i
  BY <1>2, <1>6, <1>7
<1>10. Ascending(r)
  <2>1. ASSUME NEW j \in DOMAIN r, NEW k \in DOMAIN r, j < k PROVE r[j] < r[k]
    <3>1. j + 1 < k + 1
      BY <1>1, <2>1
    <3>2. QED
      BY <1>1, <1>3, <3>1 DEF InOrder, Ascending
  <2>2. QED
    BY <2>1 DEF Ascending
<1>11. InOrder(r, n)
  BY <1>2, <1>7, <1>10 DEF InOrder
<1>12. QED
  BY <1>2, <1>8, <1>9, <1>11 DEF r

LEMMA WithoutInOrder ==
  ASSUME queue \in Seq(Items), NEW n \in Nat, InOrder(queue, n), NEW i
  PROVE  InOrder(Without(i), n) /\ i \notin ToSet(Without(i))
<1>1. CASE i \notin ToSet(queue)
  BY <1>1 DEF Without
<1>2. CASE i \in ToSet(queue)
  <2> DEFINE m == CHOOSE k \in DOMAIN queue : queue[k] = i
  <2>1. m \in DOMAIN queue /\ queue[m] = i
    BY <1>2 DEF ToSet
  <2> HIDE DEF m
  <2>2. m \in 1..Len(queue)
    BY <2>1
  <2> DEFINE r == RemoveAt(queue, m)
  <2>3. /\ r \in Seq(Items) /\ Len(queue) \in Nat /\ DOMAIN queue = 1..Len(queue)
        /\ DOMAIN r = 1..(Len(queue) - 1)
        /\ \A k \in 1..(Len(queue) - 1) : r[k] = IF k < m THEN queue[k] ELSE queue[k + 1]
    BY <2>2, RemoveAtSet
  <2>4. Without(i) = r
    BY <1>2 DEF Without, m
  <2> HIDE DEF r
  <2> DEFINE at(k) == IF k < m THEN k ELSE k + 1
  <2>5. \A k \in DOMAIN r : at(k) \in DOMAIN queue /\ at(k) # m /\ r[k] = queue[at(k)]
    BY <2>2, <2>3
  <2>6. \A j, k \in DOMAIN r : j < k => at(j) < at(k)
    BY <2>2, <2>3
  <2>6a. \A j, k \in DOMAIN queue : j < k => queue[j] < queue[k]
    BY DEF InOrder, Ascending
  <2> HIDE DEF at
  <2>7. Ascending(r)
    BY <2>5, <2>6, <2>6a DEF Ascending
  <2>8. ToSet(r) \subseteq ToSet(queue)
    BY <2>4, WithoutSet
  <2>9. ASSUME NEW k \in DOMAIN r PROVE r[k] # i
    <3>1. at(k) \in DOMAIN queue /\ at(k) # m /\ r[k] = queue[at(k)]
      BY <2>5
    <3>2. queue[at(k)] \in 1..n /\ queue[m] \in 1..n
      BY <2>1, <3>1 DEF InOrder, ToSet
    <3>3. at(k) < m \/ m < at(k)
      BY <2>2, <2>3, <3>1
    <3>4. queue[at(k)] < queue[m] \/ queue[m] < queue[at(k)]
      BY <2>1, <2>6a, <3>1, <3>3
    <3>5. QED
      BY <2>1, <3>1, <3>2, <3>4
  <2>10. i \notin ToSet(r)
    BY <2>9 DEF ToSet
  <2>11. QED
    BY <2>4, <2>7, <2>8, <2>10 DEF InOrder
<1>3. QED
  BY <1>1, <1>2

-----------------------------------------------------------------------------
(* The lists stay in order *)

LEMMA StoreInOrder ==
  ASSUME TypeOK, OrderInv, NEW list \in Seq(Items),
         NEW then \in {"schedule", "remove", "pump", "none"}, NEW it \in Items \cup {None},
         Store(list, then, it), UNCHANGED storeVars, reserved' \in Nat, reserved <= reserved',
         InOrder(list, reserved'), then = "schedule" => ToSet(queue) \subseteq ToSet(list)
  PROVE  OrderInv'
<1>0. PICK n \in Nat : n = Len(saves)
  BY DEF TypeOK
<1> DEFINE s == [list |-> list, before |-> queue, then |-> then, item |-> it]
<1>1. saves \in Seq(Saves) /\ s \in Saves /\ saves' = Append(saves, s) /\ queue' = list
  BY DEF TypeOK, Saves, Store
<1>2. /\ DOMAIN saves = 1..n /\ DOMAIN saves' = 1..(n + 1)
      /\ \A k \in 1..n : saves'[k] = saves[k]
      /\ saves'[n + 1] = s
  BY <1>0, <1>1, AppendSet
<1>3. s.list = list /\ s.before = queue /\ s.then = then
  OBVIOUS
<1> HIDE DEF s
<1>4. \A k \in DOMAIN saves' : k \in DOMAIN saves \/ k = n + 1
  BY <1>2
<1>5. reserved \in Nat /\ \A q : InOrder(q, reserved) => InOrder(q, reserved')
  <2>1. reserved \in Nat
    BY ItemsAreNumbers DEF TypeOK
  <2>2. QED
    BY <2>1, UpToMore
<1>6. SaveInOrder(s, reserved')
  BY <1>3, <1>5 DEF SaveInOrder, OrderInv
<1>7. \A k \in DOMAIN saves : SaveInOrder(saves[k], reserved')
  BY <1>5 DEF SaveInOrder, OrderInv
<1>8. \A k \in DOMAIN saves' : SaveInOrder(saves'[k], reserved')
  BY <1>2, <1>4, <1>6, <1>7
<1>9. InOrder(queue', reserved') /\ InOrder(backend', reserved') /\ InOrder(disk', reserved')
  BY <1>1, <1>5 DEF OrderInv, storeVars
<1>10. QED
  BY <1>8, <1>9 DEF OrderInv

LEMMA OrderNext ==
  ASSUME TypeOK, OrderInv, [Next]_vars
  PROVE  OrderInv'
<1>0. reserved \in Nat /\ queue \in Seq(Items) /\ saves \in Seq(Saves) /\ InOrder(queue, reserved)
  BY ItemsAreNumbers DEF TypeOK, OrderInv
<1>1. ASSUME UNCHANGED <<listVars, storeVars, reserved>> PROVE OrderInv'
  BY <1>1 DEF OrderInv, listVars, storeVars
<1>2. CASE Schedule
  <2> DEFINE list == Append(queue, reserved + 1)
  <2>1. /\ reserved + 1 \in Items /\ Store(list, "schedule", reserved + 1)
        /\ reserved' = reserved + 1 /\ UNCHANGED storeVars
    BY <1>2 DEF Schedule
  <2>2. list \in Seq(Items) /\ ToSet(list) = ToSet(queue) \cup {reserved + 1}
    BY <1>0, <2>1, AppendSet
  <2>3. InOrder(list, reserved')
    BY <1>0, <2>1, AppendInOrder
  <2> HIDE DEF list
  <2>4. reserved' \in Nat /\ reserved <= reserved'
    BY <1>0, <2>1
  <2>5. QED
    BY <2>1, <2>2, <2>3, <2>4, StoreInOrder
<1>3. ASSUME NEW i \in Items, RemoveItem(i) PROVE OrderInv'
  <2>1. Store(Without(i), "remove", i) /\ UNCHANGED <<storeVars, reserved>>
    BY <1>3 DEF RemoveItem
  <2>2. Without(i) \in Seq(Items) /\ InOrder(Without(i), reserved)
    BY <1>0, WithoutSet, WithoutInOrder
  <2>3. QED
    BY <1>0, <2>1, <2>2, StoreInOrder
<1>4. ASSUME queue # <<>>, Store(Tail(queue), "none", None), UNCHANGED <<storeVars, reserved>>
      PROVE  OrderInv'
  <2>1. Tail(queue) \in Seq(Items) /\ InOrder(Tail(queue), reserved)
    BY <1>0, <1>4, TailSet, TailInOrder
  <2> DEFINE list == Tail(queue)
  <2>2. /\ list \in Seq(Items) /\ InOrder(list, reserved') /\ Store(list, "none", None)
        /\ UNCHANGED storeVars /\ reserved' \in Nat /\ reserved <= reserved'
    BY <1>0, <1>4, <2>1
  <2> HIDE DEF list
  <2>3. QED
    BY <2>2, StoreInOrder
<1>5. CASE CancelPaused
  BY <1>4, <1>5 DEF CancelPaused
<1>6. CASE Confirmed
  <2>1. Store(Without(inflight), "pump", None) /\ UNCHANGED <<storeVars, reserved>>
    BY <1>6 DEF Confirmed, histVars
  <2>2. Without(inflight) \in Seq(Items) /\ InOrder(Without(inflight), reserved)
    BY <1>0, WithoutSet, WithoutInOrder
  <2>3. QED
    BY <1>0, <2>1, <2>2, StoreInOrder
<1>7. CASE RetryAsked \/ Watch
  <2>1. UNCHANGED <<storeVars, reserved>> /\ (UNCHANGED listVars \/ Settle)
    BY <1>7 DEF RetryAsked, Watch, StartOver, Pump, histVars
  <2>2. CASE Settle
    BY <1>1, <1>4, <2>1, <2>2 DEF Settle
  <2>3. QED
    BY <1>1, <2>1, <2>2
<1>8. ASSUME NEW ok \in BOOLEAN, SaveEnds(ok) PROVE OrderInv'
  <2>1. /\ 1 \in NextSave /\ saves' = RemoveAt(saves, 1) /\ backend' = saves[1].list
        /\ reserved' = reserved
        /\ queue' = queue \/ queue' = saves[1].before
        /\ disk' = disk \/ disk' = saves[1].list
    BY <1>8, SaveCases DEF SaveOk, SaveFails
  <2>2. /\ 1 \in DOMAIN saves /\ Len(saves) \in Nat /\ DOMAIN saves = 1..Len(saves)
        /\ DOMAIN saves' = 1..(Len(saves) - 1)
        /\ \A l \in 1..(Len(saves) - 1) : saves'[l] = saves[l + 1]
    BY <1>0, <2>1, SaveAnswered
  <2>3. \A l \in DOMAIN saves' : l + 1 \in DOMAIN saves
    BY <2>2
  <2>4. \A l \in DOMAIN saves' : SaveInOrder(saves'[l], reserved)
    BY <2>2, <2>3 DEF OrderInv
  <2>5. InOrder(saves[1].list, reserved) /\ InOrder(saves[1].before, reserved)
    BY <2>2 DEF OrderInv, SaveInOrder
  <2>6. QED
    BY <2>1, <2>4, <2>5 DEF OrderInv
<1>9. ASSUME NEW app \in BOOLEAN, Crash(app) PROVE OrderInv'
  <2>1. /\ queue' \in {disk, backend} /\ backend' = queue' /\ saves' = <<>>
        /\ UNCHANGED <<disk, reserved>>
    BY <1>9 DEF Crash
  <2>2. DOMAIN saves' = {}
    BY <2>1
  <2>3. QED
    BY <2>1, <2>2 DEF OrderInv
<1>10. CASE Retry \/ (\E k \in {User, Enter} : UserKey(k)) \/ (\E hook \in BOOLEAN : Start(hook))
            \/ Landed \/ TimesOut \/ StatusRunning \/ (\E done \in BOOLEAN : StatusRests(done))
            \/ ToolReads \/ HookRecords \/ ToolTurn
  <2>1. UNCHANGED <<listVars, storeVars, reserved>>
    BY <1>10 DEF Retry, StartOver, Pump, UserKey, Start, Landed, TimesOut, StatusRunning,
                 StatusRests, ToolReads, HookRecords, ToolTurn, histVars
  <2>2. QED
    BY <1>1, <2>1
<1>11. CASE UNCHANGED vars
  BY <1>1, <1>11 DEF vars, histVars
<1>12. QED
  BY <1>2, <1>3, <1>5, <1>6, <1>7, <1>8, <1>9, <1>10, <1>11
     DEF Next, UserStep, RendererStep, WorldStep, Deliver

-----------------------------------------------------------------------------
(* A delivery that waits for its save *)

LEMMA PumpAnswered ==
  ASSUME NEW ok \in BOOLEAN, SaveEnds(ok)
  PROVE  IF saves[1].then = "pump" THEN pc' = "none" /\ inflight' = None
         ELSE UNCHANGED <<pc, inflight>>
<1>1. PICK k \in NextSave :
        IF saves[k].then = "pump" THEN pc' = "none" /\ inflight' = None
        ELSE UNCHANGED <<pc, inflight>>
  BY DEF SaveEnds
<1>2. k = 1
  BY DEF NextSave
<1>3. QED
  BY <1>1, <1>2

\* A step that adds one save at most, which no delivery waits for.
LEMMA SavingKept ==
  ASSUME saves \in Seq(Saves), SavingInv, pc = "saving" => pc' = "saving",
         \/ saves' = saves
         \/ \E list \in Seq(Items), then \in {"schedule", "remove", "none"},
               it \in Items \cup {None} : queue \in Seq(Items) /\ Store(list, then, it)
  PROVE  SavingInv'
<1>1. CASE saves' = saves
  BY <1>1 DEF SavingInv
<1>2. ASSUME NEW list \in Seq(Items), NEW then \in {"schedule", "remove", "none"},
             NEW it \in Items \cup {None}, queue \in Seq(Items), Store(list, then, it)
      PROVE  SavingInv'
  <2> DEFINE s == [list |-> list, before |-> queue, then |-> then, item |-> it]
  <2>1. s \in Saves /\ saves' = Append(saves, s) /\ s.then # "pump"
    BY <1>2 DEF Saves, Store
  <2> HIDE DEF s
  <2>2. /\ Len(saves) \in Nat /\ DOMAIN saves = 1..Len(saves) /\ DOMAIN saves' = 1..(Len(saves) + 1)
        /\ \A k \in 1..Len(saves) : saves'[k] = saves[k]
        /\ saves'[Len(saves) + 1] = s
    BY <2>1, AppendSet
  <2>3. \A k \in DOMAIN saves' : saves'[k].then = "pump" => k \in DOMAIN saves
    <3>1. \A k \in DOMAIN saves' : k \in DOMAIN saves \/ k = Len(saves) + 1
      BY <2>2
    <3>2. QED
      BY <2>1, <2>2, <3>1
  <2>4. QED
    BY <2>2, <2>3 DEF SavingInv
<1>3. QED
  BY <1>1, <1>2

LEMMA SavingNext ==
  ASSUME TypeOK, DeliveryInv, SavingInv, [Next]_vars
  PROVE  SavingInv'
<1>0. saves \in Seq(Saves) /\ queue \in Seq(Items) /\ inflight \in Items \cup {None}
  BY DEF TypeOK
<1>1. ASSUME UNCHANGED <<pc, saves>> PROVE SavingInv'
  BY <1>1 DEF SavingInv
<1>2. CASE Schedule \/ CancelPaused \/ (\E i \in Items : RemoveItem(i))
  <2>1. pc' = pc
    BY <1>2 DEF Schedule, CancelPaused, RemoveItem, sendVars
  <2>2. CASE Schedule
    <3>1. /\ reserved + 1 \in Items
          /\ Store(Append(queue, reserved + 1), "schedule", reserved + 1)
      BY <2>2 DEF Schedule
    <3>2. Append(queue, reserved + 1) \in Seq(Items)
      BY <1>0, <3>1, AppendSet
    <3>3. QED
      BY <1>0, <2>1, <3>1, <3>2, SavingKept
  <2>3. CASE CancelPaused
    <3>1. Store(Tail(queue), "none", None) /\ Tail(queue) \in Seq(Items)
      BY <1>0, <2>3, TailSet DEF CancelPaused
    <3>2. QED
      BY <1>0, <2>1, <3>1, SavingKept
  <2>4. ASSUME NEW i \in Items, RemoveItem(i) PROVE SavingInv'
    <3>1. Store(Without(i), "remove", i) /\ Without(i) \in Seq(Items)
      BY <1>0, <2>4, WithoutSet DEF RemoveItem
    <3>2. pc' = pc
      BY <2>4 DEF RemoveItem, sendVars
    <3>3. QED
      BY <1>0, <3>1, <3>2, SavingKept
  <2>5. QED
    BY <1>2, <2>2, <2>3, <2>4
<1>3. CASE Confirmed
  <2>1. Store(Without(inflight), "pump", None) /\ pc' = "saving" /\ pc # "saving"
    BY <1>3 DEF Confirmed
  <2> DEFINE s == [list |-> Without(inflight), before |-> queue, then |-> "pump", item |-> None]
  <2>2. s \in Saves /\ saves' = Append(saves, s)
    BY <1>0, <2>1, WithoutSet DEF Saves, Store
  <2> HIDE DEF s
  <2>3. /\ Len(saves) \in Nat /\ DOMAIN saves = 1..Len(saves) /\ DOMAIN saves' = 1..(Len(saves) + 1)
        /\ \A k \in 1..Len(saves) : saves'[k] = saves[k]
    BY <1>0, <2>2, AppendSet
  <2>4. \A k \in DOMAIN saves : saves[k].then # "pump"
    BY <2>1 DEF SavingInv
  <2>5. \A k \in DOMAIN saves' : saves'[k].then = "pump" => k = Len(saves) + 1
    <3>1. \A k \in DOMAIN saves' : k \in DOMAIN saves \/ k = Len(saves) + 1
      BY <2>3
    <3>2. QED
      BY <2>3, <2>4, <3>1
  <2>6. QED
    BY <2>1, <2>5 DEF SavingInv
<1>4. CASE RetryAsked \/ Watch
  <2>1. ASSUME Settle, pc' = pc PROVE SavingInv'
    <3>1. CASE queue # <<>> /\ Head(queue) = paused.item
      <4>1. Store(Tail(queue), "none", None) /\ Tail(queue) \in Seq(Items)
        BY <1>0, <2>1, <3>1, TailSet DEF Settle
      <4>2. QED
        BY <1>0, <2>1, <4>1, SavingKept
    <3>2. CASE ~(queue # <<>> /\ Head(queue) = paused.item)
      BY <1>1, <2>1, <3>2 DEF Settle, listVars
    <3>3. QED
      BY <3>1, <3>2
  <2>2. CASE Watch
    <3>1. pc' = pc /\ (Settle \/ saves' = saves)
      BY <2>2 DEF Watch, sendVars, listVars
    <3>2. QED
      BY <1>1, <2>1, <3>1
  <2>3. CASE RetryAsked /\ ~StartOver
    <3>1. pc' = pc /\ (Settle \/ saves' = saves)
      BY <2>3 DEF RetryAsked, sendVars, listVars
    <3>2. QED
      BY <1>1, <2>1, <3>1
  <2>4. CASE RetryAsked /\ StartOver
    <3>1. saves' = saves
      BY <2>4 DEF StartOver, Pump, listVars
    <3>2. pc' = pc \/ SamePause(retrying)
      BY <2>4 DEF RetryAsked, sendVars
    <3>3. SamePause(retrying) => pc = "none"
      BY DEF SamePause, DeliveryInv
    <3>4. pc = "saving" => pc' = "saving"
      BY <3>2, <3>3
    <3>5. QED
      BY <1>0, <3>1, <3>4, SavingKept
  <2>5. QED
    BY <1>4, <2>2, <2>3, <2>4
<1>5. ASSUME NEW ok \in BOOLEAN, SaveEnds(ok) PROVE SavingInv'
  <2>1. 1 \in NextSave /\ saves' = RemoveAt(saves, 1)
    BY <1>5, SaveCases
  <2>2. /\ 1 \in DOMAIN saves /\ Len(saves) \in Nat /\ DOMAIN saves = 1..Len(saves)
        /\ DOMAIN saves' = 1..(Len(saves) - 1)
        /\ \A l \in 1..(Len(saves) - 1) : saves'[l] = saves[l + 1]
    BY <1>0, <2>1, SaveAnswered
  <2>3. \A l \in DOMAIN saves' : l + 1 \in DOMAIN saves /\ l + 1 # 1 /\ saves'[l] = saves[l + 1]
    BY <2>2
  <2>4. CASE saves[1].then = "pump"
    <3>1. \A l \in DOMAIN saves' : saves'[l].then # "pump"
      BY <2>2, <2>3, <2>4 DEF SavingInv
    <3>2. QED
      BY <3>1 DEF SavingInv
  <2>5. CASE saves[1].then # "pump"
    <3>1. pc' = pc
      BY <1>5, <2>5, PumpAnswered
    <3>2. \A k, l \in DOMAIN saves' : k \in Nat /\ l \in Nat /\ (k + 1 = l + 1 => k = l)
      BY <2>2
    <3>3. QED
      BY <2>3, <3>1, <3>2 DEF SavingInv
  <2>6. QED
    BY <2>4, <2>5
<1>6. CASE (\E app \in BOOLEAN : Crash(app))
  <2>1. saves' = <<>>
    BY <1>6 DEF Crash
  <2>2. DOMAIN saves' = {}
    BY <2>1
  <2>3. QED
    BY <2>2 DEF SavingInv
<1>7. CASE Retry \/ (\E hook \in BOOLEAN : Start(hook)) \/ Landed \/ TimesOut
           \/ (\E done \in BOOLEAN : StatusRests(done))
  <2>1. saves' = saves
    BY <1>7 DEF Retry, StartOver, Pump, Start, Landed, TimesOut, StatusRests, listVars
  <2>2. pc # "saving" \/ pc' = pc
    <3>1. CASE Retry \/ (\E done \in BOOLEAN : StatusRests(done))
      <4>1. inflight = None \/ pc' = pc
        BY <3>1 DEF Retry, StatusRests, DonePumps, sendVars
      <4>2. QED
        BY <4>1 DEF DeliveryInv
    <3>2. CASE (\E hook \in BOOLEAN : Start(hook)) \/ Landed \/ TimesOut
      BY <3>2 DEF Start, Landed, TimesOut
    <3>3. QED
      BY <1>7, <3>1, <3>2
  <2>3. QED
    BY <1>0, <2>1, <2>2, SavingKept
<1>8. CASE (\E k \in {User, Enter} : UserKey(k)) \/ StatusRunning
           \/ ToolReads \/ HookRecords \/ ToolTurn
  <2>1. UNCHANGED <<pc, saves>>
    BY <1>8 DEF UserKey, StatusRunning, ToolReads, HookRecords, ToolTurn, listVars, sendVars
  <2>2. QED
    BY <1>1, <2>1
<1>9. CASE UNCHANGED vars
  BY <1>1, <1>9 DEF vars, listVars, sendVars
<1>10. QED
  BY <1>2, <1>3, <1>4, <1>5, <1>6, <1>7, <1>8, <1>9
     DEF Next, UserStep, RendererStep, WorldStep, Deliver

-----------------------------------------------------------------------------
(* What is pasted, delivered or paused was reserved *)

\* A step delivers the head of the list, pastes what is delivered, and pauses on it.
HeadOrNone == inflight' \in {inflight, None} \/ (queue # <<>> /\ inflight' = Head(queue))
PausesOnIt == paused' \in {paused, NotPaused} \/ paused'.item = inflight
FewSources ==
  /\ reserved' = reserved \/ (reserved' = reserved + 1 /\ inflight' = inflight)
  /\ pasted' \subseteq pasted \cup {inflight}
  /\ HeadOrNone /\ PausesOnIt

LEMMA PumpSource == ASSUME Pump PROVE HeadOrNone
  BY DEF Pump, HeadOrNone, sendVars

LEMMA PauseSource ==
  ASSUME NEW reason, NEW hook, Pause(reason, hook) PROVE HeadOrNone /\ PausesOnIt
  BY DEF Pause, HeadOrNone, PausesOnIt

LEMMA EndSource == ASSUME NEW w, NEW r, EndPause(w, r) PROVE PausesOnIt
  BY DEF EndPause, PausesOnIt

LEMMA StepSources == ASSUME Next PROVE FewSources
<1>1. ASSUME UNCHANGED <<inflight, paused>>, pasted' \subseteq pasted \cup {inflight},
             reserved' \in {reserved, reserved + 1}
      PROVE  FewSources
  BY <1>1 DEF FewSources, HeadOrNone, PausesOnIt
<1>2. CASE \/ Schedule \/ (\E i \in Items : RemoveItem(i))
           \/ (\E k \in {User, Enter} : UserKey(k))
           \/ Landed \/ Confirmed \/ StatusRunning \/ ToolReads \/ HookRecords \/ ToolTurn
  <2>1. UNCHANGED <<inflight, paused, pasted>> /\ reserved' \in {reserved, reserved + 1}
    BY <1>2 DEF Schedule, RemoveItem, UserKey, Landed, Confirmed, StatusRunning, ToolReads,
                HookRecords, ToolTurn, sendVars, pauseVars, histVars
  <2>2. QED
    BY <1>1, <2>1
<1>3. CASE Retry \/ CancelPaused
  <2>1. reserved' = reserved /\ pasted' \subseteq pasted
    BY <1>3 DEF Retry, CancelPaused, StartOver
  <2>2. \/ UNCHANGED <<sendVars, paused>>
        \/ EndPause(watching, retrying) /\ (Pump \/ UNCHANGED sendVars)
    BY <1>3 DEF Retry, CancelPaused, StartOver
  <2>3. QED
    BY <2>1, <2>2, PumpSource, EndSource DEF FewSources, HeadOrNone, PausesOnIt, sendVars
<1>4. CASE RetryAsked \/ Watch
  <2>1. reserved' = reserved /\ pasted' \subseteq pasted
    BY <1>4 DEF RetryAsked, Watch, StartOver, histVars
  <2>2. /\ Pump \/ UNCHANGED sendVars
        /\ (\E w, r : EndPause(w, r)) \/ UNCHANGED paused
    BY <1>4 DEF RetryAsked, Watch, StartOver
  <2>3. QED
    BY <2>1, <2>2, PumpSource, EndSource DEF FewSources, HeadOrNone, PausesOnIt, sendVars
<1>5. ASSUME NEW done \in BOOLEAN, StatusRests(done) PROVE FewSources
  <2>1. reserved' = reserved /\ pasted' = pasted
    BY <1>5 DEF StatusRests, histVars
  <2>2. \/ Pump /\ EndPause(watching, retrying)
        \/ UNCHANGED <<sendVars, pauseVars>>
    BY <1>5 DEF StatusRests
  <2>3. QED
    BY <1>1, <2>1, <2>2, PumpSource, EndSource DEF FewSources, sendVars, pauseVars
<1>6. ASSUME NEW hook \in BOOLEAN, Start(hook) PROVE FewSources
  <2>1. reserved' = reserved /\ pasted' \subseteq pasted \cup {inflight}
    BY <1>6 DEF Start
  <2>2. Pause("leftover", hook) \/ UNCHANGED <<inflight, pauseVars>>
    BY <1>6 DEF Start
  <2>3. QED
    BY <1>1, <2>1, <2>2, PauseSource DEF FewSources, pauseVars
<1>7. CASE TimesOut
  <2>1. reserved' = reserved /\ pasted' = pasted
    BY <1>7 DEF TimesOut, histVars
  <2>2. (\E r : Pause(r, byHook)) \/ UNCHANGED <<inflight, pauseVars>>
    BY <1>7 DEF TimesOut, EnterAgain, GiveUp
  <2>3. QED
    BY <1>1, <2>1, <2>2, PauseSource DEF FewSources, pauseVars
<1>8. ASSUME NEW ok \in BOOLEAN, SaveEnds(ok) PROVE FewSources
  <2>1. /\ inflight' \in {inflight, None}
        /\ UNCHANGED <<reserved, pasted, paused>>
    BY <1>8, SaveCases DEF pauseVars
  <2>2. QED
    BY <2>1 DEF FewSources, HeadOrNone, PausesOnIt
<1>9. ASSUME NEW app \in BOOLEAN, Crash(app) PROVE FewSources
  BY <1>9 DEF Crash, FewSources, HeadOrNone, PausesOnIt
<1>10. QED
  BY <1>2, <1>3, <1>4, <1>5, <1>6, <1>7, <1>8, <1>9
     DEF Next, UserStep, RendererStep, WorldStep, Deliver

LEMMA ReservedNext ==
  ASSUME TypeOK, TypeOK', OrderInv, ReservedInv, [Next]_vars
  PROVE  ReservedInv'
<1>0. /\ reserved \in Nat /\ queue \in Seq(Items) /\ InOrder(queue, reserved)
      /\ inflight \in Items \cup {None} /\ paused.item \in Items \cup {None}
      /\ pasted' \subseteq Items /\ Items \subseteq Nat \ {0} /\ None = 0
  <2>1. /\ queue \in Seq(Items) /\ pasted' \subseteq Items /\ reserved \in 0..MaxItems
        /\ inflight \in Items \cup {None} /\ paused.item \in Items \cup {None}
    BY Zenon DEF TypeOK
  <2>2. Items \subseteq Nat \ {0} /\ MaxItems \in Nat /\ None = 0
    BY ItemsAreNumbers DEF Items, None
  <2>3. reserved \in Nat
    BY <2>1, <2>2
  <2>4. QED
    BY <2>1, <2>2, <2>3 DEF OrderInv
<1>1. CASE UNCHANGED vars
  BY <1>1 DEF vars, sendVars, pauseVars, histVars, ReservedInv
<1>2. CASE Next
  <2>1. FewSources
    BY <1>2, StepSources
  <2>2. reserved' \in Nat /\ reserved <= reserved' /\ 1..reserved \subseteq 1..reserved'
    BY <1>0, <2>1 DEF FewSources
  <2>3. pasted' \subseteq 1..reserved'
    <3>1. ASSUME NEW i \in pasted', i \notin pasted PROVE i \in 1..reserved'
      <4>1. i = inflight /\ i \in Nat /\ i > 0 /\ i <= reserved
        BY <1>0, <2>1, <3>1 DEF FewSources, ReservedInv
      <4>2. QED
        BY <1>0, <2>2, <4>1
    <3>2. QED
      BY <2>2, <3>1 DEF ReservedInv
  <2>4. inflight' <= reserved'
    <3>1. CASE queue # <<>> /\ inflight' = Head(queue)
      <4>1. inflight' \in 1..reserved
        BY <1>0, <3>1, TailInOrder DEF InOrder
      <4>2. QED
        BY <1>0, <2>2, <4>1
    <3>2. CASE inflight' \in {inflight, None}
      BY <1>0, <2>2, <3>2 DEF ReservedInv
    <3>3. QED
      BY <2>1, <3>1, <3>2 DEF FewSources, HeadOrNone
  <2>5. paused'.item <= reserved'
    <3>1. paused'.item \in {paused.item, None, inflight}
      BY <2>1 DEF FewSources, PausesOnIt, NotPaused
    <3>2. paused.item <= reserved /\ inflight <= reserved
      BY DEF ReservedInv
    <3>3. \A x \in Nat : x <= reserved => x <= reserved'
      BY <1>0, <2>2
    <3>4. paused.item \in Nat /\ inflight \in Nat
      BY <1>0, NatItems
    <3>5. None \in Nat /\ None <= reserved
      <4>1. reserved \in Nat /\ None = 0
        BY <1>0
      <4>2. QED
        BY <4>1
    <3>6. QED
      BY <3>1, <3>2, <3>3, <3>4, <3>5
  <2>6. QED
    BY <2>3, <2>4, <2>5 DEF ReservedInv
<1>3. QED
  BY <1>1, <1>2

-----------------------------------------------------------------------------
(* What is in the list and in the terminal is under way, or paused *)

\* A step that takes items from the list at most.
LEMMA ShrinkOnce ==
  ASSUME OnceInv, ~undone, ToSet(queue') \subseteq ToSet(queue), taken \subseteq taken',
         UNCHANGED <<pc, inflight, paused, pasted>>
  PROVE  OnceInv'
<1>1. Frontmost /\ Unpasted /\ Known
  BY DEF OnceInv
<1>2. Frontmost'
  BY <1>1 DEF Frontmost
<1>3. Unpasted'
  BY <1>1 DEF Unpasted
<1>4. Known'
  BY <1>1 DEF Known
<1>5. QED
  BY <1>2, <1>3, <1>4 DEF OnceInv

\* Nothing is under way and nothing is paused.
LEMMA RestOnce ==
  ASSUME ReservedInv, OrderInv', TypeOK', pc' = "none", inflight' = None, paused' = NotPaused,
         \A i \in ToSet(queue') \cap pasted' : i \in taken'
  PROVE  OnceInv'
<1>1. \A i \in ToSet(queue') : i \in Nat /\ None <= i
  <2>1. ToSet(queue') \subseteq Items
    BY ToSetIn DEF TypeOK
  <2>2. QED
    BY <2>1, NatItems
<1>2. Frontmost' /\ Unpasted' /\ Known'
  BY <1>1 DEF Frontmost, Unpasted, Known, NotPaused
<1>3. QED
  BY <1>2 DEF OnceInv

\* The delivery of the first item starts, and nothing of the list is in the terminal.
LEMMA PumpOnce ==
  ASSUME TypeOK, TypeOK', DeliveryInv, OrderInv, Pump, pc = "none", paused' = NotPaused,
         \A i \in ToSet(queue) \cap pasted' : i \in taken'
  PROVE  OnceInv'
<1>1. queue' = queue /\ queue \in Seq(Items) /\ InOrder(queue, reserved) /\ reserved \in Nat
  BY ItemsAreNumbers DEF Pump, listVars, TypeOK, OrderInv
<1>2. \A i \in ToSet(queue) : i \in Nat /\ 0 <= i
  <2>1. ToSet(queue) \subseteq Items
    BY <1>1, ToSetIn
  <2>2. QED
    BY <2>1, NatItems
<1>3. CASE queue = <<>>
  <2>1. ToSet(queue') = {} /\ pc' = "none"
    BY <1>1, <1>3 DEF Pump, sendVars, ToSet
  <2>2. Frontmost' /\ Unpasted' /\ Known'
    BY <2>1 DEF Frontmost, Unpasted, Known
  <2>3. QED
    BY <2>2 DEF OnceInv
<1>4. CASE queue # <<>>
  <2>1. pc' = "settle" /\ inflight' = Head(queue)
    BY <1>4 DEF Pump
  <2>2. inflight' \in ToSet(queue) /\ \A i \in ToSet(queue) : inflight' <= i
    BY <1>1, <1>4, <2>1, TailInOrder
  <2>3. Frontmost'
    BY <1>1, <1>2, <2>2 DEF Frontmost, NotPaused, None
  <2>4. Unpasted'
    BY <2>2 DEF Unpasted
  <2>5. Known'
    BY <1>1 DEF Known
  <2>6. QED
    BY <2>3, <2>4, <2>5 DEF OnceInv
<1>5. QED
  BY <1>3, <1>4

\* The item of a pause leaves the list, if it is in it, when the first one does.
LEMMA PausedFirst ==
  ASSUME TypeOK, OrderInv, OnceInv, ~undone, paused.item \in ToSet(queue)
  PROVE  queue # <<>> /\ Head(queue) = paused.item /\ paused.item \notin ToSet(Tail(queue))
<1>1. queue \in Seq(Items) /\ InOrder(queue, reserved) /\ reserved \in Nat
  BY ItemsAreNumbers DEF TypeOK, OrderInv
<1>2. queue # <<>>
  BY DEF ToSet
<1>3. /\ Head(queue) \in ToSet(queue) /\ Head(queue) \notin ToSet(Tail(queue))
      /\ Head(queue) <= paused.item /\ ToSet(queue) \subseteq 1..reserved
  BY <1>1, <1>2, TailInOrder DEF InOrder
<1>4. paused.item <= Head(queue)
  BY <1>3 DEF OnceInv, Frontmost
<1>5. QED
  BY <1>1, <1>2, <1>3, <1>4

LEMMA EndedOnce ==
  ASSUME TypeOK, TypeOK', DeliveryInv, OrderInv, OrderInv', ReservedInv, OnceInv, ~undone,
         paused # NotPaused, paused' = NotPaused, UNCHANGED <<pc, inflight, pasted>>,
         taken \subseteq taken', ToSet(queue') \subseteq ToSet(queue),
         paused.item \in ToSet(queue') => paused.item \in taken'
  PROVE  OnceInv'
<1>1. pc = "none" /\ inflight = None
  BY DEF DeliveryInv
<1>2. \A i \in ToSet(queue') \cap pasted' : i \in taken'
  BY <1>1 DEF OnceInv, Known
<1>3. QED
  BY <1>1, <1>2, RestOnce

LEMMA UserOnce ==
  ASSUME TypeOK, TypeOK', DeliveryInv, OrderInv, OrderInv', ReservedInv, OnceInv,
         UserStep, ~undone'
  PROVE  OnceInv'
<1>0. /\ queue \in Seq(Items) /\ InOrder(queue, reserved) /\ reserved \in Nat
      /\ inflight \in Items \cup {None} /\ paused.item \in Items \cup {None}
  BY ItemsAreNumbers DEF TypeOK, OrderInv
<1>1. ~undone
  BY DEF UserStep, Schedule, Retry, CancelPaused, RemoveItem, UserKey, histVars
<1>2. CASE Schedule
  <2>1. /\ queue' = Append(queue, reserved + 1) /\ reserved + 1 \in Items
        /\ UNCHANGED <<pc, inflight, paused, pasted, taken>>
    BY <1>2 DEF Schedule, Store, sendVars, pauseVars
  <2>2. ToSet(queue') = ToSet(queue) \cup {reserved + 1}
    BY <1>0, <2>1, AppendSet
  <2>3. reserved + 1 \notin pasted /\ inflight <= reserved + 1 /\ paused.item <= reserved + 1
    <3>1. inflight \in Nat /\ paused.item \in Nat
      BY <1>0, NatItems
    <3>2. reserved + 1 \notin 1..reserved
      BY <1>0
    <3>3. QED
      BY <1>0, <3>1, <3>2 DEF ReservedInv
  <2>4. Frontmost'
    BY <1>1, <2>1, <2>2, <2>3 DEF OnceInv, Frontmost
  <2>5. Unpasted' /\ Known'
    BY <1>1, <2>1, <2>2, <2>3 DEF OnceInv, Unpasted, Known
  <2>6. QED
    BY <2>4, <2>5 DEF OnceInv
<1>3. ASSUME NEW i \in Items, RemoveItem(i) PROVE OnceInv'
  <2>1. /\ queue' = Without(i) /\ taken \subseteq taken'
        /\ UNCHANGED <<pc, inflight, paused, pasted>>
    BY <1>3 DEF RemoveItem, Store, sendVars, pauseVars
  <2>2. QED
    BY <1>0, <1>1, <2>1, WithoutSet, ShrinkOnce
<1>4. CASE Retry
  <2>1. pc = "none" /\ taken' = taken
    BY <1>4 DEF Retry, DeliveryInv
  <2>2. CASE byHook
    <3>1. UNCHANGED <<queue, pc, inflight, paused, pasted>>
      BY <1>4, <2>2 DEF Retry, listVars, sendVars
    <3>2. QED
      BY <1>1, <2>1, <3>1, ShrinkOnce
  <2>3. CASE ~byHook
    <3>1. Pump /\ EndPause(watching, retrying) /\ pasted' = pasted \ ToSet(queue)
      BY <1>4, <2>3 DEF Retry, StartOver
    <3>2. QED
      BY <2>1, <3>1, EndPauseAges, PumpOnce
  <2>4. QED
    BY <2>2, <2>3
<1>5. CASE CancelPaused
  <2>1. /\ paused # NotPaused /\ queue # <<>> /\ EndPause(watching, retrying)
        /\ queue' = Tail(queue) /\ taken' = taken \cup {Head(queue)}
        /\ UNCHANGED <<pc, inflight, pasted>>
    BY <1>5 DEF CancelPaused, Store, sendVars
  <2>2. ToSet(queue') \subseteq ToSet(queue)
    BY <1>0, <2>1, TailSet
  <2>3. paused.item \notin ToSet(queue')
    BY <1>1, <2>1, <2>2, PausedFirst
  <2>4. taken \subseteq taken' /\ paused' = NotPaused
    BY <2>1, EndPauseAges
  <2>5. QED
    BY <1>1, <2>1, <2>2, <2>3, <2>4, EndedOnce
<1>6. ASSUME NEW k, UserKey(k) PROVE OnceInv'
  <2>1. UNCHANGED <<queue, pc, inflight, paused, pasted, taken>>
    BY <1>6 DEF UserKey, listVars, sendVars, pauseVars, histVars
  <2>2. QED
    BY <1>1, <2>1, ShrinkOnce
<1>7. QED
  BY <1>2, <1>3, <1>4, <1>5, <1>6 DEF UserStep

\* The pause is over and its item, which was sent, leaves the list.
LEMMA SettledOnce ==
  ASSUME TypeOK, TypeOK', DeliveryInv, OrderInv, OrderInv', ReservedInv, OnceInv, ~undone,
         paused # NotPaused, Settle, paused' = NotPaused,
         UNCHANGED <<pc, inflight, pasted, taken>>
  PROVE  OnceInv'
<1>0. queue \in Seq(Items)
  BY DEF TypeOK
<1>1. CASE queue # <<>> /\ Head(queue) = paused.item
  <2>1. queue' = Tail(queue)
    BY <1>1 DEF Settle, Store
  <2>2. ToSet(queue') \subseteq ToSet(queue)
    BY <1>0, <1>1, <2>1, TailSet
  <2>3. paused.item \notin ToSet(queue')
    BY <2>1, <2>2, PausedFirst
  <2>4. QED
    BY <2>2, <2>3, EndedOnce
<1>2. CASE ~(queue # <<>> /\ Head(queue) = paused.item)
  <2>1. queue' = queue
    BY <1>2 DEF Settle, listVars
  <2>2. paused.item \notin ToSet(queue')
    BY <1>2, <2>1, PausedFirst
  <2>3. QED
    BY <2>1, <2>2, EndedOnce
<1>3. QED
  BY <1>1, <1>2

\* The delivery goes on while its item is in the terminal.
LEMMA GoesOnOnce ==
  ASSUME OnceInv, ~undone, UNCHANGED <<queue, inflight, paused, pasted, taken>>,
         pc \notin {"none", "settle", "saving"}, pc' \notin {"none", "settle", "saving"}
  PROVE  OnceInv'
<1>1. Frontmost' /\ Unpasted' /\ Known'
  BY DEF OnceInv, Frontmost, Unpasted, Known
<1>2. QED
  BY <1>1 DEF OnceInv

\* A delivery pauses: its item is in the terminal, but for a pause that something
\* else stood in its way.
LEMMA PausesOnce ==
  ASSUME TypeOK, DeliveryInv, OnceInv, ~undone, NEW reason \in Reasons \ {"none"}, NEW hook,
         Pause(reason, hook), pc # "none", UNCHANGED <<queue, pasted, taken>>,
         reason = "leftover" => pc = "settle"
  PROVE  OnceInv'
<1>1. /\ pc' = "none" /\ inflight' = None /\ paused'.item = inflight /\ paused'.reason = reason
      /\ paused = NotPaused
  BY DEF Pause, DeliveryInv
<1>2. \A i \in ToSet(queue) : i \in Nat /\ None <= i
  <2>1. ToSet(queue) \subseteq Items
    BY ToSetIn DEF TypeOK
  <2>2. QED
    BY <2>1, NatItems
<1>3. Frontmost'
  BY <1>1, <1>2 DEF OnceInv, Frontmost
<1>4. Unpasted'
  BY <1>1 DEF Unpasted
<1>5. \A i \in (ToSet(queue) \cap pasted) \ taken : pc # "settle" /\ i = inflight
  BY <1>1 DEF OnceInv, Known, NotPaused
<1>6. Known'
  BY <1>1, <1>5 DEF Known
<1>7. QED
  BY <1>3, <1>4, <1>6 DEF OnceInv

LEMMA DeliverOnce ==
  ASSUME TypeOK, TypeOK', DeliveryInv, OrderInv, OrderInv', ReservedInv, OnceInv,
         Deliver, ~undone'
  PROVE  OnceInv'
<1>0. /\ queue \in Seq(Items) /\ InOrder(queue, reserved) /\ reserved \in Nat
      /\ {"leftover", "paste", "submit", "mismatch", "unconfirmed"} \subseteq Reasons \ {"none"}
  BY ItemsAreNumbers DEF TypeOK, OrderInv, Reasons
<1>1. ~undone /\ taken' = taken
  BY DEF Deliver, Start, Landed, TimesOut, Confirmed, histVars
<1>2. ASSUME NEW hook \in BOOLEAN, Start(hook) PROVE OnceInv'
  <2>1. pc = "settle" /\ queue' = queue
    BY <1>2 DEF Start, listVars
  <2>2. CASE Pause("leftover", hook) /\ pasted' = pasted
    BY <1>0, <1>1, <2>1, <2>2, PausesOnce
  <2>3. CASE ~(Pause("leftover", hook) /\ pasted' = pasted)
    <3>1. /\ inflight' = inflight /\ paused' = paused /\ pasted' = pasted \cup {inflight}
          /\ pc' \in {"hookWait", "hookLand", "screenWait", "screenLand"}
      BY <1>2, <2>3 DEF Start, pauseVars
    <3>2. paused = NotPaused
      BY <2>1 DEF DeliveryInv
    <3>3. Frontmost'
      BY <1>1, <2>1, <3>1 DEF OnceInv, Frontmost
    <3>4. Unpasted'
      BY <3>1 DEF Unpasted
    <3>5. ToSet(queue) \cap pasted \subseteq taken
      BY <1>1, <2>1, <3>2 DEF OnceInv, Known, NotPaused
    <3>6. Known'
      BY <1>1, <2>1, <3>1, <3>5 DEF Known
    <3>7. QED
      BY <3>3, <3>4, <3>6 DEF OnceInv
  <2>4. QED
    BY <2>2, <2>3
<1>3. CASE Landed
  <2>1. /\ UNCHANGED <<queue, inflight, paused, pasted, taken>>
        /\ pc \notin {"none", "settle", "saving"} /\ pc' \notin {"none", "settle", "saving"}
    BY <1>3 DEF Landed, listVars, pauseVars, histVars
  <2>2. QED
    BY <1>1, <2>1, GoesOnOnce
<1>4. CASE TimesOut
  <2>1. UNCHANGED <<queue, pasted, taken>> /\ pc \notin {"none", "settle", "saving"}
    BY <1>4 DEF TimesOut, listVars, histVars
  <2>2. CASE EnterAgain
    BY <1>1, <2>1, <2>2, GoesOnOnce DEF EnterAgain, pauseVars
  <2>3. ASSUME NEW r \in {"paste", "submit", "mismatch", "unconfirmed"}, GiveUp(r)
        PROVE  OnceInv'
    <3>1. Pause(r, byHook) /\ r \in Reasons \ {"none"} /\ r # "leftover"
      BY <1>0, <2>3 DEF GiveUp
    <3>2. QED
      BY <1>1, <2>1, <3>1, PausesOnce
  <2>4. EnterAgain \/ \E r \in {"paste", "submit", "mismatch", "unconfirmed"} : GiveUp(r)
    BY <1>4 DEF TimesOut
  <2>5. QED
    BY <2>2, <2>3, <2>4
<1>5. CASE Confirmed
  <2>1. /\ pc \notin {"none", "settle"} /\ pc' = "saving" /\ queue' = Without(inflight)
        /\ UNCHANGED <<inflight, paused, pasted>>
    BY <1>5 DEF Confirmed, Store, pauseVars, histVars
  <2>2. ToSet(queue') \subseteq ToSet(queue) /\ inflight \notin ToSet(queue')
    BY <1>0, <2>1, WithoutSet, WithoutInOrder
  <2>3. paused = NotPaused
    BY <2>1 DEF DeliveryInv
  <2>4. Frontmost' /\ Unpasted'
    BY <1>1, <2>1, <2>2 DEF OnceInv, Frontmost, Unpasted
  <2>5. Known'
    BY <1>1, <2>1, <2>2, <2>3 DEF OnceInv, Known, NotPaused
  <2>6. QED
    BY <2>4, <2>5 DEF OnceInv
<1>6. QED
  BY <1>2, <1>3, <1>4, <1>5 DEF Deliver

LEMMA RendererOnce ==
  ASSUME TypeOK, TypeOK', DeliveryInv, OrderInv, OrderInv', ReservedInv, OnceInv, ~undone',
         RetryAsked \/ Watch \/ StatusRunning \/ (\E done \in BOOLEAN : StatusRests(done))
  PROVE  OnceInv'
<1>1. ~undone /\ taken' = taken
  BY DEF RetryAsked, Watch, StatusRunning, StatusRests, histVars
<1>2. CASE RetryAsked
  <2>1. CASE ~SamePause(retrying)
    <3>1. UNCHANGED <<queue, pc, inflight, paused, pasted>>
      BY <1>2, <2>1 DEF RetryAsked, listVars, sendVars
    <3>2. QED
      BY <1>1, <3>1, ShrinkOnce
  <2>2. CASE SamePause(retrying)
    <3>1. paused # NotPaused /\ pc = "none"
      BY <2>2 DEF SamePause, DeliveryInv
    <3>2. /\ EndPause(watching, "no")
          /\ (Settle /\ UNCHANGED <<pc, inflight, pasted>>) \/ StartOver
      BY <1>2, <2>2 DEF RetryAsked, sendVars
    <3>3. paused' = NotPaused
      BY <3>2, EndPauseAges
    <3>4. CASE Settle /\ UNCHANGED <<pc, inflight, pasted>>
      BY <1>1, <3>1, <3>3, <3>4, SettledOnce
    <3>5. CASE StartOver
      <4>1. Pump /\ pasted' = pasted \ ToSet(queue)
        BY <3>5 DEF StartOver
      <4>2. QED
        BY <3>1, <3>3, <4>1, PumpOnce
    <3>6. QED
      BY <3>2, <3>4, <3>5
  <2>3. QED
    BY <2>1, <2>2
<1>3. CASE Watch
  <2>1. UNCHANGED <<pc, inflight, pasted>>
    BY <1>3 DEF Watch, sendVars, histVars
  <2>2. CASE SamePause(watching) /\ Verdict(paused.item) = "match"
    <3>1. Settle /\ EndPause("no", retrying)
      BY <1>3, <2>2 DEF Watch
    <3>2. paused' = NotPaused
      BY <3>1, EndPauseAges
    <3>3. CASE paused = NotPaused
      <4>1. queue = <<>> \/ Head(queue) # paused.item
        <5>1. queue # <<>> => Head(queue) \in Items
          BY ToSetIn DEF TypeOK
        <5>2. QED
          BY <3>3, <5>1, ItemsAreNumbers DEF NotPaused
      <4>2. UNCHANGED <<queue, paused>>
        BY <3>1, <3>2, <3>3, <4>1 DEF Settle, listVars
      <4>3. QED
        BY <1>1, <2>1, <4>2, ShrinkOnce
    <3>4. CASE paused # NotPaused
      BY <1>1, <2>1, <3>1, <3>2, <3>4, SettledOnce
    <3>5. QED
      BY <3>3, <3>4
  <2>3. CASE ~(SamePause(watching) /\ Verdict(paused.item) = "match")
    <3>1. UNCHANGED <<queue, paused>>
      BY <1>3, <2>3 DEF Watch, listVars
    <3>2. QED
      BY <1>1, <2>1, <3>1, ShrinkOnce
  <2>4. QED
    BY <2>2, <2>3
<1>4. CASE StatusRunning
  <2>1. UNCHANGED <<queue, pc, inflight, paused, pasted>>
    BY <1>4 DEF StatusRunning, listVars, histVars
  <2>2. QED
    BY <1>1, <2>1, ShrinkOnce
<1>5. ASSUME NEW done \in BOOLEAN, StatusRests(done) PROVE OnceInv'
  <2>1. pasted' = pasted
    BY <1>5 DEF StatusRests, histVars
  <2>2. CASE done /\ DonePumps
    <3>1. Pump /\ EndPause(watching, retrying) /\ pc = "none"
      BY <1>5, <2>2 DEF StatusRests, DonePumps, DeliveryInv
    <3>2. paused.reason \in {"none", "leftover"}
      BY <2>2 DEF DonePumps, NotPaused
    <3>3. \A i \in ToSet(queue) \cap pasted' : i \in taken'
      BY <1>1, <2>1, <3>1, <3>2 DEF OnceInv, Known
    <3>4. QED
      BY <3>1, <3>3, EndPauseAges, PumpOnce
  <2>3. CASE ~(done /\ DonePumps)
    <3>1. UNCHANGED <<queue, pc, inflight, paused>>
      BY <1>5, <2>3 DEF StatusRests, listVars, sendVars, pauseVars
    <3>2. QED
      BY <1>1, <2>1, <3>1, ShrinkOnce
  <2>4. QED
    BY <2>2, <2>3
<1>6. QED
  BY <1>2, <1>3, <1>4, <1>5

\* The only save under way is of the list on the page.
LEMMA LastIsQueue ==
  ASSUME TypeOK, QueueInv, 1 \in DOMAIN saves, RollsBack(saves[1])
  PROVE  queue = saves[1].list
<1>1. saves # <<>> /\ Len(saves) = 1
  BY DEF RollsBack
<1>2. QED
  BY <1>1 DEF QueueInv, ChainInv

LEMMA WorldOnce ==
  ASSUME TypeOK, TypeOK', DeliveryInv, QueueInv, OrderInv, OrderInv', SavingInv, ReservedInv, OnceInv,
         WorldStep, ~undone'
  PROVE  OnceInv'
<1>1. CASE ToolReads \/ HookRecords \/ ToolTurn
  <2>1. UNCHANGED <<queue, pc, inflight, paused, pasted, taken, undone>>
    BY <1>1 DEF ToolReads, HookRecords, ToolTurn, listVars, sendVars, pauseVars, histVars
  <2>2. QED
    BY <2>1, ShrinkOnce
<1>2. ASSUME NEW ok \in BOOLEAN, SaveEnds(ok) PROVE OnceInv'
  <2>1. 1 \in NextSave /\ (SaveOk \/ SaveFails) /\ UNCHANGED <<paused, pasted>>
    BY <1>2, SaveCases DEF pauseVars
  <2>2. 1 \in DOMAIN saves
    BY <2>1, SaveAnswered DEF TypeOK
  <2>3. ~undone /\ taken \subseteq taken'
    <3>1. SaveOk => (undone <=> undone') /\ taken' = taken
      BY DEF SaveOk
    <3>2. SaveFails => (undone => undone')
      BY Zenon DEF SaveFails
    <3>3. SaveFails => taken \subseteq taken'
      BY DEF SaveFails
    <3>4. QED
      BY <2>1, <3>1, <3>2, <3>3
  <2>4. ToSet(queue') \subseteq ToSet(queue)
    <3>1. CASE SaveOk
      BY <3>1 DEF SaveOk
    <3>2. CASE SaveFails /\ ~RollsBack(saves[1])
      BY <3>2 DEF SaveFails
    <3>3. CASE SaveFails /\ RollsBack(saves[1])
      <4>1. queue' = saves[1].before /\ saves[1].then = "schedule"
        BY <3>3 DEF SaveFails, RollsBack
      <4>2. ToSet(saves[1].before) \subseteq ToSet(saves[1].list)
        BY <2>2, <4>1 DEF OrderInv, SaveInOrder
      <4>3. queue = saves[1].list
        BY <2>2, <3>3, LastIsQueue
      <4>4. QED
        BY <4>1, <4>2, <4>3
    <3>4. QED
      BY <2>1, <3>1, <3>2, <3>3
  <2>5. CASE saves[1].then # "pump"
    <3>1. UNCHANGED <<pc, inflight>>
      BY <1>2, <2>5, PumpAnswered
    <3>2. QED
      BY <2>1, <2>3, <2>4, <3>1, ShrinkOnce
  <2>6. CASE saves[1].then = "pump"
    <3>1. pc = "saving" /\ pc' = "none" /\ inflight' = None
      BY <1>2, <2>2, <2>6, PumpAnswered DEF SavingInv
    <3>2. paused = NotPaused
      BY <3>1 DEF DeliveryInv
    <3>3. \A i \in ToSet(queue') \cap pasted' : i \in taken'
      BY <2>1, <2>3, <2>4, <3>1, <3>2 DEF OnceInv, Known, NotPaused
    <3>4. QED
      BY <2>1, <3>1, <3>2, <3>3, RestOnce
  <2>7. QED
    BY <2>5, <2>6
<1>3. ASSUME NEW app \in BOOLEAN, Crash(app) PROVE OnceInv'
  <2>1. /\ pc' = "none" /\ inflight' = None /\ paused' = NotPaused
        /\ pasted' = pasted \ ToSet(queue')
    BY <1>3 DEF Crash
  <2>2. QED
    BY <2>1, RestOnce
<1>4. QED
  BY <1>1, <1>2, <1>3 DEF WorldStep

LEMMA PasteNext ==
  ASSUME PQInv, PasteInv, [Next]_vars
  PROVE  PasteInv'
<1>1. TypeOK /\ DeliveryInv /\ QueueInv /\ OrderInv /\ SavingInv /\ ReservedInv /\ OnceInv
  BY DEF PQInv, PasteInv
<1>2. TypeOK'
  BY <1>1, TypeNext
<1>3. OrderInv' /\ SavingInv' /\ ReservedInv'
  BY <1>1, <1>2, OrderNext, SavingNext, ReservedNext
<1>4. OnceInv'
  <2>1. CASE undone'
    BY <2>1 DEF OnceInv
  <2>2. CASE ~undone' /\ UNCHANGED vars
    BY <1>1, <2>2, ShrinkOnce DEF vars, listVars, sendVars, pauseVars, histVars
  <2>3. CASE ~undone' /\ Next
    BY <1>1, <1>2, <1>3, <2>3, UserOnce, DeliverOnce, RendererOnce, WorldOnce
       DEF Next, RendererStep
  <2>4. QED
    BY <2>1, <2>2, <2>3
<1>5. QED
  BY <1>3, <1>4 DEF PasteInv

LEMMA PasteInit == Init => PasteInv
<1> SUFFICES ASSUME Init PROVE PasteInv
  OBVIOUS
<1>1. /\ queue = <<>> /\ saves = <<>> /\ backend = <<>> /\ disk = <<>>
      /\ reserved = 0 /\ pasted = {} /\ inflight = 0 /\ paused.item = 0 /\ pc = "none"
  BY DEF Init, NotPaused, None
<1>2. ToSet(<<>>) = {} /\ DOMAIN <<>> = {}
  BY DEF ToSet
<1>3. OrderInv /\ SavingInv
  BY <1>1, <1>2 DEF OrderInv, SavingInv, InOrder, Ascending
<1>4. ReservedInv
  BY <1>1 DEF ReservedInv
<1>5. OnceInv
  BY <1>1, <1>2 DEF OnceInv, Frontmost, Unpasted, Known
<1>6. QED
  BY <1>3, <1>4, <1>5 DEF PasteInv

\* Every list holds its prompts in the order they were reserved, and what is in a list
\* and in the terminal is the prompt under way, or paused (queue, _inflight, _paused).
THEOREM ListsKeepTheirOrder == SafetySpec => []PasteInv
<1>1. PQInv /\ PasteInv /\ [Next]_vars => PasteInv'
  BY PasteNext
<1>2. QED
  BY <1>1, PasteInit, QueueIsSound, PTL DEF SafetySpec

LEMMA LongerIsNot == ASSUME NEW S, NEW q \in Seq(S), NEW e \in S PROVE q # Append(q, e)
<1>1. Len(Append(q, e)) = Len(q) + 1 /\ Len(q) \in Nat
  BY AppendProperties
<1>2. QED
  BY <1>1

LEMMA LastIsOther ==
  ASSUME NEW S, NEW q \in Seq(S), NEW d \in S, NEW e \in S, Append(q, d) = Append(q, e)
  PROVE  d = e
<1>1. Append(q, d)[Len(q) + 1] = d /\ Append(q, e)[Len(q) + 1] = e
  BY AppendProperties
<1>2. QED
  BY <1>1

LEMMA PasteStep ==
  ASSUME PQInv, PasteInv, Next, ~undone, NEW i \in pasted \ taken
  PROVE  wire' # Append(wire, i)
<1> DEFINE Input == Items \cup {User, Enter}
<1>0. /\ wire \in Seq(Input) /\ i \in Input /\ Enter \in Input /\ User \in Input
      /\ i # User /\ i # Enter /\ TypeOK
  BY ItemsAreNumbers DEF PQInv, TypeOK
<1> HIDE DEF Input
<1>1. ASSUME wire' = wire PROVE wire' # Append(wire, i)
  BY <1>0, <1>1, LongerIsNot
<1>2. ASSUME NEW k \in Input, k # i, wire' = Append(wire, k) PROVE wire' # Append(wire, i)
  BY <1>0, <1>2, LastIsOther
<1>3. ASSUME PressEnter PROVE wire' # Append(wire, i)
  BY <1>0, <1>2, <1>3 DEF PressEnter
<1>4. ASSUME NEW hook \in BOOLEAN, Start(hook) PROVE wire' # Append(wire, i)
  <2>1. PressEnter \/ wire' = wire \/ wire' = Append(wire, inflight)
    BY <1>4 DEF Start
  <2>2. inflight # i
    BY <1>4 DEF Start, PasteInv, OnceInv, Unpasted
  <2>3. inflight \in Input
    <3>1. pc = "settle"
      BY <1>4 DEF Start
    <3>2. inflight \in Items
      BY <3>1 DEF PQInv, DeliveryInv, TypeOK
    <3>3. QED
      BY <3>2 DEF Input
  <2>4. QED
    BY <1>1, <1>2, <1>3, <2>1, <2>2, <2>3
<1>5. CASE Landed \/ TimesOut
  <2>1. PressEnter \/ wire' = wire
    BY <1>5 DEF Landed, TimesOut, EnterAgain, GiveUp
  <2>2. QED
    BY <1>1, <1>3, <2>1
<1>6. ASSUME NEW k \in {User, Enter}, UserKey(k) PROVE wire' # Append(wire, i)
  <2>1. wire' = Append(wire, k) /\ k \in Input /\ k # i
    BY <1>0, <1>6 DEF UserKey
  <2>2. QED
    BY <1>2, <2>1
<1>7. CASE ToolReads
  <2>1. wire # <<>> /\ wire' = Tail(wire)
    BY <1>7 DEF ToolReads
  <2>2. /\ Len(Tail(wire)) = Len(wire) - 1 /\ Len(wire) \in Nat
    BY <1>0, <2>1, HeadTailProperties
  <2>3. Len(Append(wire, i)) = Len(wire) + 1
    BY <1>0, AppendProperties
  <2>4. Len(wire) - 1 # Len(wire) + 1
    BY <2>2
  <2>5. QED
    BY <2>1, <2>2, <2>3, <2>4
<1>8. ASSUME NEW app \in BOOLEAN, Crash(app) PROVE wire' # Append(wire, i)
  <2>1. wire' = wire \/ wire' = <<>>
    BY <1>8 DEF Crash, toolVars
  <2>2. Append(wire, i) # <<>>
    BY <1>0, AppendProperties
  <2>3. QED
    BY <1>1, <2>1, <2>2
<1>9. CASE Schedule \/ Retry \/ CancelPaused \/ (\E j \in Items : RemoveItem(j)) \/ Confirmed
           \/ RetryAsked \/ Watch \/ StatusRunning \/ (\E done \in BOOLEAN : StatusRests(done))
           \/ HookRecords \/ ToolTurn \/ (\E ok \in BOOLEAN : SaveEnds(ok))
  <2>1. wire' = wire
    BY <1>9 DEF Schedule, Retry, CancelPaused, RemoveItem, Confirmed, RetryAsked, Watch,
                StatusRunning, StatusRests, HookRecords, ToolTurn, SaveEnds, toolVars
  <2>2. QED
    BY <1>1, <2>1
<1>10. QED
  BY <1>4, <1>5, <1>6, <1>7, <1>8, <1>9
     DEF Next, UserStep, RendererStep, WorldStep, Deliver

\* A prompt the user did not take back is pasted once, and once more for each retry the
\* user asked for and each restart: no resumed delivery, late hook or list put back by a
\* failed save repeats it (_pump, _deliver, _deliverHooked).
THEOREM PromptsArePastedOnce == SafetySpec => PastedOnce
<1>1. PQInv /\ PasteInv /\ [Next]_vars
        => [undone \/ \A i \in pasted \ taken : wire' # Append(wire, i)]_vars
  BY PasteStep
<1>2. QED
  BY <1>1, QueueIsSound, ListsKeepTheirOrder, PTL DEF PastedOnce, SafetySpec
=============================================================================
