---------------------------- MODULE SplitPanes ----------------------------
(***************************************************************************)
(* The desktop page's screen: the sessions it lists, the panes that show   *)
(* them and the one that is active (split-view.js, and the session life    *)
(* cycle of app.js).  User actions are atomic; a call to the backend and   *)
(* its answer are two steps, and anything may happen in between.  A        *)
(* reload, or a restart that brings back some of the sessions, rebuilds    *)
(* the screen from localStorage.                                           *)
(***************************************************************************)
EXTENDS Integers, SequencesExt

CONSTANTS
    Sess,      \* session ids; every id is given out once
    None,      \* no session (null)
    Modes,     \* the split modes on offer (SPLIT_MODES)
    Single,    \* '1x1'
    Count,     \* panes of a mode: columns times rows
    MaxPanes,  \* SPLIT_MAX_PANES
    MaxCalls,  \* bound: calls of the page in flight; phones add one session at a time
    MenuPanes  \* bound: panes whose session menu is opened

ASSUME NoneAssumption == None \notin Sess
ASSUME ModesAssumption ==
    /\ MaxPanes \in Nat \ {0}
    /\ Single \in Modes
    /\ Count \in [Modes -> 1..MaxPanes]
    /\ MenuPanes \subseteq 0..(MaxPanes - 1)
    /\ \A m \in Modes : Count[m] = 1 <=> m = Single

VARIABLES
    alive,     \* sessions of the backend, oldest first
    sessions,  \* App.state.sessions
    split,     \* App.split: mode, panes, focused
    activeId,  \* App.state.activeId
    saved,     \* localStorage: ta-split-* and ta-active-session
    calls,     \* calls and events whose answer the page has not handled
    rest,      \* what closeAllSessions has still to close
    bars,      \* the session each pane's header bar was built for
    menu       \* the pane whose session menu is open

vars == <<alive, sessions, split, activeId, saved, calls, rest, bars, menu>>

PaneIdx == 0..(MaxPanes - 1)
Shown == Sess \cup {None}
\* s without id, which is in it once at most
Without(s, id) ==
    IF id \in ToSet(s) THEN RemoveAt(s, CHOOSE k \in DOMAIN s : s[k] = id) ELSE s
\* the members of s in kept, in the order of s
Kept(s, kept) ==
    {list \in [1..Cardinality(kept) -> kept] : \A i, j \in DOMAIN list : i < j =>
        \E k, l \in DOMAIN s : k < l /\ s[k] = list[i] /\ s[l] = list[j]}
EmptyPanes == [i \in PaneIdx |-> None]

Splits == [mode : Modes, panes : [PaneIdx -> Shown], focused : PaneIdx]
Calls == [op : {"create", "event", "adopt", "close"}, id : Sess, pane : PaneIdx \cup {-1}]

IsSplit(sp) == Count[sp.mode] > 1
Visible(sp) == 0..(Count[sp.mode] - 1)
OnScreen(sp) == {sp.panes[i] : i \in Visible(sp)} \ {None}
First(T) == CHOOSE i \in T : \A j \in T : i <= j

\* The session a pane stands for; a single screen has its active session in
\* pane 0, whatever the panes say.
PaneSession(sp, act, i) ==
    IF ~IsSplit(sp) THEN IF i = 0 THEN act ELSE None
    ELSE IF i \in Visible(sp) THEN sp.panes[i] ELSE None

\* Slots that take a new session: empty, or left by a session that is gone.
FreePanes(sp, listed) == {i \in Visible(sp) : sp.panes[i] \notin listed}

\* Mutant of ActivateIn: a full screen is left as it is.
ActivateInMutant(sp, id, listed) ==
    IF ~IsSplit(sp) THEN sp
    ELSE IF id \in OnScreen(sp)
      THEN [sp EXCEPT !.focused = First({i \in Visible(sp) : sp.panes[i] = id})]
    ELSE LET free == FreePanes(sp, listed)
         IN IF free = {} THEN sp
            ELSE [sp EXCEPT !.panes[First(free)] = id, !.focused = First(free)]

(***************************************************************************)
(* activateSession: a session that is on screen gets the focus; another    *)
(* goes to the first free pane, or replaces the focused one.               *)
(***************************************************************************)
ActivateIn(sp, id, listed) ==
    IF ~IsSplit(sp) THEN sp
    ELSE IF id \in OnScreen(sp)
      THEN [sp EXCEPT !.focused = First({i \in Visible(sp) : sp.panes[i] = id})]
    ELSE LET free == FreePanes(sp, listed)
             target == IF free # {} THEN First(free) ELSE sp.focused
         IN [sp EXCEPT !.panes[target] = id, !.focused = target]

\* renderPanePresets: the bar of a pane follows its session, but while the
\* session menu of the bar is open it is left as it is.
BarsFor(sp, act, listed, open) ==
    [i \in PaneIdx |->
        LET sid == PaneSession(sp, act, i)
        IN IF sid \notin listed THEN None
           ELSE IF open = i /\ bars[i] # None THEN bars[i] ELSE sid]

\* Mutant of Show: activateSession does not save the layout.
ShowMutant(sp, id, listed, open) ==
    LET now == ActivateIn(sp, id, listed)
    IN /\ split' = now
       /\ activeId' = id
       /\ saved' = [saved EXCEPT !.active = id]
       /\ bars' = BarsFor(now, id, listed, open)
       /\ menu' = IF open # None /\ bars'[open] = None THEN None ELSE open

\* The rest of a handler that ends by showing id, from the layout sp it has
\* made: activateSession, its saves and renderAll.
Show(sp, id, listed, open) ==
    LET now == ActivateIn(sp, id, listed)
    IN /\ split' = now
       /\ activeId' = id
       /\ saved' = [split |-> IF IsSplit(now) THEN now ELSE saved.split, active |-> id]
       /\ bars' = BarsFor(now, id, listed, open)
       /\ menu' = IF open # None /\ bars'[open] = None THEN None ELSE open

\* The rest of a handler that changes the layout and activates nothing.
Draw(sp, act, listed, open) ==
    /\ split' = sp
    /\ activeId' = act
    /\ bars' = BarsFor(sp, act, listed, open)
    /\ menu' = IF open # None /\ bars'[open] = None THEN None ELSE open

Listed == ToSet(sessions)
Backend == <<alive, sessions, calls, rest>>

Init ==
    /\ alive = <<>> /\ sessions = <<>>
    /\ split = [mode |-> Single, panes |-> EmptyPanes, focused |-> 0]
    /\ activeId = None
    /\ saved = [split |-> split, active |-> None]
    /\ calls = {} /\ rest = <<>>
    /\ bars = EmptyPanes /\ menu = None

-----------------------------------------------------------------------------
(***************************************************************************)
(* Choosing what is on screen                                              *)
(***************************************************************************)

\* A click on a row of the sidebar, a shortcut, the waiting badge.
Activate(id) ==
    /\ id \in Listed
    /\ Show(split, id, Listed, None)
    /\ UNCHANGED Backend

\* revealSession: a click on a notification, which leaves an open menu open.
RevealSession(id) ==
    /\ id \in Listed
    /\ Show(split, id, Listed, menu)
    /\ UNCHANGED Backend

\* Which pane takes the sessions on screen when the layout shrinks or grows:
\* they move up in order, and those beyond the new number of panes drop out.
Rank(sp, i) == Cardinality({j \in Visible(sp) : j < i /\ sp.panes[j] # None})
Packed(sp, n) ==
    [i \in PaneIdx |->
        IF i < n /\ \E j \in Visible(sp) : sp.panes[j] # None /\ Rank(sp, j) = i
        THEN sp.panes[CHOOSE j \in Visible(sp) : sp.panes[j] # None /\ Rank(sp, j) = i]
        ELSE None]

SetSplitMode(m) ==
    LET wasSplit == IsSplit(split)
        first == IF OnScreen(split) = {} THEN None
                 ELSE split.panes[First({i \in Visible(split) : split.panes[i] # None})]
        keep == IF split.panes[split.focused] # None THEN split.panes[split.focused]
                ELSE IF first # None THEN first ELSE activeId
        packed == IF wasSplit THEN Packed(split, Count[m])
                  ELSE [EmptyPanes EXCEPT ![0] = activeId]
        next == IF (\A i \in PaneIdx : packed[i] # activeId) /\ packed[0] = None
                THEN [packed EXCEPT ![0] = activeId] ELSE packed
        wanted == IF wasSplit THEN split.panes[split.focused] ELSE activeId
        home == IF wanted = None THEN {} ELSE {i \in PaneIdx : next[i] = wanted}
        filled == {i \in PaneIdx : next[i] # None}
        focus == IF home # {} THEN First(home) ELSE IF filled # {} THEN First(filled) ELSE 0
        sp == IF m = Single
              THEN [mode |-> m, panes |-> [EmptyPanes EXCEPT ![0] = keep], focused |-> 0]
              ELSE [mode |-> m, panes |-> next, focused |-> focus]
        shown == sp.panes[sp.focused]
    IN /\ m # split.mode
       /\ IF shown # None /\ (m = Single \/ shown # activeId)
          THEN LET now == ActivateIn(sp, shown, Listed)
               IN /\ split' = now /\ activeId' = shown
                  /\ saved' = [split |-> now, active |-> shown]
                  /\ bars' = BarsFor(now, shown, Listed, None)
          ELSE /\ split' = sp /\ UNCHANGED activeId
               /\ saved' = [saved EXCEPT !.split = sp]
               /\ bars' = BarsFor(sp, activeId, Listed, None)
       /\ menu' = None
       /\ UNCHANGED Backend

\* renderPanePickers: an empty pane offers the sessions no pane shows.
Pickable(i) ==
    IF IsSplit(split) /\ i \in Visible(split) /\ split.panes[i] = None
    THEN Listed \ OnScreen(split) ELSE {}

AssignPaneSession(i, id) ==
    /\ id \in Pickable(i)
    /\ Show([split EXCEPT !.panes[i] = id, !.focused = i], id, Listed, None)
    /\ UNCHANGED Backend

\* A click in a pane.  A pane that shows nothing gets the focus alone.
FocusPane(i) ==
    /\ IsSplit(split) /\ i \in Visible(split) /\ i # split.focused
    /\ LET sp == [split EXCEPT !.focused = i]
       IN IF sp.panes[i] # None THEN Show(sp, sp.panes[i], Listed, None)
          ELSE /\ Draw(sp, activeId, Listed, None)
               /\ saved' = [saved EXCEPT !.split = sp]
    /\ UNCHANGED Backend

\* Tab and Shift+Tab: the next pane, in that direction, whose session lives.
CyclePaneFocus(step) ==
    LET n == Count[split.mode]
        At(k) == (split.focused + step * k) % n
        usable == {k \in 1..n : split.panes[At(k)] \in Listed}
    IN /\ IsSplit(split) /\ menu = None /\ usable # {}
       /\ LET i == At(First(usable))
          IN /\ i # split.focused
             /\ Show([split EXCEPT !.focused = i], split.panes[i], Listed, None)
       /\ UNCHANGED Backend

\* Dragging a header bar: the pane's session is inserted before pane ins and
\* the sessions in between move by one.  A drop that changes nothing is none.
Moved(sp, from, at) ==
    [i \in PaneIdx |->
        IF i = at THEN sp.panes[from]
        ELSE IF from <= i /\ i < at THEN sp.panes[i + 1]
        ELSE IF at < i /\ i <= from THEN sp.panes[i - 1]
        ELSE sp.panes[i]]

DragPane(from, ins) ==
    LET at == IF from < ins THEN ins - 1 ELSE ins
        sp == [split EXCEPT !.panes = Moved(split, from, at), !.focused = at]
    IN /\ IsSplit(split) /\ from \in Visible(split) /\ bars[from] # None
       /\ ins \in 0..Count[split.mode] /\ ins \notin {from, from + 1}
       /\ IF split.panes[from] # None THEN Show(sp, split.panes[from], Listed, None)
          ELSE /\ Draw(sp, activeId, Listed, None)
               /\ saved' = [saved EXCEPT !.split = sp]
       /\ UNCHANGED Backend

-----------------------------------------------------------------------------
(***************************************************************************)
(* The header bar's menus, which may be older than the screen              *)
(***************************************************************************)
ToggleSessionSwitchMenu(i) ==
    /\ i \in MenuPanes /\ bars[i] # None
    /\ menu' = IF menu = i THEN None ELSE i
    /\ UNCHANGED <<alive, sessions, split, activeId, saved, calls, rest, bars>>

\* A click elsewhere, or Escape: the menu closes and nothing is drawn.
CloseSessionSwitchMenus ==
    /\ menu # None
    /\ menu' = None
    /\ UNCHANGED <<alive, sessions, split, activeId, saved, calls, rest, bars>>

\* Mutant of SwitchPaneSession: the session's former pane keeps it.
SwitchPaneSessionMutant(id) ==
    /\ menu # None /\ id \in Listed
    /\ Show(IF IsSplit(split) THEN [split EXCEPT !.panes[menu] = id, !.focused = menu]
            ELSE split, id, Listed, None)
    /\ UNCHANGED Backend

\* switchPaneSession(paneIdx, sid): the menu may offer a session that has been
\* closed since; the guard drops it.
SwitchPaneSession(id) ==
    LET i == menu
        sp == [split EXCEPT
                 !.panes = [j \in PaneIdx |-> IF j = i THEN id
                                              ELSE IF split.panes[j] = id THEN None
                                              ELSE split.panes[j]],
                 !.focused = i]
    IN /\ menu # None
       /\ IF id \in Listed
          THEN Show(IF IsSplit(split) THEN sp ELSE split, id, Listed, None)
          ELSE menu' = None /\ UNCHANGED <<split, activeId, saved, bars>>
       /\ UNCHANGED Backend

\* runPreset from the bar of pane i, for the session the bar was built for.
RunPreset(i) ==
    /\ bars[i] # None
    /\ IF bars[i] # activeId THEN Show(split, bars[i], Listed, None)
       ELSE menu' = None /\ UNCHANGED <<split, activeId, saved, bars>>
    /\ UNCHANGED Backend

-----------------------------------------------------------------------------
(***************************************************************************)
(* Sessions come and go                                                    *)
(***************************************************************************)
OwnCalls == {c \in calls : c.op \in {"create", "close"}}
CanCall == Cardinality(OwnCalls) < MaxCalls

Fresh(id) ==
    /\ id \notin ToSet(alive) \cup Listed \cup ToSet(rest) \cup {c.id : c \in calls}
    /\ id \notin OnScreen(split) \cup OnScreen(saved.split) \cup {activeId, saved.active}
    /\ \A i \in PaneIdx : bars[i] # id

\* createSession and createPaneSession: the call, which the backend has done
\* by the time it answers.  pane = -1 when no pane asked.
CallCreate(id, pane) ==
    /\ Fresh(id) /\ CanCall
    /\ pane = -1 \/ (IsSplit(split) /\ pane \in Visible(split))
    /\ alive' = Append(alive, id)
    /\ calls' = calls \cup {[op |-> "create", id |-> id, pane |-> pane]}
    /\ menu' = None
    /\ UNCHANGED <<sessions, split, activeId, saved, rest, bars>>

CreateSession(c) ==
    LET listed == Listed \cup {c.id}
        empty == {i \in Visible(split) : split.panes[i] = None}
        sp == IF ~IsSplit(split) THEN split
              ELSE IF c.pane \in Visible(split)
                THEN [split EXCEPT !.panes[c.pane] = c.id, !.focused = c.pane]
              ELSE IF split.panes[split.focused] # None /\ empty # {}
                THEN [split EXCEPT !.focused = First(empty)]
              ELSE split
    IN /\ c.op = "create"
       /\ sessions' = Append(sessions, c.id)
       /\ Show(sp, c.id, listed, menu)
       /\ calls' = calls \ {c}
       /\ UNCHANGED <<alive, rest>>

\* A phone creates a session; the page learns of it by an event.
CreateOnPhone(id) ==
    /\ Fresh(id) /\ calls \subseteq OwnCalls
    /\ alive' = Append(alive, id)
    /\ calls' = calls \cup {[op |-> "event", id |-> id, pane |-> -1]}
    /\ UNCHANGED <<sessions, split, activeId, saved, rest, bars, menu>>

\* adoptRemoteSession: listed at once; shown, if nothing is, when its
\* scrollback has come.
AdoptRemoteSession(c) ==
    /\ c.op = "event"
    /\ calls' = (calls \ {c}) \cup
                   (IF c.id \in Listed THEN {} ELSE {[c EXCEPT !.op = "adopt"]})
    /\ sessions' = IF c.id \in Listed THEN sessions ELSE Append(sessions, c.id)
    /\ UNCHANGED <<alive, split, activeId, saved, rest, bars, menu>>

AdoptedScrollback(c) ==
    /\ c.op = "adopt"
    /\ IF activeId = None THEN Show(split, c.id, Listed, menu)
       ELSE Draw(split, activeId, Listed, menu) /\ UNCHANGED saved
    /\ calls' = calls \ {c}
    /\ UNCHANGED <<alive, sessions, rest>>

Closing(id) == [op |-> "close", id |-> id, pane |-> -1]

\* closeSession: the second click on a session's close button.
CallClose(id) ==
    /\ id \in Listed /\ Closing(id) \notin calls /\ CanCall
    /\ alive' = Without(alive, id)
    /\ calls' = calls \cup {Closing(id)}
    /\ menu' = None
    /\ UNCHANGED <<sessions, split, activeId, saved, rest, bars>>

CallCloseAll ==
    /\ sessions # <<>> /\ rest = <<>> /\ CanCall
    /\ activeId' = None
    /\ saved' = [saved EXCEPT !.active = None]
    /\ rest' = sessions
    /\ alive' = Without(alive, Head(sessions))
    /\ calls' = calls \cup {Closing(Head(sessions))}
    /\ menu' = None
    /\ UNCHANGED <<sessions, split, bars>>

\* The backend has closed the session: the page forgets it, empties its pane,
\* and shows the newest of the others when it was the active one.  Closing all
\* goes on with the next.
CloseSession(c) ==
    LET left == Without(sessions, c.id)
        freed == [split EXCEPT !.panes =
                    [i \in PaneIdx |-> IF split.panes[i] = c.id THEN None ELSE split.panes[i]]]
        todo == IF rest # <<>> /\ Head(rest) = c.id THEN Tail(rest) ELSE rest
        more == IF todo # rest /\ todo # <<>> THEN {Head(todo)} ELSE {}
    IN /\ c.op = "close"
       /\ sessions' = left
       /\ IF activeId = c.id /\ left # <<>>
          THEN LET now == ActivateIn(freed, left[Len(left)], ToSet(left))
               IN /\ split' = now /\ activeId' = left[Len(left)]
                  /\ saved' = [split |-> IF IsSplit(now) \/ freed # split THEN now
                                         ELSE saved.split,
                               active |-> left[Len(left)]]
          ELSE /\ split' = freed
               /\ activeId' = IF activeId = c.id THEN None ELSE activeId
               /\ saved' = IF freed # split THEN [saved EXCEPT !.split = freed] ELSE saved
       /\ bars' = BarsFor(split', activeId', ToSet(left), menu)
       /\ menu' = IF menu # None /\ bars'[menu] = None THEN None ELSE menu
       /\ rest' = todo
       /\ alive' = IF more = {} THEN alive ELSE Without(alive, Head(todo))
       /\ calls' = (calls \ {c}) \cup {Closing(id) : id \in more}

-----------------------------------------------------------------------------
(***************************************************************************)
(* boot: what a page that starts makes of localStorage                     *)
(***************************************************************************)
RestoreSplitState(store, listed) ==
    [mode |-> store.mode,
     panes |-> [i \in PaneIdx |->
                  IF /\ store.panes[i] \in listed
                     /\ \A j \in PaneIdx : j < i => store.panes[j] # store.panes[i]
                  THEN store.panes[i] ELSE None],
     focused |-> IF store.focused < Count[store.mode] THEN store.focused ELSE 0]

BootTarget(sp, list) ==
    LET wanted == IF saved.active \in ToSet(list) THEN saved.active ELSE list[Len(list)]
        inFocus == sp.panes[sp.focused]
        shown == {i \in Visible(sp) : sp.panes[i] # None}
    IN IF ~IsSplit(sp) \/ wanted \in OnScreen(sp) \/ shown = {} THEN wanted
       ELSE IF inFocus # None THEN inFocus ELSE sp.panes[First(shown)]

\* A reload (kept = every session) or a restart, which brings back those the
\* backend could start again.  Calls of the old page are never answered.
Boot(kept) == \E list \in Kept(alive, kept) :
    LET sp == RestoreSplitState(saved.split, kept)
        act == IF kept = {} THEN None ELSE BootTarget(sp, list)
        now == IF act = None THEN sp ELSE ActivateIn(sp, act, kept)
    IN /\ alive' = list /\ sessions' = list
       /\ split' = now /\ activeId' = act
       /\ saved' = IF act = None THEN saved
                   ELSE [split |-> IF IsSplit(now) THEN now ELSE saved.split, active |-> act]
       /\ calls' = {} /\ rest' = <<>>
       /\ bars' = [i \in PaneIdx |-> PaneSession(now, act, i)]
       /\ menu' = None

-----------------------------------------------------------------------------
ScreenStep ==
    \/ \E id \in Sess : Activate(id) \/ RevealSession(id) \/ SwitchPaneSession(id)
    \/ \E m \in Modes : SetSplitMode(m)
    \/ \E i \in PaneIdx :
         \/ FocusPane(i) \/ ToggleSessionSwitchMenu(i) \/ RunPreset(i)
         \/ \E id \in Sess : AssignPaneSession(i, id)
         \/ \E j \in 0..MaxPanes : DragPane(i, j)
    \/ \E step \in {1, -1} : CyclePaneFocus(step)
    \/ CloseSessionSwitchMenus

SessionStep ==
    \/ \E id \in Sess :
         \/ \E pane \in PaneIdx \cup {-1} : CallCreate(id, pane)
         \/ CreateOnPhone(id) \/ CallClose(id)
    \/ CallCloseAll
    \/ \E c \in calls :
         \/ CreateSession(c) \/ AdoptRemoteSession(c)
         \/ AdoptedScrollback(c) \/ CloseSession(c)

Next == ScreenStep \/ SessionStep \/ \E kept \in SUBSET ToSet(alive) : Boot(kept)

Spec == Init /\ [][Next]_vars
-----------------------------------------------------------------------------
\* Types of the page's screen state: every index names a pane, every pane shows
\* a session or nothing.  renderSplit and the drop handlers index by them.
TypeOK ==
    /\ alive \in Seq(Sess) /\ sessions \in Seq(Sess) /\ rest \in Seq(Sess)
    /\ split \in Splits /\ saved \in [split : Splits, active : Shown]
    /\ activeId \in Shown
    /\ calls \subseteq Calls
    /\ bars \in [PaneIdx -> Shown] /\ menu \in PaneIdx \cup {None}

\* A session has one terminal element, so it is in one pane at most; the
\* focused pane is on screen; panes off the screen hold nothing.  No order of
\* mode changes, drags, picks, restores and late answers breaks this.
LayoutOK ==
    /\ \A i, j \in PaneIdx : split.panes[i] = split.panes[j] /\ i # j => split.panes[i] = None
    /\ split.focused \in Visible(split)
    /\ IsSplit(split) => \A i \in PaneIdx \ Visible(split) : split.panes[i] = None

\* Typing, presets and the top bar go to the active session: in a split screen
\* it is in a pane, and the focused pane shows it or nothing.
ActiveShown ==
    IsSplit(split) /\ activeId # None =>
        /\ activeId \in OnScreen(split)
        /\ split.panes[split.focused] \in {None, activeId}

\* What boot would make of localStorage now is the screen the user sees, with
\* the panes of sessions that are gone left empty: a reload loses no part of
\* the layout, whenever it comes.
ReloadKeepsScreen ==
    LET sp == RestoreSplitState(saved.split, ToSet(alive))
        act == BootTarget(sp, alive)
        now == ActivateIn(sp, act, ToSet(alive))
    IN activeId \in ToSet(alive) /\ (\A c \in calls : c.op # "close") =>
        \A i \in PaneIdx :
            LET sid == PaneSession(split, activeId, i)
            IN PaneSession(now, act, i) = IF sid \in ToSet(alive) THEN sid ELSE None
=============================================================================
