----------------------------- MODULE PromptQueue -----------------------------
(***************************************************************************)
(* The queue of reserved prompts of one session (prompt-queue.js and the   *)
(* queue half of drafts.js), with the chain of its saves into the config   *)
(* file (set_drafts in main.rs), crashes of the page and of the app, the   *)
(* input box of the tool in the terminal, and the tool's prompt hook.      *)
(*                                                                         *)
(* The renderer is one thread: an action runs from one `await` to the      *)
(* next.  A poll that may end either way is two actions: what it waits for *)
(* is seen, or its tries run out; the tool may always be slower than them. *)
(* Texts are distinct, so an item stands for its text.                     *)
(***************************************************************************)
EXTENDS Integers, SequencesExt

CONSTANTS
  MaxItems,      \* bound: prompts reserved
  Folded,        \* items the tool shows as [Pasted text #n]
  Hooked,        \* the session's tool calls the hooks
  ScreenEnters,  \* Enters of a delivery judged by the screen (2 in _deliver)
  HookEnters,    \* HOOK_ENTER_ATTEMPTS
  MaxActs,       \* bound: acts of the user, failed saves and crashes, by prompts reserved
  MaxSaves       \* bound: saves under way when the user changes the list

ASSUME QueueAssumption ==
  /\ {MaxItems, MaxSaves} \subseteq Nat /\ MaxActs \in [0..MaxItems -> Nat]
  /\ {ScreenEnters, HookEnters} \subseteq Nat \ {0}
  /\ Folded \subseteq 1..MaxItems /\ Hooked \in BOOLEAN

Items == 1..MaxItems
None == 0        \* no item
User == -1       \* what the user typed into the terminal
Enter == -2      \* the key

VARIABLES
  queue,            \* drafts[queued:id]
  saves,            \* _draftSaveChains: the saves that have not been answered
  backend, disk,    \* the queue in the store, and in ta-config.json
  pc, inflight, tries, sawRunning,  \* the delivery under way
  byHook, heard,    \* the delivery, or the pause, has a hookBase; prompts recorded since
  paused,           \* _paused
  watching,         \* _resolving: watches no pause, this one, or an earlier one
  retrying,         \* the same of a retry() that asked the hook
  \* the tool: input on its way to it, its input box, what was sent and still looks
  \* like input, a turn, hooks under way
  wire, box, shown, turn, hooking,
  typed,            \* typedText: the view tracks something typed
  output, status,   \* output the status thread has not seen; status in the renderer
  \* history: items reserved, saved, in the terminal (an item that starts over after a retry or
  \* a restart was not), sent as a prompt that is the item and nothing else, taken back by the
  \* user; a failed save put such an item back; acts
  reserved, durable, pasted, sent, taken, undone, acts

listVars == <<queue, saves>>
storeVars == <<backend, disk>>
sendVars == <<pc, inflight, tries, sawRunning>>
hookVars == <<byHook, heard>>
pauseVars == <<paused, watching, retrying>>
toolVars == <<wire, box, shown, turn, hooking, output>>
histVars == <<reserved, durable, pasted, sent, taken, undone>>
vars == <<listVars, storeVars, sendVars, hookVars, pauseVars, toolVars, typed, status, histVars, acts>>

NotPaused == [reason |-> "none", item |-> None]

Init ==
  /\ queue = <<>> /\ saves = <<>> /\ backend = <<>> /\ disk = <<>>
  /\ pc = "none" /\ inflight = None /\ tries = 0 /\ sawRunning = FALSE
  /\ byHook = FALSE /\ heard = {}
  /\ paused = NotPaused /\ watching = "no" /\ retrying = "no"
  /\ wire = <<>> /\ box = <<>> /\ shown = {} /\ turn = TRUE /\ hooking = <<>>
  /\ typed = FALSE /\ output = FALSE /\ status = "running"
  /\ reserved = 0 /\ durable = {} /\ pasted = {} /\ sent = {} /\ taken = {}
  /\ undone = FALSE /\ acts = 0

Act == acts < MaxActs[reserved] /\ acts' = acts + 1

-----------------------------------------------------------------------------
(* What the renderer sees of the tool *)

\* textOnInputLine, pastePlaceholderOnScreen, pendingTypedLine
OnLine(i) == i \in shown \/ (box # <<>> /\ Last(box) = i /\ i \notin Folded)
Placeholder == ToSet(box) \cap Folded # {}
TypedLine == typed /\ box # <<>>
\* _leftoverText, where `stuck` is the item of the pause
Leftover(stuck) == OnLine(stuck) \/ Placeholder \/ TypedLine

\* mutant: any new prompt counts
VerdictMutant(i) == IF heard = {} THEN "" ELSE "match"
\* _hookVerdict: a prompt matches when it is the item's text but for white space and
\* the tags around a paste; one that merely contains the text does not
Verdict(i) == IF heard = {} THEN "" ELSE IF i \in heard THEN "match" ELSE "other"

-----------------------------------------------------------------------------
(* The list and its saves *)

\* the list without item i, which is in it once at most
Without(i) ==
  IF i \in ToSet(queue) THEN RemoveAt(queue, CHOOSE k \in DOMAIN queue : queue[k] = i)
  ELSE queue

\* App.state.drafts[key] = list, and persistDraftList; `then` says who waits for it
Store(list, then, i) ==
  /\ queue' = list
  /\ saves' = Append(saves, [list |-> list, before |-> queue, then |-> then, item |-> i])

\* scheduleComposerPrompt
Schedule ==
  LET i == reserved + 1 IN
  /\ i \in Items /\ acts <= MaxActs[i]
  /\ status = "running" /\ Len(saves) < MaxSaves
  /\ Store(Append(queue, i), "schedule", i)
  /\ reserved' = i
  /\ UNCHANGED <<storeVars, sendVars, hookVars, pauseVars, toolVars, typed, status, durable,
                 pasted, sent, taken, undone, acts>>

\* removeStoredDraft, from the cancel button of an item
RemoveItem(i) ==
  /\ i \in ToSet(queue) /\ Len(saves) < MaxSaves /\ Act
  /\ Store(Without(i), "remove", i)
  /\ taken' = taken \cup {i}
  /\ UNCHANGED <<storeVars, sendVars, hookVars, pauseVars, toolVars, typed, status, reserved,
                 durable, pasted, sent, undone>>

\* persistDraftList: a save starts when the one before it was answered
NextSave == IF saves = <<>> THEN {} ELSE {1}

\* mutant: a failed save puts the old list back whatever happened since
RollsBackMutant(s) == s.then \in {"schedule", "remove"}
\* the list is still the one this save was of: every later list is saved as well
RollsBack(s) == s.then \in {"schedule", "remove"} /\ Len(saves) = 1

\* set_drafts, and what waits for its answer; a failed save leaves the new list in
\* the store, and the old one in the file
SaveEnds(ok) == \E k \in NextSave : LET s == saves[k] IN
  /\ saves' = RemoveAt(saves, k) /\ backend' = s.list
  /\ IF ok
       THEN /\ disk' = s.list /\ UNCHANGED <<queue, taken, undone, acts>>
            /\ durable' = IF s.then = "schedule" THEN durable \cup {s.item} ELSE durable
       ELSE /\ Act /\ UNCHANGED <<disk, durable>>
            /\ queue' = IF RollsBack(s) THEN s.before ELSE queue
            /\ \E emptyComposer \in BOOLEAN :  \* then the text goes back there
                 taken' = IF RollsBack(s) /\ s.then = "schedule" /\ emptyComposer
                            THEN taken \cup {s.item} ELSE taken
            /\ undone' = (undone \/ (RollsBack(s) /\ s.then = "remove"))
  /\ IF s.then = "pump" THEN pc' = "none" /\ inflight' = None ELSE UNCHANGED <<pc, inflight>>
  /\ UNCHANGED <<tries, sawRunning, hookVars, pauseVars, toolVars, typed, status, reserved,
                 pasted, sent>>

-----------------------------------------------------------------------------
(* Delivery *)

\* the pause is over; who waits for it, will find another one or none
Aged(w) == IF w = "this" THEN "other" ELSE w
EndPause(w, r) ==
  /\ paused' = NotPaused /\ byHook' = FALSE /\ heard' = {}
  /\ watching' = Aged(w) /\ retrying' = Aged(r)

\* mutant: the item leaves the queue before it is sent
PumpMutant ==
  IF queue = <<>> THEN UNCHANGED <<listVars, sendVars>>
  ELSE /\ pc' = "settle" /\ inflight' = Head(queue) /\ sawRunning' = FALSE
       /\ UNCHANGED tries /\ Store(Tail(queue), "none", None)
\* _pump up to its first await
Pump ==
  /\ UNCHANGED listVars
  /\ IF queue = <<>> THEN UNCHANGED sendVars
     ELSE pc' = "settle" /\ inflight' = Head(queue) /\ sawRunning' = FALSE /\ UNCHANGED tries

\* mutant: the session stays in _inflight
PauseMutant(reason, hook) ==
  paused' = [reason |-> reason, item |-> inflight] /\ UNCHANGED <<pc, inflight, tries, watching, retrying>>
\* _pause, and the watch _pump starts then
Pause(reason, hook) ==
  /\ paused' = [reason |-> reason, item |-> inflight]
  /\ watching' = IF hook /\ watching = "no" THEN "this" ELSE watching
  /\ pc' = "none" /\ inflight' = None /\ tries' = 0 /\ UNCHANGED retrying

\* ta.write(id, "\r") and resetTypedLine
PressEnter == wire' = Append(wire, Enter) /\ typed' = FALSE

\* _deliver and _deliverHooked up to the paste: the hook's prompts so far are noted
\* before it
Start(hook) ==
  /\ pc = "settle" /\ (hook => Hooked)
  /\ byHook' = hook /\ heard' = {}
  /\ IF OnLine(inflight)
       THEN /\ PressEnter /\ pc' = (IF hook THEN "hookWait" ELSE "screenWait") /\ tries' = 1
            /\ pasted' = pasted \cup {inflight} /\ UNCHANGED <<inflight, pauseVars>>
     ELSE IF Leftover(None)
       THEN Pause("leftover", hook) /\ UNCHANGED <<wire, typed, pasted>>
     ELSE /\ wire' = Append(wire, inflight) /\ typed' = TRUE
          /\ pasted' = pasted \cup {inflight}
          /\ pc' = (IF hook THEN "hookLand" ELSE "screenLand")
          /\ UNCHANGED <<inflight, tries, pauseVars>>
  /\ UNCHANGED <<listVars, storeVars, sawRunning, box, shown, turn, hooking, output, status,
                 reserved, durable, sent, taken, undone, acts>>

\* the poll for the paste ends: it is there, or (with hooks) its tries ran out
Landed ==
  /\ pc = "hookLand" \/ (pc = "screenLand" /\ OnLine(inflight))
  /\ PressEnter /\ tries' = 1
  /\ pc' = (IF pc = "hookLand" THEN "hookWait" ELSE "screenWait")
  /\ UNCHANGED <<listVars, storeVars, inflight, sawRunning, hookVars, pauseVars, box, shown, turn,
                 hooking, output, status, histVars, acts>>

\* _looksSubmitted
LooksSubmitted == sawRunning \/ ~OnLine(inflight)

EnterAgain == tries' = tries + 1 /\ PressEnter /\ UNCHANGED <<pc, inflight, pauseVars>>
GiveUp(reason) == Pause(reason, byHook) /\ UNCHANGED <<wire, typed>>

\* the tries of a poll run out
TimesOut ==
  /\ \/ pc = "screenLand" /\ ~OnLine(inflight) /\ GiveUp("paste")
     \/ /\ pc = "screenWait" /\ ~LooksSubmitted
        /\ IF tries < ScreenEnters THEN EnterAgain ELSE GiveUp("submit")
     \/ /\ pc = "hookWait" /\ Verdict(inflight) # "match"
        /\ IF /\ tries < HookEnters /\ ~sawRunning /\ ~TypedLine
              /\ OnLine(inflight) \/ Placeholder
             THEN EnterAgain
             ELSE GiveUp(IF Verdict(inflight) = "other" THEN "mismatch"
                         ELSE IF sawRunning THEN "unconfirmed" ELSE "submit")
  /\ UNCHANGED <<listVars, storeVars, sawRunning, hookVars, box, shown, turn, hooking, output,
                 status, histVars, acts>>

\* _drop of a confirmed item; the delivery ends when the save is answered
Confirmed ==
  /\ \/ pc = "screenWait" /\ LooksSubmitted
     \/ pc = "hookWait" /\ Verdict(inflight) = "match"
  /\ Store(Without(inflight), "pump", None) /\ pc' = "saving" /\ tries' = 0
  /\ byHook' = FALSE /\ heard' = {}
  /\ UNCHANGED <<storeVars, inflight, sawRunning, pauseVars, toolVars, typed, status, histVars, acts>>

-----------------------------------------------------------------------------
(* A paused delivery *)

\* the item was sent after all: it goes, if it is still the first
Settle ==
  IF queue # <<>> /\ Head(queue) = paused.item
    THEN Store(Tail(queue), "none", None)
    ELSE UNCHANGED listVars

\* the first item starts over
StartOver == Pump /\ pasted' = pasted \ ToSet(queue)

\* retry(), from a button that is shown for these reasons only
Retry ==
  /\ paused.reason \in {"leftover", "paste", "submit"} /\ queue # <<>> /\ inflight = None /\ Act
  /\ IF byHook
       THEN retrying' = "this" /\ UNCHANGED <<listVars, sendVars, hookVars, paused, watching, pasted>>
       ELSE StartOver /\ EndPause(watching, retrying)
  /\ UNCHANGED <<storeVars, toolVars, typed, status, reserved, durable, sent, taken, undone>>

SamePause(w) == w = "this"

\* retry() after it asked for the hook's prompts
RetryAsked ==
  /\ retrying # "no"
  /\ IF ~SamePause(retrying)
       THEN retrying' = "no" /\ UNCHANGED <<listVars, sendVars, hookVars, paused, watching, pasted>>
     ELSE IF Verdict(paused.item) = "match"
       THEN Settle /\ EndPause(watching, "no") /\ UNCHANGED <<sendVars, pasted>>
     ELSE StartOver /\ EndPause(watching, "no")
  /\ UNCHANGED <<storeVars, toolVars, typed, status, reserved, durable, sent, taken, undone, acts>>

\* _watchPausedHook ends
Watch ==
  /\ watching # "no"
  /\ IF SamePause(watching) /\ Verdict(paused.item) = "match"
       THEN Settle /\ EndPause("no", retrying)
       ELSE watching' = "no" /\ UNCHANGED <<listVars, hookVars, paused, retrying>>
  /\ UNCHANGED <<storeVars, sendVars, toolVars, typed, status, histVars, acts>>

\* cancelPaused and releaseToComposer
CancelPaused ==
  /\ paused # NotPaused /\ queue # <<>> /\ Len(saves) < MaxSaves /\ Act
  /\ EndPause(watching, retrying)
  /\ Store(Tail(queue), "none", None) /\ taken' = taken \cup {Head(queue)}
  /\ UNCHANGED <<storeVars, sendVars, toolVars, typed, status, reserved, durable,
                 pasted, sent, undone>>

-----------------------------------------------------------------------------
(* The terminal: the user's keys, the tool and its hook, the status *)

UserKey(k) ==
  /\ Act /\ wire' = Append(wire, k) /\ typed' = (k = User)
  /\ UNCHANGED <<listVars, storeVars, sendVars, hookVars, pauseVars, box, shown, turn, hooking,
                 output, status, histVars>>

\* the tool reads its input; it may swallow an Enter, and what was sent may stay on
\* the screen in a line that looks like input; what the user typed beside an item makes
\* another prompt
ToolReads ==
  /\ wire # <<>> /\ wire' = Tail(wire) /\ output' = TRUE
  /\ \/ /\ Head(wire) # Enter /\ box' = Append(box, Head(wire))
        /\ UNCHANGED <<shown, turn, hooking, sent>>
     \/ /\ Head(wire) = Enter
        /\ UNCHANGED <<box, shown, turn, hooking, sent>>
     \/ /\ Head(wire) = Enter /\ box # <<>> /\ box' = <<>> /\ turn' = TRUE
        /\ shown' \in {{}, ToSet(box) \cap Items}
        /\ sent' = IF Len(box) = 1 THEN sent \cup (ToSet(box) \cap Items) ELSE sent
        /\ hooking' = IF ~Hooked THEN hooking
                      ELSE Append(hooking, IF Len(box) = 1 THEN box[1] ELSE User)
  /\ UNCHANGED <<listVars, storeVars, sendVars, hookVars, pauseVars, typed, status, reserved,
                 durable, pasted, taken, undone, acts>>

\* the UserPromptSubmit hook
HookRecords ==
  /\ hooking # <<>> /\ hooking' = Tail(hooking)
  /\ heard' = IF byHook THEN heard \cup {Head(hooking)} ELSE heard
  /\ UNCHANGED <<listVars, storeVars, sendVars, byHook, pauseVars, wire, box, shown, turn, output,
                 typed, status, histVars, acts>>

\* the tool's turn ends, or it starts one of its own
ToolTurn ==
  /\ turn' = ~turn /\ IF turn THEN UNCHANGED acts ELSE Act
  /\ UNCHANGED <<listVars, storeVars, sendVars, hookVars, pauseVars, wire, box, shown, hooking,
                 output, typed, status, histVars>>

\* ta:status running: onSessionRunning
StatusRunning ==
  /\ status # "running" /\ (turn \/ output)
  /\ status' = "running" /\ output' = FALSE /\ sawRunning' = TRUE
  /\ watching' = IF paused # NotPaused /\ inflight = None /\ byHook /\ watching = "no"
                   THEN "this" ELSE watching
  /\ UNCHANGED <<listVars, storeVars, pc, inflight, tries, hookVars, paused, retrying, wire, box,
                 shown, turn, hooking, typed, histVars, acts>>

\* mutant: a done session pumps while a delivery is under way
DonePumpsMutant == paused = NotPaused \/ (paused.reason = "leftover" /\ ~Leftover(paused.item))
\* onSessionDone goes on to _pump
DonePumps ==
  /\ inflight = None
  /\ paused = NotPaused \/ (paused.reason = "leftover" /\ ~Leftover(paused.item))

\* ta:status done or idle after running
StatusRests(done) ==
  /\ status = "running" /\ ~turn /\ status' = "rest" /\ output' = FALSE
  /\ IF done /\ DonePumps
       THEN Pump /\ EndPause(watching, retrying)
       ELSE UNCHANGED <<listVars, sendVars, hookVars, pauseVars>>
  /\ UNCHANGED <<storeVars, wire, box, shown, turn, hooking, typed, histVars, acts>>

\* the page is loaded again, or the whole app starts again with the session restored
Crash(app) ==
  /\ Act
  /\ queue' = (IF app THEN disk ELSE backend) /\ backend' = queue' /\ saves' = <<>>
  /\ pasted' = pasted \ ToSet(queue')
  /\ pc' = "none" /\ inflight' = None /\ tries' = 0 /\ sawRunning' = FALSE
  /\ byHook' = FALSE /\ heard' = {}
  /\ paused' = NotPaused /\ watching' = "no" /\ retrying' = "no" /\ typed' = FALSE
  /\ IF app
       THEN /\ wire' = <<>> /\ box' = <<>> /\ shown' = {} /\ turn' = FALSE
            /\ hooking' = <<>> /\ output' = FALSE /\ status' = "rest"
       ELSE UNCHANGED <<toolVars, status>>
  /\ UNCHANGED <<disk, reserved, durable, sent, taken, undone>>

-----------------------------------------------------------------------------
UserStep ==
  \/ Schedule \/ Retry \/ CancelPaused
  \/ \E i \in Items : RemoveItem(i)
  \/ \E k \in {User, Enter} : UserKey(k)

Deliver == (\E hook \in BOOLEAN : Start(hook)) \/ Landed \/ TimesOut \/ Confirmed

RendererStep ==
  \/ Deliver \/ RetryAsked \/ Watch \/ StatusRunning
  \/ \E done \in BOOLEAN : StatusRests(done)

WorldStep ==
  \/ ToolReads \/ HookRecords \/ ToolTurn
  \/ \E ok \in BOOLEAN : SaveEnds(ok)
  \/ \E app \in BOOLEAN : Crash(app)

Next == UserStep \/ RendererStep \/ WorldStep

\* Timers and awaited calls are answered.
Fairness == WF_vars(Deliver) /\ WF_vars(\E ok \in BOOLEAN : SaveEnds(ok))

SafetySpec == Init /\ [][Next]_vars
Spec == SafetySpec /\ Fairness
-----------------------------------------------------------------------------
(* Properties *)

Saves == [list : Seq(Items), before : Seq(Items),
          then : {"schedule", "remove", "pump", "none"}, item : Items \cup {None}]
Reasons == {"none", "leftover", "paste", "submit", "mismatch", "unconfirmed"}

\* Every variable has its type.
TypeOK ==
  /\ queue \in Seq(Items) /\ saves \in Seq(Saves)
  /\ backend \in Seq(Items) /\ disk \in Seq(Items)
  /\ pc \in {"none", "settle", "screenLand", "hookLand", "screenWait", "hookWait", "saving"}
  /\ inflight \in Items \cup {None} /\ tries \in Nat /\ sawRunning \in BOOLEAN
  /\ byHook \in BOOLEAN /\ heard \subseteq Items \cup {User}
  /\ paused \in [reason : Reasons, item : Items \cup {None}]
  /\ watching \in {"no", "this", "other"} /\ retrying \in {"no", "this", "other"}
  /\ wire \in Seq(Items \cup {User, Enter}) /\ box \in Seq(Items \cup {User})
  /\ shown \subseteq Items /\ turn \in BOOLEAN /\ hooking \in Seq(Items \cup {User})
  /\ typed \in BOOLEAN /\ output \in BOOLEAN /\ status \in {"running", "rest"}
  /\ reserved \in 0..MaxItems /\ durable \subseteq Items /\ pasted \subseteq Items
  /\ sent \subseteq Items /\ taken \subseteq Items /\ undone \in BOOLEAN /\ acts \in Nat

\* A session has one delivery at a time, whatever done events, retries that waited for
\* the hook, and crashes come together (_inflight, retry).
OneDelivery == [][pc' = "settle" /\ pc # "settle" => pc = "none"]_vars

\* An item the user did not take back is pasted once, and once more for each retry the
\* user asked for and each restart: no resumed delivery, late hook or list put back by
\* a failed save repeats it.
PastedOnce == [][undone \/ \A i \in pasted \ taken : wire' # Append(wire, i)]_vars

\* A reserved item whose save was answered is still in the queue, was given to the
\* terminal, or was taken back by the user, whatever crashes and failed saves follow.
NothingLost == durable \subseteq ToSet(queue) \cup pasted \cup sent \cup taken

\* While a delivery, or a pause, goes by the hook, a saved item leaves the queue only
\* when the tool got a prompt that is exactly the item's text, or the user took it back:
\* a prompt in which the item was mixed with what the user typed is not enough.
HookIsRight ==
  [][byHook => \A i \in durable \cap ToSet(queue) : i \in ToSet(queue') \cup sent \cup taken']_vars

\* Every delivery ends, confirmed or paused, however slow the tool is.
DeliveryEnds == (pc # "none") ~> (pc = "none")
=============================================================================
