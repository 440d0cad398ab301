------------------------------ MODULE Pairing ------------------------------
(***************************************************************************)
(* Pairing a phone: the one-use code of remote/auth.rs, the hub that       *)
(* issues it and keeps the devices, and the two places of the desktop page *)
(* that show a code: the remote section of the settings and the phone      *)
(* dialog with its steps (modals.js).  One dialog is shown at a time.  A   *)
(* call is served at one time and answered at another, in any order; a     *)
(* status event carries the devices known when it was made.  Addresses,    *)
(* HTTP and HTTPS and the texts are left out; PhoneLink has the phone.     *)
(***************************************************************************)
EXTENDS Integers, FiniteSets, Sequences

CONSTANTS
    Phones,
    CodeMaxFails,  \* CODE_MAX_FAILS: wrong codes from anyone that end a code
    PairMaxFails,  \* PAIR_MAX_FAILS: wrong codes of one address that lock it
    Plans          \* bound: how a behaviour starts and how much of everything it has

ASSUME LimitsAssumption ==
    /\ IsFiniteSet(Phones)
    /\ CodeMaxFails \in Nat \ {0} /\ PairMaxFails \in Nat \ {0}

\* A behaviour starts with devices that no code of it has made; its clicks
\* are counted.
ASSUME PlansAssumption ==
    \A p \in Plans : /\ "clicks" \in DOMAIN p /\ p.clicks \in Nat
                      /\ p.made \in Seq([code : Nat, saved : BOOLEAN])
                      /\ \A i \in DOMAIN p.made : p.made[i].code = 0

VARIABLES
    tail,      \* what Tailscale says: this computer, its phones, its certificates
    hub,       \* the server, its settings and the status answer it keeps for 2 s
    pairing,   \* auth::Pairing
    issued,    \* codes issued so far; a code is its number
    due,       \* codes up to this one are past their time
    made,      \* every device ever added, in order
    devices,   \* the devices in the config
    calls,     \* calls in flight
    events,    \* ta:remote-status events in flight, in order: the devices they list
    page,      \* the dialogs
    overtaken, \* history: a code was issued for nobody, or two were asked for at once
    plan

Backend == <<tail, hub, pairing, issued, due, made, devices>>
pairingVars == <<tail, hub, pairing, issued, due, made, devices, calls, events, page, overtaken, plan>>

Allowed(what) == plan[what] > 0
Spent(what) == [plan EXCEPT ![what] = @ - 1]

-----------------------------------------------------------------------------
NoStatus == [mac |-> "none", seen |-> FALSE, certs |-> FALSE, paired |-> FALSE, push |-> FALSE]

\* Calls of one kind are told apart by a number; a quick connect goes on as
\* the issue of a code.
Kin(kind) == IF kind \in {"quick", "issue"} THEN {"quick", "issue"} ELSE {kind}
Unused(kind) == (0..Cardinality(calls)) \ {c.n : c \in {o \in calls : o.kind \in Kin(kind)}}
Number(kind) == CHOOSE n \in Unused(kind) : \A o \in Unused(kind) : n <= o

\* A call: the page still waits for its answer (live), it has been served
\* (ready), and what it asks or answers.
Call(kind) ==
    [kind |-> kind, n |-> Number(kind), live |-> TRUE, ready |-> FALSE, ok |-> TRUE,
     code |-> 0, ids |-> {}, st |-> NoStatus]

Asked(kind) == \E c \in calls : c.kind = kind
CanAsk == Cardinality(calls) < plan.calls
TimerAsks(kind) == CanAsk /\ Cardinality({c \in calls : c.kind = kind}) < plan.polls

\* The page no longer waits for these calls: another request took their
\* place, or what they would draw into has gone.
GivenUp(cs, kinds) == {[c EXCEPT !.live = @ /\ c.kind \notin kinds] : c \in cs}

PhoneKinds == {"quick", "issue", "push", "finish"}
WizardKinds == {"status", "poll", "summary"} \cup PhoneKinds
SectionKinds == {"init", "check", "expiry", "start", "apply", "revoke"}

NoPhone == [box |-> "none", code |-> 0, expired |-> FALSE, base |-> {}, done |-> FALSE]
NoKey == <<"none", "">>
NoWizard == [on |-> FALSE, timer |-> FALSE, key |-> NoKey, body |-> "wait",
             forced |-> FALSE, summary |-> FALSE]
NoSection == [drawn |-> FALSE, on |-> FALSE, code |-> 0, expired |-> FALSE, known |-> 0]

PairingInit ==
    /\ plan \in Plans
    /\ tail = plan.tail
    /\ hub = [enabled |-> plan.on, on |-> plan.on, push |-> FALSE, cache |-> NoStatus]
    /\ pairing = [code |-> 0, codeFails |-> 0, fails |-> [p \in Phones |-> 0], locked |-> {}]
    /\ issued = 0 /\ due = 0
    /\ made = plan.made /\ devices = DOMAIN plan.made
    /\ calls = {} /\ events = <<>> /\ overtaken = FALSE
    /\ page = [dialog |-> "none", hidden |-> TRUE, sec |-> NoSection, wz |-> NoWizard,
               ph |-> NoPhone, list |-> {}, read |-> {}, skipped |-> FALSE, finished |-> plan.finished]

Shows(dialog) == page.dialog = dialog /\ ~page.hidden
Click == Allowed("clicks") /\ CanAsk /\ plan' = Spent("clicks")

-----------------------------------------------------------------------------
(***************************************************************************)
(* The codes                                                               *)
(***************************************************************************)
\* start: a new code takes the place of the old one; locks stay.
NewCode == [pairing EXCEPT !.code = issued + 1, !.codeFails = 0]

\* Mutant of Matched: the code can be used again.
MatchedMutant(p) == [pairing EXCEPT !.fails[p] = 0]

Matched(p) == [pairing EXCEPT !.code = 0, !.fails[p] = 0]

Missed(p) ==
    LET locks == pairing.fails[p] + 1 >= PairMaxFails
    IN [pairing EXCEPT !.codeFails = @ + 1,
                       !.code = IF pairing.codeFails + 1 >= CodeMaxFails THEN 0 ELSE @,
                       !.fails[p] = IF locks THEN 0 ELSE @ + 1,
                       !.locked = IF locks THEN @ \cup {p} ELSE @]

\* POST /api/pair up to consume: a phone sends a code that was shown, or a
\* wrong one (0).  Nothing changes for a locked phone or when there is no code.
SubmitPair(p, code) ==
    /\ hub.on /\ p \notin pairing.locked /\ pairing.code # 0
    /\ Allowed("submits") /\ plan' = Spent("submits") /\ CanAsk
    /\ \/ /\ pairing.code <= due
          /\ pairing' = [pairing EXCEPT !.code = 0] /\ UNCHANGED calls
       \/ /\ pairing.code > due /\ code = pairing.code
          /\ pairing' = Matched(p)
          /\ calls' = calls \cup {[Call("pair") EXCEPT !.code = code]}
       \/ /\ pairing.code > due /\ code # pairing.code
          /\ pairing' = Missed(p) /\ UNCHANGED calls
    /\ UNCHANGED <<tail, hub, issued, due, made, devices, events, page, overtaken>>

\* add_device: in memory first; a failed save is told to the phone only.
AddDevice(c, saved) ==
    /\ c.kind = "pair" /\ calls' = calls \ {c}
    /\ made' = Append(made, [code |-> c.code, saved |-> saved])
    /\ devices' = devices \cup {Len(made) + 1}
    /\ IF saved THEN events' = Append(events, devices') /\ UNCHANGED plan
       ELSE Allowed("faults") /\ plan' = Spent("faults") /\ UNCHANGED events
    /\ UNCHANGED <<tail, hub, pairing, issued, due, page, overtaken>>

\* The lock of an address ends.
Unlock(p) ==
    /\ p \in pairing.locked /\ pairing' = [pairing EXCEPT !.locked = @ \ {p}]
    /\ UNCHANGED <<tail, hub, issued, due, made, devices, calls, events, page, overtaken, plan>>

\* The next code, oldest first, runs out of time.
CodeIsDue ==
    /\ due < issued /\ due' = due + 1
    /\ UNCHANGED <<tail, hub, pairing, issued, made, devices, calls, events, page, overtaken, plan>>

\* remove_device: a device that was not used for 30 days.
RemoveIdle(d) ==
    /\ d \in devices /\ made[d].code = 0 /\ Allowed("world") /\ plan' = Spent("world")
    /\ devices' = devices \ {d} /\ events' = Append(events, devices')
    /\ UNCHANGED <<tail, hub, pairing, issued, due, made, calls, page, overtaken>>

\* A code somebody can read.
Shown(code) ==
    /\ code # 0
    /\ \/ Shows("settings") /\ page.sec.code = code /\ ~page.sec.expired
       \/ Shows("phone") /\ page.ph.code = code /\ ~page.ph.expired

\* An answer that will put a code on the screen.
BringsCode(c) == c.kind \in {"issue", "start"} /\ c.live /\ c.ready /\ c.code # 0

\* issue_pairing for call c, answered with the code and the devices.
Issue(c) ==
    /\ pairing' = NewCode /\ issued' = issued + 1
    /\ calls' = (calls \ {c}) \cup {[c EXCEPT !.ready = TRUE, !.code = issued + 1, !.ids = devices]}
    /\ overtaken' = (overtaken
           \/ (~c.live /\ ((\E code \in 1..issued : Shown(code)) \/ \E o \in calls : BringsCode(o))))

-----------------------------------------------------------------------------
(***************************************************************************)
(* The hub                                                                 *)
(***************************************************************************)
\* Tailscale is installed, started, stopped; a phone joins; certificates
\* are switched on.
World ==
    /\ Allowed("world") /\ plan' = Spent("world")
    /\ \E t \in [mac : {"missing", "stopped", "running"}, seen : BOOLEAN, certs : BOOLEAN] :
         /\ t # tail /\ tail' = t
         /\ t.mac # tail.mac => t.seen = tail.seen /\ t.certs = tail.certs
         /\ t.seen # tail.seen => t.certs = tail.certs
    /\ UNCHANGED <<hub, pairing, issued, due, made, devices, calls, events, page, overtaken>>

\* What apply_locked leaves running: the address is Tailscale's, and a port
\* that is taken is a fault.  A server that runs is not restarted.
Outcomes(enabled) ==
    IF ~enabled THEN {FALSE}
    ELSE IF hub.on THEN {TRUE}
    ELSE {on \in {TRUE} : tail.mac = "running"}
           \cup {on \in {FALSE} : tail.mac # "running" \/ Allowed("faults")}

Applies(enabled, on) ==
    /\ on \in Outcomes(enabled)
    /\ hub' = [hub EXCEPT !.enabled = enabled, !.on = on]
    /\ plan' = IF enabled /\ ~on /\ tail.mac = "running" THEN Spent("faults") ELSE plan

\* apply_if_needed, the watch.
Watch ==
    /\ hub.enabled /\ hub.on # (tail.mac = "running")
    /\ hub' = [hub EXCEPT !.on = ~@] /\ events' = Append(events, devices)
    /\ UNCHANGED <<tail, pairing, issued, due, made, devices, calls, page, overtaken, plan>>

Served(c, answer) == calls' = (calls \ {c}) \cup {answer}
Waits(c, kinds) == c.kind \in kinds /\ ~c.ready

\* The settings are changed in memory and the save fails: the command ends
\* there, and the page says so and draws nothing.
SaveFails(c) ==
    /\ Allowed("faults") /\ plan' = Spent("faults")
    /\ calls' = calls \ {c} /\ UNCHANGED events

\* remote_set_config: on or off, then the view.
ServeApply(c) ==
    /\ Waits(c, {"apply"})
    /\ \/ \E on \in BOOLEAN :
            /\ Applies(c.ok, on)
            /\ events' = IF on # hub.on THEN Append(events, devices) ELSE events
            /\ Served(c, [c EXCEPT !.ready = TRUE, !.ok = on, !.ids = devices])
       \/ SaveFails(c) /\ hub' = [hub EXCEPT !.enabled = c.ok]
    /\ UNCHANGED <<tail, pairing, issued, due, made, devices, page, overtaken>>

\* remote_quick_connect while it holds apply_lock.  It has let go of it when
\* it issues the code.  A save that fails is answered as a server that did
\* not start, even when one runs.
QuickApply(c) ==
    /\ Waits(c, {"quick"})
    /\ \/ /\ tail.mac # "running"
          /\ Served(c, [c EXCEPT !.kind = "issue", !.ready = TRUE, !.ok = FALSE])
          /\ UNCHANGED <<hub, events, plan>>
       \/ /\ tail.mac = "running" /\ Allowed("faults") /\ plan' = Spent("faults")
          /\ hub' = [hub EXCEPT !.enabled = TRUE] /\ UNCHANGED events
          /\ Served(c, [c EXCEPT !.kind = "issue", !.ready = TRUE, !.ok = FALSE])
       \/ /\ tail.mac = "running"
          /\ \E on \in BOOLEAN : Applies(TRUE, on)
          /\ events' = Append(events, devices)
          /\ Served(c, [c EXCEPT !.kind = "issue"])
    /\ UNCHANGED <<tail, pairing, issued, due, made, devices, page, overtaken>>

\* remote_quick_connect's second half, and remote_start_pairing.
ServeCode(c) ==
    /\ Waits(c, {"issue", "start"})
    /\ IF hub.on THEN Issue(c)
       ELSE /\ Served(c, [c EXCEPT !.ready = TRUE, !.ok = FALSE])
            /\ UNCHANGED <<pairing, issued, overtaken>>
    /\ UNCHANGED <<tail, hub, due, made, devices, events, page, plan>>

\* remote_get_config.
ServeConfig(c) ==
    /\ Waits(c, {"init", "check", "expiry", "summary", "finish"})
    /\ Served(c, [c EXCEPT !.ready = TRUE, !.ok = hub.on, !.ids = devices])
    /\ UNCHANGED <<Backend, events, page, overtaken, plan>>

\* remote_setup_status: an answer younger than 2 s is given again.  When the
\* CLI does not answer in time, Tailscale counts as stopped, for the answer
\* and for those 2 s.
StatusNow == [mac |-> tail.mac, seen |-> tail.seen, certs |-> tail.certs,
              paired |-> devices # {}, push |-> hub.push]
Unread == [StatusNow EXCEPT !.mac = IF @ = "missing" THEN @ ELSE "stopped",
                            !.seen = FALSE, !.certs = FALSE]

ServeStatus(c) ==
    /\ Waits(c, {"status", "poll"})
    /\ \/ /\ hub.cache # NoStatus /\ Allowed("reused") /\ plan' = Spent("reused") /\ UNCHANGED hub
          /\ Served(c, [c EXCEPT !.ready = TRUE, !.st = hub.cache])
       \/ /\ hub.cache = NoStatus \/ ~Allowed("reused")
          /\ \E st \in {StatusNow, Unread} :
               /\ hub' = [hub EXCEPT !.cache = IF Allowed("reused") THEN st ELSE NoStatus]
               /\ Served(c, [c EXCEPT !.ready = TRUE, !.st = st])
               /\ IF st = StatusNow THEN UNCHANGED plan
                  ELSE Allowed("faults") /\ plan' = Spent("faults")
    /\ UNCHANGED <<tail, pairing, issued, due, made, devices, events, page, overtaken>>

\* SETUP_CACHE passes.
CacheAges ==
    /\ hub.cache # NoStatus /\ hub' = [hub EXCEPT !.cache = NoStatus]
    /\ UNCHANGED <<tail, pairing, issued, due, made, devices, calls, events, page, overtaken, plan>>

\* remote_revoke_device.
ServeRevoke(c) ==
    /\ Waits(c, {"revoke", "revokePhone"})
    /\ devices' = devices \ c.ids
    /\ \/ /\ events' = Append(events, devices')
          /\ Served(c, [c EXCEPT !.ready = TRUE, !.ok = hub.on, !.ids = devices']) /\ UNCHANGED plan
       \/ SaveFails(c)
    /\ UNCHANGED <<tail, hub, pairing, issued, due, made, page, overtaken>>

\* remote_enable_push.
ServePush(c) ==
    /\ Waits(c, {"push"})
    /\ hub' = [hub EXCEPT !.push = TRUE]
    /\ \/ /\ events' = Append(events, devices)
          /\ Served(c, [c EXCEPT !.ready = TRUE, !.ids = devices]) /\ UNCHANGED plan
       \/ SaveFails(c)
    /\ UNCHANGED <<tail, pairing, issued, due, made, devices, page, overtaken>>

\* remote_open_on_phone: refused without push or without a server.
ServeOpen(c) ==
    /\ Waits(c, {"open"})
    /\ Served(c, [c EXCEPT !.ready = TRUE, !.ok = hub.push /\ hub.on])
    /\ UNCHANGED <<Backend, events, page, overtaken, plan>>

-----------------------------------------------------------------------------
(***************************************************************************)
(* The remote section of the settings                                      *)
(***************************************************************************)
Quiet == UNCHANGED <<Backend, events, overtaken>>
Ready(c, kinds) == c \in calls /\ c.kind \in kinds /\ c.ready
Drop(c) == calls' = calls \ {c} /\ UNCHANGED page

\* A dialog takes the slot: all that was in it has gone.
Opened(p, dialog) ==
    [p EXCEPT !.dialog = dialog, !.hidden = FALSE, !.sec = NoSection, !.wz = NoWizard,
              !.ph = NoPhone, !.list = {}]
AllGivenUp == GivenUp(calls, WizardKinds \cup SectionKinds)

OpenSettings ==
    /\ page.hidden /\ Click /\ "settings" \in plan.opens
    /\ page' = Opened(page, "settings")
    /\ calls' = AllGivenUp \cup {Call("init")}
    /\ Quiet

CloseDialog ==
    /\ ~page.hidden /\ Click
    /\ page' = [page EXCEPT !.hidden = TRUE] /\ UNCHANGED calls /\ Quiet

\* renderRemoteSettings: a fresh section, without a code; the timer of the
\* old one ends.
DrawSection(c) ==
    /\ page' = [page EXCEPT !.sec = [NoSection EXCEPT !.drawn = TRUE, !.on = c.ok], !.list = c.ids]
    /\ calls' = GivenUp(calls \ {c}, {"check"})

\* initRemoteSettings, apply and the revoke button after their answers.
SectionAnswered(c) ==
    /\ Ready(c, {"init", "apply", "revoke"})
    /\ IF c.live THEN DrawSection(c) ELSE Drop(c)
    /\ Quiet /\ UNCHANGED plan

ApplyConfig(on) ==
    /\ Shows("settings") /\ page.sec.drawn /\ Click
    /\ calls' = calls \cup {[Call("apply") EXCEPT !.ok = on]} /\ UNCHANGED page /\ Quiet

\* The second click on a device's button, in either dialog.
Revoke(d) ==
    /\ ~page.hidden /\ d \in page.list /\ Click
    /\ LET kind == IF page.dialog = "settings" THEN "revoke" ELSE "revokePhone"
       IN calls' = calls \cup {[Call(kind) EXCEPT !.ids = {d}]}
    /\ UNCHANGED page /\ Quiet

\* startRemotePairing: nothing stops a second click.
ClickPair ==
    /\ Shows("settings") /\ page.sec.on /\ Click
    /\ overtaken' = (overtaken \/ Asked("start"))
    /\ calls' = calls \cup {Call("start")} /\ UNCHANGED <<page, Backend, events>>

StartAnswered(c) ==
    /\ Ready(c, {"start"})
    /\ IF c.live /\ c.ok
       THEN /\ page' = [page EXCEPT !.sec.code = c.code, !.sec.expired = FALSE,
                                    !.sec.known = Cardinality(page.list), !.read = @ \cup {c.code}]
            /\ calls' = calls \ {c}
       ELSE Drop(c)
    /\ Quiet /\ UNCHANGED plan

\* The section's tick.  Every third one asks for the devices; the last one
\* asks once more.
CheckDevices ==
    /\ Shows("settings") /\ page.sec.code > due /\ ~page.sec.expired
    /\ TimerAsks("check")
    /\ calls' = calls \cup {[Call("check") EXCEPT !.code = page.sec.known]}
    /\ UNCHANGED <<page, plan>> /\ Quiet

CheckAnswered(c) ==
    /\ Ready(c, {"check"})
    /\ IF c.live /\ Cardinality(c.ids) > c.code THEN DrawSection(c) ELSE Drop(c)
    /\ Quiet /\ UNCHANGED plan

SectionExpires ==
    /\ Shows("settings") /\ page.sec.code \in 1..due /\ ~page.sec.expired
    /\ page' = [page EXCEPT !.sec.expired = TRUE]
    /\ calls' = calls \cup {Call("expiry")} /\ UNCHANGED plan /\ Quiet

ExpiryAnswered(c) ==
    /\ Ready(c, {"expiry"})
    /\ IF c.live THEN page' = [page EXCEPT !.list = c.ids] /\ calls' = calls \ {c} ELSE Drop(c)
    /\ Quiet /\ UNCHANGED plan

-----------------------------------------------------------------------------
(***************************************************************************)
(* The phone dialog                                                        *)
(***************************************************************************)
\* startPhoneWizard: the dialog's steps from the start; the first poll.
StartWizard(p, forced) == [p EXCEPT !.wz = [NoWizard EXCEPT !.on = TRUE, !.forced = forced]]

OpenPhone ==
    /\ page.hidden /\ Click /\ "phone" \in plan.opens
    /\ page' = StartWizard(Opened(page, "phone"), FALSE)
    /\ calls' = AllGivenUp \cup {Call("status")}
    /\ Quiet

\* openOnPhone, from a session's menu or the dialog: a refusal opens the
\* phone dialog over whatever is shown by then.
OpenOnPhone ==
    /\ "open" \in plan.opens
    /\ page.hidden \/ page.ph.box \in {"summary", "finish"}
    /\ Click
    /\ calls' = calls \cup {Call("open")} /\ UNCHANGED page /\ Quiet

OpenAnswered(c) ==
    /\ Ready(c, {"open"})
    /\ IF c.ok THEN Drop(c)
       ELSE /\ page' = StartWizard(Opened(page, "phone"), FALSE)
            /\ calls' = (AllGivenUp \ {c}) \cup {Call("status")}
    /\ Quiet /\ UNCHANGED plan

\* poll every 3 s, whether the last one was answered or not; a hidden dialog
\* ends it.
Poll ==
    /\ page.wz.on /\ page.wz.timer
    /\ IF page.hidden
       THEN /\ page' = [page EXCEPT !.wz.on = FALSE, !.wz.timer = FALSE]
            /\ calls' = GivenUp(calls, {"status", "poll", "summary"})
       ELSE /\ TimerAsks("poll")
            /\ calls' = calls \cup {Call("poll")} /\ UNCHANGED page
    /\ Quiet /\ UNCHANGED plan

\* phoneWizardPlan: the first step that is not done.
CurrentStep(st) ==
    CASE st.mac # "running" -> "mac"
      [] st.mac = "running" /\ ~st.seen -> "phone"
      [] st.mac = "running" /\ st.seen /\ ~(st.certs \/ page.skipped) -> "https"
      [] OTHER -> IF ~st.paired THEN "pair"
                  ELSE IF ~(st.push \/ page.finished) THEN "finish" ELSE "end"

\* Mutant of BodyKey: whatever changes redraws the step.
BodyKeyMutant(st) == <<CurrentStep(st), IF st.certs THEN "certs" ELSE st.mac>>

\* phoneWizardBodyKey: what the body of the step shows.
BodyKey(st) == <<CurrentStep(st), IF CurrentStep(st) = "mac" THEN st.mac ELSE "">>

\* runPhoneConnect: the request takes the place of the one before.
RunPhoneConnect(p, box) == [p EXCEPT !.ph = [NoPhone EXCEPT !.box = box]]
Connecting(rest) == GivenUp(rest, PhoneKinds) \cup {Call("quick")}

\* renderPhoneWizard: the step's body is drawn only when its key changed, so
\* that a code under way stays.
StatusAnswered(c) ==
    LET rest == calls \ {c}
        gone == GivenUp(rest, PhoneKinds)
        step == CurrentStep(c.st)
        timer == page.wz.timer \/ (page.wz.body = "wait" /\ ~page.wz.summary)
        drawn == [page EXCEPT !.wz.key = BodyKey(c.st), !.wz.body = step, !.wz.timer = timer,
                              !.ph = NoPhone, !.list = {}]
    IN /\ Ready(c, {"status", "poll"})
       /\ \/ ~c.live /\ Drop(c)
          \/ /\ c.live /\ step = "end" /\ ~page.wz.forced
             /\ page' = [page EXCEPT !.wz.timer = FALSE, !.wz.summary = TRUE]
             /\ calls' = rest \cup {Call("summary")}
          \/ /\ c.live /\ (step # "end" \/ page.wz.forced)
             /\ IF page.wz.key = BodyKey(c.st) /\ page.wz.body # "summary" THEN Drop(c)
                ELSE CASE step = "pair" -> page' = RunPhoneConnect(drawn, "pair") /\ calls' = Connecting(rest)
                       [] step = "finish" -> /\ page' = [drawn EXCEPT !.ph.box = "finish"]
                                             /\ calls' = gone \cup {Call("finish")}
                       [] OTHER -> page' = drawn /\ calls' = gone
       /\ Quiet /\ UNCHANGED plan

\* renderPhoneSummary after its read.
SummaryAnswered(c) ==
    /\ Ready(c, {"summary"})
    /\ IF ~c.live THEN Drop(c)
       ELSE /\ page' = [page EXCEPT !.wz.body = "summary", !.ph = [NoPhone EXCEPT !.box = "summary"],
                                    !.list = c.ids]
            /\ calls' = GivenUp(calls \ {c}, PhoneKinds)
    /\ Quiet /\ UNCHANGED plan

\* The finish step's read: it draws the push box, which keeps no state.
FinishAnswered(c) == Ready(c, {"finish"}) /\ Drop(c) /\ Quiet /\ UNCHANGED plan

\* "Check again", "skip" and "done": the body is drawn again at the answer.
Recheck ==
    /\ Shows("phone") /\ page.wz.body \in {"mac", "https", "finish"} /\ Click
    /\ page' = [page EXCEPT !.wz.key = NoKey,
                            !.skipped = @ \/ page.wz.body = "https",
                            !.finished = @ \/ page.wz.body = "finish",
                            !.wz.forced = @ /\ page.wz.body # "finish"]
    /\ calls' = calls \cup {Call("status")} /\ Quiet

\* The new-code and retry buttons, and "add a device" in the summary.
Reconnect ==
    /\ Shows("phone") /\ Click
    /\ \/ page.wz.body = "pair" /\ page' = RunPhoneConnect(page, "pair")
       \/ page.wz.body = "summary" /\ page' = RunPhoneConnect(page, "add")
    /\ calls' = Connecting(calls) /\ Quiet

\* "See the steps again".
Again ==
    /\ Shows("phone") /\ page.wz.body = "summary" /\ Click
    /\ page' = StartWizard(page, TRUE)
    /\ calls' = GivenUp(calls, {"status", "poll", "summary"}) \cup {Call("status")} /\ Quiet

\* The button is disabled until its answer.
EnablePush ==
    /\ Shows("phone") /\ page.ph.box \in {"finish", "summary"} /\ Click
    /\ \A c \in calls : c.kind = "push" => ~c.live
    /\ calls' = calls \cup {Call("push")} /\ UNCHANGED page /\ Quiet

\* Mutant of Connected: it counts the devices.
ConnectedMutant(ids) == page.ph.code # 0 /\ Cardinality(ids) > Cardinality(page.ph.base)

\* remotePhoneConnected: a device that was not there when the code was shown.
Connected(ids) == page.ph.code # 0 /\ ~(ids \subseteq page.ph.base)

\* onRemoteStatus: the list of the summary, and "connected" below a code
\* once a new device is there.
OnRemoteStatus(ids) ==
    [page EXCEPT !.list = IF page.ph.box = "summary" THEN ids ELSE @,
                 !.ph.done = @ \/ Connected(ids)]

Event ==
    /\ events # <<>> /\ events' = Tail(events)
    /\ page' = OnRemoteStatus(Head(events))
    /\ UNCHANGED <<Backend, calls, overtaken, plan>>

ViewAnswered(c) ==
    /\ Ready(c, {"revokePhone", "push"})
    /\ IF c.live \/ c.kind = "revokePhone" THEN page' = OnRemoteStatus(c.ids) ELSE UNCHANGED page
    /\ calls' = calls \ {c} /\ Quiet /\ UNCHANGED plan

\* Mutant of Answers: an answer is drawn whoever waits for it.
AnswersMutant(c) == page.ph.box # "none"

Answers(c) == c.live

\* runPhoneConnect after its answer: the code, or a failure and its retry.
ConnectAnswered(c) ==
    /\ Ready(c, {"issue"})
    /\ IF ~Answers(c) THEN Drop(c)
       ELSE /\ page' = IF c.ok THEN [page EXCEPT !.ph = [@ EXCEPT !.code = c.code, !.base = c.ids],
                                                !.read = @ \cup {c.code}]
                       ELSE page
            /\ calls' = calls \ {c}
    /\ Quiet /\ UNCHANGED plan

\* The tick of a code: it runs out, or nobody sees it any more.
CodeTick ==
    /\ page.ph.code # 0
    /\ \/ page.hidden /\ page' = [page EXCEPT !.ph = NoPhone]
       \/ /\ ~page.hidden /\ page.ph.code <= due /\ ~page.ph.expired
          /\ page' = [page EXCEPT !.ph.expired = TRUE]
    /\ UNCHANGED calls /\ Quiet /\ UNCHANGED plan

-----------------------------------------------------------------------------
Submit == \E p \in Phones, code \in page.read \cup {0} : SubmitPair(p, code)
Add == \E c \in calls, saved \in BOOLEAN : AddDevice(c, saved)
Serve == \E c \in calls : ServeApply(c) \/ QuickApply(c) \/ ServeCode(c) \/ ServeConfig(c)
                            \/ ServeStatus(c) \/ ServeRevoke(c) \/ ServePush(c) \/ ServeOpen(c)
Answer == \E c \in calls : SectionAnswered(c) \/ StartAnswered(c) \/ CheckAnswered(c)
                             \/ ExpiryAnswered(c) \/ OpenAnswered(c) \/ StatusAnswered(c)
                             \/ SummaryAnswered(c) \/ FinishAnswered(c) \/ ViewAnswered(c)
                             \/ ConnectAnswered(c)
Timers == CheckDevices \/ SectionExpires \/ Poll \/ CodeTick
Unlocks == \E p \in Phones : Unlock(p)
Idle == \E d \in devices : RemoveIdle(d)
User == \/ OpenSettings \/ CloseDialog \/ ClickPair \/ OpenPhone \/ OpenOnPhone
        \/ Recheck \/ Reconnect \/ Again \/ EnablePush
        \/ \E on \in BOOLEAN : ApplyConfig(on)
        \/ \E d \in page.list : Revoke(d)

PairingNext == \/ Submit \/ Add \/ Serve \/ Answer \/ Event \/ Timers \/ Unlocks \/ Idle \/ User
        \/ CodeIsDue \/ CacheAges \/ Watch \/ World

\* The server serves and answers; the webview's events and timers arrive; a
\* code's time passes.
PairingSpec == /\ PairingInit /\ [][PairingNext]_pairingVars
        /\ WF_pairingVars(Add \/ Serve) /\ WF_pairingVars(Answer) /\ WF_pairingVars(Event)
        /\ WF_pairingVars(CheckDevices) /\ WF_pairingVars(SectionExpires) /\ WF_pairingVars(Poll) /\ WF_pairingVars(CodeTick)
        /\ WF_pairingVars(CodeIsDue) /\ WF_pairingVars(CacheAges)

-----------------------------------------------------------------------------
(***************************************************************************)
(* Properties                                                              *)
(***************************************************************************)
\* A code makes one device, whoever sends it, however often, while others
\* ask for new codes and wrong ones are tried (auth.rs:105-143 "1회용").
OneDevicePerCode ==
    \A i, j \in DOMAIN made : made[i].code = made[j].code /\ made[i].code # 0 => i = j

\* A code on the screen that still runs is not one the server has replaced,
\* unless the new one is on its way to the screen, whatever requests crossed:
\* runPhoneConnect's guard (modals.js:1168), the dialogs that take each other's
\* place.  Not so when a request the page had given up was served after the one
\* shown, or when "start pairing" was clicked twice.
ShownCodeWorks ==
    \A code \in due + 1 .. issued :
        Shown(code) => \/ pairing.code \in {0, code} \/ overtaken
                       \/ \E c \in calls : BringsCode(c) /\ c.code = pairing.code

\* The poll never takes a code off the pairing step to ask for another
\* (modals.js:985): only a click, or a status for which the step is another
\* one, do.  A status that could not be read is of the second kind.
CodeIsKept ==
    [][(/\ Shows("phone") /\ page.wz.body = "pair" /\ page.ph.code > due
        /\ page'.wz.body = "pair" /\ plan' = plan)
       => page'.ph.code = page.ph.code]_pairingVars

\* A device was made with the code on the screen, and the desktop does not
\* say so: its list lacks the device, the step has not moved on, there is no
\* "connected" below the code.
Unseen(d) ==
    /\ made[d].saved /\ made[d].code # 0
    /\ \/ Shows("settings") /\ page.sec.code = made[d].code /\ d \notin page.list
       \/ /\ Shows("phone") /\ page.ph.code = made[d].code
          /\ page.wz.body = "pair" \/ ~page.ph.done

\* A phone that paired in time is seen: by the count of devices every 3 s or
\* by the read at the code's end (settings), by the poll (pairing step), by
\* the status event (summary).
PairingIsSeen ==
    (\E d \in devices : Unseen(d) /\ made[d].code > due) ~> ~(\E d \in devices : Unseen(d))
=============================================================================
