---------------------------- MODULE SessionStatus ----------------------------
(***************************************************************************)
(* The status of one session: how the backend decides it from the shell's  *)
(* output, the user's input and the AI tool's hook file, and the notices   *)
(* it sends of it (pty.rs, hooks.rs).                                      *)
(*                                                                         *)
(* The status thread polls: it reads the hook files, decides under the     *)
(* lock of `metas`, and sends its notices after the lock is released; each *)
(* is a step of its own.  Everything else is one critical section of       *)
(* `metas`.                                                                *)
(*                                                                         *)
(* Time is a bounded clock; the shell, the user and the tool act only      *)
(* for ActTime, so that what follows from silence can be checked.          *)
(* hook_seen, hook_done and hook_done_ts are rewritten from the hook file  *)
(* by every poll before it uses them, and are read off `cache` here.       *)
(***************************************************************************)
EXTENDS Integers

CONSTANTS
  BusyHold,   \* BUSY_HOLD_MS
  DoneMin,    \* DONE_MIN_MS
  DoneQuiet,  \* DONE_QUIET_MS
  HookStale,  \* HOOK_STALE_MS
  Grain,      \* the grain of a hook's time stamp: one second (date +%s)
  ActTime,    \* bound: how long the environment acts
  MaxStops    \* bound: Stop hooks

ASSUME StatusAssumption ==
  /\ {BusyHold, DoneMin, DoneQuiet, HookStale, Grain} \subseteq Nat \ {0}
  /\ {ActTime, MaxStops} \subseteq Nat
  /\ BusyHold <= DoneQuiet /\ DoneQuiet <= HookStale

VARIABLES
  now,
  \* SessionMeta
  status, waiting, cleared, usedTs, lastOut, busySince, exited,
  \* the hook's state file, and the status thread's copy of it
  file, cache,
  \* the status thread: its program counter and the notice it still has to send
  pc, notice,
  exitSent,   \* the emitter has sent the exit notices
  sent,       \* the status of the last notice: what every list shows in the end
  \* history: Stop hooks not answered by a completion notice yet; a permission
  \* request since the user's last input; output since the last Done; a notice
  \* was overtaken by one of a later change
  spare, asked, freshOut, overtaken

metaVars == <<status, waiting, cleared, usedTs, lastOut, busySince, exited>>
threadVars == <<file, cache, pc, notice, exitSent, sent>>
histVars == <<spare, asked, freshOut, overtaken>>
vars == <<now, metaVars, threadVars, histVars>>

Statuses == {"idle", "running", "waiting", "done", "exited"}
NoNotice == "none"

\* a state file: what the hook reported, and when; the time it notes is coarser
NoFile == [state |-> "none", at |-> 0]
Ts(f) == Grain * (f.at \div Grain)

\* a clock that is past zero, and long past any output (create: now - 10 s)
Start == Grain * BusyHold

Init ==
  /\ now = Start
  /\ status = "idle" /\ waiting = FALSE /\ cleared = 0 /\ usedTs = 0
  /\ lastOut = 0 /\ busySince = Start /\ exited = FALSE
  /\ file = NoFile /\ cache = NoFile
  /\ pc = "sleep" /\ notice = NoNotice /\ exitSent = FALSE /\ sent = "idle"
  /\ spare = 0 /\ asked = FALSE /\ freshOut = FALSE /\ overtaken = FALSE

Active == now <= Start + ActTime
Horizon == Start + ActTime + HookStale + 1

Tick ==
  /\ now < Horizon
  /\ now' = now + 1
  /\ UNCHANGED <<metaVars, threadVars, histVars>>

-----------------------------------------------------------------------------
(* The shell, the user and the tool *)

\* the reader thread got output; `osc`: it holds a permission request (OSC 9, 777)
Output(osc) ==
  /\ Active /\ ~exited
  /\ busySince' = IF status \notin {"running", "waiting"} /\ now - lastOut > BusyHold
                    THEN now ELSE busySince
  /\ lastOut' = now
  /\ waiting' = (waiting \/ osc)
  /\ asked' = (asked \/ osc) /\ freshOut' = TRUE
  /\ UNCHANGED <<now, status, cleared, usedTs, exited, threadVars, spare, overtaken>>

\* end of the reader thread
ShellEnds ==
  /\ Active /\ ~exited
  /\ exited' = TRUE /\ status' = "exited"
  /\ UNCHANGED <<now, waiting, cleared, usedTs, lastOut, busySince, threadVars, histVars>>

\* mutant: the time of the input is not recorded
WriteMutant ==
  /\ Active
  /\ waiting' = FALSE /\ asked' = FALSE
  /\ UNCHANGED <<now, status, cleared, usedTs, lastOut, busySince, exited,
                 threadVars, spare, freshOut, overtaken>>

\* PtyManager::write
Write ==
  /\ Active
  /\ waiting' = FALSE /\ cleared' = now /\ asked' = FALSE
  /\ UNCHANGED <<now, status, usedTs, lastOut, busySince, exited,
                 threadVars, spare, freshOut, overtaken>>

\* the hook script: UserPromptSubmit and PostToolUse, Stop, Notification, SessionEnd
Hook(st) ==
  /\ Active /\ ~exited
  /\ file' = IF st = "none" THEN NoFile ELSE [state |-> st, at |-> now]
  /\ st = "done" => spare < MaxStops
  /\ spare' = IF st = "done" THEN spare + 1 ELSE spare
  /\ asked' = (asked \/ st = "waiting")
  /\ UNCHANGED <<now, metaVars, cache, pc, notice, exitSent, sent, freshOut, overtaken>>

-----------------------------------------------------------------------------
(* The status thread *)

\* hooks::read_states (a directory that did not change is not read again, and
\* would give the same)
PollRead ==
  /\ pc = "sleep"
  /\ pc' = "decide" /\ cache' = file
  /\ UNCHANGED <<now, metaVars, file, notice, exitSent, sent, histVars>>

\* mutant: a Stop counts as long as the file is there
FreshDoneMutant == cache.state = "done"
\* a Stop that no completion notice has used yet
FreshDone == cache.state = "done" /\ Ts(cache) > usedTs

\* mutant: a session with hooks stays running until a Stop comes
RunningNextMutant(quiet, busy) ==
  IF cache.state # "none"
    THEN IF FreshDone THEN "done" ELSE "running"
  ELSE IF busy < DoneMin THEN "idle"
  ELSE IF quiet >= DoneQuiet THEN "done" ELSE "running"

\* decide_status, from Running and with no recent output
RunningNext(quiet, busy) ==
  IF cache.state # "none"
    THEN IF FreshDone THEN "done" ELSE IF quiet >= HookStale THEN "idle" ELSE "running"
  ELSE IF busy < DoneMin THEN "idle"
  ELSE IF quiet >= DoneQuiet THEN "done" ELSE "running"

\* mutant: a done session that is quiet is judged again
DecideMutant(wait, quiet, busy) ==
  IF wait THEN "waiting"
  ELSE IF quiet < BusyHold THEN "running"
  ELSE IF status = "waiting" THEN "idle"
  ELSE RunningNext(quiet, busy)

\* decide_status
Decide(wait, quiet, busy) ==
  IF wait THEN "waiting"
  ELSE IF quiet < BusyHold THEN "running"
  ELSE IF status = "running" THEN RunningNext(quiet, busy)
  ELSE IF status = "waiting" THEN "idle"
  ELSE status

\* sessions the poll passes over
Skipped == exited

\* one round over `metas`, under its lock
PollDecide ==
  LET newer == Ts(cache) > cleared
      ended == newer /\ cache.state \in {"busy", "done"}
      wait == (waiting /\ ~ended) \/ (newer /\ cache.state = "waiting")
      next == Decide(wait, now - lastOut, now - busySince)
      done == next = "done" /\ status # "done"
  IN  /\ pc = "decide"
      /\ IF Skipped
           THEN pc' = "sleep" /\ UNCHANGED <<metaVars, notice, spare, freshOut>>
           ELSE /\ waiting' = wait
                /\ cleared' = IF ended THEN Ts(cache) ELSE cleared
                /\ usedTs' = IF next = "done" /\ FreshDone THEN Ts(cache) ELSE usedTs
                /\ status' = next
                /\ notice' = IF next # status THEN next ELSE NoNotice
                /\ pc' = IF next # status THEN "send" ELSE "sleep"
                /\ spare' = IF done /\ cache.state # "none" THEN spare - 1 ELSE spare
                /\ freshOut' = (freshOut /\ ~done)
                /\ UNCHANGED <<lastOut, busySince, exited>>
      /\ UNCHANGED <<now, file, cache, exitSent, sent, asked, overtaken>>

\* the notices are sent after the lock was released
PollSend ==
  /\ pc = "send"
  /\ pc' = "sleep" /\ notice' = NoNotice /\ sent' = notice
  /\ UNCHANGED <<now, metaVars, file, cache, exitSent, histVars>>

\* the emitter thread, after the last output
SendExit ==
  /\ exited /\ ~exitSent
  /\ exitSent' = TRUE /\ sent' = "exited"
  /\ overtaken' = (overtaken \/ notice # NoNotice)
  /\ UNCHANGED <<now, metaVars, file, cache, pc, notice, spare, asked, freshOut>>

\* mutant: the acknowledgement is not announced
AckMutant ==
  /\ status = "done" /\ status' = "idle"
  /\ UNCHANGED <<sent, overtaken, now, waiting, cleared, usedTs, lastOut, busySince, exited,
                 file, cache, pc, notice, exitSent, spare, asked, freshOut>>

\* PtyManager::ack, for the desktop's and the phones' viewers: its notice is sent
\* under the lock, and may overtake the status thread's
Ack ==
  /\ status = "done" /\ status' = "idle" /\ sent' = "idle"
  /\ overtaken' = (overtaken \/ notice # NoNotice)
  /\ UNCHANGED <<now, waiting, cleared, usedTs, lastOut, busySince, exited,
                 file, cache, pc, notice, exitSent, spare, asked, freshOut>>

-----------------------------------------------------------------------------
Environment ==
  \/ Tick \/ ShellEnds \/ Write
  \/ \E osc \in BOOLEAN : Output(osc)
  \/ \E st \in {"busy", "waiting", "done", "none"} : Hook(st)

Backend == PollRead \/ PollDecide \/ PollSend \/ SendExit \/ Ack

Next == Environment \/ Backend

\* Time passes, and the status thread polls.
Fairness ==
  /\ WF_vars(Tick) /\ WF_vars(PollRead) /\ WF_vars(PollDecide) /\ WF_vars(PollSend)

SafetySpec == Init /\ [][Next]_vars
Spec == SafetySpec /\ Fairness
-----------------------------------------------------------------------------
(* Properties *)

File == [state : {"none", "busy", "waiting", "done"}, at : Nat]

\* Every variable has its type, and no time stamp is in the future.
TypeOK ==
  /\ now \in Nat
  /\ status \in Statuses /\ waiting \in BOOLEAN /\ exited \in BOOLEAN
  /\ cleared \in 0..now /\ usedTs \in 0..now /\ lastOut \in 0..now /\ busySince \in 0..now
  /\ file \in File /\ file.at <= now /\ cache \in File /\ cache.at <= now
  /\ pc \in {"sleep", "decide", "send"} /\ notice \in Statuses \cup {NoNotice}
  /\ exitSent \in BOOLEAN /\ sent \in Statuses
  /\ spare \in Int /\ asked \in BOOLEAN /\ freshOut \in BOOLEAN /\ overtaken \in BOOLEAN

\* A session with hooks is never reported done more often than the tool stopped:
\* redraws after the end do not use the same Stop again (start_status_thread).
DonePerStop == spare >= 0

\* No completion notice without output since the one before: a quiet session is
\* not judged done again, whatever acks, inputs and hook files come in between
\* (decide_status).
DoneNeedsOutput == [][status' = "done" /\ status # "done" => freshOut]_vars

\* A permission request the user has answered does not come back with an old
\* hook file, however late the poll reads it (waiting_cleared_ms).
WaitingIsAsked == [][status' = "waiting" /\ status # "waiting" => asked]_vars

\* An ended session stays ended in the backend, whatever the poll, acks and hook
\* files still bring.
EndIsFinal == [][status = "exited" => status' = "exited"]_vars

\* When no notice is still to be sent, the last one told the backend's status,
\* unless an ack or the end of the session overtook a notice of the poll.
NoticesAreRight ==
  notice = NoNotice /\ (exited => exitSent) /\ ~overtaken => sent = status

\* The inductive invariant behind these: what the status and the pending notice say
\* of each other; output is recent while running; a request in force was asked;
\* every unused Stop is counted, twice when the file has a newer one than the copy.
NoticeInv ==
  /\ exited <=> status = "exited"
  /\ exitSent => exited
  /\ pc = "send" <=> notice # NoNotice
  /\ ~overtaken =>
       \/ exited /\ ~exitSent
       \/ (IF notice = NoNotice THEN sent ELSE notice) = status
OutputInv ==
  /\ status = "running" => freshOut
  /\ ~freshOut => now - lastOut >= BusyHold
Requests(f) == f.state = "waiting" /\ Ts(f) > cleared
RequestInv == waiting \/ Requests(file) \/ Requests(cache) => asked
Unused(f) == f.state = "done" /\ Ts(f) > usedTs
StopInv ==
  /\ spare >= 0
  /\ Unused(file) \/ Unused(cache) => spare >= 1
  /\ Unused(file) /\ Unused(cache) /\ Ts(file) > Ts(cache) => spare >= 2
StatusInv == NoticeInv /\ OutputInv /\ RequestInv /\ StopInv

\* Running ends when output does, Stop hook or not (HOOK_STALE_MS).
RunningEnds == (status = "running") ~> (status # "running")
=============================================================================
