------------------------ MODULE SessionStatus_proofs ------------------------
(***************************************************************************)
(* Proofs about SessionStatus, for every choice of its time spans.  The    *)
(* only fact of arithmetic they rest on is that a hook's coarse time stamp *)
(* is not later than the moment it was taken.                              *)
(***************************************************************************)
EXTENDS SessionStatus, TLAPS

\* A coarse time stamp is a natural number and not in the future.
LEMMA StampBound ==
  ASSUME NEW n \in Nat, NEW g \in Nat \ {0}
  PROVE  g * (n \div g) \in Nat /\ g * (n \div g) <= n
OBVIOUS

\* The clock starts late enough for a session that has not written yet.
LEMMA StartBound ==
  ASSUME NEW g \in Nat \ {0}, NEW b \in Nat \ {0}
  PROVE  g * b \in Nat /\ g * b >= b
OBVIOUS

LEMMA StampOfFile ==
  ASSUME StatusAssumption, NEW f \in File
  PROVE  Ts(f) \in Nat /\ Ts(f) <= f.at
<1>1. f.at \in Nat /\ Grain \in Nat \ {0}
  BY DEF File, StatusAssumption
<1>2. QED
  BY <1>1, StampBound DEF Ts

-----------------------------------------------------------------------------
(* Types *)

\* What decide_status can answer: "done" anew only from a running session that is
\* quiet, and with a Stop of its own where there are hooks.
LEMMA DecideCases ==
  ASSUME StatusAssumption, status \in Statuses,
         NEW wait \in BOOLEAN, NEW q \in Int, NEW b \in Int
  PROVE  /\ Decide(wait, q, b) \in Statuses
         /\ Decide(wait, q, b) = "waiting" => wait
         /\ Decide(wait, q, b) = "exited" => status = "exited"
         /\ Decide(wait, q, b) = "running" => status = "running" \/ q < BusyHold
         /\ Decide(wait, q, b) = "done" /\ status # "done" =>
              status = "running" /\ ~(q < BusyHold) /\ (cache.state # "none" => FreshDone)
  BY DEF Decide, RunningNext, Statuses

LEMMA TypeInit == StatusAssumption /\ Init => TypeOK
<1> SUFFICES ASSUME StatusAssumption, Init PROVE TypeOK
  OBVIOUS
<1>1. Start \in Nat
  BY StartBound DEF StatusAssumption, Start
<1>2. NoFile \in File /\ NoFile.at = 0
  BY DEF NoFile, File
<1>3. file \in File /\ file.at <= now /\ cache \in File /\ cache.at <= now
  BY <1>1, <1>2 DEF Init
<1>4. /\ now \in Nat /\ busySince \in 0..now
      /\ cleared \in 0..now /\ usedTs \in 0..now /\ lastOut \in 0..now
  BY <1>1 DEF Init
<1>5. /\ waiting \in BOOLEAN /\ exited \in BOOLEAN /\ exitSent \in BOOLEAN
      /\ asked \in BOOLEAN /\ freshOut \in BOOLEAN /\ overtaken \in BOOLEAN
  BY DEF Init
<1>6. status \in Statuses /\ sent \in Statuses /\ notice \in Statuses \cup {NoNotice}
  BY DEF Init, Statuses
<1>7. QED
  BY <1>3, <1>4, <1>5, <1>6 DEF Init, TypeOK

\* The round of the poll keeps the types: stamps it notes are a hook's, not in the future.
LEMMA TypeDecide == ASSUME StatusAssumption, TypeOK, PollDecide PROVE TypeOK'
<1>1. Ts(cache) \in Nat /\ Ts(cache) <= now
  BY StampOfFile DEF TypeOK, File
<1>2. CASE Skipped
  BY <1>2 DEF PollDecide, TypeOK, metaVars
<1>3. CASE ~Skipped
  <2> DEFINE newer == Ts(cache) > cleared
             ended == newer /\ cache.state \in {"busy", "done"}
             wait == (waiting /\ ~ended) \/ (newer /\ cache.state = "waiting")
             next == Decide(wait, now - lastOut, now - busySince)
  <2>1. wait \in BOOLEAN
    BY DEF TypeOK
  <2>2. now - lastOut \in Int /\ now - busySince \in Int /\ status \in Statuses
    BY DEF TypeOK
  <2> HIDE DEF wait
  <2>3. next \in Statuses
    BY <2>1, <2>2, DecideCases
  <2>4. /\ waiting' = wait /\ status' = next
        /\ cleared' \in {cleared, Ts(cache)} /\ usedTs' \in {usedTs, Ts(cache)}
        /\ notice' \in {next, NoNotice} /\ pc' \in {"send", "sleep"}
        /\ spare' \in {spare, spare - 1} /\ freshOut' \in BOOLEAN
        /\ UNCHANGED <<lastOut, busySince, exited, now, file, cache, exitSent, sent,
                       asked, overtaken>>
    BY <1>3 DEF PollDecide, TypeOK, wait
  <2> HIDE DEF next
  <2>5. QED
    BY <1>1, <2>1, <2>3, <2>4 DEF TypeOK
<1>4. QED
  BY <1>2, <1>3

LEMMA TypeNext == StatusAssumption /\ TypeOK /\ NoticeInv /\ [Next]_vars => TypeOK'
<1> SUFFICES ASSUME StatusAssumption, TypeOK, NoticeInv, [Next]_vars PROVE TypeOK'
  OBVIOUS
<1>1. CASE Tick
  <2>1. file.at \in Nat /\ cache.at \in Nat
    BY DEF TypeOK, File
  <2>2. now' \in Nat /\ \A n \in Nat : n <= now => n <= now'
    BY <1>1 DEF Tick, TypeOK
  <2>3. QED
    BY <1>1, <2>1, <2>2 DEF Tick, TypeOK, metaVars, threadVars, histVars
<1>2. CASE ShellEnds
  BY <1>2 DEF ShellEnds, TypeOK, threadVars, histVars, Statuses
<1>3. CASE Write
  <2>1. waiting' \in BOOLEAN /\ asked' \in BOOLEAN
    BY <1>3 DEF Write
  <2>2. now' = now /\ cleared' \in 0..now
    BY <1>3 DEF Write, TypeOK
  <2>3. QED
    BY <1>3, <2>1, <2>2 DEF Write, TypeOK, threadVars
<1>4. ASSUME NEW osc \in BOOLEAN, Output(osc) PROVE TypeOK'
  BY <1>4 DEF Output, TypeOK, threadVars
<1>5. ASSUME NEW st \in {"busy", "waiting", "done", "none"}, Hook(st) PROVE TypeOK'
  <2>1. file' \in File /\ file'.at <= now
    <3>1. NoFile \in File /\ NoFile.at = 0
      BY DEF NoFile, File
    <3>2. [state |-> st, at |-> now] \in File
      BY DEF TypeOK, File
    <3>3. QED
      BY <1>5, <3>1, <3>2 DEF Hook, TypeOK
  <2>2. spare' \in Int /\ asked' \in BOOLEAN
    BY <1>5 DEF Hook, TypeOK
  <2>3. QED
    BY <1>5, <2>1, <2>2 DEF Hook, TypeOK, metaVars
<1>6. CASE PollRead
  BY <1>6 DEF PollRead, TypeOK, metaVars, histVars
<1>7. CASE PollDecide
  BY <1>7, TypeDecide
<1>8. CASE PollSend
  <2>1. sent' \in Statuses
    BY <1>8 DEF PollSend, TypeOK, NoticeInv
  <2>2. QED
    BY <1>8, <2>1 DEF PollSend, TypeOK, metaVars, histVars
<1>9. CASE SendExit
  BY <1>9 DEF SendExit, TypeOK, metaVars, Statuses
<1>10. CASE Ack
  BY <1>10 DEF Ack, TypeOK, Statuses
<1>11. CASE UNCHANGED vars
  BY <1>11 DEF vars, TypeOK, metaVars, threadVars, histVars
<1>12. QED
  BY <1>1, <1>2, <1>3, <1>4, <1>5, <1>6, <1>7, <1>8, <1>9, <1>10, <1>11
     DEF Next, Environment, Backend

-----------------------------------------------------------------------------
(* The inductive invariant *)

LEMMA InvInit == StatusAssumption /\ Init => StatusInv
<1> SUFFICES ASSUME StatusAssumption, Init PROVE StatusInv
  OBVIOUS
<1>1. Start \in Nat /\ Start >= BusyHold /\ BusyHold \in Nat
  BY StartBound DEF StatusAssumption, Start
<1>2. NoticeInv
  BY DEF Init, NoticeInv, NoNotice
<1>3. OutputInv
  BY <1>1 DEF Init, OutputInv
<1>4. RequestInv /\ StopInv
  BY DEF Init, RequestInv, StopInv, Requests, Unused, NoFile
<1>5. QED
  BY <1>2, <1>3, <1>4 DEF StatusInv

\* The round of the poll keeps the four parts: a notice is pending exactly when the
\* status changed; "done" anew needs output and uses one Stop; a request in force
\* stays one the user was asked.
LEMMA InvDecide == ASSUME StatusAssumption, TypeOK, StatusInv, PollDecide PROVE StatusInv'
<1> USE DEF StatusInv
<1>1. /\ Ts(cache) \in Nat /\ Ts(file) \in Nat
      /\ Ts(cache)' = Ts(cache) /\ Ts(file)' = Ts(file)
      /\ cleared \in Nat /\ usedTs \in Nat /\ spare \in Int
  BY StampOfFile DEF TypeOK, PollDecide, Ts
<1>2. CASE Skipped
  <2>1. /\ UNCHANGED <<status, waiting, cleared, usedTs, lastOut, exited, notice, spare,
                       freshOut, now, file, cache, exitSent, sent, asked, overtaken>>
        /\ pc = "decide" /\ pc' = "sleep"
    BY <1>2 DEF PollDecide, metaVars
  <2>2. NoticeInv' /\ OutputInv'
    BY <2>1 DEF NoticeInv, OutputInv
  <2>3. RequestInv' /\ StopInv'
    BY <1>1, <2>1 DEF RequestInv, StopInv, Requests, Unused
  <2>4. QED
    BY <2>2, <2>3
<1>3. CASE ~Skipped
  <2> DEFINE newer == Ts(cache) > cleared
             ended == newer /\ cache.state \in {"busy", "done"}
             wait == (waiting /\ ~ended) \/ (newer /\ cache.state = "waiting")
             next == Decide(wait, now - lastOut, now - busySince)
             done == next = "done" /\ status # "done"
  <2>1. wait \in BOOLEAN /\ ended \in BOOLEAN /\ done \in BOOLEAN
    BY DEF TypeOK
  <2>2. /\ pc = "decide" /\ waiting' = wait
        /\ cleared' = IF ended THEN Ts(cache) ELSE cleared
        /\ usedTs' = IF next = "done" /\ FreshDone THEN Ts(cache) ELSE usedTs
        /\ status' = next
        /\ notice' = IF next # status THEN next ELSE NoNotice
        /\ pc' = IF next # status THEN "send" ELSE "sleep"
        /\ spare' = IF done /\ cache.state # "none" THEN spare - 1 ELSE spare
        /\ freshOut' = (freshOut /\ ~done)
        /\ UNCHANGED <<lastOut, busySince, exited, now, file, cache, exitSent, sent,
                       asked, overtaken>>
    BY <1>3 DEF PollDecide
  <2>3. wait => asked
    BY DEF RequestInv, Requests
  <2>4. /\ next \in Statuses /\ (next = "exited" => status = "exited")
        /\ next = "running" => status = "running" \/ now - lastOut < BusyHold
        /\ done => status = "running" /\ ~(now - lastOut < BusyHold)
                   /\ (cache.state # "none" => FreshDone)
    <3>1. now - lastOut \in Int /\ now - busySince \in Int /\ status \in Statuses
      BY DEF TypeOK
    <3> HIDE DEF wait
    <3>2. QED
      BY <2>1, <3>1, DecideCases
  <2>5. cleared' >= cleared /\ cleared' \in Nat
    BY <1>1, <2>1, <2>2
  <2> HIDE DEF wait, ended, next, done
  <2>6. NoticeInv'
    <3>1. status # "exited" /\ ~exited /\ next # "exited" /\ next # NoNotice
      BY <1>3, <2>4 DEF NoticeInv, Skipped, Statuses, NoNotice
    <3>2. notice = NoNotice
      BY <2>2 DEF NoticeInv
    <3>3. QED
      BY <2>2, <3>1, <3>2 DEF NoticeInv
  <2>7. OutputInv'
    <3>1. now \in Nat /\ lastOut \in Nat /\ BusyHold \in Nat /\ freshOut \in BOOLEAN
      BY DEF TypeOK, StatusAssumption
    <3>2. next = "running" => freshOut
      BY <2>4, <3>1 DEF OutputInv
    <3>3. done => next = "done" /\ ~(now - lastOut < BusyHold)
      BY <2>4 DEF done
    <3>4. QED
      BY <2>1, <2>2, <3>1, <3>2, <3>3 DEF OutputInv
  <2>8. RequestInv'
    <3>1. (Requests(file)' => Requests(file)) /\ (Requests(cache)' => Requests(cache))
      BY <1>1, <2>2, <2>5 DEF Requests
    <3>2. QED
      BY <2>2, <2>3, <3>1 DEF RequestInv
  <2>9. StopInv'
    <3>1. file' = file /\ cache' = cache
      BY <2>2
    <3>2. CASE done /\ cache.state # "none"
      <4>1. next = "done" /\ FreshDone
        BY <2>4, <3>2 DEF done
      <4>2. usedTs' = Ts(cache) /\ spare' = spare - 1 /\ Unused(cache)
        BY <2>2, <3>2, <4>1 DEF FreshDone, Unused
      <4>3. Unused(file)' => Unused(file) /\ Ts(file) > Ts(cache)
        BY <1>1, <3>1, <4>2 DEF Unused
      <4>4. ~Unused(cache)'
        BY <1>1, <3>1, <4>2 DEF Unused
      <4>5. QED
        BY <1>1, <4>2, <4>3, <4>4 DEF StopInv
    <3>3. CASE ~(done /\ cache.state # "none")
      <4>1. spare' = spare /\ usedTs' >= usedTs /\ usedTs' \in Nat
        BY <1>1, <2>2, <3>3 DEF FreshDone
      <4>2. (Unused(file)' => Unused(file)) /\ (Unused(cache)' => Unused(cache))
        BY <1>1, <3>1, <4>1 DEF Unused
      <4>3. QED
        BY <1>1, <4>1, <4>2 DEF StopInv
    <3>4. QED
      BY <3>2, <3>3
  <2>10. QED
    BY <2>6, <2>7, <2>8, <2>9
<1>4. QED
  BY <1>2, <1>3

LEMMA InvNext == StatusAssumption /\ TypeOK /\ StatusInv /\ [Next]_vars => StatusInv'
<1> SUFFICES ASSUME StatusAssumption, TypeOK, StatusInv, [Next]_vars PROVE StatusInv'
  OBVIOUS
<1> USE DEF StatusInv
<1>t. /\ now \in Nat /\ lastOut \in Nat /\ BusyHold \in Nat \ {0} /\ cleared \in Nat
      /\ usedTs \in Nat /\ spare \in Int
      /\ asked \in BOOLEAN /\ freshOut \in BOOLEAN /\ waiting \in BOOLEAN
  BY DEF TypeOK, StatusAssumption
<1>s. /\ Ts(file) \in Nat /\ Ts(file) <= now /\ Ts(cache) \in Nat /\ Ts(cache) <= now
  BY StampOfFile DEF TypeOK, File
<1>1. CASE Tick
  <2>1. NoticeInv' /\ RequestInv' /\ StopInv'
    BY <1>1 DEF Tick, metaVars, threadVars, histVars, NoticeInv, RequestInv, StopInv,
                Requests, Unused, Ts
  <2>2. OutputInv'
    BY <1>t, <1>1 DEF Tick, metaVars, histVars, OutputInv
  <2>3. QED
    BY <2>1, <2>2
<1>2. CASE ShellEnds
  <2>1. exited' = TRUE /\ status' = "exited" /\ ~exited
        /\ UNCHANGED <<waiting, cleared, usedTs, lastOut, now, threadVars, histVars>>
    BY <1>2 DEF ShellEnds
  <2>2. NoticeInv'
    BY <2>1 DEF NoticeInv, threadVars, histVars
  <2>3. OutputInv' /\ RequestInv' /\ StopInv'
    BY <2>1 DEF OutputInv, RequestInv, StopInv, Requests, Unused, Ts, threadVars, histVars
  <2>4. QED
    BY <2>2, <2>3
<1>3. CASE Write
  <2>1. /\ waiting' = FALSE /\ cleared' = now /\ asked' = FALSE
        /\ UNCHANGED <<now, status, usedTs, lastOut, exited, threadVars, spare, freshOut,
                       overtaken>>
    BY <1>3 DEF Write
  <2>2. NoticeInv' /\ OutputInv' /\ StopInv'
    BY <2>1 DEF NoticeInv, OutputInv, StopInv, Unused, Ts, threadVars
  <2>3. RequestInv'
    <3>1. file' = file /\ cache' = cache
      BY <2>1 DEF threadVars
    <3>2. ~Requests(file)' /\ ~Requests(cache)'
      BY <1>t, <1>s, <2>1, <3>1 DEF Requests, Ts
    <3>3. QED
      BY <2>1, <3>2 DEF RequestInv
  <2>4. QED
    BY <2>2, <2>3
<1>4. ASSUME NEW osc \in BOOLEAN, Output(osc) PROVE StatusInv'
  <2>1. /\ lastOut' = now /\ waiting' = (waiting \/ osc)
        /\ asked' = (asked \/ osc) /\ freshOut' = TRUE
        /\ UNCHANGED <<now, status, cleared, usedTs, exited, threadVars, spare, overtaken>>
    BY <1>4 DEF Output
  <2>2. NoticeInv' /\ StopInv'
    BY <2>1 DEF NoticeInv, StopInv, Unused, Ts, threadVars
  <2>3. OutputInv'
    BY <2>1 DEF OutputInv
  <2>4. RequestInv'
    BY <1>t, <2>1 DEF RequestInv, Requests, Ts, threadVars
  <2>5. QED
    BY <2>2, <2>3, <2>4
<1>5. ASSUME NEW st \in {"busy", "waiting", "done", "none"}, Hook(st) PROVE StatusInv'
  <2>1. /\ file' = IF st = "none" THEN NoFile ELSE [state |-> st, at |-> now]
        /\ spare' = IF st = "done" THEN spare + 1 ELSE spare
        /\ asked' = (asked \/ st = "waiting")
        /\ UNCHANGED <<now, metaVars, cache, pc, notice, exitSent, sent, freshOut, overtaken>>
    BY <1>5 DEF Hook
  <2>2. NoticeInv' /\ OutputInv'
    BY <2>1 DEF NoticeInv, OutputInv, metaVars
  <2>3. file'.state = st
    BY <2>1 DEF NoFile
  <2>4. (Requests(file)' => st = "waiting") /\ (Requests(cache)' => Requests(cache))
    BY <2>1, <2>3 DEF Requests, Ts, metaVars
  <2>5. RequestInv'
    BY <1>t, <2>1, <2>4 DEF RequestInv, metaVars
  <2>6. (Unused(file)' => st = "done") /\ (Unused(cache)' => Unused(cache))
    BY <2>1, <2>3 DEF Unused, Ts, metaVars
  <2>7. StopInv'
    <3>1. spare' >= spare /\ spare' \in Int /\ (st = "done" => spare' = spare + 1)
      BY <1>t, <2>1
    <3>2. spare >= 0 /\ (Unused(cache) => spare >= 1)
      BY DEF StopInv
    <3> HIDE DEF StatusInv
    <3>3. QED
      BY <1>t, <2>6, <3>1, <3>2 DEF StopInv
  <2>8. QED
    BY <2>2, <2>5, <2>7
<1>6. CASE PollRead
  <2>1. /\ pc = "sleep" /\ pc' = "decide" /\ cache' = file /\ file' = file
        /\ UNCHANGED <<now, metaVars, notice, exitSent, sent, histVars>>
    BY <1>6 DEF PollRead
  <2>2. NoticeInv' /\ OutputInv'
    BY <2>1 DEF NoticeInv, OutputInv, metaVars, histVars
  <2>3. RequestInv'
    BY <2>1 DEF RequestInv, Requests, Ts, metaVars, histVars
  <2>4. StopInv'
    <3>1. /\ Ts(file)' = Ts(file) /\ Ts(cache)' = Ts(file)
          /\ Unused(file)' = Unused(file) /\ Unused(cache)' = Unused(file) /\ spare' = spare
      BY <2>1 DEF Unused, Ts, metaVars, histVars
    <3>2. QED
      BY <1>s, <3>1 DEF StopInv
  <2>5. QED
    BY <2>2, <2>3, <2>4
<1>7. CASE PollDecide
  BY <1>7, InvDecide
<1>8. CASE PollSend
  <2>1. /\ pc = "send" /\ pc' = "sleep" /\ notice' = NoNotice /\ sent' = notice
        /\ UNCHANGED <<now, metaVars, file, cache, exitSent, histVars>>
    BY <1>8 DEF PollSend
  <2>2. NoticeInv'
    BY <2>1 DEF NoticeInv, metaVars, histVars
  <2>3. OutputInv' /\ RequestInv' /\ StopInv'
    BY <2>1 DEF OutputInv, RequestInv, StopInv, Requests, Unused, Ts, metaVars, histVars
  <2>4. QED
    BY <2>2, <2>3
<1>9. CASE SendExit
  <2>1. /\ exited /\ exitSent' = TRUE /\ sent' = "exited"
        /\ overtaken' = (overtaken \/ notice # NoNotice)
        /\ UNCHANGED <<now, metaVars, file, cache, pc, notice, spare, asked, freshOut>>
    BY <1>9 DEF SendExit
  <2>2. NoticeInv'
    BY <2>1 DEF NoticeInv, metaVars
  <2>3. OutputInv' /\ RequestInv' /\ StopInv'
    BY <2>1 DEF OutputInv, RequestInv, StopInv, Requests, Unused, Ts, metaVars
  <2>4. QED
    BY <2>2, <2>3
<1>10. CASE Ack
  <2>1. /\ status = "done" /\ status' = "idle" /\ sent' = "idle"
        /\ overtaken' = (overtaken \/ notice # NoNotice)
        /\ UNCHANGED <<now, waiting, cleared, usedTs, lastOut, busySince, exited,
                       file, cache, pc, notice, exitSent, spare, asked, freshOut>>
    BY <1>10 DEF Ack
  <2>2. NoticeInv'
    BY <2>1 DEF NoticeInv
  <2>3. OutputInv' /\ RequestInv' /\ StopInv'
    BY <2>1 DEF OutputInv, RequestInv, StopInv, Requests, Unused, Ts
  <2>4. QED
    BY <2>2, <2>3
<1>11. CASE UNCHANGED vars
  <2>1. UNCHANGED <<now, status, waiting, cleared, usedTs, lastOut, exited, file, cache, pc,
                    notice, exitSent, sent, spare, asked, freshOut, overtaken>>
    BY <1>11 DEF vars, metaVars, threadVars, histVars
  <2>2. QED
    BY <2>1 DEF NoticeInv, OutputInv, RequestInv, StopInv, Requests, Unused, Ts
<1>12. QED
  BY <1>1, <1>2, <1>3, <1>4, <1>5, <1>6, <1>7, <1>8, <1>9, <1>10, <1>11
     DEF Next, Environment, Backend

\* The status changes only by the end of the shell, an ack of a done session, and a
\* round of the poll of a session that has not ended.
LEMMA StatusChanges ==
  ASSUME StatusAssumption, TypeOK, [Next]_vars, status' # status
  PROVE  \/ status' = "exited"
         \/ status = "done" /\ status' = "idle"
         \/ /\ PollDecide /\ ~exited
            /\ status' = "exited" => status = "exited"
            /\ status' = "waiting" =>
                 waiting \/ Requests(cache)
            /\ status' = "done" => status = "running"
<1>1. CASE PollDecide
  <2> DEFINE newer == Ts(cache) > cleared
             ended == newer /\ cache.state \in {"busy", "done"}
             wait == (waiting /\ ~ended) \/ (newer /\ cache.state = "waiting")
             next == Decide(wait, now - lastOut, now - busySince)
  <2>1. ~exited /\ status' = next
    BY <1>1 DEF PollDecide, Skipped, metaVars
  <2>2. wait => waiting \/ Requests(cache)
    BY DEF Requests
  <2>3. wait \in BOOLEAN /\ now - lastOut \in Int /\ now - busySince \in Int
        /\ status \in Statuses
    BY DEF TypeOK
  <2> HIDE DEF wait
  <2>4. /\ next = "waiting" => wait
        /\ next = "exited" => status = "exited"
        /\ next = "done" /\ status # "done" => status = "running"
    BY <2>3, DecideCases
  <2> HIDE DEF next
  <2>5. QED
    BY <1>1, <2>1, <2>2, <2>4
<1>2. CASE Tick \/ Write \/ PollRead \/ PollSend \/ SendExit \/ UNCHANGED vars
  BY <1>2 DEF Tick, Write, PollRead, PollSend, SendExit, vars, metaVars
<1>3. CASE \E osc \in BOOLEAN : Output(osc)
  BY <1>3 DEF Output
<1>4. CASE \E st \in {"busy", "waiting", "done", "none"} : Hook(st)
  BY <1>4 DEF Hook, metaVars
<1>5. CASE ShellEnds \/ Ack
  BY <1>5 DEF ShellEnds, Ack
<1>6. QED
  BY <1>1, <1>2, <1>3, <1>4, <1>5 DEF Next, Environment, Backend

\* The types and the inductive invariant hold always; the theorems below are read
\* off from it.
THEOREM StatusIsSound == SafetySpec => [](TypeOK /\ StatusInv)
<1>1. Init => TypeOK /\ StatusInv
  BY StatusAssumption, TypeInit, InvInit
<1>2. TypeOK /\ StatusInv /\ [Next]_vars => (TypeOK /\ StatusInv)'
  BY StatusAssumption, TypeNext, InvNext DEF StatusInv
<1>3. QED
  BY <1>1, <1>2, PTL DEF SafetySpec

\* Every variable keeps its type, and no time stamp of the session lies in the
\* future (create, write, read_states), for every choice of the time spans.
THEOREM StatusTypes == SafetySpec => []TypeOK
  BY StatusIsSound, PTL

\* A tool's Stop makes at most one completion notice, whatever redraws, inputs and
\* acks follow it (used_done_ts in start_status_thread).
THEOREM OneDonePerStop == SafetySpec => []DonePerStop
<1>1. StatusInv => DonePerStop
  BY DEF StatusInv, StopInv, DonePerStop
<1>2. QED
  BY <1>1, StatusIsSound, PTL

\* With nothing left to send, and no notice overtaken by an ack or the end of the
\* session, the last notice told the backend's status (start_status_thread, ack).
THEOREM NoticesTellTheStatus == SafetySpec => []NoticesAreRight
<1>1. StatusInv => NoticesAreRight
  BY DEF StatusInv, NoticeInv, NoticesAreRight
<1>2. QED
  BY <1>1, StatusIsSound, PTL

\* No step takes an ended session out of "exited" (the reader thread's end, the poll's
\* skip, ack).
THEOREM EndedStaysEnded == SafetySpec => EndIsFinal
<1>1. TypeOK /\ StatusInv /\ [Next]_vars => [status = "exited" => status' = "exited"]_vars
  <2> SUFFICES ASSUME TypeOK, StatusInv, [Next]_vars, status = "exited", status' # "exited"
               PROVE  FALSE
    OBVIOUS
  <2>1. exited
    BY DEF StatusInv, NoticeInv
  <2>2. QED
    BY <2>1, StatusChanges, StatusAssumption
<1>2. QED
  BY <1>1, StatusIsSound, PTL DEF EndIsFinal, SafetySpec

\* A session is reported done only after output since it was last reported done
\* (decide_status: only a running session becomes done).
THEOREM DoneHasOutput == SafetySpec => DoneNeedsOutput
<1>1. TypeOK /\ StatusInv /\ [Next]_vars
        => [status' = "done" /\ status # "done" => freshOut]_vars
  <2> SUFFICES ASSUME TypeOK, StatusInv, [Next]_vars, status' = "done", status # "done"
               PROVE  freshOut
    OBVIOUS
  <2>1. status = "running"
    BY StatusChanges, StatusAssumption
  <2>2. QED
    BY <2>1 DEF StatusInv, OutputInv
<1>2. QED
  BY <1>1, StatusIsSound, PTL DEF DoneNeedsOutput, SafetySpec

\* A session is shown as waiting only for a request the user has not answered, however
\* old the hook file the poll reads is (waiting_cleared_ms in start_status_thread).
THEOREM WaitingHasRequest == SafetySpec => WaitingIsAsked
<1>1. TypeOK /\ StatusInv /\ [Next]_vars
        => [status' = "waiting" /\ status # "waiting" => asked]_vars
  <2> SUFFICES ASSUME TypeOK, StatusInv, [Next]_vars, status' = "waiting", status # "waiting"
               PROVE  asked
    OBVIOUS
  <2>1. waiting \/ Requests(cache)
    BY StatusChanges, StatusAssumption
  <2>2. QED
    BY <2>1 DEF StatusInv, RequestInv
<1>2. QED
  BY <1>1, StatusIsSound, PTL DEF WaitingIsAsked, SafetySpec
=============================================================================
