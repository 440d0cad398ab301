------------------------------ MODULE LiveWindow ------------------------------
(***************************************************************************)
(* What a viewer of terminal output is promised, whoever carries it: the   *)
(* screen shows a window of one session's output, without a gap and        *)
(* without a repetition.  The window grows at its end, or is replaced by a *)
(* snapshot that reaches at least as far.                                  *)
(*                                                                         *)
(* Implemented by RemoteStream (the phone).  The desktop's recovery path   *)
(* (SessionStream) keeps it but for a piece repeated after a snapshot and  *)
(* a frozen queue that overflows (SessionStream.ScreenContiguous).         *)
(***************************************************************************)
EXTENDS Integers, Sequences

CONSTANTS Sessions, NoSession

VARIABLES
  emitted,  \* emitted[s]: how many chunks session s has emitted
  of,       \* the session on the screen, or NoSession
  synced,   \* whether the screen follows the output
  text      \* the chunks on the screen, as <<session, number>>

vars == <<emitted, of, synced, text>>

Chunks(s, lo, hi) == [i \in 1..(hi - lo) |-> <<s, lo + i - 1>>]

\* the number of the chunk that comes after the text
EndOf(t) == IF t = <<>> THEN 0 ELSE t[Len(t)][2] + 1

Init ==
  /\ emitted = [s \in Sessions |-> 0]
  /\ of = NoSession /\ synced = FALSE /\ text = <<>>

Emit ==
  /\ \E s \in Sessions : emitted' = [emitted EXCEPT ![s] = @ + 1]
  /\ UNCHANGED <<of, synced, text>>

\* the user turns to a session, or away
Turn ==
  /\ of' \in Sessions \cup {NoSession}
  /\ synced' = FALSE /\ text' = <<>>
  /\ UNCHANGED emitted

\* the connection is lost, or the subscription is renewed: the text stays
Freeze ==
  /\ synced' = FALSE
  /\ UNCHANGED <<emitted, of, text>>

\* a snapshot replaces the text, and never takes it back
Load ==
  /\ of \in Sessions
  /\ \E hi \in EndOf(text)..emitted[of] : \E lo \in 0..hi :
       /\ lo = hi => hi = 0
       /\ text' = Chunks(of, lo, hi)
  /\ synced' = TRUE
  /\ UNCHANGED <<emitted, of>>

\* the next chunk
Extend ==
  /\ of \in Sessions /\ synced
  /\ EndOf(text) < emitted[of]
  /\ text' = Append(text, <<of, EndOf(text)>>)
  /\ UNCHANGED <<emitted, of, synced>>

Next == Emit \/ Turn \/ Freeze \/ Load \/ Extend
Spec == Init /\ [][Next]_vars
=============================================================================
