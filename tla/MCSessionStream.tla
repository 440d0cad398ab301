-------------------------- MODULE MCSessionStream --------------------------
(* Small instance of SessionStream for TLC; the sizes keep the order the      *)
(* program's have: EMIT_CHUNK = FLOW_HIGH < FROZEN_QUEUE_CAP < SCROLLBACK_CAP.*)
(* MaxOut is above every bound of BoundedMemory: the shell writes enough to   *)
(* exceed each of them if the reader or the emitter did not wait.             *)
EXTENDS SessionStream
=============================================================================
