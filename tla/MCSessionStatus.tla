--------------------------- MODULE MCSessionStatus ---------------------------
(* Small instance of SessionStatus for TLC; the times keep the order the      *)
(* program's have, BUSY_HOLD < DONE_MIN < DONE_QUIET < HOOK_STALE.            *)
EXTENDS SessionStatus
=============================================================================
