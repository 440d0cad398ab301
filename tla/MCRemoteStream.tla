--------------------------- MODULE MCRemoteStream ---------------------------
(* Small instance of RemoteStream for TLC: two sessions, a ring of one chunk  *)
(* (any receiver more than one chunk behind lags), a snapshot of two.         *)
EXTENDS RemoteStream
=============================================================================
