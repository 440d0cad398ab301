----------------------------- MODULE MCPtyControl -----------------------------
(* Small instance of PtyControl for TLC. *)
EXTENDS PtyControl
=============================================================================
