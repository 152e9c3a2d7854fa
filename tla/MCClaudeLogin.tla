--------------------------- MODULE MCClaudeLogin ---------------------------
(* Instances of ClaudeLogin for TLC. *)
EXTENDS ClaudeLogin
=============================================================================
