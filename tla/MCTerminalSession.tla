--------------------------- MODULE MCTerminalSession ---------------------------
(* One session whose calls and goroutines race in every way. *)
EXTENDS TerminalSession
=============================================================================
