----------------------------- MODULE MCApplication -----------------------------
(* Three launches: one that saves, one that may fail half-way, one that reads.  *)
(* Two migrations of two statements, so that the second can fail after the      *)
(* first was committed.                                                         *)
EXTENDS Application
=============================================================================
