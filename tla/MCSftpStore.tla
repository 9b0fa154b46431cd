------------------------------ MODULE MCSftpStore ------------------------------
(* A root and a directory in it. *)
EXTENDS SftpStore

MCParent == [path \in Paths |-> Root]
=============================================================================
