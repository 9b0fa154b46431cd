------------------------------ MODULE MCTabStore ------------------------------
(* A terminal tab and an SFTP tab, opened, closed, moved and clicked while      *)
(* their sessions are being started, closed and lost.  Three clicks hide a tab, *)
(* show it and hide it again, with the calls of each still under way or not     *)
(* when the next one comes.                                                     *)
EXTENDS TabStore
=============================================================================
