------------------------------- MODULE MCSshDial --------------------------------
(* A session dialled over up to three jump hosts beside another one, with up to   *)
(* two rounds of questions each; every host may be lost at any time.              *)
EXTENDS SshDial
=============================================================================
