----------------------------- MODULE MCOutputBridge -----------------------------
(* A buffer of four units, reads of one or two, three units on one stream and    *)
(* two on the other, where the last two of each are one character: the buffer is *)
(* filled to the limit, overflows, is trimmed and is flushed in every order,     *)
(* before and after the terminal is mounted, and characters come in one read or  *)
(* in two.                                                                       *)
EXTENDS TerminalScreen

CONSTANTS stdout, stderr

MCPumps == {stdout, stderr}

MCMaxOutput == [p \in Pumps |-> IF p = stdout THEN 3 ELSE 2]

MCJoined == {<<stdout, 2>>, <<stderr, 1>>}
=============================================================================
