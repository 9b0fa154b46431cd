--------------------------------- MODULE MCTrim ---------------------------------
(* One stream, and reads that are small against the buffer, as 4096 bytes are     *)
(* against 256 KB: eight units fill it, and the ninth makes it be trimmed.        *)
EXTENDS OutputBridge

MCMaxOutput == [p \in Pumps |-> 9]
=============================================================================
