----------------------------- MODULE FileTransfers -----------------------------
(***************************************************************************)
(* What sftpStore promises about uploads and downloads, without calls, copy *)
(* loops, chunks or events.  The file of a transfer is made once, grows and *)
(* is never cut again; a transfer succeeds only with its whole file.  While *)
(* its outcome is awaited a transfer is shown as in progress, or as         *)
(* completed from the moment a transfer of the same explorer in the same    *)
(* direction has its whole file.  When the outcome arrives it is shown, and *)
(* nothing changes it any more but the closing of the explorer.             *)
(* SftpStore is shown to implement this module.                             *)
(***************************************************************************)
CONSTANTS
    Transfers,      \* transfer ids
    Explorers,      \* explorer ids
    None

VARIABLES
    of,             \* [Transfers -> the explorer, or None]
    isUpload,       \* [Transfers -> BOOLEAN]
    phase,          \* [Transfers -> {"new", "under way", "ok", "error"}]
    file,           \* [Transfers -> {"absent", "partial", "whole"}]
    settled,        \* the transfers whose outcome has arrived
    shown           \* [Transfers -> status in the list of transfers, or None]

vars == <<of, isUpload, phase, file, settled, shown>>

Init ==
    /\ of = [t \in Transfers |-> None]
    /\ isUpload = [t \in Transfers |-> TRUE]
    /\ phase = [t \in Transfers |-> "new"]
    /\ file = [t \in Transfers |-> "absent"]
    /\ settled = {}
    /\ shown = [t \in Transfers |-> None]

Ask(t, e, up) ==
    /\ phase[t] = "new"
    /\ phase' = [phase EXCEPT ![t] = "under way"]
    /\ of' = [of EXCEPT ![t] = e]
    /\ isUpload' = [isUpload EXCEPT ![t] = up]
    /\ shown' = [shown EXCEPT ![t] = "in_progress"]
    /\ UNCHANGED <<file, settled>>

\* The destination is made, and later has all of the source.
Begin(t) ==
    /\ phase[t] = "under way" /\ file[t] = "absent"
    /\ file' = [file EXCEPT ![t] = "partial"]
    /\ UNCHANGED <<of, isUpload, phase, settled, shown>>

Complete(t) ==
    /\ phase[t] = "under way" /\ file[t] = "partial"
    /\ file' = [file EXCEPT ![t] = "whole"]
    /\ UNCHANGED <<of, isUpload, phase, settled, shown>>

Succeed(t) ==
    /\ phase[t] = "under way" /\ file[t] = "whole"
    /\ phase' = [phase EXCEPT ![t] = "ok"]
    /\ UNCHANGED <<of, isUpload, file, settled, shown>>

\* At any time: what is there of the file stays.
Fail(t) ==
    /\ phase[t] = "under way"
    /\ phase' = [phase EXCEPT ![t] = "error"]
    /\ UNCHANGED <<of, isUpload, file, settled, shown>>

\* That the file of t is whole is told of all that are like t.
Announce(t) ==
    /\ file[t] = "whole"
    /\ shown' = [u \in Transfers |->
           IF shown[u] = "in_progress" /\ of[u] = of[t] /\ isUpload[u] = isUpload[t]
           THEN "completed"
           ELSE shown[u]]
    /\ UNCHANGED <<of, isUpload, phase, file, settled>>

\* The outcome arrives, once.
Settle(t) ==
    /\ phase[t] \in {"ok", "error"}
    /\ t \notin settled
    /\ settled' = settled \cup {t}
    /\ shown' = [shown EXCEPT ![t] =
           IF @ = None THEN None ELSE IF phase[t] = "ok" THEN "completed" ELSE "failed"]
    /\ UNCHANGED <<of, isUpload, phase, file>>

\* The explorer is closed, and its transfers leave the list.
Forget(e) ==
    /\ shown' = [t \in Transfers |-> IF of[t] = e THEN None ELSE shown[t]]
    /\ UNCHANGED <<of, isUpload, phase, file, settled>>

Next ==
    \/ \E t \in Transfers :
           \/ \E e \in Explorers, up \in BOOLEAN : Ask(t, e, up)
           \/ Begin(t) \/ Complete(t) \/ Succeed(t) \/ Fail(t) \/ Announce(t) \/ Settle(t)
    \/ \E e \in Explorers : Forget(e)

Spec == Init /\ [][Next]_vars
=============================================================================
