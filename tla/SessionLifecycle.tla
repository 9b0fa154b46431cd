--------------------------- MODULE SessionLifecycle ---------------------------
(***************************************************************************)
(* What the session service promises about one terminal session, without   *)
(* goroutines, locks or contexts: its SSH connection is opened once and     *)
(* closed once; a start that is refused leaves no connection behind; the id *)
(* enters the map of active sessions at most once, only after the           *)
(* connection was opened, and leaves it for good; and the end of the        *)
(* session is recorded only when the id is gone and the connection is       *)
(* closed.  TerminalSession is shown to implement this module.              *)
(***************************************************************************)

CONSTANT Sessions           \* the session ids StartSession generates

VARIABLES
    connection,             \* [Sessions -> {"none", "open", "closed"}]
    listing,                \* [Sessions -> {"new", "refused", "listed", "withdrawn"}]
    recordedEnd             \* the sessions whose end time is in the history

vars == <<connection, listing, recordedEnd>>

Init ==
    /\ connection = [s \in Sessions |-> "none"]
    /\ listing = [s \in Sessions |-> "new"]
    /\ recordedEnd = {}

Connect(s) ==
    /\ connection[s] = "none"
    /\ listing[s] = "new"
    /\ connection' = [connection EXCEPT ![s] = "open"]
    /\ UNCHANGED <<listing, recordedEnd>>

\* StartSession returns an error: what it had connected is closed again.
Refuse(s) ==
    /\ listing[s] = "new"
    /\ listing' = [listing EXCEPT ![s] = "refused"]
    /\ connection' = [connection EXCEPT ![s] = IF @ = "open" THEN "closed" ELSE @]
    /\ UNCHANGED recordedEnd

\* The connection may be lost before the id is listed, so "closed" is allowed.
List(s) ==
    /\ connection[s] # "none"
    /\ listing[s] = "new"
    /\ listing' = [listing EXCEPT ![s] = "listed"]
    /\ UNCHANGED <<connection, recordedEnd>>

Withdraw(s) ==
    /\ listing[s] = "listed"
    /\ listing' = [listing EXCEPT ![s] = "withdrawn"]
    /\ UNCHANGED <<connection, recordedEnd>>

Release(s) ==
    /\ connection[s] = "open"
    /\ connection' = [connection EXCEPT ![s] = "closed"]
    /\ UNCHANGED <<listing, recordedEnd>>

RecordEnd(s) ==
    /\ connection[s] = "closed"
    /\ listing[s] = "withdrawn"
    /\ recordedEnd' = recordedEnd \cup {s}
    /\ UNCHANGED <<connection, listing>>

Next ==
    \E s \in Sessions :
        Connect(s) \/ Refuse(s) \/ List(s) \/ Withdraw(s) \/ Release(s) \/ RecordEnd(s)

Spec == Init /\ [][Next]_vars
=============================================================================
