--------------------------------- MODULE Dialer ---------------------------------
(***************************************************************************)
(* One dial and the SSH clients it opens: Dial, DialSimple, DialWithJump   *)
(* and dialViaClient (internal/infrastructure/ssh/client.go, jump.go),     *)
(* called by StartSession and TestConnection (internal/service).           *)
(*                                                                         *)
(* A connection may name a list of jump hosts.  Each is dialled through    *)
(* the client of the one before, the target through the last one, and      *)
(* each step may fail: a connection that is gone, a credential that is     *)
(* gone or cannot be decrypted, a key that cannot be parsed, a host that   *)
(* refuses.  The code keeps one client, currentClient; the others are held *)
(* only by the channels that run over them.                                *)
(***************************************************************************)
EXTENDS Naturals

CONSTANT MaxHops        \* bound: length of a list of jump hosts

ASSUME HopsAssumption == MaxHops \in Nat

VARIABLES
    phase,      \* where StartSession or TestConnection is
    hops,       \* len(jumpIDs)
    top,        \* clients dialled so far; the top-th is currentClient
    alive,      \* the clients whose connection is open.  Client i > 1 runs
                \* over a channel of client i - 1
    dropped     \* history: the clients whose host ended the connection

dialVars == <<phase, hops, top, alive, dropped>>

\* Clients are numbered in the order they are dialled; the target is the last.
Clients == 1..MaxHops + 1

-----------------------------------------------------------------------------
DialInit ==
    /\ phase = "idle"
    /\ hops = 0
    /\ top = 0
    /\ alive = {}
    /\ dropped = {}

\* StartSession has read the connection and its credential.  Without jump hosts it
\* dials directly, with the credential it has; otherwise DialWithJump resolves that of
\* each hop, and the target's again.
StartSession(n) ==
    /\ phase = "idle"
    /\ phase' = IF n = 0 THEN "dial" ELSE "resolve"
    /\ hops' = n
    /\ UNCHANGED <<top, alive, dropped>>

\* The connection, its credential or its list of jump hosts cannot be read.
StartFails ==
    /\ phase = "idle"
    /\ phase' = "failed"
    /\ UNCHANGED <<hops, top, alive, dropped>>

\* TestConnection dials directly, whatever the list of jump hosts, and with a context
\* that has no session id: Dial fails to build the authentication methods, or panics
\* in the type assertion that reads the id.
TestConnection ==
    /\ phase = "idle"
    /\ phase' \in {"failed", "panicked"}
    /\ UNCHANGED <<hops, top, alive, dropped>>

-----------------------------------------------------------------------------
(* DialWithJump, and Dial when there are no hops                           *)

\* Resolve of the next hop, or of the target after the last one.
Resolve ==
    /\ phase = "resolve"
    /\ phase' = "dial"
    /\ UNCHANGED <<hops, top, alive, dropped>>

\* The next client is up.  (Its keepAlive, if it gets one, changes nothing here.)
Connected ==
    /\ top' = top + 1
    /\ alive' = alive \cup {top + 1}
    /\ UNCHANGED <<hops, dropped>>

\* A bug to catch: the hop that the next client runs over is closed.
DialHopReplacing ==
    /\ phase = "dial"
    /\ top < hops
    /\ top > 0 => top \in alive
    /\ phase' = "resolve"
    /\ top' = top + 1
    /\ alive' = (alive \ {top}) \cup {top + 1}
    /\ UNCHANGED <<hops, dropped>>

\* A hop: the first directly, the others over a channel of currentClient.
DialHop ==
    /\ phase = "dial"
    /\ top < hops
    /\ top > 0 => top \in alive
    /\ phase' = "resolve"
    /\ Connected

DialTarget ==
    /\ phase = "dial"
    /\ top = hops
    /\ top > 0 => top \in alive
    /\ phase' = "connected"
    /\ Connected

\* Resolving, building the authentication methods, the channel or the handshake fails:
\* the new network connection, if any, and currentClient are closed.
DialFails ==
    /\ phase \in {"resolve", "dial"}
    /\ phase' = "failed"
    /\ alive' = alive \ {top}
    /\ UNCHANGED <<hops, top, dropped>>

-----------------------------------------------------------------------------
(* What happens to the clients                                             *)

\* A bug to catch: the client is left open when the bridge does not start.
EndWithoutClose ==
    /\ phase = "connected"
    /\ phase' = "ended"
    /\ UNCHANGED <<hops, top, alive, dropped>>

\* The bridge is closed, or could not be started: in both cases the client that
\* DialWithJump returned is closed.
CloseClient ==
    /\ phase = "connected"
    /\ phase' = "ended"
    /\ alive' = alive \ {top}
    /\ UNCHANGED <<hops, top, dropped>>

\* The host of a client ends the connection, at any time.
HostDrops(i) ==
    /\ i \in alive
    /\ alive' = alive \ {i}
    /\ dropped' = dropped \cup {i}
    /\ UNCHANGED <<phase, hops, top>>

\* A client whose channel went down with the client below it.
ChannelBreaks(i) ==
    /\ i \in alive
    /\ i > 1 /\ i - 1 \notin alive
    /\ alive' = alive \ {i}
    /\ UNCHANGED <<phase, hops, top, dropped>>

-----------------------------------------------------------------------------
DialNext ==
    \/ \E n \in 0..MaxHops : StartSession(n)
    \/ StartFails
    \/ TestConnection
    \/ Resolve
    \/ DialHop
    \/ DialTarget
    \/ DialFails
    \/ CloseClient
    \/ \E i \in Clients : HostDrops(i) \/ ChannelBreaks(i)

DialSpec == DialInit /\ [][DialNext]_dialVars

-----------------------------------------------------------------------------
(* Properties                                                              *)

DialTypeOK ==
    /\ phase \in {"idle", "resolve", "dial", "connected", "failed", "panicked", "ended"}
    /\ hops \in 0..MaxHops
    /\ top \in 0..MaxHops + 1
    /\ alive \in SUBSET Clients
    /\ dropped \in SUBSET Clients

\* While a dial goes on, and for as long as its session uses the client it returned,
\* the program itself closes none of the clients below: the chain is whole up to the
\* first one whose host ended the connection.
ChainIntact ==
    phase \in {"resolve", "dial", "connected"} =>
        \A i \in 1..top : i \in alive \/ \E j \in 1..i : j \in dropped

\* After a failure anywhere in the chain, or after the session, the client at its end is
\* closed, and a dial without jump hosts leaves nothing open.
EndIsClosed ==
    phase \in {"failed", "ended"} => alive \subseteq (1..hops) \ {top}
=============================================================================
