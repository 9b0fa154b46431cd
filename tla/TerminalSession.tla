---------------------------- MODULE TerminalSession ----------------------------
(***************************************************************************)
(* The life of a terminal session: SessionService                          *)
(* (internal/service/session_service.go) and the bridge it starts for each *)
(* session, SSHSessionBridge (internal/infrastructure/terminal/session.go).*)
(*                                                                         *)
(* One StartSession runs for each session id, in the goroutine of the      *)
(* frontend call.  It starts three more: a read pump for stdout, one for   *)
(* stderr, and the waiter on the remote shell.  Any number of CloseSession *)
(* calls may follow, and the application's Shutdown once.  What the pumps  *)
(* carry is the subject of OutputBridge; here a read either goes on or     *)
(* ends.                                                                   *)
(*                                                                         *)
(* SessionService.mu guards the map of active sessions.  Every critical    *)
(* section but one is a lookup, an insertion or a deletion, and is one     *)
(* step of the model; CloseAllSessions closes bridges inside its own, so   *)
(* mu is held exactly while shutdown = "locked".                           *)
(***************************************************************************)
EXTENDS FiniteSets, Naturals

CONSTANTS
    Sessions,       \* session ids
    Pumps,          \* the readers a bridge pumps: stdout and stderr
    Callers         \* goroutines of the frontend's CloseSession calls

VARIABLES
    start,          \* [Sessions -> progress of StartSession]
    active,         \* SessionService.activeSessions: the listed ids
    conn,           \* [Sessions -> state of the SSH connection]
    remote,         \* [Sessions -> what the remote side has done]
    cancelled,      \* the sessions whose bridge context is cancelled
    once,           \* [Sessions -> state of the sync.Once in Close]
    pump,           \* [Sessions -> [Pumps -> program counter]]
    waiter,         \* [Sessions -> program counter of wait()]
    history,        \* [Sessions -> the row in session_history]
    caller,         \* [Sessions -> [Callers -> progress of CloseSession]]
    shutdown,       \* progress of App.Shutdown
    target          \* the session CloseAllSessions is closing, {} between two

vars == <<start, active, conn, remote, cancelled, once, pump, waiter,
          history, caller, shutdown, target>>

startVars == <<start, conn>>
bridgeVars == <<cancelled, once>>
goroutineVars == <<pump, waiter>>
serviceVars == <<active, history>>
shutdownVars == <<shutdown, target>>

-----------------------------------------------------------------------------
Init ==
    /\ start = [s \in Sessions |-> "idle"]
    /\ active = {}
    /\ conn = [s \in Sessions |-> "none"]
    /\ remote = [s \in Sessions |-> "up"]
    /\ cancelled = {}
    /\ once = [s \in Sessions |-> "fresh"]
    /\ pump = [s \in Sessions |-> [p \in Pumps |-> "off"]]
    /\ waiter = [s \in Sessions |-> "off"]
    /\ history = [s \in Sessions |-> "none"]
    /\ caller = [s \in Sessions |-> [c \in Callers |-> "idle"]]
    /\ shutdown = "running"
    /\ target = {}

MuFree == shutdown # "locked"

\* App.Shutdown closes the database last; a statement then fails.
DatabaseOpen == shutdown # "done"

-----------------------------------------------------------------------------
(* StartSession                                                            *)

BeginStart(s) ==
    /\ start[s] = "idle"
    /\ start' = [start EXCEPT ![s] = "dialing"]
    /\ UNCHANGED <<conn, remote, bridgeVars, goroutineVars, serviceVars,
                   caller, shutdownVars>>

\* Dial or DialWithJump returned a client.
DialSucceeds(s) ==
    /\ start[s] = "dialing"
    /\ start' = [start EXCEPT ![s] = "dialed"]
    /\ conn' = [conn EXCEPT ![s] = "open"]
    /\ UNCHANGED <<remote, bridgeVars, goroutineVars, serviceVars, caller,
                   shutdownVars>>

\* The lookup of the connection, its credential, its jump hosts or the dial
\* failed: StartSession returns an error and leaves nothing behind.
DialFails(s) ==
    /\ start[s] = "dialing"
    /\ start' = [start EXCEPT ![s] = "failed"]
    /\ UNCHANGED <<conn, remote, bridgeVars, goroutineVars, serviceVars,
                   caller, shutdownVars>>

\* bridge.Start got its PTY, pipes and shell and started the goroutines.
BridgeStarts(s) ==
    /\ start[s] = "dialed"
    /\ start' = [start EXCEPT ![s] = "started"]
    /\ pump' = [pump EXCEPT ![s] = [p \in Pumps |-> "loop"]]
    /\ waiter' = [waiter EXCEPT ![s] = "wait"]
    /\ UNCHANGED <<conn, remote, bridgeVars, serviceVars, caller, shutdownVars>>

\* A bug to catch: a failed start leaves the client it dialled open.
LeaveClientOpen(s) ==
    /\ start[s] = "dialed"
    /\ start' = [start EXCEPT ![s] = "failed"]
    /\ UNCHANGED <<conn, remote, bridgeVars, goroutineVars, serviceVars, caller,
                   shutdownVars>>

\* One of the steps of bridge.Start failed: StartSession closes the client.
BridgeFails(s) ==
    /\ start[s] = "dialed"
    /\ start' = [start EXCEPT ![s] = "failed"]
    /\ conn' = [conn EXCEPT ![s] = "closed"]
    /\ UNCHANGED <<remote, bridgeVars, goroutineVars, serviceVars, caller,
                   shutdownVars>>

Register(s) ==
    /\ start[s] = "started"
    /\ MuFree
    /\ active' = active \cup {s}
    /\ start' = [start EXCEPT ![s] = "listed"]
    /\ UNCHANGED <<conn, remote, bridgeVars, goroutineVars, history, caller,
                   shutdownVars>>

\* sessionRepo.Create; its error is only logged.
RecordHistory(s) ==
    /\ start[s] = "listed"
    /\ \/ DatabaseOpen /\ history' = [history EXCEPT ![s] = "open"]
       \/ UNCHANGED history
    /\ start' = [start EXCEPT ![s] = "recorded"]
    /\ UNCHANGED <<active, conn, remote, bridgeVars, goroutineVars, caller,
                   shutdownVars>>

\* UpdateLastUsed (its error is only logged) and the return of the id.
ReturnId(s) ==
    /\ start[s] = "recorded"
    /\ start' = [start EXCEPT ![s] = "returned"]
    /\ UNCHANGED <<conn, remote, bridgeVars, goroutineVars, serviceVars,
                   caller, shutdownVars>>

-----------------------------------------------------------------------------
(* The remote side: it may half-close its output ("eof"), end the shell     *)
(* with exit status 0 ("exited"), or end it with an error or lose the       *)
(* connection ("failed").  In the last two cases the channel is closed.     *)

Ended == {"exited", "failed"}

RemoteChanges(s) ==
    /\ waiter[s] # "off"
    /\ conn[s] = "open"
    /\ \E r \in Ended \cup {"eof"} :
        /\ remote[s] \in {"up", "eof"} \ {r}
        /\ remote' = [remote EXCEPT ![s] = r]
    /\ UNCHANGED <<startVars, bridgeVars, goroutineVars, serviceVars, caller,
                   shutdownVars>>

-----------------------------------------------------------------------------
(* readPump                                                                *)

\* The select on ctx.Done at the top of the loop.
PumpLoops(s, p) ==
    /\ pump[s][p] = "loop"
    /\ pump' = [pump EXCEPT ![s][p] = IF s \in cancelled THEN "done" ELSE "read"]
    /\ UNCHANGED <<startVars, remote, bridgeVars, waiter, serviceVars, caller,
                   shutdownVars>>

\* Read returned data, which the pump emitted or buffered.  What is left to be
\* read after the end counts as part of the read that fails.
PumpReads(s, p) ==
    /\ pump[s][p] = "read"
    /\ conn[s] = "open"
    /\ remote[s] = "up"
    /\ pump' = [pump EXCEPT ![s][p] = "loop"]
    /\ UNCHANGED <<startVars, remote, bridgeVars, waiter, serviceVars, caller,
                   shutdownVars>>

\* Read returned an error; unless the context is cancelled the pump calls
\* onError, which emits the error and goes on to removeSession.
PumpEnds(s, p) ==
    /\ pump[s][p] = "read"
    /\ conn[s] = "closed" \/ remote[s] # "up"
    /\ pump' = [pump EXCEPT ![s][p] = IF s \in cancelled THEN "done" ELSE "remove"]
    /\ UNCHANGED <<startVars, remote, bridgeVars, waiter, serviceVars, caller,
                   shutdownVars>>

\* removeSession, called by a pump: it deletes the id whether or not it is
\* listed (yet), then emits the closed event.
PumpRemoves(s, p) ==
    /\ pump[s][p] = "remove"
    /\ MuFree
    /\ active' = active \ {s}
    /\ pump' = [pump EXCEPT ![s][p] = "done"]
    /\ UNCHANGED <<startVars, remote, bridgeVars, waiter, history, caller,
                   shutdownVars>>

-----------------------------------------------------------------------------
(* wait                                                                    *)

\* Session.Wait returned nil, or an error after the context was cancelled.
WaitReturns(s) ==
    /\ waiter[s] = "wait"
    /\ \/ remote[s] = "exited"
       \/ (remote[s] = "failed" \/ conn[s] = "closed") /\ s \in cancelled
    /\ waiter' = [waiter EXCEPT ![s] = "close"]
    /\ UNCHANGED <<startVars, remote, bridgeVars, pump, serviceVars, caller,
                   shutdownVars>>

\* Session.Wait returned an error and the context is not cancelled.
WaitFails(s) ==
    /\ waiter[s] = "wait"
    /\ remote[s] = "failed" \/ conn[s] = "closed"
    /\ s \notin cancelled
    /\ waiter' = [waiter EXCEPT ![s] = "remove"]
    /\ UNCHANGED <<startVars, remote, bridgeVars, pump, serviceVars, caller,
                   shutdownVars>>

\* A bug to catch: wait returns after it reported the error, without Close.
RemoveAndReturn(s) ==
    /\ waiter[s] = "remove"
    /\ MuFree
    /\ active' = active \ {s}
    /\ waiter' = [waiter EXCEPT ![s] = "done"]
    /\ UNCHANGED <<startVars, remote, bridgeVars, pump, history, caller,
                   shutdownVars>>

\* removeSession, called by wait.
WaiterRemoves(s) ==
    /\ waiter[s] = "remove"
    /\ MuFree
    /\ active' = active \ {s}
    /\ waiter' = [waiter EXCEPT ![s] = "close"]
    /\ UNCHANGED <<startVars, remote, bridgeVars, pump, history, caller,
                   shutdownVars>>

WaiterDone(s) ==
    /\ waiter[s] = "close"
    /\ once[s] = "done"
    /\ waiter' = [waiter EXCEPT ![s] = "done"]
    /\ UNCHANGED <<startVars, remote, bridgeVars, pump, serviceVars, caller,
                   shutdownVars>>

-----------------------------------------------------------------------------
(* SSHSessionBridge.Close: the first caller runs the body of once.Do, the   *)
(* others wait in it until the body has ended.  Which caller runs it makes  *)
(* no difference to the state.                                              *)

InClose(s) ==
    \/ waiter[s] = "close"
    \/ \E c \in Callers : caller[s][c] = "closing"
    \/ s \in target

\* A bug to catch: Close closes the client before it cancels the context.
CloseBeforeCancel(s) ==
    /\ InClose(s)
    /\ once[s] = "fresh"
    /\ once' = [once EXCEPT ![s] = "running"]
    /\ conn' = [conn EXCEPT ![s] = "closed"]
    /\ UNCHANGED <<start, remote, cancelled, goroutineVars, serviceVars,
                   caller, shutdownVars>>

CancelContext(s) ==
    /\ InClose(s)
    /\ once[s] = "fresh"
    /\ once' = [once EXCEPT ![s] = "running"]
    /\ cancelled' = cancelled \cup {s}
    /\ UNCHANGED <<startVars, remote, goroutineVars, serviceVars, caller,
                   shutdownVars>>

\* A bug to catch: Close waits for a pump that is reporting an error.
CloseAfterPumps(s) ==
    /\ once[s] = "running"
    /\ \A p \in Pumps : pump[s][p] # "remove"
    /\ once' = [once EXCEPT ![s] = "done"]
    /\ conn' = [conn EXCEPT ![s] = "closed"]
    /\ UNCHANGED <<start, remote, cancelled, goroutineVars, serviceVars,
                   caller, shutdownVars>>

\* Session.Close, Client.Close and close(done).
CloseClient(s) ==
    /\ once[s] = "running"
    /\ once' = [once EXCEPT ![s] = "done"]
    /\ conn' = [conn EXCEPT ![s] = "closed"]
    /\ UNCHANGED <<start, remote, cancelled, goroutineVars, serviceVars,
                   caller, shutdownVars>>

-----------------------------------------------------------------------------
(* CloseSession: the frontend knows the id once StartSession returned it.   *)

\* A bug to catch: the lookup leaves the entry in the map.
LookUpOnly(s, c) ==
    /\ start[s] = "returned"
    /\ caller[s][c] = "idle"
    /\ MuFree
    /\ s \in active
    /\ caller' = [caller EXCEPT ![s][c] = "closing"]
    /\ UNCHANGED <<startVars, remote, bridgeVars, goroutineVars, serviceVars,
                   shutdownVars>>

CloseSession(s, c) ==
    /\ start[s] = "returned"
    /\ caller[s][c] = "idle"
    /\ MuFree
    /\ s \in active
    /\ active' = active \ {s}
    /\ caller' = [caller EXCEPT ![s][c] = "closing"]
    /\ UNCHANGED <<startVars, remote, bridgeVars, goroutineVars, history,
                   shutdownVars>>

\* "session not found"
CloseSessionRefused(s, c) ==
    /\ start[s] = "returned"
    /\ caller[s][c] = "idle"
    /\ MuFree
    /\ s \notin active
    /\ caller' = [caller EXCEPT ![s][c] = "refused"]
    /\ UNCHANGED <<startVars, remote, bridgeVars, goroutineVars, serviceVars,
                   shutdownVars>>

\* A bug to catch: the error of bridge.Close skips UpdateEndTime.
ReturnCloseError(s, c) ==
    /\ caller[s][c] = "closing"
    /\ once[s] = "done"
    /\ caller' = [caller EXCEPT ![s][c] = "done"]
    /\ UNCHANGED <<startVars, remote, bridgeVars, goroutineVars, serviceVars,
                   shutdownVars>>

CloseReturns(s, c) ==
    /\ caller[s][c] = "closing"
    /\ once[s] = "done"
    /\ caller' = [caller EXCEPT ![s][c] = "ending"]
    /\ UNCHANGED <<startVars, remote, bridgeVars, goroutineVars, serviceVars,
                   shutdownVars>>

\* UpdateEndTime: an UPDATE by id, so it changes nothing where no row is.  It may fail,
\* as any statement may (another writer holds the database, the disk is full), and
\* fails when the database is closed; the error is dropped.
EndHistory(s, c) ==
    /\ caller[s][c] = "ending"
    /\ \/ /\ DatabaseOpen
          /\ caller' = [caller EXCEPT ![s][c] = "done"]
          /\ history' = [history EXCEPT ![s] = IF @ = "none" THEN @ ELSE "ended"]
       \/ /\ caller' = [caller EXCEPT ![s][c] = "unwritten"]
          /\ UNCHANGED history
    /\ UNCHANGED <<startVars, active, remote, bridgeVars, goroutineVars,
                   shutdownVars>>

-----------------------------------------------------------------------------
(* App.Shutdown: CloseAllSessions, then db.Close.  It never writes an end   *)
(* time.                                                                    *)

LockAll ==
    /\ shutdown = "running"
    /\ shutdown' = "locked"
    /\ UNCHANGED <<startVars, remote, bridgeVars, goroutineVars, serviceVars,
                   caller, target>>

\* A bug to catch: the entry is deleted before the bridge is closed.
DeleteBeforeClose(s) ==
    /\ shutdown = "locked"
    /\ target = {}
    /\ s \in active
    /\ active' = active \ {s}
    /\ target' = {s}
    /\ UNCHANGED <<startVars, remote, bridgeVars, goroutineVars, history,
                   caller, shutdown>>

CloseNext(s) ==
    /\ shutdown = "locked"
    /\ target = {}
    /\ s \in active
    /\ target' = {s}
    /\ UNCHANGED <<startVars, remote, bridgeVars, goroutineVars, serviceVars,
                   caller, shutdown>>

DeleteClosed(s) ==
    /\ s \in target
    /\ once[s] = "done"
    /\ active' = active \ {s}
    /\ target' = {}
    /\ UNCHANGED <<startVars, remote, bridgeVars, goroutineVars, history,
                   caller, shutdown>>

UnlockAll ==
    /\ shutdown = "locked"
    /\ target = {}
    /\ active = {}
    /\ shutdown' = "unlocked"
    /\ UNCHANGED <<startVars, remote, bridgeVars, goroutineVars, serviceVars,
                   caller, target>>

CloseDatabase ==
    /\ shutdown = "unlocked"
    /\ shutdown' = "done"
    /\ UNCHANGED <<startVars, remote, bridgeVars, goroutineVars, serviceVars,
                   caller, target>>

-----------------------------------------------------------------------------
StartSession(s) ==
    \/ BeginStart(s) \/ DialSucceeds(s) \/ DialFails(s)
    \/ BridgeStarts(s) \/ BridgeFails(s)
    \/ Register(s) \/ RecordHistory(s) \/ ReturnId(s)

readPump(s, p) == PumpLoops(s, p) \/ PumpReads(s, p) \/ PumpEnds(s, p) \/ PumpRemoves(s, p)

wait(s) == WaitReturns(s) \/ WaitFails(s) \/ WaiterRemoves(s) \/ WaiterDone(s)

Close(s) == CancelContext(s) \/ CloseClient(s)

CloseCall(s, c) ==
    \/ CloseSession(s, c) \/ CloseSessionRefused(s, c)
    \/ CloseReturns(s, c) \/ EndHistory(s, c)

Shutdown ==
    \/ LockAll \/ UnlockAll \/ CloseDatabase
    \/ \E s \in Sessions : CloseNext(s) \/ DeleteClosed(s)

Next ==
    \/ \E s \in Sessions :
        \/ StartSession(s) \/ RemoteChanges(s) \/ wait(s) \/ Close(s)
        \/ \E p \in Pumps : readPump(s, p)
        \/ \E c \in Callers : CloseCall(s, c)
    \/ Shutdown

\* The Go scheduler runs every goroutine that can run.  Nothing is assumed of
\* the dial, of the remote side, or of when the user closes a tab or the
\* application.
Fairness ==
    /\ \A s \in Sessions :
        /\ WF_vars(Register(s) \/ RecordHistory(s) \/ ReturnId(s))
        /\ WF_vars(wait(s))
        /\ WF_vars(Close(s))
        /\ \A p \in Pumps : WF_vars(PumpLoops(s, p) \/ PumpEnds(s, p) \/ PumpRemoves(s, p))
        /\ \A c \in Callers : WF_vars(CloseReturns(s, c) \/ EndHistory(s, c))
    /\ WF_vars(UnlockAll \/ CloseDatabase \/ \E s \in Sessions : CloseNext(s) \/ DeleteClosed(s))

Spec == Init /\ [][Next]_vars

FairSpec == Spec /\ Fairness
-----------------------------------------------------------------------------
(* Properties                                                              *)

Running == {"started", "listed", "recorded", "returned"}
Listed == {"listed", "recorded", "returned"}

\* CloseSession found its session and returned: the end time was written, or failed to be.
Returned == {"done", "unwritten"}

TypeOK ==
    /\ start \in [Sessions -> {"idle", "dialing", "dialed", "failed"} \cup Running]
    /\ active \in SUBSET Sessions
    /\ conn \in [Sessions -> {"none", "open", "closed"}]
    /\ remote \in [Sessions -> {"up", "eof"} \cup Ended]
    /\ cancelled \in SUBSET Sessions
    /\ once \in [Sessions -> {"fresh", "running", "done"}]
    /\ pump \in [Sessions -> [Pumps -> {"off", "loop", "read", "remove", "done"}]]
    /\ waiter \in [Sessions -> {"off", "wait", "remove", "close", "done"}]
    /\ history \in [Sessions -> {"none", "open", "ended"}]
    /\ caller \in [Sessions -> [Callers -> {"idle", "refused", "closing", "ending"} \cup Returned]]
    /\ shutdown \in {"running", "locked", "unlocked", "done"}
    /\ target \in SUBSET Sessions

\* The end time of a session is in its history only after its connection was
\* closed and its id left the map (CloseSession removes, closes, then writes),
\* and the id never comes back.
EndedIsReleased ==
    \A s \in Sessions :
        history[s] = "ended" => conn[s] = "closed" /\ s \notin active

\* Closing a session never looks like an error of it: Close cancels the context
\* before it closes the client, so a pump or the waiter that is woken by the
\* close stays silent, and the error and closed events (and the removal they
\* bring) come only from what the remote side did.
ErrorOnlyFromRemote ==
    \A s \in Sessions :
        ((\E p \in Pumps : pump[s][p] = "remove") \/ waiter[s] = "remove")
            => remote[s] # "up"

\* No connection is forgotten: one that is open and whose id was listed and is
\* listed no more is in the hands of a CloseSession, or its remote side has
\* ended its output.  (CloseAllSessions deletes ids too, and so do the pumps.)
NoOrphan ==
    \A s \in Sessions :
        (conn[s] = "open" /\ start[s] \in Listed /\ s \notin active)
            => (\E c \in Callers : caller[s][c] = "closing") \/ remote[s] # "up"

\* The other way round: a session that is listed although its connection is closed was
\* ended by its remote shell (before it was registered, or with status 0), or the shutdown
\* is closing it.  No CloseSession, and no race of two, leaves such an entry.
ListedIsConnected ==
    \A s \in Sessions :
        (s \in active /\ conn[s] = "closed") => s \in target \/ remote[s] \in Ended

\* Lookup and deletion are one critical section, so of all the CloseSession
\* calls for an id at most one gets the bridge (and writes the end time), and
\* none does while CloseAllSessions is closing that session.
OneCloser ==
    \A s \in Sessions :
        LET winners == {c \in Callers : caller[s][c] \in {"closing", "ending"} \cup Returned}
        IN  /\ Cardinality(winners) <= 1
            /\ winners # {} => s \notin target

\* The promise of the service, stated in SessionLifecycle.  A start that fails after the
\* dial leaves no connection, and whatever closes, removes and records does so in order.
Lifecycle == INSTANCE SessionLifecycle WITH
    connection <- conn,
    listing <- [s \in Sessions |-> IF start[s] = "failed" THEN "refused"
                                   ELSE IF s \in active THEN "listed"
                                   ELSE IF start[s] \in Listed THEN "withdrawn"
                                   ELSE "new"],
    recordedEnd <- {s \in Sessions : history[s] = "ended"}

ImplementsLifecycle == Lifecycle!Spec

\* When the remote shell has ended, wait closes the connection.
EndedIsClosed ==
    \A s \in Sessions : remote[s] \in Ended ~> conn[s] = "closed"

\* A CloseSession that found its session returns, with the connection closed and the
\* end time written wherever there is a row, unless that statement itself failed; even
\* when it races the waiter, a second call and the shutdown.
CloseCompletes ==
    \A s \in Sessions, c \in Callers :
        caller[s][c] = "closing" ~>
            /\ conn[s] = "closed"
            /\ \/ caller[s][c] = "done" /\ history[s] # "open"
               \/ caller[s][c] = "unwritten"

\* Shutdown gets through CloseAllSessions, although it holds mu while it waits
\* in Close for bodies that other goroutines run.
ShutdownCompletes == shutdown = "locked" ~> shutdown = "done"
=============================================================================
