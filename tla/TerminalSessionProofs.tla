------------------------- MODULE TerminalSessionProofs -------------------------
(***************************************************************************)
(* Theorems about TerminalSession, for any sets of sessions, pumps and      *)
(* callers.  The inductive invariant IInv ties the program counters of the  *)
(* goroutines of one session to the state they share; the       *)
(* safety properties and the refinement follow from it.                     *)
(***************************************************************************)
EXTENDS TerminalSession, FiniteSetTheorems, TLAPS

-----------------------------------------------------------------------------
(* The inductive invariant                                                 *)

\* The goroutines run, and ids are listed, only after bridge.Start; a failed
\* start has no goroutines.
StartInv ==
    \A s \in Sessions :
        /\ start[s] \notin Running =>
              /\ s \notin active /\ s \notin target
              /\ waiter[s] = "off" /\ remote[s] = "up"
              /\ once[s] = "fresh"
              /\ \A p \in Pumps : pump[s][p] = "off"
        /\ start[s] \in {"idle", "dialing"} => conn[s] = "none"
        /\ start[s] = "dialed" => conn[s] = "open"
        /\ start[s] \in Running => conn[s] # "none"
        /\ s \in active => start[s] \in Listed

\* Close cancels the context, then closes the client; nothing else closes the
\* client of a bridge that started.
CloseInv ==
    \A s \in Sessions :
        /\ once[s] # "fresh" => s \in cancelled
        /\ once[s] = "done" => conn[s] = "closed"
        /\ start[s] \in Running /\ conn[s] = "closed" => once[s] = "done"

\* What holds for a CloseSession call that got the bridge.
CallerInv ==
    \A s \in Sessions, c \in Callers :
        /\ caller[s][c] \in {"closing", "ending"} \cup Returned =>
              start[s] = "returned" /\ s \notin active /\ s \notin target
        /\ caller[s][c] \in {"ending"} \cup Returned => once[s] = "done"

\* A session that shutdown is closing is still listed, and mu is held; it closes one after
\* the other.
TargetInv ==
    \A s \in Sessions : s \in target => s \in active /\ shutdown = "locked" /\ target = {s}

\* An end time is written by a CloseSession, never by a start.
HistoryInv ==
    \A s \in Sessions :
        history[s] = "ended" =>
            /\ start[s] = "returned" /\ s \notin active
            /\ once[s] = "done"

\* Two CloseSession calls never both hold the bridge.
WinnerInv ==
    \A s \in Sessions : \A c, d \in Callers :
        /\ caller[s][c] \in {"closing", "ending"} \cup Returned
        /\ caller[s][d] \in {"closing", "ending"} \cup Returned
        => c = d

\* The program closes a session only after its id left the map, unless its shell ended or
\* the shutdown closes it; before the id is in the map only the end of the shell counts.
EndedInv ==
    \A s \in Sessions :
        /\ waiter[s] = "remove" => remote[s] \in Ended
        /\ s \in cancelled \/ waiter[s] = "close" =>
              \/ start[s] \in Listed /\ s \notin active
              \/ s \in target
              \/ remote[s] \in Ended

IInv ==
    /\ TypeOK
    /\ StartInv
    /\ CloseInv
    /\ CallerInv
    /\ WinnerInv
    /\ TargetInv
    /\ HistoryInv
    /\ ErrorOnlyFromRemote
    /\ NoOrphan
    /\ EndedInv

-----------------------------------------------------------------------------
(* Each part of the invariant is preserved by every step                    *)

\* Every step keeps the variables in their types.
LEMMA TypeStep ==
    ASSUME TypeOK, [Next]_vars
    PROVE  TypeOK'
<1> USE DEF Returned, TypeOK, Running, Ended, startVars, bridgeVars, goroutineVars, serviceVars, shutdownVars
<1>1. ASSUME NEW s \in Sessions, StartSession(s) PROVE TypeOK'
  <2>1. CASE BeginStart(s)
    BY <2>1 DEF BeginStart
  <2>2. CASE DialSucceeds(s)
    BY <2>2 DEF DialSucceeds
  <2>3. CASE DialFails(s)
    BY <2>3 DEF DialFails
  <2>4. CASE BridgeStarts(s)
    BY <2>4 DEF BridgeStarts
  <2>5. CASE BridgeFails(s)
    BY <2>5 DEF BridgeFails
  <2>6. CASE Register(s)
    BY <2>6 DEF Register
  <2>7. CASE RecordHistory(s)
    BY <2>7 DEF RecordHistory
  <2>8. CASE ReturnId(s)
    BY <2>8 DEF ReturnId
  <2> QED
    BY <1>1, <2>1, <2>2, <2>3, <2>4, <2>5, <2>6, <2>7, <2>8 DEF StartSession
<1>2. ASSUME NEW s \in Sessions, RemoteChanges(s) PROVE TypeOK'
  <2>1. PICK r \in Ended \cup {"eof"} : remote' = [remote EXCEPT ![s] = r]
    BY <1>2 DEF RemoteChanges
  <2>2. r \in {"up", "eof"} \cup Ended
    BY <2>1
  <2>3. remote' \in [Sessions -> {"up", "eof"} \cup Ended]
    BY <2>1, <2>2
  <2> QED
    BY <1>2, <2>3 DEF RemoteChanges
<1>3. ASSUME NEW s \in Sessions, wait(s) PROVE TypeOK'
  <2>1. CASE WaitReturns(s)
    BY <2>1 DEF WaitReturns
  <2>2. CASE WaitFails(s)
    BY <2>2 DEF WaitFails
  <2>3. CASE WaiterRemoves(s)
    BY <2>3 DEF WaiterRemoves
  <2>4. CASE WaiterDone(s)
    BY <2>4 DEF WaiterDone
  <2> QED
    BY <1>3, <2>1, <2>2, <2>3, <2>4 DEF wait
<1>4. ASSUME NEW s \in Sessions, Close(s) PROVE TypeOK'
  <2>1. CASE CancelContext(s)
    BY <2>1 DEF CancelContext
  <2>2. CASE CloseClient(s)
    BY <2>2 DEF CloseClient
  <2> QED
    BY <1>4, <2>1, <2>2 DEF Close
<1>5. ASSUME NEW s \in Sessions, NEW p \in Pumps, readPump(s, p) PROVE TypeOK'
  <2>1. CASE PumpLoops(s, p)
    BY <2>1 DEF PumpLoops
  <2>2. CASE PumpReads(s, p)
    BY <2>2 DEF PumpReads
  <2>3. CASE PumpEnds(s, p)
    BY <2>3 DEF PumpEnds
  <2>4. CASE PumpRemoves(s, p)
    BY <2>4 DEF PumpRemoves
  <2> QED
    BY <1>5, <2>1, <2>2, <2>3, <2>4 DEF readPump
<1>6. ASSUME NEW s \in Sessions, NEW c \in Callers, CloseCall(s, c) PROVE TypeOK'
  <2>1. CASE CloseSession(s, c)
    BY <2>1 DEF CloseSession
  <2>2. CASE CloseSessionRefused(s, c)
    BY <2>2 DEF CloseSessionRefused
  <2>3. CASE CloseReturns(s, c)
    BY <2>3 DEF CloseReturns
  <2>4. CASE EndHistory(s, c)
    <3>1. CASE caller' = [caller EXCEPT ![s][c] = "done"]
      BY <2>4, <3>1 DEF EndHistory
    <3>2. CASE caller' = [caller EXCEPT ![s][c] = "unwritten"]
      BY <2>4, <3>2 DEF EndHistory
    <3> QED
      BY <2>4, <3>1, <3>2 DEF EndHistory
  <2> QED
    BY <1>6, <2>1, <2>2, <2>3, <2>4 DEF CloseCall
<1>7. ASSUME Shutdown PROVE TypeOK'
  BY <1>7 DEF Shutdown, LockAll, CloseNext, DeleteClosed, UnlockAll, CloseDatabase
<1>8. CASE UNCHANGED vars
  BY <1>8 DEF vars
<1> QED
  BY <1>1, <1>2, <1>3, <1>4, <1>5, <1>6, <1>7, <1>8 DEF Next

\* Goroutines, listing and connection follow the progress of StartSession.
LEMMA StartStep ==
    ASSUME TypeOK, StartInv, CallerInv, TargetInv, [Next]_vars
    PROVE  StartInv'
<1> USE DEF Returned, TypeOK, StartInv, CallerInv, TargetInv, Running, Listed, Ended, startVars, bridgeVars, goroutineVars, serviceVars, shutdownVars
<1>1. ASSUME NEW s \in Sessions, StartSession(s) PROVE StartInv'
  <2>1. CASE BeginStart(s)
    BY <2>1 DEF BeginStart
  <2>2. CASE DialSucceeds(s)
    BY <2>2 DEF DialSucceeds
  <2>3. CASE DialFails(s)
    BY <2>3 DEF DialFails
  <2>4. CASE BridgeStarts(s)
    BY <2>4 DEF BridgeStarts
  <2>5. CASE BridgeFails(s)
    BY <2>5 DEF BridgeFails
  <2>6. CASE Register(s)
    BY <2>6 DEF Register
  <2>7. CASE RecordHistory(s)
    BY <2>7 DEF RecordHistory
  <2>8. CASE ReturnId(s)
    BY <2>8 DEF ReturnId
  <2> QED
    BY <1>1, <2>1, <2>2, <2>3, <2>4, <2>5, <2>6, <2>7, <2>8 DEF StartSession
<1>2. ASSUME NEW s \in Sessions, RemoteChanges(s) PROVE StartInv'
  BY <1>2 DEF RemoteChanges, Ended
<1>3. ASSUME NEW s \in Sessions, wait(s) PROVE StartInv'
  BY <1>3 DEF wait, WaitReturns, WaitFails, WaiterRemoves, WaiterDone
<1>4. ASSUME NEW s \in Sessions, Close(s) PROVE StartInv'
  BY <1>4 DEF Close, CancelContext, CloseClient, InClose
<1>5. ASSUME NEW s \in Sessions, NEW p \in Pumps, readPump(s, p) PROVE StartInv'
  <2>1. CASE PumpLoops(s, p)
    BY <2>1 DEF PumpLoops
  <2>2. CASE PumpReads(s, p)
    BY <2>2 DEF PumpReads
  <2>3. CASE PumpEnds(s, p)
    BY <2>3 DEF PumpEnds
  <2>4. CASE PumpRemoves(s, p)
    BY <2>4 DEF PumpRemoves
  <2> QED
    BY <1>5, <2>1, <2>2, <2>3, <2>4 DEF readPump
<1>6. ASSUME NEW s \in Sessions, NEW c \in Callers, CloseCall(s, c) PROVE StartInv'
  BY <1>6 DEF CloseCall, CloseSession, CloseSessionRefused, CloseReturns, EndHistory
<1>7. ASSUME Shutdown PROVE StartInv'
  BY <1>7 DEF Shutdown, LockAll, CloseNext, DeleteClosed, UnlockAll, CloseDatabase
<1>8. CASE UNCHANGED vars
  BY <1>8 DEF vars
<1> QED
  BY <1>1, <1>2, <1>3, <1>4, <1>5, <1>6, <1>7, <1>8 DEF Next

\* The client of a bridge is closed only after its context was cancelled.
LEMMA CloseStep ==
    ASSUME TypeOK, StartInv, CloseInv, CallerInv, TargetInv, [Next]_vars
    PROVE  CloseInv'
<1> USE DEF Returned, TypeOK, StartInv, CloseInv, CallerInv, TargetInv, Running, Listed, startVars, bridgeVars, goroutineVars, serviceVars, shutdownVars
<1>1. ASSUME NEW s \in Sessions, StartSession(s) PROVE CloseInv'
  <2>1. CASE BeginStart(s)
    BY <2>1 DEF BeginStart
  <2>2. CASE DialSucceeds(s)
    BY <2>2 DEF DialSucceeds
  <2>3. CASE DialFails(s)
    BY <2>3 DEF DialFails
  <2>4. CASE BridgeStarts(s)
    BY <2>4 DEF BridgeStarts
  <2>5. CASE BridgeFails(s)
    BY <2>5 DEF BridgeFails
  <2>6. CASE Register(s)
    BY <2>6 DEF Register
  <2>7. CASE RecordHistory(s)
    BY <2>7 DEF RecordHistory
  <2>8. CASE ReturnId(s)
    BY <2>8 DEF ReturnId
  <2> QED
    BY <1>1, <2>1, <2>2, <2>3, <2>4, <2>5, <2>6, <2>7, <2>8 DEF StartSession
<1>2. ASSUME NEW s \in Sessions, RemoteChanges(s) PROVE CloseInv'
  BY <1>2 DEF RemoteChanges, Ended
<1>3. ASSUME NEW s \in Sessions, wait(s) PROVE CloseInv'
  BY <1>3 DEF wait, WaitReturns, WaitFails, WaiterRemoves, WaiterDone
<1>4. ASSUME NEW s \in Sessions, Close(s) PROVE CloseInv'
  <2>1. CASE CancelContext(s)
    BY <2>1 DEF CancelContext, InClose
  <2>2. CASE CloseClient(s)
    BY <2>2 DEF CloseClient
  <2> QED
    BY <1>4, <2>1, <2>2 DEF Close
<1>5. ASSUME NEW s \in Sessions, NEW p \in Pumps, readPump(s, p) PROVE CloseInv'
  BY <1>5 DEF readPump, PumpLoops, PumpReads, PumpEnds, PumpRemoves
<1>6. ASSUME NEW s \in Sessions, NEW c \in Callers, CloseCall(s, c) PROVE CloseInv'
  BY <1>6 DEF CloseCall, CloseSession, CloseSessionRefused, CloseReturns, EndHistory
<1>7. ASSUME Shutdown PROVE CloseInv'
  BY <1>7 DEF Shutdown, LockAll, CloseNext, DeleteClosed, UnlockAll, CloseDatabase
<1>8. CASE UNCHANGED vars
  BY <1>8 DEF vars
<1> QED
  BY <1>1, <1>2, <1>3, <1>4, <1>5, <1>6, <1>7, <1>8 DEF Next

\* A CloseSession that took the bridge keeps it out of the map.
LEMMA CallerStep ==
    ASSUME TypeOK, StartInv, CallerInv, TargetInv, [Next]_vars
    PROVE  CallerInv'
<1> USE DEF Returned, TypeOK, StartInv, CallerInv, TargetInv, MuFree, Running, Listed, startVars, bridgeVars, goroutineVars, serviceVars, shutdownVars
<1>1. ASSUME NEW s \in Sessions, StartSession(s) PROVE CallerInv'
  BY <1>1 DEF StartSession, BeginStart, DialSucceeds, DialFails, BridgeStarts, BridgeFails, Register, RecordHistory, ReturnId
<1>2. ASSUME NEW s \in Sessions, RemoteChanges(s) PROVE CallerInv'
  BY <1>2 DEF RemoteChanges, Ended
<1>3. ASSUME NEW s \in Sessions, wait(s) PROVE CallerInv'
  BY <1>3 DEF wait, WaitReturns, WaitFails, WaiterRemoves, WaiterDone
<1>4. ASSUME NEW s \in Sessions, Close(s) PROVE CallerInv'
  BY <1>4 DEF Close, CancelContext, CloseClient, InClose
<1>5. ASSUME NEW s \in Sessions, NEW p \in Pumps, readPump(s, p) PROVE CallerInv'
  BY <1>5 DEF readPump, PumpLoops, PumpReads, PumpEnds, PumpRemoves
<1>6. ASSUME NEW s \in Sessions, NEW c \in Callers, CloseCall(s, c) PROVE CallerInv'
  <2>1. CASE CloseSession(s, c)
    BY <2>1 DEF CloseSession
  <2>2. CASE CloseSessionRefused(s, c)
    BY <2>2 DEF CloseSessionRefused
  <2>3. CASE CloseReturns(s, c)
    BY <2>3 DEF CloseReturns
  <2>4. CASE EndHistory(s, c)
    <3>1. CASE caller' = [caller EXCEPT ![s][c] = "done"]
      BY <2>4, <3>1 DEF EndHistory
    <3>2. CASE caller' = [caller EXCEPT ![s][c] = "unwritten"]
      BY <2>4, <3>2 DEF EndHistory
    <3> QED
      BY <2>4, <3>1, <3>2 DEF EndHistory
  <2> QED
    BY <1>6, <2>1, <2>2, <2>3, <2>4 DEF CloseCall
<1>7. ASSUME Shutdown PROVE CallerInv'
  BY <1>7 DEF Shutdown, LockAll, CloseNext, DeleteClosed, UnlockAll, CloseDatabase
<1>8. CASE UNCHANGED vars
  BY <1>8 DEF vars
<1> QED
  BY <1>1, <1>2, <1>3, <1>4, <1>5, <1>6, <1>7, <1>8 DEF Next

\* Taking the bridge requires the id to be listed, so nobody else has it.
LEMMA WinnerStep ==
    ASSUME TypeOK, CallerInv, WinnerInv, [Next]_vars
    PROVE  WinnerInv'
<1> USE DEF Returned, TypeOK, CallerInv, WinnerInv, startVars, bridgeVars, goroutineVars, serviceVars, shutdownVars
<1>1. ASSUME NEW s \in Sessions, StartSession(s) PROVE WinnerInv'
  BY <1>1 DEF StartSession, BeginStart, DialSucceeds, DialFails, BridgeStarts, BridgeFails, Register, RecordHistory, ReturnId
<1>2. ASSUME NEW s \in Sessions, RemoteChanges(s) PROVE WinnerInv'
  BY <1>2 DEF RemoteChanges, Ended
<1>3. ASSUME NEW s \in Sessions, wait(s) PROVE WinnerInv'
  BY <1>3 DEF wait, WaitReturns, WaitFails, WaiterRemoves, WaiterDone
<1>4. ASSUME NEW s \in Sessions, Close(s) PROVE WinnerInv'
  BY <1>4 DEF Close, CancelContext, CloseClient, InClose
<1>5. ASSUME NEW s \in Sessions, NEW p \in Pumps, readPump(s, p) PROVE WinnerInv'
  BY <1>5 DEF readPump, PumpLoops, PumpReads, PumpEnds, PumpRemoves
<1>6. ASSUME NEW s \in Sessions, NEW c \in Callers, CloseCall(s, c) PROVE WinnerInv'
  <2>1. CASE CloseSession(s, c)
    BY <2>1 DEF CloseSession
  <2>2. CASE CloseSessionRefused(s, c)
    BY <2>2 DEF CloseSessionRefused
  <2>3. CASE CloseReturns(s, c)
    BY <2>3 DEF CloseReturns
  <2>4. CASE EndHistory(s, c)
    <3>1. CASE caller' = [caller EXCEPT ![s][c] = "done"]
      BY <2>4, <3>1 DEF EndHistory
    <3>2. CASE caller' = [caller EXCEPT ![s][c] = "unwritten"]
      BY <2>4, <3>2 DEF EndHistory
    <3> QED
      BY <2>4, <3>1, <3>2 DEF EndHistory
  <2> QED
    BY <1>6, <2>1, <2>2, <2>3, <2>4 DEF CloseCall
<1>7. ASSUME Shutdown PROVE WinnerInv'
  BY <1>7 DEF Shutdown, LockAll, CloseNext, DeleteClosed, UnlockAll, CloseDatabase
<1>8. CASE UNCHANGED vars
  BY <1>8 DEF vars
<1> QED
  BY <1>1, <1>2, <1>3, <1>4, <1>5, <1>6, <1>7, <1>8 DEF Next

\* The map does not change under CloseAllSessions.
LEMMA TargetStep ==
    ASSUME TypeOK, TargetInv, [Next]_vars
    PROVE  TargetInv'
<1> USE DEF Returned, TypeOK, TargetInv, MuFree, startVars, bridgeVars, goroutineVars, serviceVars, shutdownVars
<1>1. ASSUME NEW s \in Sessions, StartSession(s) PROVE TargetInv'
  BY <1>1 DEF StartSession, BeginStart, DialSucceeds, DialFails, BridgeStarts, BridgeFails, Register, RecordHistory, ReturnId
<1>2. ASSUME NEW s \in Sessions, RemoteChanges(s) PROVE TargetInv'
  BY <1>2 DEF RemoteChanges, Ended
<1>3. ASSUME NEW s \in Sessions, wait(s) PROVE TargetInv'
  BY <1>3 DEF wait, WaitReturns, WaitFails, WaiterRemoves, WaiterDone
<1>4. ASSUME NEW s \in Sessions, Close(s) PROVE TargetInv'
  BY <1>4 DEF Close, CancelContext, CloseClient, InClose
<1>5. ASSUME NEW s \in Sessions, NEW p \in Pumps, readPump(s, p) PROVE TargetInv'
  BY <1>5 DEF readPump, PumpLoops, PumpReads, PumpEnds, PumpRemoves
<1>6. ASSUME NEW s \in Sessions, NEW c \in Callers, CloseCall(s, c) PROVE TargetInv'
  BY <1>6 DEF CloseCall, CloseSession, CloseSessionRefused, CloseReturns, EndHistory
<1>7. ASSUME Shutdown PROVE TargetInv'
  BY <1>7 DEF Shutdown, LockAll, CloseNext, DeleteClosed, UnlockAll, CloseDatabase
<1>8. CASE UNCHANGED vars
  BY <1>8 DEF vars
<1> QED
  BY <1>1, <1>2, <1>3, <1>4, <1>5, <1>6, <1>7, <1>8 DEF Next

\* An end time is written after the close, and the id does not come back.
LEMMA HistoryStep ==
    ASSUME TypeOK, StartInv, CallerInv, HistoryInv, [Next]_vars
    PROVE  HistoryInv'
<1> USE DEF Returned, TypeOK, StartInv, CallerInv, HistoryInv, Running, Listed, startVars, bridgeVars, goroutineVars, serviceVars, shutdownVars
<1>1. ASSUME NEW s \in Sessions, StartSession(s) PROVE HistoryInv'
  BY <1>1 DEF StartSession, BeginStart, DialSucceeds, DialFails, BridgeStarts, BridgeFails, Register, RecordHistory, ReturnId
<1>2. ASSUME NEW s \in Sessions, RemoteChanges(s) PROVE HistoryInv'
  BY <1>2 DEF RemoteChanges, Ended
<1>3. ASSUME NEW s \in Sessions, wait(s) PROVE HistoryInv'
  BY <1>3 DEF wait, WaitReturns, WaitFails, WaiterRemoves, WaiterDone
<1>4. ASSUME NEW s \in Sessions, Close(s) PROVE HistoryInv'
  BY <1>4 DEF Close, CancelContext, CloseClient, InClose
<1>5. ASSUME NEW s \in Sessions, NEW p \in Pumps, readPump(s, p) PROVE HistoryInv'
  BY <1>5 DEF readPump, PumpLoops, PumpReads, PumpEnds, PumpRemoves
<1>6. ASSUME NEW s \in Sessions, NEW c \in Callers, CloseCall(s, c) PROVE HistoryInv'
  BY <1>6 DEF CloseCall, CloseSession, CloseSessionRefused, CloseReturns, EndHistory
<1>7. ASSUME Shutdown PROVE HistoryInv'
  BY <1>7 DEF Shutdown, LockAll, CloseNext, DeleteClosed, UnlockAll, CloseDatabase
<1>8. CASE UNCHANGED vars
  BY <1>8 DEF vars
<1> QED
  BY <1>1, <1>2, <1>3, <1>4, <1>5, <1>6, <1>7, <1>8 DEF Next

\* A goroutine woken by Close finds the context cancelled.
LEMMA ErrorStep ==
    ASSUME TypeOK, StartInv, CloseInv, ErrorOnlyFromRemote, [Next]_vars
    PROVE  ErrorOnlyFromRemote'
<1> USE DEF Returned, TypeOK, StartInv, CloseInv, ErrorOnlyFromRemote, Running, startVars, bridgeVars, goroutineVars, serviceVars, shutdownVars
<1>1. ASSUME NEW s \in Sessions, StartSession(s) PROVE ErrorOnlyFromRemote'
  BY <1>1 DEF StartSession, BeginStart, DialSucceeds, DialFails, BridgeStarts, BridgeFails, Register, RecordHistory, ReturnId
<1>2. ASSUME NEW s \in Sessions, RemoteChanges(s) PROVE ErrorOnlyFromRemote'
  BY <1>2 DEF RemoteChanges, Ended
<1>3. ASSUME NEW s \in Sessions, wait(s) PROVE ErrorOnlyFromRemote'
  BY <1>3 DEF wait, WaitReturns, WaitFails, WaiterRemoves, WaiterDone
<1>4. ASSUME NEW s \in Sessions, Close(s) PROVE ErrorOnlyFromRemote'
  BY <1>4 DEF Close, CancelContext, CloseClient, InClose
<1>5. ASSUME NEW s \in Sessions, NEW p \in Pumps, readPump(s, p) PROVE ErrorOnlyFromRemote'
  <2>1. CASE PumpLoops(s, p)
    BY <2>1 DEF PumpLoops
  <2>2. CASE PumpReads(s, p)
    BY <2>2 DEF PumpReads
  <2>3. CASE PumpEnds(s, p)
    <3>1. start[s] \in Running
      BY <2>3 DEF PumpEnds
    <3>2. s \in cancelled \/ remote[s] # "up"
      BY <2>3, <3>1 DEF PumpEnds
    <3> QED
      BY <2>3, <3>2 DEF PumpEnds
  <2>4. CASE PumpRemoves(s, p)
    BY <2>4 DEF PumpRemoves
  <2> QED
    BY <1>5, <2>1, <2>2, <2>3, <2>4 DEF readPump
<1>6. ASSUME NEW s \in Sessions, NEW c \in Callers, CloseCall(s, c) PROVE ErrorOnlyFromRemote'
  BY <1>6 DEF CloseCall, CloseSession, CloseSessionRefused, CloseReturns, EndHistory
<1>7. ASSUME Shutdown PROVE ErrorOnlyFromRemote'
  BY <1>7 DEF Shutdown, LockAll, CloseNext, DeleteClosed, UnlockAll, CloseDatabase
<1>8. CASE UNCHANGED vars
  BY <1>8 DEF vars
<1> QED
  BY <1>1, <1>2, <1>3, <1>4, <1>5, <1>6, <1>7, <1>8 DEF Next

\* An id leaves the map to a closer, after a close, or after the remote end.
LEMMA OrphanStep ==
    ASSUME TypeOK, StartInv, CloseInv, ErrorOnlyFromRemote, NoOrphan, [Next]_vars
    PROVE  NoOrphan'
<1> USE DEF Returned, TypeOK, StartInv, CloseInv, ErrorOnlyFromRemote, NoOrphan, Running, Listed, startVars, bridgeVars, goroutineVars, serviceVars, shutdownVars
<1>1. ASSUME NEW s \in Sessions, StartSession(s) PROVE NoOrphan'
  <2>1. CASE BeginStart(s)
    BY <2>1 DEF BeginStart
  <2>2. CASE DialSucceeds(s)
    BY <2>2 DEF DialSucceeds
  <2>3. CASE DialFails(s)
    BY <2>3 DEF DialFails
  <2>4. CASE BridgeStarts(s)
    BY <2>4 DEF BridgeStarts
  <2>5. CASE BridgeFails(s)
    BY <2>5 DEF BridgeFails
  <2>6. CASE Register(s)
    BY <2>6 DEF Register
  <2>7. CASE RecordHistory(s)
    BY <2>7 DEF RecordHistory
  <2>8. CASE ReturnId(s)
    BY <2>8 DEF ReturnId
  <2> QED
    BY <1>1, <2>1, <2>2, <2>3, <2>4, <2>5, <2>6, <2>7, <2>8 DEF StartSession
<1>2. ASSUME NEW s \in Sessions, RemoteChanges(s) PROVE NoOrphan'
  BY <1>2 DEF RemoteChanges, Ended
<1>3. ASSUME NEW s \in Sessions, wait(s) PROVE NoOrphan'
  BY <1>3 DEF wait, WaitReturns, WaitFails, WaiterRemoves, WaiterDone
<1>4. ASSUME NEW s \in Sessions, Close(s) PROVE NoOrphan'
  <2>1. CASE CancelContext(s)
    BY <2>1 DEF CancelContext, InClose
  <2>2. CASE CloseClient(s)
    BY <2>2 DEF CloseClient
  <2> QED
    BY <1>4, <2>1, <2>2 DEF Close
<1>5. ASSUME NEW s \in Sessions, NEW p \in Pumps, readPump(s, p) PROVE NoOrphan'
  BY <1>5 DEF readPump, PumpLoops, PumpReads, PumpEnds, PumpRemoves
<1>6. ASSUME NEW s \in Sessions, NEW c \in Callers, CloseCall(s, c) PROVE NoOrphan'
  <2>1. CASE CloseSession(s, c)
    BY <2>1 DEF CloseSession
  <2>2. CASE CloseSessionRefused(s, c)
    BY <2>2 DEF CloseSessionRefused
  <2>3. CASE CloseReturns(s, c)
    BY <2>3 DEF CloseReturns
  <2>4. CASE EndHistory(s, c)
    <3>1. CASE caller' = [caller EXCEPT ![s][c] = "done"]
      BY <2>4, <3>1 DEF EndHistory
    <3>2. CASE caller' = [caller EXCEPT ![s][c] = "unwritten"]
      BY <2>4, <3>2 DEF EndHistory
    <3> QED
      BY <2>4, <3>1, <3>2 DEF EndHistory
  <2> QED
    BY <1>6, <2>1, <2>2, <2>3, <2>4 DEF CloseCall
<1>7. ASSUME Shutdown PROVE NoOrphan'
  BY <1>7 DEF Shutdown, LockAll, CloseNext, DeleteClosed, UnlockAll, CloseDatabase
<1>8. CASE UNCHANGED vars
  BY <1>8 DEF vars
<1> QED
  BY <1>1, <1>2, <1>3, <1>4, <1>5, <1>6, <1>7, <1>8 DEF Next

\* A close begins at the end of the shell, after the id left the map, or in the shutdown.
LEMMA EndedStep ==
    ASSUME TypeOK, StartInv, CloseInv, CallerInv, TargetInv, EndedInv, [Next]_vars
    PROVE  EndedInv'
<1> USE DEF Returned, TypeOK, EndedInv, Running, Listed, Ended, startVars, bridgeVars, goroutineVars, serviceVars, shutdownVars
<1>1. ASSUME NEW s \in Sessions, StartSession(s) PROVE EndedInv'
  <2>1. CASE BeginStart(s)
    BY <2>1 DEF BeginStart
  <2>2. CASE DialSucceeds(s)
    BY <2>2 DEF DialSucceeds
  <2>3. CASE DialFails(s)
    BY <2>3 DEF DialFails
  <2>4. CASE BridgeStarts(s)
    BY <2>4 DEF BridgeStarts
  <2>5. CASE BridgeFails(s)
    BY <2>5 DEF BridgeFails
  <2>6. CASE Register(s)
    BY <2>6 DEF Register
  <2>7. CASE RecordHistory(s)
    BY <2>7 DEF RecordHistory
  <2>8. CASE ReturnId(s)
    BY <2>8 DEF ReturnId
  <2> QED
    BY <1>1, <2>1, <2>2, <2>3, <2>4, <2>5, <2>6, <2>7, <2>8 DEF StartSession
<1>2. ASSUME NEW s \in Sessions, RemoteChanges(s) PROVE EndedInv'
  BY <1>2 DEF RemoteChanges
<1>3. ASSUME NEW s \in Sessions, wait(s) PROVE EndedInv'
  <2>1. start[s] \in Running /\ (conn[s] = "closed" => s \in cancelled)
    BY <1>3 DEF StartInv, CloseInv, wait, WaitReturns, WaitFails, WaiterRemoves, WaiterDone
  <2>2. CASE WaitReturns(s)
    BY <2>2 DEF WaitReturns
  <2>3. CASE WaitFails(s)
    BY <2>1, <2>3 DEF WaitFails
  <2>4. CASE WaiterRemoves(s)
    BY <2>4 DEF WaiterRemoves
  <2>5. CASE WaiterDone(s)
    BY <2>5 DEF WaiterDone
  <2> QED
    BY <1>3, <2>2, <2>3, <2>4, <2>5 DEF wait
<1>4. ASSUME NEW s \in Sessions, Close(s) PROVE EndedInv'
  <2>1. CASE CancelContext(s)
    BY <2>1 DEF CancelContext, InClose, CallerInv
  <2>2. CASE CloseClient(s)
    BY <2>2 DEF CloseClient
  <2> QED
    BY <1>4, <2>1, <2>2 DEF Close
<1>5. ASSUME NEW s \in Sessions, NEW p \in Pumps, readPump(s, p) PROVE EndedInv'
  BY <1>5 DEF readPump, PumpLoops, PumpReads, PumpEnds, PumpRemoves
<1>6. ASSUME NEW s \in Sessions, NEW c \in Callers, CloseCall(s, c) PROVE EndedInv'
  BY <1>6 DEF CloseCall, CloseSession, CloseSessionRefused, CloseReturns, EndHistory
<1>7. ASSUME Shutdown PROVE EndedInv'
  <2>1. ASSUME NEW s \in Sessions, DeleteClosed(s) PROVE EndedInv'
    <3>1. target = {s} /\ start[s] \in Listed
      BY <2>1 DEF DeleteClosed, StartInv, TargetInv
    <3> QED
      BY <2>1, <3>1 DEF DeleteClosed
  <2>2. ASSUME NEW s \in Sessions, CloseNext(s) PROVE EndedInv'
    BY <2>2 DEF CloseNext
  <2> QED
    BY <1>7, <2>1, <2>2 DEF Shutdown, LockAll, UnlockAll, CloseDatabase
<1>8. CASE UNCHANGED vars
  BY <1>8 DEF vars
<1> QED
  BY <1>1, <1>2, <1>3, <1>4, <1>5, <1>6, <1>7, <1>8 DEF Next

-----------------------------------------------------------------------------
(* The theorems                                                            *)

\* The inductive invariant holds in the initial states and after every step.
LEMMA InitIInv == Init => IInv
  BY DEF Init, IInv, TypeOK, StartInv, CloseInv, CallerInv, WinnerInv, TargetInv,
         HistoryInv, ErrorOnlyFromRemote, NoOrphan, EndedInv, Running, Listed, Returned, Ended

\* Every step preserves the inductive invariant.
LEMMA StepIInv == IInv /\ [Next]_vars => IInv'
  BY TypeStep, StartStep, CloseStep, CallerStep, WinnerStep, TargetStep, HistoryStep,
     ErrorStep, OrphanStep, EndedStep
  DEF IInv

\* IInv holds in every reachable state of SessionService and its bridges.
THEOREM Invariance == Spec => []IInv
  BY InitIInv, StepIInv, PTL DEF Spec

\* A listed session whose connection is closed was ended by its remote shell, or the
\* shutdown is closing it: CloseSession takes the id out of the map before it closes.
THEOREM ListedAreConnected == Spec => []ListedIsConnected
<1>1. IInv => ListedIsConnected
  BY DEF IInv, StartInv, CloseInv, EndedInv, ListedIsConnected, Listed, Running
<1> QED
  BY <1>1, Invariance, PTL

\* Type correctness of the model.
THEOREM TypeCorrect == Spec => []TypeOK
  BY Invariance, PTL DEF IInv

\* An end time in the history means that the connection is closed and the id is
\* gone from SessionService.activeSessions.
THEOREM EndedReleased == Spec => []EndedIsReleased
<1>1. IInv => EndedIsReleased
  BY DEF IInv, HistoryInv, CloseInv, EndedIsReleased
<1> QED
  BY <1>1, Invariance, PTL

\* onError is never called because of the program's own Close.
THEOREM ErrorsAreRemote == Spec => []ErrorOnlyFromRemote
  BY Invariance, PTL DEF IInv

\* An open connection that is not listed any more has somebody to close it.
THEOREM NoOrphans == Spec => []NoOrphan
  BY Invariance, PTL DEF IInv

\* At most one CloseSession call gets the bridge of a session, and none does
\* while CloseAllSessions closes it.
THEOREM AtMostOneCloser == Spec => []OneCloser
<1>1. IInv => OneCloser
  <2> SUFFICES ASSUME IInv, NEW s \in Sessions
               PROVE  LET winners == {c \in Callers : caller[s][c] \in {"closing", "ending"} \cup Returned}
                      IN  /\ Cardinality(winners) <= 1
                          /\ winners # {} => s \notin target
    BY DEF OneCloser
  <2> DEFINE winners == {c \in Callers : caller[s][c] \in {"closing", "ending"} \cup Returned}
  <2>1. winners # {} => s \notin target
    BY DEF IInv, CallerInv, Returned
  <2>2. Cardinality(winners) <= 1
    <3>1. CASE winners = {}
      <4>1. Cardinality({}) = 0
        BY FS_EmptySet
      <4> QED
        BY <3>1, <4>1
    <3>2. CASE winners # {}
      <4>1. PICK c \in winners : TRUE
        BY <3>2
      <4>2. winners = {c}
        BY <4>1 DEF IInv, WinnerInv
      <4>3. Cardinality({c}) = 1
        BY FS_Singleton
      <4> QED
        BY <4>2, <4>3
    <3> QED
      BY <3>1, <3>2
  <2> QED
    BY <2>1, <2>2
<1> QED
  BY <1>1, Invariance, PTL

-----------------------------------------------------------------------------
(* TerminalSession implements SessionLifecycle.                            *)

\* A start of TerminalSession is a start of SessionLifecycle.
LEMMA RefinesInit == Init => Lifecycle!Init
  BY DEF Init, Lifecycle!Init, Listed

\* The lifecycle sees the connections, the ids listed, the ids that were listed
\* and the end times; a step that keeps these is a stuttering step of it.
LEMMA LookSame ==
    ASSUME UNCHANGED <<conn, active>>,
           \A s \in Sessions : (history[s] = "ended") = (history'[s] = "ended"),
           \A s \in Sessions : (start[s] \in Listed) = (start'[s] \in Listed),
           \A s \in Sessions : (start[s] = "failed") = (start'[s] = "failed")
    PROVE  UNCHANGED Lifecycle!vars
BY DEF Lifecycle!vars

\* The id of a started session leaves the map, or was not in it.
LEMMA WithdrawOrSame ==
    ASSUME IInv, NEW s \in Sessions, active' = active \ {s},
           UNCHANGED <<conn, history, start>>
    PROVE  [Lifecycle!Next]_(Lifecycle!vars)
<1>1. CASE s \notin active
  BY <1>1, LookSame
<1>2. CASE s \in active
  <2>1. Lifecycle!Withdraw(s)
    BY <1>2 DEF Lifecycle!Withdraw, IInv, StartInv, Listed
  <2> QED
    BY <2>1 DEF Lifecycle!Next
<1> QED
  BY <1>1, <1>2

\* Every step is a step of the lifecycle of one session, or changes nothing of
\* what the lifecycle sees.
LEMMA RefinesStep == IInv /\ IInv' /\ [Next]_vars => [Lifecycle!Next]_(Lifecycle!vars)
<1> SUFFICES ASSUME IInv, IInv', [Next]_vars
             PROVE  [Lifecycle!Next]_(Lifecycle!vars)
  OBVIOUS
<1> USE DEF startVars, bridgeVars, goroutineVars, serviceVars, shutdownVars
<1>1. ASSUME NEW s \in Sessions, StartSession(s)
      PROVE  [Lifecycle!Next]_(Lifecycle!vars)
  <2>1. CASE BeginStart(s) \/ BridgeStarts(s) \/ RecordHistory(s) \/ ReturnId(s)
    BY <2>1, LookSame
    DEF BeginStart, BridgeStarts, RecordHistory, ReturnId, IInv, TypeOK, HistoryInv, Listed
  <2>2. CASE DialSucceeds(s)
    <3>1. Lifecycle!Connect(s)
      BY <2>2 DEF DialSucceeds, Lifecycle!Connect, IInv, TypeOK, StartInv, Listed
    <3> QED
      BY <3>1 DEF Lifecycle!Next
  <2>3. CASE DialFails(s) \/ BridgeFails(s)
    <3>1. /\ start[s] \notin Listed /\ start[s] # "failed" /\ s \notin active
          /\ start' = [start EXCEPT ![s] = "failed"]
          /\ conn' = [conn EXCEPT ![s] = IF @ = "open" THEN "closed" ELSE @]
          /\ UNCHANGED <<active, history>>
      BY <2>3 DEF DialFails, BridgeFails, IInv, TypeOK, StartInv, Listed, Running
    <3>2. /\ start'[s] = "failed"
          /\ \A t \in Sessions \ {s} : start'[t] = start[t]
      BY <3>1 DEF IInv, TypeOK
    <3>3. Lifecycle!Refuse(s)
      BY <3>1, <3>2 DEF Lifecycle!Refuse
    <3> QED
      BY <3>3 DEF Lifecycle!Next
  <2>4. CASE Register(s)
    <3>1. conn[s] # "none" /\ s \notin active /\ start[s] \notin Listed
      BY <2>4 DEF Register, IInv, StartInv, Listed, Running
    <3>2. \A t \in Sessions :
            /\ t \in active' <=> t \in active \/ t = s
            /\ t # s => start'[t] = start[t]
            /\ start'[s] \in Listed
      BY <2>4 DEF Register, IInv, TypeOK, Listed
    <3>3. Lifecycle!List(s)
      BY <2>4, <3>1, <3>2 DEF Register, Lifecycle!List, Listed
    <3> QED
      BY <3>3 DEF Lifecycle!Next
  <2> QED
    BY <1>1, <2>1, <2>2, <2>3, <2>4 DEF StartSession
<1>2. ASSUME NEW s \in Sessions, RemoteChanges(s)
      PROVE  [Lifecycle!Next]_(Lifecycle!vars)
  BY <1>2, LookSame DEF RemoteChanges
<1>3. ASSUME NEW s \in Sessions, wait(s)
      PROVE  [Lifecycle!Next]_(Lifecycle!vars)
  <2>1. CASE WaiterRemoves(s)
    BY <2>1, WithdrawOrSame DEF WaiterRemoves
  <2>2. CASE WaitReturns(s) \/ WaitFails(s) \/ WaiterDone(s)
    BY <2>2, LookSame DEF WaitReturns, WaitFails, WaiterDone
  <2> QED
    BY <1>3, <2>1, <2>2 DEF wait
<1>4. ASSUME NEW s \in Sessions, Close(s)
      PROVE  [Lifecycle!Next]_(Lifecycle!vars)
  <2>1. CASE CancelContext(s)
    BY <2>1, LookSame DEF CancelContext
  <2>2. CASE CloseClient(s)
    <3>1. conn[s] = "open"
      BY <2>2 DEF CloseClient, IInv, TypeOK, StartInv, CloseInv, Running
    <3>2. Lifecycle!Release(s)
      BY <2>2, <3>1 DEF CloseClient, Lifecycle!Release
    <3> QED
      BY <3>2 DEF Lifecycle!Next
  <2> QED
    BY <1>4, <2>1, <2>2 DEF Close
<1>5. ASSUME NEW s \in Sessions, NEW p \in Pumps, readPump(s, p)
      PROVE  [Lifecycle!Next]_(Lifecycle!vars)
  <2>1. CASE PumpRemoves(s, p)
    BY <2>1, WithdrawOrSame DEF PumpRemoves
  <2>2. CASE PumpLoops(s, p) \/ PumpReads(s, p) \/ PumpEnds(s, p)
    BY <2>2, LookSame DEF PumpLoops, PumpReads, PumpEnds
  <2> QED
    BY <1>5, <2>1, <2>2 DEF readPump
<1>6. ASSUME NEW s \in Sessions, NEW c \in Callers, CloseCall(s, c)
      PROVE  [Lifecycle!Next]_(Lifecycle!vars)
  <2>1. CASE CloseSession(s, c)
    BY <2>1, WithdrawOrSame DEF CloseSession
  <2>2. CASE CloseSessionRefused(s, c) \/ CloseReturns(s, c)
    BY <2>2, LookSame DEF CloseSessionRefused, CloseReturns
  <2>3. CASE EndHistory(s, c)
    <3>1. CASE UNCHANGED history
      BY <2>3, <3>1, LookSame DEF EndHistory
    <3>2. CASE history' = [history EXCEPT ![s] = "ended"]
      <4>1. conn[s] = "closed" /\ s \notin active /\ start[s] = "returned"
        BY <2>3 DEF EndHistory, IInv, CallerInv, CloseInv, Returned
      <4>2. {t \in Sessions : history'[t] = "ended"}
              = {t \in Sessions : history[t] = "ended"} \cup {s}
        BY <3>2 DEF IInv, TypeOK
      <4>3. Lifecycle!RecordEnd(s)
        BY <2>3, <4>1, <4>2 DEF EndHistory, Lifecycle!RecordEnd, Listed
      <4> QED
        BY <4>3 DEF Lifecycle!Next
    <3> QED
      BY <2>3, <3>1, <3>2 DEF EndHistory, IInv, TypeOK
  <2> QED
    BY <1>6, <2>1, <2>2, <2>3 DEF CloseCall
<1>7. ASSUME Shutdown
      PROVE  [Lifecycle!Next]_(Lifecycle!vars)
  <2>1. CASE LockAll \/ UnlockAll \/ CloseDatabase \/ \E s \in Sessions : CloseNext(s)
    BY <2>1, LookSame DEF LockAll, UnlockAll, CloseDatabase, CloseNext
  <2>2. ASSUME NEW s \in Sessions, DeleteClosed(s)
        PROVE  [Lifecycle!Next]_(Lifecycle!vars)
    BY <2>2, WithdrawOrSame DEF DeleteClosed
  <2> QED
    BY <1>7, <2>1, <2>2 DEF Shutdown
<1>8. CASE UNCHANGED vars
  BY <1>8, LookSame DEF vars
<1> QED
  BY <1>1, <1>2, <1>3, <1>4, <1>5, <1>6, <1>7, <1>8 DEF Next

\* The service keeps the promise of SessionLifecycle: one connection per session,
\* opened and closed once, listed at most once, its end recorded last.
THEOREM Refinement == Spec => ImplementsLifecycle
<1>1. Init => Lifecycle!Init
  BY RefinesInit
<1>2. IInv /\ IInv' /\ [Next]_vars => [Lifecycle!Next]_(Lifecycle!vars)
  BY RefinesStep
<1> QED
  BY <1>1, <1>2, Invariance, PTL DEF Spec, ImplementsLifecycle, Lifecycle!Spec
=============================================================================
