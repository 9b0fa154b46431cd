------------------------------ MODULE OutputBridge ------------------------------
(***************************************************************************)
(* The output path of one terminal session: readPump, SetVisible and the   *)
(* ring of hidden output of SSHSessionBridge                               *)
(* (internal/infrastructure/terminal/session.go).                          *)
(*                                                                         *)
(* Two pumps read the remote streams and, under the bridge's mutex, emit   *)
(* what they read while the tab is visible and buffer it while it is       *)
(* hidden; making the tab visible emits the buffer.  The buffer holds at   *)
(* most MaxBuffer units: when a read does not fit, the oldest are dropped. *)
(* A unit is one byte of the code, named by its stream and its position.   *)
(***************************************************************************)
EXTENDS Naturals, Sequences

CONSTANTS
    Pumps,          \* the streams: stdout and stderr
    MaxBuffer,      \* maxBufferSize, 256 KB in the code
    MaxRead,        \* the pump's read buffer, 4096 bytes in the code
    MaxOutput       \* bound, [Pumps -> Nat]: what the remote writes to each stream

\* A read fits into the half of the buffer that a trim frees.
ASSUME SizesAssumption ==
    /\ MaxBuffer \in Nat
    /\ MaxRead \in Nat
    /\ MaxOutput \in [Pumps -> Nat]
    /\ MaxRead + MaxBuffer \div 2 <= MaxBuffer

VARIABLES
    written,        \* [Pumps -> Nat]: units the remote has written
    taken,          \* [Pumps -> Nat]: units the pump has read
    exited,         \* the remote shell has ended
    context,        \* "live", or who cancelled it: "wait", "user"
    pump,           \* [Pumps -> program counter]
    chunk,          \* [Pumps -> Seq(unit)]: buf[:n] of the read in progress
    visible,        \* SSHSessionBridge.visible
    outputBuffer,   \* SSHSessionBridge.outputBuffer
    shown,          \* what onOutput was given, in order
    received        \* history: every unit a pump handed on, in order

vars == <<written, taken, exited, context, pump, chunk, visible, outputBuffer,
          shown, received>>

remoteVars == <<written, exited>>
screenVars == <<visible, outputBuffer, shown, received>>

Unit == UNION {{p} \X (1..MaxOutput[p]) : p \in Pumps}

-----------------------------------------------------------------------------
Init ==
    /\ written = [p \in Pumps |-> 0]
    /\ taken = [p \in Pumps |-> 0]
    /\ exited = FALSE
    /\ context = "live"
    /\ pump = [p \in Pumps |-> "loop"]
    /\ chunk = [p \in Pumps |-> <<>>]
    /\ visible = TRUE
    /\ outputBuffer = <<>>
    /\ shown = <<>>
    /\ received = <<>>

RemoteWrites(p) ==
    /\ ~exited
    /\ written[p] < MaxOutput[p]
    /\ written' = [written EXCEPT ![p] = @ + 1]
    /\ UNCHANGED <<taken, exited, context, pump, chunk, screenVars>>

RemoteExits ==
    /\ ~exited
    /\ exited' = TRUE
    /\ UNCHANGED <<written, taken, context, pump, chunk, screenVars>>

\* Close, called by wait() when the shell has ended or by CloseSession.
Close ==
    /\ context = "live"
    /\ \/ exited /\ context' = "wait"
       \/ context' = "user"
    /\ UNCHANGED <<remoteVars, taken, pump, chunk, screenVars>>

-----------------------------------------------------------------------------
\* The select at the top of readPump's loop.
PumpLoops(p) ==
    /\ pump[p] = "loop"
    /\ pump' = [pump EXCEPT ![p] = IF context = "live" THEN "read" ELSE "done"]
    /\ UNCHANGED <<remoteVars, taken, context, chunk, screenVars>>

\* Read returned n > 0 bytes.  What has arrived can be read even after the
\* channel was closed.
PumpReads(p) ==
    /\ pump[p] = "read"
    /\ \E n \in 1..MaxRead :
        /\ taken[p] + n <= written[p]
        /\ chunk' = [chunk EXCEPT ![p] = [i \in 1..n |-> <<p, taken[p] + i>>]]
        /\ taken' = [taken EXCEPT ![p] = @ + n]
    /\ pump' = [pump EXCEPT ![p] = "deliver"]
    /\ UNCHANGED <<remoteVars, context, screenVars>>

\* A bug to catch: Close does not close the channel the pump is reading from.
EndsByRemoteOnly(p) ==
    /\ pump[p] = "read"
    /\ taken[p] = written[p]
    /\ exited
    /\ pump' = [pump EXCEPT ![p] = "done"]
    /\ UNCHANGED <<remoteVars, taken, context, chunk, screenVars>>

\* Read returned an error: nothing is left and the channel is closed.
PumpEnds(p) ==
    /\ pump[p] = "read"
    /\ taken[p] = written[p]
    /\ exited \/ context # "live"
    /\ pump' = [pump EXCEPT ![p] = "done"]
    /\ UNCHANGED <<remoteVars, taken, context, chunk, screenVars>>

\* A bug to catch: the limit is excluded.
FitsBelow(c) == Len(outputBuffer) + Len(c) < MaxBuffer

Fits(c) == Len(outputBuffer) + Len(c) <= MaxBuffer

\* The newest units that a trim keeps: half of the limit, or all there are.
TrimTo == IF MaxBuffer \div 2 > Len(outputBuffer) THEN Len(outputBuffer) ELSE MaxBuffer \div 2

\* Bugs to catch: the oldest half is kept; nothing is kept.
TrimmedOldest == SubSeq(outputBuffer, 1, TrimTo)

TrimmedAway == <<>>

Trimmed == SubSeq(outputBuffer, Len(outputBuffer) - TrimTo + 1, Len(outputBuffer))

\* The critical section of readPump.
PumpDelivers(p) ==
    /\ pump[p] = "deliver"
    /\ \/ /\ visible
          /\ shown' = shown \o chunk[p]
          /\ UNCHANGED outputBuffer
       \/ /\ ~visible
          /\ Fits(chunk[p])
          /\ outputBuffer' = outputBuffer \o chunk[p]
          /\ UNCHANGED shown
       \/ /\ ~visible
          /\ ~Fits(chunk[p])
          /\ outputBuffer' = Trimmed \o chunk[p]
          /\ UNCHANGED shown
    /\ received' = received \o chunk[p]
    /\ chunk' = [chunk EXCEPT ![p] = <<>>]
    /\ pump' = [pump EXCEPT ![p] = "loop"]
    /\ UNCHANGED <<remoteVars, taken, context, visible>>

\* A bug to catch: the buffer is not reset after the flush.
FlushTwice(v) ==
    /\ visible' = v
    /\ IF v /\ ~visible /\ outputBuffer # <<>>
       THEN shown' = shown \o outputBuffer
       ELSE UNCHANGED shown
    /\ UNCHANGED <<remoteVars, taken, context, pump, chunk, outputBuffer, received>>

\* SetVisible: the critical section of a SetTabVisibility call.  The frontend's
\* calls run in goroutines of their own, so they arrive in any order.
SetVisible(v) ==
    /\ visible' = v
    /\ IF v /\ ~visible /\ outputBuffer # <<>>
       THEN shown' = shown \o outputBuffer /\ outputBuffer' = <<>>
       ELSE UNCHANGED <<shown, outputBuffer>>
    /\ UNCHANGED <<remoteVars, taken, context, pump, chunk, received>>

-----------------------------------------------------------------------------
readPump(p) == PumpLoops(p) \/ PumpReads(p) \/ PumpEnds(p) \/ PumpDelivers(p)

Next ==
    \/ \E p \in Pumps : RemoteWrites(p) \/ readPump(p)
    \/ RemoteExits
    \/ Close
    \/ \E v \in BOOLEAN : SetVisible(v)

Spec == Init /\ [][Next]_vars

\* The pumps and the waiter are goroutines that run when they can.
FairSpec ==
    /\ Spec
    /\ \A p \in Pumps : WF_vars(readPump(p))
    /\ WF_vars(exited /\ Close)

-----------------------------------------------------------------------------
(* Properties                                                              *)

TypeOK ==
    /\ written \in [Pumps -> Nat] /\ \A p \in Pumps : written[p] <= MaxOutput[p]
    /\ taken \in [Pumps -> Nat]
    /\ exited \in BOOLEAN
    /\ context \in {"live", "wait", "user"}
    /\ pump \in [Pumps -> {"loop", "read", "deliver", "done"}]
    /\ chunk \in [Pumps -> Seq(Unit)]
    /\ visible \in BOOLEAN
    /\ outputBuffer \in Seq(Unit)
    /\ shown \in Seq(Unit)
    /\ received \in Seq(Unit)

\* The hidden output never takes more than maxBufferSize bytes, however the two
\* pumps and the visibility calls interleave.
BufferBounded == Len(outputBuffer) <= MaxBuffer

\* A visible tab has no output waiting: none is stranded behind what is emitted
\* directly, which would put it on the screen out of order.
VisibleIsFlushed == visible => outputBuffer = <<>>

Newest(n, q) == SubSeq(q, Len(q) - n + 1, Len(q))

\* The hidden output is the newest output, without gaps.
BufferIsNewest ==
    /\ Len(outputBuffer) <= Len(received)
    /\ outputBuffer = Newest(Len(outputBuffer), received)

\* As long as not more than the limit was received nothing is lost, repeated or
\* reordered: the screen and the hidden output are exactly what was received.
NoLossBelowLimit == Len(received) <= MaxBuffer => shown \o outputBuffer = received

\* Whatever was dropped, the newest half-buffer of output is on the screen or will be when
\* the tab is shown again: half is what trimTo is, although the comment beside it speaks
\* of 75% (NewestThreeQuartersKept).
NewestHalfKept ==
    LET kept == shown \o outputBuffer
        h == IF Len(received) < MaxBuffer \div 2 THEN Len(received) ELSE MaxBuffer \div 2
    IN  Len(kept) >= h /\ Newest(h, kept) = Newest(h, received)

\* What the comment in readPump says of the trim, that it keeps the last 75% or so: the
\* code keeps half of the limit and the read that did not fit, so this does not hold.
NewestThreeQuartersKept ==
    LET kept == shown \o outputBuffer
        h == IF Len(received) < (3 * MaxBuffer) \div 4 THEN Len(received)
                                                    ELSE (3 * MaxBuffer) \div 4
    IN  Len(kept) >= h /\ Newest(h, kept) = Newest(h, received)

\* The pumps of a session whose shell has ended, or that was closed, end.
PumpsEnd == (exited \/ context # "live") ~> \A p \in Pumps : pump[p] = "done"
=============================================================================
