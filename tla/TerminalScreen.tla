----------------------------- MODULE TerminalScreen -----------------------------
(***************************************************************************)
(* The end of the output path: WailsEventBridge.OnOutput (session.go) and   *)
(* the terminal of the tab (XtermTerminal.tsx).                             *)
(*                                                                         *)
(* Whatever the bridge hands to onOutput in one call becomes one event.     *)
(* Its bytes are made a string by themselves: a character of which the      *)
(* event has not all bytes, one after the other, cannot be decoded, and     *)
(* each of these bytes is replaced.  The remote writes whole characters.    *)
(*                                                                         *)
(* Events are delivered in order, some time after they were emitted.  What *)
(* is delivered before the tab's terminal is mounted, or after it is gone, *)
(* is lost: it is mounted when StartSession has returned, and the pumps    *)
(* run before that.  A change of theme or font only sets options of the    *)
(* terminal there is, and is left out.                                     *)
(***************************************************************************)
EXTENDS OutputBridge

CONSTANTS
    Joined,         \* the units that are not the last byte of their character
    Damaged         \* what is shown for a byte that could not be decoded: U+FFFD, or what
                    \* it happens to mean together with the bytes beside it

ASSUME CharactersAssumption == Joined \subseteq Unit /\ Damaged \notin Unit

VARIABLES
    mount,          \* the tab's terminal: "none", "open" or "gone"
    ends,           \* where in shown the events end that are on the way
    delivered,      \* how much of shown the frontend has got
    screen,         \* what was written to the terminal, a glyph for each byte
    first,          \* history: what had been delivered when the terminal was mounted
    torn            \* history: the units whose character did not come in one read

terminalVars == <<mount, delivered, screen, first>>
screenSpecVars == <<vars, terminalVars, ends, torn>>

ScreenInit ==
    /\ Init
    /\ mount = "none"
    /\ ends = {}
    /\ delivered = 0
    /\ screen = <<>>
    /\ first = 0
    /\ torn = {}

-----------------------------------------------------------------------------
Succ(u) == <<u[1], u[2] + 1>>

Starts(u) == \A v \in Joined : Succ(v) # u

\* The character of the unit s[i] is in s as a whole, and no cut goes through it.
Whole(s, cuts, i) ==
    \E a \in 1..i, b \in i..Len(s) :
        /\ Starts(s[a])
        /\ s[b] \notin Joined
        /\ \A k \in a..(b - 1) : s[k] \in Joined /\ s[k + 1] = Succ(s[k]) /\ k \notin cuts

Torn(c) == {c[i] : i \in {j \in 1..Len(c) : ~Whole(c, {}, j)}}

\* A step of the bridge: what it adds to shown is one event.
BridgeSteps ==
    /\ Next
    /\ ends' = IF mount = "gone" THEN {} ELSE ends \cup ({Len(shown')} \ {Len(shown)})
    /\ torn' = IF mount = "gone" THEN {} ELSE torn \cup UNION {Torn(chunk'[p]) : p \in Pumps}
    /\ UNCHANGED terminalVars

-----------------------------------------------------------------------------
\* The effect on [sessionId]: a new terminal that listens.
Mount ==
    /\ mount = "none"
    /\ mount' = "open"
    /\ screen' = <<>>
    /\ first' = delivered
    /\ UNCHANGED <<vars, ends, delivered, torn>>

\* The tab is closed: EventsOff and dispose.  What is delivered from here on is no
\* longer counted.
Unmount ==
    /\ mount = "open"
    /\ mount' = "gone"
    /\ delivered' = 0
    /\ ends' = {}
    /\ screen' = <<>>
    /\ first' = 0
    /\ torn' = {}
    /\ UNCHANGED vars

\* string(data) of the bytes from the last event's end to n, and its encoding as JSON.
Decoded(n) ==
    [i \in 1..(n - delivered) |->
        IF Whole(shown, ends \cup {delivered}, delivered + i)
        THEN shown[delivered + i] ELSE Damaged]

\* A bug to catch: the terminal of a hidden tab is not written to.
OutputWhenVisible ==
    \E n \in ends :
        /\ \A m \in ends : n <= m
        /\ delivered' = n
        /\ ends' = ends \ {n}
        /\ screen' = IF mount = "open" /\ visible THEN screen \o Decoded(n) ELSE screen
        /\ UNCHANGED <<vars, mount, first, torn>>

\* The next event goes to the listener, if there is one.
Output ==
    \E n \in ends :
        /\ \A m \in ends : n <= m
        /\ delivered' = n
        /\ ends' = ends \ {n}
        /\ screen' = IF mount = "open" THEN screen \o Decoded(n) ELSE screen
        /\ UNCHANGED <<vars, mount, first, torn>>

XtermTerminal == Mount \/ Unmount \/ Output

ScreenNext == BridgeSteps \/ XtermTerminal

ScreenSpec == ScreenInit /\ [][ScreenNext]_screenSpecVars

\* The pumps and the waiter, as in OutputBridge.
FairScreenSpec ==
    /\ ScreenSpec
    /\ \A p \in Pumps : WF_vars(readPump(p))
    /\ WF_vars(exited /\ Close)

-----------------------------------------------------------------------------
(* Properties                                                              *)

ScreenTypeOK ==
    /\ mount \in {"none", "open", "gone"}
    /\ ends \in SUBSET (1..Len(shown))
    /\ delivered \in 0..Len(shown)
    /\ screen \in Seq(Unit \cup {Damaged})
    /\ first \in 0..delivered
    /\ torn \in SUBSET Unit

\* From the remote to the screen, as long as the limit of the buffer was not reached:
\* the screen has a glyph for every byte that was received and delivered since the
\* terminal was mounted, in order and through hiding and showing; it is the byte's own
\* unless its character came in two reads; and the bytes that are not on the screen
\* are on the way or wait in the buffer.
ScreenIsOutput ==
    mount = "open" /\ Len(received) <= MaxBuffer =>
        /\ first + Len(screen) = delivered
        /\ \A i \in 1..Len(screen) :
              \/ screen[i] = received[first + i]
              \/ screen[i] = Damaged /\ received[first + i] \in torn
        /\ SubSeq(shown, delivered + 1, Len(shown)) \o outputBuffer
              = SubSeq(received, delivered + 1, Len(received))
=============================================================================
