------------------------------ MODULE MfaExchange ------------------------------
(***************************************************************************)
(* What the MFA prompts promise to the user and to the SSH server, without *)
(* events, channels, timers or handlers.  A server asks one challenge at a  *)
(* time, and the next one only after the answer to the last one was         *)
(* returned to it.  A challenge is answered at most once, by the user it is *)
(* shown to; the answer is returned for that challenge, while it is open,   *)
(* and is lost only when the dial is over.  A challenge that closes without *)
(* its answer ends the dial.  MfaRegistry is shown to implement this module.*)
(***************************************************************************)
EXTENDS Naturals

CONSTANTS
    Sessions,       \* the sessions being dialled
    MaxRounds,      \* bound: challenges of one session
    Texts           \* what the user may type

\* The n-th challenge of a session.
Challenges == Sessions \X (1..MaxRounds)

VARIABLES
    asked,          \* [Sessions -> challenges so far]
    open,           \* [Sessions -> the challenge that waits for its answer, or 0]
    over,           \* the sessions whose dial has ended
    unanswered,     \* the challenges the user was not shown yet or is shown
    given,          \* the answers on the way: <<challenge, text>>
    used            \* the answers that were returned to the server

vars == <<asked, open, over, unanswered, given, used>>

Init ==
    /\ asked = [s \in Sessions |-> 0]
    /\ open = [s \in Sessions |-> 0]
    /\ over = {}
    /\ unanswered = {}
    /\ given = {}
    /\ used = {}

Ask(s) ==
    /\ open[s] = 0 /\ s \notin over
    /\ asked[s] < MaxRounds
    /\ asked' = [asked EXCEPT ![s] = @ + 1]
    /\ open' = [open EXCEPT ![s] = asked'[s]]
    /\ unanswered' = unanswered \cup {<<s, asked'[s]>>}
    /\ UNCHANGED <<over, given, used>>

\* The user answers, perhaps too late.
Give(c, t) ==
    /\ c \in unanswered
    /\ unanswered' = unanswered \ {c}
    /\ given' = given \cup {<<c, t>>}
    /\ UNCHANGED <<asked, open, over, used>>

\* The user dismisses the challenge, or another one takes its place.
Dismiss(c) ==
    /\ c \in unanswered
    /\ unanswered' = unanswered \ {c}
    /\ UNCHANGED <<asked, open, over, given, used>>

\* The answer is returned for the challenge it was given to.
Use(s, t) ==
    LET a == << <<s, open[s]>>, t>>
    IN  /\ a \in given
        /\ given' = given \ {a}
        /\ used' = used \cup {a}
        /\ UNCHANGED <<asked, open, over, unanswered>>

Lose(a) ==
    /\ a \in given
    /\ a[1][1] \in over
    /\ given' = given \ {a}
    /\ UNCHANGED <<asked, open, over, unanswered, used>>

\* With its answer a challenge lets the dial go on; without it, it ends the dial.
Close(s) ==
    /\ open[s] # 0
    /\ open' = [open EXCEPT ![s] = 0]
    /\ over' = IF \E t \in Texts : << <<s, open[s]>>, t>> \in used THEN over ELSE over \cup {s}
    /\ UNCHANGED <<asked, unanswered, given, used>>

End(s) ==
    /\ open[s] = 0
    /\ over' = over \cup {s}
    /\ UNCHANGED <<asked, open, unanswered, given, used>>

Next ==
    \/ \E s \in Sessions : Ask(s) \/ Close(s) \/ End(s) \/ \E t \in Texts : Use(s, t)
    \/ \E c \in Challenges : Dismiss(c) \/ \E t \in Texts : Give(c, t)
    \/ \E a \in Challenges \X Texts : Lose(a)

Spec == Init /\ [][Next]_vars
================================================================================
