------------------------------ MODULE MfaRegistry ------------------------------
(***************************************************************************)
(* Multi-factor prompts: MFAChallengeRegistry                              *)
(* (internal/infrastructure/ssh/mfa.go), the handlers of the frontend's    *)
(* answers (internal/app/app.go), and the one prompt the frontend shows    *)
(* (frontend/src/App.tsx, MfaPrompt.tsx).                                  *)
(*                                                                         *)
(* While a session is being dialled, the server may ask several rounds of  *)
(* questions.  For each the SSH library calls the callback, which puts a   *)
(* challenge into the map of pending challenges under the session's id,    *)
(* emits an event, and waits for an answer on the challenge's channel      *)
(* (capacity 1) or for the timeout.  Answers come back as events, each     *)
(* handled in a goroutine of its own: it looks the challenge up, releases  *)
(* the lock, and sends without blocking.                                   *)
(***************************************************************************)
EXTENDS Naturals

CONSTANTS
    Sessions,       \* the sessions being dialled
    MaxRounds,      \* bound: rounds of questions of one server
    None            \* no challenge, no answer

ASSUME RoundsAssumption == MaxRounds \in Nat \ {0}

Rounds == 1..MaxRounds

\* A challenge is the one of a session's n-th round.
Challenges == Sessions \X Rounds

ASSUME NoneAssumption == None \notin Challenges /\ None \notin Challenges \X Challenges

\* An answer: the challenge on the screen when it was submitted, and the one that
\* was there when its text was typed.
Answers == Challenges \X Challenges

VARIABLES
    callback,       \* [Sessions -> progress of the dial and its callback]
    round,          \* [Sessions -> rounds so far]
    pending,        \* MFAChallengeRegistry.pending: [Sessions -> round, or 0]
    response,       \* [Challenges -> the channel: an answer or None]
    consumed,       \* [Challenges -> the answer the callback returned, or None]
    events,         \* auth:mfa-required events on the way.  A session has at most
                    \* one, and the sessions' dials are concurrent: a set
    prompt,         \* mfaChallenge in App: the challenge on the screen, or None
    text,           \* for which challenge the input fields were filled, or None
    submitted,      \* auth:mfa-response events on the way
    sending         \* handlers between lookup and send: <<challenge, answer>>

vars == <<callback, round, pending, response, consumed, events, prompt, text,
          submitted, sending>>

registryVars == <<callback, round, pending, consumed>>
screenVars == <<prompt, text>>

-----------------------------------------------------------------------------
Init ==
    /\ callback = [s \in Sessions |-> "dialing"]
    /\ round = [s \in Sessions |-> 0]
    /\ pending = [s \in Sessions |-> 0]
    /\ response = [c \in Challenges |-> None]
    /\ consumed = [c \in Challenges |-> None]
    /\ events = {}
    /\ prompt = None
    /\ text = None
    /\ submitted = {}
    /\ sending = {}

-----------------------------------------------------------------------------
(* The callback                                                            *)

\* The server asks: register the challenge, emit the event, wait.  (A round
\* without questions returns at once and changes nothing.)
Ask(s) ==
    /\ callback[s] = "dialing"
    /\ round[s] < MaxRounds
    /\ callback' = [callback EXCEPT ![s] = "waiting"]
    /\ round' = [round EXCEPT ![s] = @ + 1]
    /\ pending' = [pending EXCEPT ![s] = round[s] + 1]
    /\ events' = events \cup {<<s, round[s] + 1>>}
    /\ UNCHANGED <<response, consumed, screenVars, submitted, sending>>

\* The select takes the answer from the channel.
ReceiveResponse(s) ==
    LET c == <<s, round[s]>>
    IN  /\ callback[s] = "waiting"
        /\ response[c] # None
        /\ consumed' = [consumed EXCEPT ![c] = response[c]]
        /\ response' = [response EXCEPT ![c] = None]
        /\ callback' = [callback EXCEPT ![s] = "answered"]
        /\ UNCHANGED <<round, pending, events, screenVars, submitted, sending>>

\* Bugs to catch: the timer is restarted; the timeout returns no error.
RestartTimer(s) == callback[s] = "waiting" /\ UNCHANGED vars

TimeOutAsAnswer(s) ==
    /\ callback[s] = "waiting"
    /\ callback' = [callback EXCEPT ![s] = "answered"]
    /\ UNCHANGED <<round, pending, response, consumed, events, screenVars, submitted, sending>>

\* The select takes the timeout; it may even when an answer is there.
TimeOut(s) ==
    /\ callback[s] = "waiting"
    /\ callback' = [callback EXCEPT ![s] = "expired"]
    /\ UNCHANGED <<round, pending, response, consumed, events, screenVars, submitted, sending>>

\* A bug to catch: the timeout leaves the challenge in the map.
ReturnKeepsExpired(s) ==
    /\ callback[s] \in {"answered", "expired"}
    /\ pending' = IF callback[s] = "answered" THEN [pending EXCEPT ![s] = 0] ELSE pending
    /\ callback' = [callback EXCEPT ![s] = IF callback[s] = "answered" THEN "dialing" ELSE "over"]
    /\ UNCHANGED <<round, response, consumed, events, screenVars, submitted, sending>>

\* Delete the challenge and return: an answer lets the dial go on, the timeout
\* ends it with an error.
Return(s) ==
    /\ callback[s] \in {"answered", "expired"}
    /\ pending' = [pending EXCEPT ![s] = 0]
    /\ callback' = [callback EXCEPT ![s] = IF callback[s] = "answered" THEN "dialing" ELSE "over"]
    /\ UNCHANGED <<round, response, consumed, events, screenVars, submitted, sending>>

\* The server accepts or rejects the user, or the connection is lost.
DialEnds(s) ==
    /\ callback[s] = "dialing"
    /\ callback' = [callback EXCEPT ![s] = "over"]
    /\ UNCHANGED <<round, pending, response, consumed, events, screenVars, submitted, sending>>

-----------------------------------------------------------------------------
(* The frontend                                                            *)

\* A bug to catch: the event is handled again, as by a second listener.
PromptRepeated(c) ==
    /\ c \in events
    /\ prompt' = c
    /\ text' = IF prompt = None THEN None ELSE text
    /\ UNCHANGED <<registryVars, response, events, submitted, sending>>

\* setMfaChallenge replaces whatever is on the screen; MfaPrompt stays mounted
\* then, and keeps what was typed.
PromptArrives(c) ==
    /\ c \in events
    /\ events' = events \ {c}
    /\ prompt' = c
    /\ text' = IF prompt = None THEN None ELSE text
    /\ UNCHANGED <<registryVars, response, submitted, sending>>

Type ==
    /\ prompt # None
    /\ text' = prompt
    /\ UNCHANGED <<registryVars, response, events, prompt, submitted, sending>>

\* A bug to catch: the prompt stays open after it was submitted.
SubmitStaysOpen ==
    /\ prompt # None
    /\ text # None
    /\ submitted' = submitted \cup {<<prompt, text>>}
    /\ UNCHANGED <<registryVars, response, events, screenVars, sending>>

\* The fields are required, so something was typed.
Submit ==
    /\ prompt # None
    /\ text # None
    /\ submitted' = submitted \cup {<<prompt, text>>}
    /\ prompt' = None
    /\ text' = None
    /\ UNCHANGED <<registryVars, response, events, sending>>

\* Cancel tells the backend nothing.
Cancel ==
    /\ prompt # None
    /\ prompt' = None
    /\ text' = None
    /\ UNCHANGED <<registryVars, response, events, submitted, sending>>

-----------------------------------------------------------------------------
(* SubmitResponse, in the goroutine of the event                           *)

\* The lookup, under the read lock.
LookUp(a) ==
    LET s == a[1][1]
    IN  /\ a \in submitted
        /\ submitted' = submitted \ {a}
        /\ IF pending[s] = 0
           THEN UNCHANGED sending
           ELSE sending' = sending \cup {<< <<s, pending[s]>>, a>>}
        /\ UNCHANGED <<registryVars, response, events, screenVars>>

\* The send, after the lock was released: accepted, or "channel full".
Send(h) ==
    LET c == h[1]
    IN  /\ h \in sending
        /\ sending' = sending \ {h}
        /\ IF response[c] = None
           THEN response' = [response EXCEPT ![c] = h[2]]
           ELSE UNCHANGED response
        /\ UNCHANGED <<registryVars, events, screenVars, submitted>>

-----------------------------------------------------------------------------
Callback(s) == ReceiveResponse(s) \/ TimeOut(s) \/ Return(s)

Next ==
    \/ \E s \in Sessions : Ask(s) \/ DialEnds(s) \/ Callback(s)
    \/ \E c \in Challenges : PromptArrives(c)
    \/ Type \/ Submit \/ Cancel
    \/ \E a \in Answers : LookUp(a)
    \/ \E c \in Challenges, a \in Answers : Send(<<c, a>>)

Spec == Init /\ [][Next]_vars

\* The callback's goroutine runs, its timer fires, events are delivered and
\* handled.  Nothing is assumed of the server or of the user.
Fairness ==
    /\ \A s \in Sessions : WF_vars(Callback(s))
    /\ \A c \in Challenges : WF_vars(PromptArrives(c))
    /\ WF_vars(\E a \in Answers : LookUp(a))
    /\ WF_vars(\E c \in Challenges, a \in Answers : Send(<<c, a>>))

-----------------------------------------------------------------------------
(* Properties                                                              *)

TypeOK ==
    /\ callback \in [Sessions -> {"dialing", "waiting", "answered", "expired", "over"}]
    /\ round \in [Sessions -> 0..MaxRounds]
    /\ pending \in [Sessions -> 0..MaxRounds]
    /\ response \in [Challenges -> Answers \cup {None}]
    /\ consumed \in [Challenges -> Answers \cup {None}]
    /\ events \in SUBSET Challenges
    /\ prompt \in Challenges \cup {None}
    /\ text \in Challenges \cup {None}
    /\ submitted \in SUBSET Answers
    /\ sending \in SUBSET (Challenges \X Answers)

\* A challenge is in the map exactly while its callback has not returned: no
\* challenge outlives its dial, whichever of answer and timeout wins.
PendingIsLive ==
    \A s \in Sessions :
        pending[s] = IF callback[s] \in {"waiting", "answered", "expired"} THEN round[s] ELSE 0

\* An answer reaches the challenge that was on the screen when it was submitted,
\* although its handler looks the challenge up by session id only, keeps it after
\* the lock was released, and may be late by a round.
AnswerMatchesPrompt ==
    /\ \A h \in sending : h[1] = h[2][1]
    /\ \A c \in Challenges :
        /\ response[c] # None => response[c][1] = c
        /\ consumed[c] # None => consumed[c][1] = c

\* The challenges at each place between the server and the callback: asked and not
\* shown yet, on the screen, answered, looked up, in the channel, returned.
Shown == {prompt} \ {None}
Answered == {a[1] : a \in submitted}
Found == {h[2][1] : h \in sending}
Held == {c \in Challenges : response[c] # None}
Used == {c \in Challenges : consumed[c] # None}

Places == <<events, Shown, Answered, Found, Held, Used>>

\* Every challenge is answered at most once: it is on its way to the user, on the
\* screen, or its one answer is on its way to the callback, in one place only.
OneAnswer ==
    /\ \A i, j \in 1..6 : i # j => Places[i] \cap Places[j] = {}
    /\ \A a, b \in submitted : a[1] = b[1] => a = b
    /\ \A g, h \in sending : g[2][1] = h[2][1] => g = h

\* The answers on the way from the prompt to the callback, and those it returned.
Travelling ==
    submitted \cup {h[2] : h \in sending} \cup {response[c] : c \in Held}
Returned == {consumed[c] : c \in Used}
Unanswered == events \cup Shown
Over == {s \in Sessions : callback[s] = "over"}

Exchange == INSTANCE MfaExchange WITH
    Texts <- Challenges,
    asked <- round,
    open <- pending,
    over <- Over,
    unanswered <- Unanswered,
    given <- Travelling,
    used <- Returned

\* The registry, its handlers and the prompt keep what MfaExchange promises: a
\* challenge is in the map until its callback returns, is answered once, its answer is
\* used for it alone and is lost only when the dial is over.
ImplementsExchange == Exchange!Spec

\* An answer that the channel accepted is returned to the server, or its challenge
\* has expired.
AcceptedIsUsed ==
    \A c \in Challenges :
        response[c] # None ~> consumed[c] # None \/ callback[c[1]] = "over"
=============================================================================
